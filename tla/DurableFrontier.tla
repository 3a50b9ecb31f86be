--------------------------- MODULE DurableFrontier ---------------------------
(***************************************************************************)
(* What a durable spool promises the builders that read behind it: the     *)
(* authority receives the events of a session one after the other, with no *)
(* gap, and the high-water a reader is shown never runs ahead of them.     *)
(* While the spool is open the high-water only moves forward; when it is   *)
(* opened again it is some value the authority can back.                   *)
(***************************************************************************)
EXTENDS Integers

VARIABLES
    stored,    \* the events 1..stored have reached the authority
    frontier,  \* the high-water shown to readers
    up         \* the spool is open

vars == <<stored, frontier, up>>

Init == stored = 0 /\ frontier = 0 /\ ~up

\* The next event reaches the authority.
Store == up /\ stored' = stored + 1 /\ UNCHANGED <<frontier, up>>

Advance == up /\ frontier' \in frontier..stored /\ UNCHANGED <<stored, up>>

Close == up /\ up' = FALSE /\ UNCHANGED <<stored, frontier>>

Reopen == ~up /\ up' = TRUE /\ frontier' \in 0..stored /\ UNCHANGED stored

Next == Store \/ Advance \/ Close \/ Reopen

Spec == Init /\ [][Next]_vars
=============================================================================
