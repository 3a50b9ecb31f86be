---------------------------- MODULE OccurrenceLog ----------------------------
(***************************************************************************)
(* What the occurrence ledger of a session promises those who read it from *)
(* another process.  A message that has been recorded keeps its number for *)
(* good, whatever becomes of the transcript it came from; the numbers      *)
(* follow one another; a tool result is recorded behind a call.  What has  *)
(* been copied for an old binary is a recorded message under its number,   *)
(* and stays copied; an export holds everything copied when it was taken.  *)
(***************************************************************************)
EXTENDS Integers, Sequences

CONSTANTS Messages, CallOf

VARIABLES
    recorded, \* the messages, each at its number
    copied,   \* those of the compat journal, with their numbers
    exported  \* those of a migration's export, none if there is no export

vars == <<recorded, copied, exported>>

Init == recorded = <<>> /\ copied = {} /\ exported = {}

Holds(S) == \E n \in DOMAIN recorded : recorded[n] \in S

\* A new message is recorded, and copied unless that fails.
Record(m) ==
    /\ ~Holds({m})
    /\ CallOf[m] # {} => Holds(CallOf[m])
    /\ recorded' = Append(recorded, m)
    /\ copied' \in {copied, copied \cup {[seq |-> Len(recorded) + 1, msg |-> m]}}
    /\ UNCHANGED exported

\* A message recorded before is copied.
Copy(n) ==
    /\ copied' = copied \cup {[seq |-> n, msg |-> recorded[n]]}
    /\ UNCHANGED <<recorded, exported>>

\* An export is taken or given up.
Export == exported' \in {{}, copied} /\ UNCHANGED <<recorded, copied>>

Next ==
    \/ \E m \in Messages : Record(m)
    \/ \E n \in DOMAIN recorded : Copy(n)
    \/ Export

Spec == Init /\ [][Next]_vars
=============================================================================
