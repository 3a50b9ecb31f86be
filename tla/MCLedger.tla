------------------------------ MODULE MCLedger ------------------------------
(***************************************************************************)
(* An instance of Ledger for TLC: a tool call, its result and a message of  *)
(* the user, who may say the same thing twice.                              *)
(***************************************************************************)
EXTENDS Ledger

CONSTANTS call, answer, user, summary

\* What the context event passes today.
MCNoCalls == [m \in Messages |-> {}]

MCCallOf == [m \in Messages |-> IF m = answer THEN {call} ELSE {}]
=============================================================================
