------------------------------- MODULE MCSpool -------------------------------
(***************************************************************************)
(* Instances of Spool for TLC: two sequence numbers, two event ids and two  *)
(* payloads, chosen so that the inputs hold a duplicate sequence number, an *)
(* event id written twice with different bytes, and a gap when the first    *)
(* frame is not appended.                                                   *)
(***************************************************************************)
EXTENDS Spool

CONSTANTS plain, binary

F(seq, id, payload) == [kind |-> "frame", seq |-> seq, id |-> id, payload |-> payload]

MCInput == {F(1, 1, plain), F(2, 2, plain), F(2, 1, binary)}
MCPlain == {F(1, 1, plain), F(2, 2, plain)}
=============================================================================
