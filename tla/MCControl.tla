------------------------------ MODULE MCControl ------------------------------
(***************************************************************************)
(* Compaction control for TLC.  No action tells one session from another,  *)
(* so sessions are interchangeable; the properties are all safety ones.    *)
(***************************************************************************)
EXTENDS CompactionControl, TLC

Symmetry == Permutations(Sessions)
=============================================================================
