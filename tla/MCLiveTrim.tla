----------------------------- MODULE MCLiveTrim -----------------------------
(***************************************************************************)
(* LiveTrim for TLC: messages are interchangeable, no action or property    *)
(* names one.                                                               *)
(***************************************************************************)
EXTENDS LiveTrim, TLC

Symmetry == Permutations(Messages)
=============================================================================
