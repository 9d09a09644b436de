----------------------------- MODULE MCRequest -----------------------------
(* Request with two workers. *)
EXTENDS Request, TLC

MCSymmetry == Permutations(Workers)
=============================================================================
