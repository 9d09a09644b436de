------------------------------ MODULE MCSharing ------------------------------
(* Sharing with interchangeable workers. *)
EXTENDS Sharing, TLC

MCSymmetry == Permutations(Workers)
=============================================================================
