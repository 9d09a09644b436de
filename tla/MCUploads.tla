------------------------------ MODULE MCUploads ------------------------------
(* Uploads with interchangeable workers. *)
EXTENDS Uploads, TLC

MCSymmetry == Permutations(Workers)
=============================================================================
