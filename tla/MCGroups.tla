------------------------------ MODULE MCGroups ------------------------------
(* Groups with two workers, two users and two names. *)
EXTENDS Groups, TLC

MCSymmetry == Permutations(Workers) \cup Permutations(Users) \cup Permutations(Names)
=============================================================================
