------------------------------ MODULE MCStorage ------------------------------
(* Storage with two workers. *)
EXTENDS Storage, TLC

MCSymmetry == Permutations(Workers)

MCGroupOwner == [g \in Groups |-> CHOOSE u \in Users : TRUE]
=============================================================================
