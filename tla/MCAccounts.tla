----------------------------- MODULE MCAccounts -----------------------------
(* Accounts with two workers and two users; both sets are symmetric. *)
EXTENDS Accounts, TLC

MCSymmetry == Permutations(Workers) \cup Permutations(Users)
=============================================================================
