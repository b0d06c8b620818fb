------------------------------ MODULE MCAccounts ------------------------------
(* A small instance of Accounts for TLC. *)
EXTENDS Accounts, TLC

MCSymmetry == Permutations(Tokens) \cup Permutations(Requests)
=============================================================================
