------------------------------ MODULE MCDisputes ------------------------------
(* A small instance of Disputes for TLC. *)
EXTENDS Disputes, TLC

MCSymmetry == Permutations(Disputes) \cup Permutations(Admins)
=============================================================================
