------------------------------ MODULE MCAuthCodes ------------------------------
(* A small instance of AuthCodes for TLC. *)
EXTENDS AuthCodes, TLC

MCSymmetry == Permutations(Callers)
=============================================================================
