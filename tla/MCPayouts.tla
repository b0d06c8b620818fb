------------------------------- MODULE MCPayouts -------------------------------
(* A small instance of Payouts for TLC. *)
EXTENDS Payouts, TLC

MCSymmetry == Permutations(Callers) \cup Permutations(Handlers)
=============================================================================
