-------------------------- MODULE MCIdempotencyKeys --------------------------
(* A small instance of IdempotencyKeys for TLC. *)
EXTENDS IdempotencyKeys, TLC

MCSymmetry == Permutations(Requests) \cup Permutations(Fingerprints)
=============================================================================
