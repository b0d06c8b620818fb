-------------------------------- MODULE MCJobs --------------------------------
(* A small instance of Jobs for TLC. *)
EXTENDS Jobs, TLC

MCSymmetry == Permutations(Artisans) \cup Permutations(Requests)
=============================================================================
