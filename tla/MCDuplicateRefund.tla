--------------------------- MODULE MCDuplicateRefund ---------------------------
(* A small instance of DuplicateRefund for TLC. *)
EXTENDS DuplicateRefund
=============================================================================
