--------------------------- MODULE MCPaymentAttempts ---------------------------
(* A small instance of PaymentAttempts for TLC. *)
EXTENDS PaymentAttempts, TLC

\* References other than the payment's own are interchangeable.
MCSymmetry == Permutations(Refs \ {OwnRef})
=============================================================================
