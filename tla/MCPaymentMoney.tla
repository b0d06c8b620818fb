---------------------------- MODULE MCPaymentMoney ----------------------------
(* A small instance of PaymentMoney for TLC. *)
EXTENDS PaymentMoney
=============================================================================
