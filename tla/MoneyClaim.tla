------------------------------ MODULE MoneyClaim ------------------------------
(***************************************************************************)
(* What rulings promise of one payment (disputes/disputes.service.ts, the  *)
(* comment of claimForRuling): whoever is to move its money holds the      *)
(* claim first, and a claim whose money moved is never given up.           *)
(***************************************************************************)
CONSTANTS Disputes, NoDispute

VARIABLES owner,   \* the dispute whose ruling claims the payment
          paidBy   \* the dispute whose ruling moved the payment's money

vars == <<owner, paidBy>>

Init == owner = NoDispute /\ paidBy = NoDispute

Claim(d) == owner = NoDispute /\ owner' = d /\ UNCHANGED paidBy

Move(d) == owner = d /\ paidBy = NoDispute /\ paidBy' = d /\ UNCHANGED owner

Unclaim == paidBy = NoDispute /\ owner' = NoDispute /\ UNCHANGED paidBy

\* Paystack undoes the movement; the claim stays.
Reverse == paidBy' = NoDispute /\ UNCHANGED owner

Next == \/ \E d \in Disputes : Claim(d) \/ Move(d)
        \/ Unclaim \/ Reverse

Spec == Init /\ [][Next]_vars
=============================================================================
