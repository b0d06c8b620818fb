----------------------------- MODULE PaymentMoney -----------------------------
(***************************************************************************)
(* The attempts of one payment together with the refunds of its            *)
(* duplicates: every reference whose money Paystack took, from the         *)
(* customer's checkout to the payment row or back to the customer.         *)
(***************************************************************************)
EXTENDS PaymentAttempts

CONSTANTS MaxAttempts,   \* REFUND_MAX_ATTEMPTS
          MaxFaults      \* bound on lost or overrunning refund calls

VARIABLES refund, tries, due, calls, outcome, bounced, told, faults,
          delivered    \* history: references of which a success reached
                       \* applyChargeSuccess, by webhook, verify or reconcile

refundVars == <<refund, tries, due, calls, outcome, bounced, told, faults>>
allVars == <<vars, refundVars, delivered>>

\* The reference DuplicateRefundService.holdsMoney is true of.
Holder == IF paidRef # NoRef THEN paidRef
          ELSE IF IsPaid THEN OwnRef ELSE NoRef

R == INSTANCE DuplicateRefund WITH holder <- Holder

MoneyInit == Init /\ R!Init /\ delivered = {}

\* A step of the attempts; the one that marks a reference duplicate makes its
\* refund due in the same transaction.
AttemptStep ==
    /\ Next
    /\ delivered' = delivered \cup
         {r \in Refs : remote[r] = "success" /\ Settle(r)}
    /\ LET marked == {r \in Refs : /\ status[r] # "duplicate"
                                   /\ status'[r] = "duplicate"}
       IN IF marked = {} THEN UNCHANGED refundVars
          ELSE \E r \in marked : R!BecomesDuplicate(r)

RefundStep == UNCHANGED <<vars, delivered>> /\ R!RefundNext

MoneyNext == AttemptStep \/ RefundStep

\* The scheduler runs every five minutes, time passes, and a call that is not
\* lost is answered.  Nothing is assumed of the customer or of charge.success.
MoneyFairness ==
    /\ \A r \in Refs : /\ WF_allVars(RefundStep /\ R!Lease(r))
                       /\ WF_allVars(RefundStep /\ R!FallDue(r))
    /\ WF_allVars(RefundStep /\ \E c \in calls : R!CallPaystack(c))
    /\ WF_allVars(RefundStep /\ \E c \in calls : R!WriteAnswer(c))

MoneySpec == MoneyInit /\ [][MoneyNext]_allVars /\ MoneyFairness

-----------------------------------------------------------------------------
(* Properties *)

\* Refund bookkeeping sits on duplicates only (the database's check
\* chk_payment_charges_refund_only_duplicate), and every duplicate has it.
RefundsAreDuplicates ==
    \A r \in Refs : refund[r] # "none" <=> status[r] = "duplicate"

\* The attempts make references duplicates and holders only in the way the
\* refund service is specified to meet: the composition implements it.
ImplementsRefunds == R!Init /\ [][R!Next]_(R!vars)

\* A success that reached us once, however late (after its attempt was given
\* up, another one paid, or the payment was cancelled), is never dropped: its
\* money ends as the payment's, or as a refund that Paystack took or that an
\* admin is asked to make.  Of a success that never reaches us nothing is
\* promised.
MoneyEnds ==
    \A r \in Refs :
        r \in delivered
            ~> (paidRef = r \/ refund[r] \in {"requested", "processed", "failed"})
=============================================================================
