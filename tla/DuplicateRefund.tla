--------------------------- MODULE DuplicateRefund ---------------------------
(***************************************************************************)
(* The automatic refund of duplicate payments                              *)
(* (payments/duplicate-refund.service.ts and its 5-minute scheduler).      *)
(*                                                                         *)
(* process(chargeId) is three steps: a transaction that leases the row, a  *)
(* call to Paystack, and a guarded write of the answer.  Calls of several  *)
(* workers, the scheduler and the refund.* webhooks interleave with them;  *)
(* a call may outlive its lease, and a crash may lose it.                  *)
(***************************************************************************)
EXTENDS Naturals, FiniteSets

CONSTANTS Refs,          \* references of one payment's attempts
          NoRef,         \* no reference holds the payment's money
          MaxAttempts,   \* REFUND_MAX_ATTEMPTS
          MaxFaults      \* bound: calls lost by a crash or outliving a lease

ASSUME NoRefAssumption == NoRef \notin Refs
ASSUME MaxAttemptsAssumption == MaxAttempts \in Nat \ {0}
ASSUME MaxFaultsAssumption == MaxFaults \in Nat

Due == {"pending", "processing"}
RefundStatuses == Due \cup {"none", "requested", "processed", "failed"}

\* What became of the refund at Paystack: never asked for, taken, paid, or
\* bounced by the customer's bank.
Outcomes == {"none", "taken", "paid", "bounced"}

VARIABLES holder,     \* the reference holding the payment's money, or NoRef
          refund,     \* payment_charges.refund_status, "none" for NULL
          tries,      \* refund_attempts
          due,        \* refund_next_at <= now
          calls,      \* leased calls, with Paystack's answer once it is known
          outcome,    \* Paystack's side of each reference's last refund
          bounced,    \* references some refund of which has bounced
          told,       \* times notifyCustomer was called for the refund (that
                      \* a crash may prevent the call is left out)
          faults      \* lost or overrunning calls so far

vars == <<holder, refund, tries, due, calls, outcome, bounced, told,
          faults>>

Answers == {"unsent", "requested", "processed", "error"}

(***************************************************************************)
(* Types: the columns' value sets, and the leased calls.                   *)
(***************************************************************************)
TypeOK ==
    /\ holder \in Refs \cup {NoRef}
    /\ refund \in [Refs -> RefundStatuses]
    /\ tries \in [Refs -> Nat]
    /\ due \in [Refs -> BOOLEAN]
    /\ calls \subseteq [ref : Refs, try : Nat, ans : Answers]
    /\ outcome \in [Refs -> Outcomes]
    /\ bounced \subseteq Refs
    /\ told \in [Refs -> Nat]
    /\ faults \in Nat

CallsOf(r) == {c \in calls : c.ref = r}

\* A payment made before attempts were tracked may have its holder already.
Init ==
    /\ holder \in Refs \cup {NoRef}
    /\ refund = [r \in Refs |-> "none"]
    /\ tries = [r \in Refs |-> 0]
    /\ due = [r \in Refs |-> FALSE]
    /\ calls = {}
    /\ outcome = [r \in Refs |-> "none"]
    /\ bounced = {}
    /\ told = [r \in Refs |-> 0]
    /\ faults = 0

-----------------------------------------------------------------------------
(* What applyChargeSuccess does to these columns *)

\* A first success takes the payment: its reference is the holder for good.
BecomesHolder(r) ==
    /\ holder = NoRef /\ refund[r] = "none"
    /\ holder' = r
    /\ UNCHANGED <<refund, tries, due, calls, outcome, bounced, told, faults>>

\* A success the payment does not need is a duplicate, its refund due now.
\* (That it is not the holder is for the caller to know; process checks.)
BecomesDuplicate(r) ==
    /\ refund[r] = "none"
    /\ refund' = [refund EXCEPT ![r] = "pending"]
    /\ due' = [due EXCEPT ![r] = TRUE]
    /\ UNCHANGED <<holder, tries, calls, outcome, bounced, told, faults>>

-----------------------------------------------------------------------------
(* process(chargeId), from applyChargeSuccess or retryDue *)

\* Mutant: a lease that ran out is not taken over.
LeasablePending(r) == refund[r] = "pending" /\ due[r]

\* Due: new, to be retried, or leased to a call that never finished.
Leasable(r) == refund[r] \in Due /\ due[r]

\* Mutant: the check under the lock is left out.
HoldsMoneyNever(r) == FALSE

HoldsMoney(r) == r = holder

\* The transaction under the row lock.
Lease(r) ==
    /\ Leasable(r)
    /\ due' = [due EXCEPT ![r] = FALSE]
    /\ IF HoldsMoney(r)
       THEN /\ refund' = [refund EXCEPT ![r] = "failed"]
            /\ UNCHANGED <<tries, calls>>
       ELSE /\ refund' = [refund EXCEPT ![r] = "processing"]
            /\ tries' = [tries EXCEPT ![r] = @ + 1]
            /\ calls' = calls \cup
                 {[ref |-> r, try |-> tries[r] + 1, ans |-> "unsent"]}
    /\ UNCHANGED <<holder, outcome, bounced, told, faults>>

Answer(c, a) == calls' = (calls \ {c}) \cup {[c EXCEPT !.ans = a]}

\* paystack.refund: a refund not made yet is taken (and perhaps the answer is
\* lost) or refused; one already made is refused as "already refunded", which
\* the caller reads as "requested".
CallPaystack(c) ==
    /\ c \in calls /\ c.ans = "unsent"
    /\ \/ /\ outcome[c.ref] \in {"none", "bounced"}
          /\ \/ outcome' = [outcome EXCEPT ![c.ref] = "taken"]
                /\ Answer(c, "requested")
             \/ outcome' = [outcome EXCEPT ![c.ref] = "paid"]
                /\ Answer(c, "processed")
             \/ outcome' = [outcome EXCEPT ![c.ref] = "taken"]
                /\ Answer(c, "error")
       \/ /\ outcome[c.ref] \in {"taken", "paid"}
          /\ Answer(c, "requested")
          /\ UNCHANGED outcome
       \/ /\ Answer(c, "error")
          /\ UNCHANGED outcome
    /\ UNCHANGED <<holder, bounced, refund, tries, due, told, faults>>

\* Mutant: the cap is compared one call too late.
StatusAfterOffByOne(c) ==
    IF c.ans # "error" THEN c.ans
    ELSE IF c.try > MaxAttempts THEN "failed" ELSE "pending"

\* What an answered call makes of a row that is still processing.
StatusAfter(c) ==
    IF c.ans # "error" THEN c.ans
    ELSE IF c.try >= MaxAttempts THEN "failed" ELSE "pending"

\* Mutant: an answer is also written where a webhook was first.
AwaitsAnswerOrTaken(r) == refund[r] \in {"processing", "requested"}

AwaitsAnswer(r) == refund[r] = "processing"

\* The write after the call, only where the row is still processing: a
\* webhook may have been first.  onCallFailed gives up by the try number of
\* its own call, not by the row's count.
WriteAnswer(c) ==
    /\ c \in calls /\ c.ans # "unsent"
    /\ calls' = calls \ {c}
    /\ IF ~AwaitsAnswer(c.ref)
       THEN UNCHANGED <<refund, due, told>>
       ELSE /\ refund' = [refund EXCEPT ![c.ref] = StatusAfter(c)]
            /\ due' = [due EXCEPT ![c.ref] = FALSE]
            /\ told' = IF c.ans # "error"
                       THEN [told EXCEPT ![c.ref] = @ + 1] ELSE told
    /\ UNCHANGED <<holder, tries, outcome, bounced, faults>>

\* The process dies during a call (Paystack may or may not have got it).
LoseCall(c) ==
    /\ c \in calls
    /\ faults < MaxFaults /\ faults' = faults + 1
    /\ calls' = calls \ {c}
    /\ UNCHANGED <<holder, refund, tries, due, outcome, bounced, told>>

\* The backoff of a pending refund is over, or the lease of a processing one
\* whose call was lost; a call that outlives its lease counts as a fault.
FallDue(r) ==
    /\ refund[r] \in Due /\ ~due[r]
    /\ due' = [due EXCEPT ![r] = TRUE]
    /\ IF refund[r] = "processing" /\ CallsOf(r) # {}
       THEN faults < MaxFaults /\ faults' = faults + 1
       ELSE UNCHANGED faults
    /\ UNCHANGED <<holder, refund, tries, calls, outcome, bounced, told>>

-----------------------------------------------------------------------------
(* onRefundWebhook: each event, delivered any number of times in any order *)

\* refund.pending or refund.processing: Paystack has it.
WebhookPending(r) ==
    /\ outcome[r] # "none"
    /\ refund[r] \in Due
    /\ refund' = [refund EXCEPT ![r] = "requested"]
    /\ due' = [due EXCEPT ![r] = FALSE]
    /\ told' = [told EXCEPT ![r] = @ + 1]
    /\ UNCHANGED <<holder, tries, calls, outcome, bounced, faults>>

\* refund.processed: written whatever the row says, except processed.
WebhookProcessed(r) ==
    /\ outcome[r] = "paid"
    /\ refund[r] \notin {"none", "processed"}
    /\ refund' = [refund EXCEPT ![r] = "processed"]
    /\ due' = [due EXCEPT ![r] = FALSE]
    /\ UNCHANGED <<holder, tries, calls, outcome, bounced, told, faults>>

\* refund.failed: written whatever the row says, except failed.
WebhookFailed(r) ==
    /\ r \in bounced
    /\ refund[r] \notin {"none", "failed"}
    /\ refund' = [refund EXCEPT ![r] = "failed"]
    /\ due' = [due EXCEPT ![r] = FALSE]
    /\ UNCHANGED <<holder, tries, calls, outcome, bounced, told, faults>>

\* Paystack pays the refund out, or the bank returns it.
Conclude(r) ==
    /\ outcome[r] = "taken"
    /\ \E o \in {"paid", "bounced"} :
          /\ outcome' = [outcome EXCEPT ![r] = o]
          /\ bounced' = bounced \cup (IF o = "bounced" THEN {r} ELSE {})
    /\ UNCHANGED <<holder, refund, tries, due, calls, told, faults>>

\* The steps of the service and of Paystack's refunds.
RefundNext ==
    \/ \E r \in Refs : \/ Lease(r) \/ FallDue(r)
                       \/ WebhookPending(r) \/ WebhookProcessed(r)
                       \/ WebhookFailed(r) \/ Conclude(r)
    \/ \E c \in calls : CallPaystack(c) \/ WriteAnswer(c) \/ LoseCall(c)

Next ==
    \/ RefundNext
    \/ \E r \in Refs : BecomesHolder(r) \/ BecomesDuplicate(r)

\* The scheduler runs every five minutes, time passes, and a call that is not
\* lost is answered and its answer written.
RefundFairness ==
    /\ \A r \in Refs : WF_vars(Lease(r)) /\ WF_vars(FallDue(r))
    /\ WF_vars(\E c \in calls : CallPaystack(c))
    /\ WF_vars(\E c \in calls : WriteAnswer(c))

Spec == Init /\ [][Next]_vars /\ RefundFairness

-----------------------------------------------------------------------------
(* Properties *)

\* The reference that holds the job's money is never refunded as a duplicate:
\* no call for it is leased, none reaches Paystack (the class comment at
\* duplicate-refund.service.ts:45-46).
HolderNeverRefunded ==
    holder # NoRef => /\ CallsOf(holder) = {}
                      /\ outcome[holder] = "none"

\* A refund the row calls requested was really taken by Paystack, and one it
\* calls processed was paid, whichever of the call, the webhooks and a retry
\* after a lost lease wrote it.
RequestedWasTaken ==
    \A r \in Refs : /\ refund[r] \in {"requested", "processed"}
                         => outcome[r] # "none"
                    /\ refund[r] = "processed" => outcome[r] = "paid"

\* The customer is told at most once, however calls and webhooks overlap.
ToldAtMostOnce == \A r \in Refs : told[r] <= 1

\* Only a fault lets two calls of one refund run at the same time or adds a
\* call to the cap: leases really exclude, and the cap holds without faults.
CallsBounded ==
    \A r \in Refs : /\ Cardinality(CallsOf(r)) <= 1 + faults
                    /\ tries[r] <= MaxAttempts + faults

\* A refund that Paystack took or that was given up is never taken up again:
\* a late answer of an earlier call cannot reopen it.
NeverReopened ==
    [][\A r \in Refs : refund[r] \in {"requested", "processed", "failed"}
                         => refund'[r] \notin Due]_vars

\* Every duplicate's refund ends: taken by Paystack or left to an admin.
RefundEnds ==
    \A r \in Refs : refund[r] \in Due ~> refund[r] \notin Due
=============================================================================
