------------------------------- MODULE Payouts -------------------------------
(***************************************************************************)
(* What becomes of a payment once its money is held: the payout to the     *)
(* artisan with the name check before it, refunds, and Paystack's          *)
(* transfer webhooks (payments/payments.service.ts, payout-hold.ts).       *)
(*                                                                         *)
(* A transaction that holds the row lock is one step, the Paystack call    *)
(* inside it included; that call may be lost, which is a fault.  The name  *)
(* check comes before the lock, so a capture is two steps.  Webhooks and   *)
(* the fraud flag read the row and save it back without a lock: two steps  *)
(* too, and the save overwrites what changed in between.                   *)
(***************************************************************************)
EXTENDS Naturals, FiniteSets

CONSTANTS Callers,        \* requests and scheduler runs that capture
          Handlers,       \* unlocked handlers under way at once
          Amount,         \* the payment's amount, in units a refund may have
          MaxChecks,      \* PAYOUT_CHECK_MAX_ATTEMPTS
          MaxTransfers,   \* bound: transfers ever sent
          MaxMethods,     \* bound: payout methods the artisan ever registers
          MaxFaults       \* bound: Paystack answers lost and saves that
                          \* overwrite a concurrent change, together

ASSUME AmountAssumption == Amount \in Nat \ {0}
ASSUME ChecksAssumption == MaxChecks \in Nat \ {0}
ASSUME BoundsAssumption == /\ MaxTransfers \in Nat /\ MaxMethods \in Nat
                           /\ MaxFaults \in Nat

Transfers == 1..MaxTransfers
Methods == 1..MaxMethods
NoMethod == 0
NoTransfer == 0

Capturable == {"HELD", "PENDING_TRANSFER", "TRANSFER_FAILED"}
PaymentStatuses == Capturable \cup {"RELEASED", "REFUNDED"}

\* Why a payout is on hold: one of ARTISAN_ACTION_HOLDS (the name differs or
\* there is no such account), or payout_check_pending.
Holds == {"none", "artisan_action", "check_pending"}

\* What a name check may say.  "mismatch" stands for mismatch and not_found;
\* a check that was not made counts as unavailable, whatever the method.
Outcomes == {"match", "mismatch", "unavailable"}

TransferStates == {"absent", "sent", "success", "failed", "reversed"}

Rows == [status : PaymentStatuses,
         hold : Holds,                          \* payoutHoldReason
         checks : Nat,                          \* payoutCheckAttempts
         next : BOOLEAN,                        \* payoutCheckNextAt is set
         transfer : Transfers \cup {NoTransfer},\* transferReference
         code : BOOLEAN,                        \* transferCode is set
         refunded : 0..Amount]                  \* refundedAmount

VARIABLES pay,       \* the payment row
          method,    \* the payout method on the artisan's profile
          check,     \* of each caller: idle, or the name check it made
          saving,    \* of each handler: idle, or the row it read and status
          remote,    \* Paystack's state of each transfer
          payee,     \* the method each transfer went to
          matched,   \* methods whose name Paystack confirmed at some time
          refunds,   \* units Paystack refunded to the customer
          lost,      \* Paystack calls whose answer was lost so far
          clobbers   \* saves that overwrote a concurrent change so far

vars == <<pay, method, check, saving, remote, payee, matched,
          refunds, lost, clobbers>>

profileVars == <<method, matched>>
paystackVars == <<remote, payee, refunds>>

Idle == [state |-> "idle"]
Checks == [state : {"checked"}, method : Methods \cup {NoMethod},
           outcome : Outcomes]
Saves == [state : {"read"}, row : Rows, to : PaymentStatuses]

(***************************************************************************)
(* Types: the row's columns and what is under way.                         *)
(***************************************************************************)
TypeOK ==
    /\ pay \in Rows
    /\ method \in Methods \cup {NoMethod}
    /\ check \in [Callers -> Checks \cup {Idle}]
    /\ saving \in [Handlers -> Saves \cup {Idle}]
    /\ remote \in [Transfers -> TransferStates]
    /\ payee \in [Transfers -> Methods \cup {NoMethod}]
    /\ matched \subseteq Methods
    /\ refunds \in 0..Amount
    /\ lost \in Nat /\ clobbers \in Nat

\* applyChargeSuccess has just made the payment HELD.
Init ==
    /\ pay = [status |-> "HELD", hold |-> "none", checks |-> 0,
              next |-> FALSE,
              transfer |-> NoTransfer, code |-> FALSE, refunded |-> 0]
    /\ method = NoMethod /\ matched = {}
    /\ check = [c \in Callers |-> Idle]
    /\ saving = [h \in Handlers |-> Idle]
    /\ remote = [n \in Transfers |-> "absent"]
    /\ payee = [n \in Transfers |-> NoMethod]
    /\ refunds = 0 /\ lost = 0 /\ clobbers = 0

\* A transfer the artisan has received or may still receive.
Live(n) == remote[n] \in {"sent", "success"}

FaultMayHappen == lost + clobbers < MaxFaults

InFlight == pay.status = "HELD" /\ pay.code

-----------------------------------------------------------------------------
(* capturePayment, whoever calls it: confirmed or auto-completed jobs, the *)
(* artisan's retry, an admin's or a ruling's release, the scheduler, and   *)
(* the retry of held payouts after setupPayoutMethod                       *)

\* Mutant: a transfer under way does not stop a second capture.
CapturableAgain == pay.status \in Capturable

\* Under the lock: the payment may be captured, and has no transfer under way.
CanCapture == pay.status \in Capturable /\ ~InFlight

\* precheckPayoutName: no lock; no check where no transfer can follow.
Precheck(c) ==
    /\ check[c] = Idle
    /\ \/ /\ CanCapture /\ method # NoMethod
          /\ \E o \in {"match", "mismatch"} :
                /\ check' = [check EXCEPT ![c] =
                     [state |-> "checked", method |-> method, outcome |-> o]]
                /\ matched' = IF o = "match" THEN matched \cup {method}
                                             ELSE matched
       \/ /\ check' = [check EXCEPT ![c] =
               [state |-> "checked", method |-> NoMethod,
                outcome |-> "unavailable"]]
          /\ UNCHANGED matched
    /\ UNCHANGED <<pay, method, saving, paystackVars, lost, clobbers>>

\* Mutant: the details are not compared with the ones that were checked.
OutcomeOfCheck(k) == k.outcome

\* What the transaction makes of the check: one of other details than those
\* now on file counts as unavailable.
OutcomeNow(k) == IF k.method = method THEN k.outcome ELSE "unavailable"

\* Every capture is the transaction of a caller whose check is done.
Begin(c) == /\ check[c] # Idle
            /\ check' = [check EXCEPT ![c] = Idle]

CaptureSkipped(c) ==
    /\ Begin(c)
    /\ ~CanCapture
    /\ UNCHANGED <<pay, profileVars, saving, paystackVars, lost, clobbers>>

\* clearPayoutHold
NoHold(row) == [row EXCEPT !.hold = "none", !.checks = 0, !.next = FALSE]

CaptureWithoutMethod(c) ==
    /\ Begin(c)
    /\ CanCapture /\ method = NoMethod
    /\ pay' = [NoHold(pay) EXCEPT !.status = "PENDING_TRANSFER"]
    /\ UNCHANGED <<profileVars, saving, paystackVars, lost, clobbers>>

\* The name differs or there is no such account: no transfer.
CaptureHolds(c) ==
    /\ Begin(c)
    /\ CanCapture /\ method # NoMethod
    /\ OutcomeNow(check[c]) = "mismatch"
    /\ pay' = [NoHold(pay) EXCEPT !.status = "PENDING_TRANSFER",
                                  !.hold = "artisan_action"]
    /\ UNCHANGED <<profileVars, saving, paystackVars, lost, clobbers>>

\* nextPayoutCheckAt: a backoff, or nothing once the cap is reached.
NextCheck(n) == n < MaxChecks

ChecksAfter == IF pay.hold = "check_pending" THEN pay.checks + 1 ELSE 1

\* The check could not be made: no transfer, the scheduler tries again.
CaptureWaits(c) ==
    /\ Begin(c)
    /\ CanCapture /\ method # NoMethod
    /\ OutcomeNow(check[c]) = "unavailable"
    /\ ChecksAfter <= MaxChecks + 1      \* bound: humans retry after the cap
    /\ pay' = [pay EXCEPT !.status = "PENDING_TRANSFER",
                          !.hold = "check_pending",
                          !.checks = ChecksAfter,
                          !.next = NextCheck(ChecksAfter)]
    /\ UNCHANGED <<profileVars, saving, paystackVars, lost, clobbers>>

\* The name matches: the payment is HELD again and a transfer with a new
\* reference goes out.  Paystack takes it; or refuses it, TRANSFER_FAILED; or
\* takes it and the answer is lost, TRANSFER_FAILED too; or takes it and the
\* process dies, which rolls the whole transaction back.
CaptureSends(c) ==
    /\ Begin(c)
    /\ CanCapture /\ method # NoMethod
    /\ OutcomeNow(check[c]) = "match"
    /\ \E n \in Transfers :
        LET row == [NoHold(pay) EXCEPT !.status = "HELD", !.transfer = n]
            failed == [row EXCEPT !.status = "TRANSFER_FAILED"]
            sent == /\ remote' = [remote EXCEPT ![n] = "sent"]
                    /\ payee' = [payee EXCEPT ![n] = method]
        IN /\ n # pay.transfer /\ remote[n] = "absent"
           /\ \A m \in Transfers : m > n => remote[m] = "absent"
           /\ \A m \in 1..(n - 1) : remote[m] # "absent" \/ m = pay.transfer
           /\ \/ pay' = [row EXCEPT !.code = TRUE] /\ sent /\ UNCHANGED lost
              \/ pay' = failed /\ UNCHANGED <<remote, payee, lost>>
              \/ /\ pay' \in {failed, pay} /\ sent
                 /\ FaultMayHappen /\ lost' = lost + 1
    /\ UNCHANGED <<profileVars, saving, refunds, clobbers>>

\* setupPayoutMethod: the name is looked up and saved as Paystack spells it,
\* or the lookup is unavailable and the typed name is saved.  Its retry of
\* the held payouts is a capture like any other.
SetupMethod ==
    /\ method < MaxMethods
    /\ method' = method + 1
    /\ matched' \in {matched, matched \cup {method'}}
    /\ UNCHANGED <<pay, check, saving, paystackVars, lost, clobbers>>

-----------------------------------------------------------------------------
(* Refunds *)

\* Mutant: the row is written although Paystack has not taken the refund.
RefundOutcomeOptimistic(x, row) ==
    /\ pay' = row
    /\ \/ refunds + x <= Amount /\ refunds' = refunds + x
       \/ UNCHANGED refunds
    /\ UNCHANGED lost

\* createRefund under the lock: Paystack takes it, if that much is left; or
\* refuses; or takes it and the answer is lost, and the row stays as it was.
RefundOutcome(x, row) ==
    \/ /\ refunds + x <= Amount
       /\ refunds' = refunds + x
       /\ pay' = row
       /\ UNCHANGED lost
    \/ /\ refunds + x <= Amount
       /\ refunds' = refunds + x
       /\ FaultMayHappen /\ lost' = lost + 1
       /\ UNCHANGED pay

StatusAfterRefund(s, x) ==
    IF pay.refunded + x >= Amount THEN "REFUNDED" ELSE s

\* adminRefund, of all or part of what is left.
AdminRefund(x) ==
    /\ pay.status \in {"HELD", "RELEASED"}
    /\ x > 0 /\ x <= Amount - pay.refunded
    /\ RefundOutcome(x, [pay EXCEPT !.refunded = @ + x,
                                    !.status = StatusAfterRefund(@, x)])
    /\ UNCHANGED <<profileVars, check, saving, remote, payee, clobbers>>

\* cancelPayment of a payment the customer already paid.
CancelPayment ==
    /\ pay.status = "HELD"
    /\ RefundOutcome(Amount,
           [pay EXCEPT !.status = "REFUNDED", !.refunded = Amount])
    /\ UNCHANGED <<profileVars, check, saving, remote, payee, clobbers>>

-----------------------------------------------------------------------------
(* Handlers that read the row and save it back without a lock *)

Read(h, to) ==
    /\ saving[h] = Idle
    /\ saving' = [saving EXCEPT ![h] =
                    [state |-> "read", row |-> pay, to |-> to]]
    /\ UNCHANGED <<pay, profileVars, check, paystackVars, lost, clobbers>>

\* A webhook concerns the payment whose transferReference it names.
Concerns(n) == pay.transfer = n

\* transfer.success and transfer.failed or .reversed: delivered late, again,
\* or out of order.
TransferSuccess(h, n) ==
    /\ remote[n] \in {"success", "reversed"} /\ Concerns(n)
    /\ Read(h, "RELEASED")

TransferFailed(h, n) ==
    /\ remote[n] \in {"failed", "reversed"} /\ Concerns(n)
    /\ Read(h, "TRANSFER_FAILED")

\* setFraudFlag and clearFraudFlag: the flag itself is left out here.
FraudFlag(h) == Read(h, pay.status)

\* repo.save writes every column in which what was read differs from the row
\* it loads again just before: only the new status if that load came before
\* the concurrent change, else the whole row as it was read.
Save(h) ==
    /\ saving[h] # Idle
    /\ saving' = [saving EXCEPT ![h] = Idle]
    /\ LET s == saving[h]
           whole == [s.row EXCEPT !.status = s.to]
           only == IF s.to = s.row.status THEN pay
                                          ELSE [pay EXCEPT !.status = s.to]
       IN /\ pay' \in {whole, only}
          /\ IF pay = s.row THEN UNCHANGED clobbers
             ELSE FaultMayHappen /\ clobbers' = clobbers + 1
    /\ UNCHANGED <<profileVars, check, paystackVars, lost>>

\* Paystack: a transfer succeeds or fails; one that succeeded may come back.
TransferEnds(n) ==
    /\ \/ remote[n] = "sent" /\ \E s \in {"success", "failed"} :
                                   remote' = [remote EXCEPT ![n] = s]
       \/ remote[n] = "success" /\ remote' = [remote EXCEPT ![n] = "reversed"]
    /\ UNCHANGED <<pay, profileVars, check, saving, payee, refunds, lost,
                   clobbers>>

Capture(c) == \/ CaptureSkipped(c) \/ CaptureWithoutMethod(c)
              \/ CaptureHolds(c) \/ CaptureWaits(c) \/ CaptureSends(c)

Next ==
    \/ \E c \in Callers : Precheck(c) \/ Capture(c)
    \/ SetupMethod
    \/ \E x \in 1..Amount : AdminRefund(x)
    \/ CancelPayment
    \/ \E h \in Handlers, n \in Transfers :
          TransferSuccess(h, n) \/ TransferFailed(h, n)
    \/ \E h \in Handlers : FraudFlag(h) \/ Save(h)
    \/ \E n \in Transfers : TransferEnds(n)

Spec == Init /\ [][Next]_vars

-----------------------------------------------------------------------------
(* Properties *)

\* No transfer goes to an account whose name Paystack did not confirm, even
\* if the artisan changes the payout details between check and transfer.
SentOnlyIfMatched ==
    \A n \in Transfers : remote[n] # "absent" => payee[n] \in matched

\* The row never claims money moved that did not: RELEASED means a transfer
\* succeeded, and what it says was refunded Paystack refunded, whatever stale
\* saves and lost answers came in between.
MoneyClaimsTrue ==
    /\ pay.status = "RELEASED" =>
         \E n \in Transfers : remote[n] \in {"success", "reversed"}
    /\ pay.refunded <= refunds
    /\ pay.status = "REFUNDED" => refunds = Amount

\* The artisan is paid at most once: only a lost answer or a save over a
\* concurrent change lets a second transfer out while one is alive.
AtMostOneLive ==
    lost = 0 /\ clobbers = 0 =>
        \A m, n \in Transfers : Live(m) /\ Live(n) => m = n

\* A check that could not be made stays with the scheduler up to the cap and
\* is left to the admins from there on.
StopsAtCap ==
    pay.hold = "check_pending" => (pay.next <=> pay.checks < MaxChecks)
=============================================================================
