------------------------------- MODULE Disputes -------------------------------
(***************************************************************************)
(* The disputes of one booking and the rulings of admins on them           *)
(* (disputes/disputes.service.ts), with the payment of the booking's job   *)
(* that a ruling refunds or releases.                                      *)
(*                                                                         *)
(* A ruling reads the dispute and its payment, claims both in one          *)
(* conditional update, calls PaymentsService, and then writes what became  *)
(* of the money, or rolls the claim back.  Every one of these is a step,   *)
(* and the process may die between two of them.                            *)
(*                                                                         *)
(* The payment is reduced to what rulings read of it; its own hazards are  *)
(* the subject of Payouts.                                                 *)
(***************************************************************************)
EXTENDS Naturals, FiniteSets

CONSTANTS Disputes,    \* rows that may be filed
          NoDispute,
          Admins,      \* each with one resolve request at a time
          NoAdmin,
          Amount,      \* the payment's amount, in units a refund may have
          MaxFaults    \* bound: answers lost and processes that died

ASSUME NoneAssumption == NoDispute \notin Disputes /\ NoAdmin \notin Admins
ASSUME AmountAssumption == Amount \in Nat \ {0}
ASSUME BoundsAssumption == MaxFaults \in Nat

Active == {"OPEN", "UNDER_REVIEW"}
DisputeStatuses == Active \cup {"RESOLVED", "CLOSED"}
Moves == {"REFUND", "RELEASE"}

\* The columns of a row; "null" where the column is.
Rows == [status : DisputeStatuses,
         verdict : BOOLEAN,                     \* outcome, resolution and note are set
         money : Moves \cup {"NONE", "null"},   \* moneyAction
         amount : BOOLEAN,                      \* moneyAmount is set
         by : Admins \cup {NoAdmin}]            \* resolvedById
NoRow == [status |-> "absent"]

Releasable == {"HELD", "PENDING_TRANSFER", "TRANSFER_FAILED"}
PaymentStatuses == Releasable \cup {"ABSENT", "PENDING", "RELEASED", "REFUNDED"}
Transfers == [alive : BOOLEAN, d : Disputes \cup {NoDispute}]
Payments == [status : PaymentStatuses, code : BOOLEAN, refunded : 0..Amount]

\* Where a ruling stands: what it read of the dispute, and what it will do.
Stages == {"idle", "planned", "claimed", "captured", "failed", "moved"}
Work == [stage : Stages, d : Disputes \cup {NoDispute},
         was : Active,
         hadVerdict : BOOLEAN,
         money : Moves \cup {"NONE"}, units : 0..Amount]

VARIABLES row,      \* the disputes
          work,     \* the rulings under way
          pay,      \* the payment
          out,      \* the transfer Paystack has, and the dispute it was sent for
          moves,    \* movements that rulings caused and Paystack did not undo
          confirmed,\* disputes whose ruling learned that its money moved
          lost,     \* Paystack answers that were lost
          crashes   \* processes that died and records that failed

vars == <<row, work, pay, out, moves, confirmed, lost, crashes>>
moneyVars == <<pay, out, moves, confirmed, lost>>

TypeOK ==
    /\ row \in [Disputes -> Rows \cup {NoRow}]
    /\ work \in [Admins -> Work]
    /\ pay \in Payments
    /\ out \in Transfers
    /\ moves \in Nat
    /\ confirmed \subseteq Disputes
    /\ lost \in Nat /\ crashes \in Nat

Idle == [stage |-> "idle", d |-> NoDispute, was |-> "OPEN",
         hadVerdict |-> FALSE, money |-> "NONE", units |-> 0]

\* The booking is COMPLETED or CANCELLED; its job may have a payment, in any
\* status.
Init ==
    /\ row = [d \in Disputes |-> NoRow]
    /\ work = [a \in Admins |-> Idle]
    /\ \E s \in {"ABSENT", "PENDING"} :
          pay = [status |-> s, code |-> FALSE, refunded |-> 0]
    /\ out = [alive |-> FALSE, d |-> NoDispute]
    /\ moves = 0 /\ confirmed = {} /\ lost = 0 /\ crashes = 0

Filed(d) == row[d] # NoRow
IsActive(d) == Filed(d) /\ row[d].status \in Active
Claims(d) == Filed(d) /\ row[d].money \in Moves
FaultMayHappen == lost + crashes < MaxFaults

-----------------------------------------------------------------------------
(* The parties *)

\* raise.  The check that the party has filed none of the booking yet is a read
\* before the insert and no unique index backs it, so it excludes no row.
Raise(d) ==
    /\ ~Filed(d)
    /\ row' = [row EXCEPT ![d] =
                 [status |-> "OPEN", verdict |-> FALSE,
                  money |-> "null", amount |-> FALSE, by |-> NoAdmin]]
    /\ UNCHANGED <<work, moneyVars, crashes>>

-----------------------------------------------------------------------------
(* Admins: review, close, and the steps of a ruling *)

StartReview(d) ==
    /\ Filed(d) /\ row[d].status = "OPEN"
    /\ row' = [row EXCEPT ![d].status = "UNDER_REVIEW"]
    /\ UNCHANGED <<work, moneyVars, crashes>>

\* close keeps the verdict and the money columns of a dispute that has them.
Close(d, a) ==
    /\ Filed(d) /\ row[d].status # "CLOSED"
    /\ row' = [row EXCEPT ![d].status = "CLOSED", ![d].by = a]
    /\ UNCHANGED <<work, moneyVars, crashes>>

\* planRefund and planRelease: what the payment allows.
CanRefund == pay.status \in {"HELD", "RELEASED"} /\ pay.refunded < Amount
CanRelease == pay.status \in Releasable /\ ~(pay.status = "HELD" /\ pay.code)

\* The sibling guard of planMoneyAction.
SiblingClaims(d) == \E e \in Disputes \ {d} : Claims(e)

\* planMoneyAction: what a verdict's money side may be.  NONE is always one: the
\* mutual verdict implies no action, and an impossible one is skipped.
Plans(d) ==
    {[money |-> "NONE", units |-> 0]} \cup
    (IF SiblingClaims(d) THEN {}
     ELSE (IF CanRefund
           THEN {[money |-> "REFUND", units |-> x] : x \in 1..(Amount - pay.refunded)}
           ELSE {}) \cup
          (IF CanRelease THEN {[money |-> "RELEASE", units |-> 0]} ELSE {}))

\* resolve up to its first write: the dispute, its payment and the siblings.
Plan(a, d) ==
    /\ work[a].stage = "idle" /\ IsActive(d)
    /\ \E p \in Plans(d) :
          work' = [work EXCEPT ![a] =
             [stage |-> "planned", d |-> d, was |-> row[d].status,
              hadVerdict |-> row[d].verdict,
              money |-> p.money, units |-> p.units]]
    /\ UNCHANGED <<row, moneyVars, crashes>>

Goes(a, stage) == work' = [work EXCEPT ![a].stage = stage]
Ends(a) == work' = [work EXCEPT ![a] = Idle]

\* The claim's own condition: the dispute is still active.
Claimable(d) == row[d].status \in Active

\* Mutant: no unique index on the payment.
ConflictsNever(a) == FALSE

\* uq_disputes_money_payment: another row with a money action on the payment.
Conflicts(a) == work[a].money \in Moves /\ SiblingClaims(work[a].d)

\* claimForRuling: the dispute and the payment in one conditional update.
Claim(a) ==
    LET w == work[a] IN
    /\ w.stage = "planned" /\ (Claimable(w.d) => ~Conflicts(a))
    /\ IF Claimable(w.d)
       THEN /\ row' = [row EXCEPT ![w.d].status = "RESOLVED",
                                  ![w.d].verdict = TRUE, ![w.d].by = a,
                                  ![w.d].money = IF w.money = "NONE" THEN "null" ELSE w.money,
                                  ![w.d].amount = FALSE]
            /\ work' = [work EXCEPT ![a].stage =
                          IF w.money = "NONE" THEN "moved" ELSE "claimed"]
       ELSE Ends(a) /\ UNCHANGED row
    /\ UNCHANGED <<moneyVars, crashes>>

\* PAYMENT_CLAIMED_BY_SIBLING: the verdict is claimed again, without money.
ClaimDenied(a) ==
    /\ work[a].stage = "planned" /\ Claimable(work[a].d) /\ Conflicts(a)
    /\ work' = [work EXCEPT ![a].money = "NONE", ![a].units = 0]
    /\ UNCHANGED <<row, moneyVars, crashes>>

\* Paystack moves the money, and the ruling learns of it or does not.
Confirms(d) == moves' = moves + 1 /\ confirmed' = confirmed \cup {d}
Loses == /\ FaultMayHappen /\ lost' = lost + 1
         /\ moves' = moves + 1 /\ UNCHANGED confirmed

\* A refund that Paystack took: adminRefund's save under the lock.
Refunded(x) == [pay EXCEPT !.refunded = @ + x,
                           !.status = IF pay.refunded + x >= Amount THEN "REFUNDED" ELSE @]

\* moveClaimedMoney, a refund: adminRefund checks again under the row's lock.
\* Paystack takes it, refuses it, or takes it and the answer is lost.
MoveRefund(a) ==
    LET w == work[a]
        may == pay.status \in {"HELD", "RELEASED"} /\ w.units <= Amount - pay.refunded
    IN
    /\ w.stage = "claimed" /\ w.money = "REFUND"
    /\ \/ /\ may /\ pay' = Refunded(w.units)
          /\ Confirms(w.d) /\ Goes(a, "moved") /\ UNCHANGED <<out, lost>>
       \/ Goes(a, "failed") /\ UNCHANGED moneyVars
       \/ may /\ Loses /\ Goes(a, "failed") /\ UNCHANGED <<pay, out>>
    /\ UNCHANGED <<row, crashes>>

\* A release: releaseWithheldPayment reads the payment, refuses or captures it
\* under the lock (no transfer if the status moved on in between, if there is
\* no payout method or the name check is not passed) ...
CaptureForRuling(a) ==
    LET d == work[a].d IN
    /\ work[a].stage = "claimed" /\ work[a].money = "RELEASE"
    /\ \/ ~CanRelease /\ UNCHANGED moneyVars /\ (Goes(a, "failed") \/ Goes(a, "captured"))
       \/ /\ CanRelease /\ pay' = [pay EXCEPT !.status = "PENDING_TRANSFER"]
          /\ Goes(a, "captured") /\ UNCHANGED <<out, moves, confirmed, lost>>
       \/ /\ CanRelease /\ pay' = [pay EXCEPT !.status = "HELD", !.code = TRUE]
          /\ out' = [alive |-> TRUE, d |-> d]
          /\ Confirms(d) /\ Goes(a, "captured") /\ UNCHANGED lost
       \/ /\ CanRelease /\ pay' = [pay EXCEPT !.status = "TRANSFER_FAILED"]
          /\ out' = [alive |-> FALSE, d |-> NoDispute]
          /\ Goes(a, "failed") /\ UNCHANGED <<moves, confirmed, lost>>
       \/ /\ CanRelease /\ pay' = [pay EXCEPT !.status = "TRANSFER_FAILED"]
          /\ out' = [alive |-> TRUE, d |-> NoDispute]
          /\ Loses /\ Goes(a, "failed")
    /\ UNCHANGED <<row, crashes>>

\* ... and reads it again to see what came of it.
SeeRelease(a) ==
    /\ work[a].stage = "captured"
    /\ Goes(a, IF pay.status = "PENDING_TRANSFER" \/ (pay.status # "RELEASED" /\ ~pay.code)
               THEN "failed" ELSE "moved")
    /\ UNCHANGED <<row, moneyVars, crashes>>

\* Mutant: the rollback does not restate its precondition.
OwnRulingAny(a) == TRUE

\* The row is still RESOLVED by the admin whose money action failed.
OwnRuling(a) == row[work[a].d].status = "RESOLVED" /\ row[work[a].d].by = a

\* Mutant: undefined where null was meant, which leaves every other column.
RestoredUndefined(a) == [row[work[a].d] EXCEPT !.status = work[a].was]

\* The row as the ruling found it.
Restored(a) ==
    [row[work[a].d] EXCEPT !.status = work[a].was, !.verdict = work[a].hadVerdict,
                           !.by = NoAdmin, !.money = "null", !.amount = FALSE]

\* The failed money action is rolled back, unless another decision stands.
Rollback(a) ==
    /\ work[a].stage = "failed"
    /\ row' = IF OwnRuling(a) THEN [row EXCEPT ![work[a].d] = Restored(a)] ELSE row
    /\ Ends(a)
    /\ UNCHANGED <<moneyVars, crashes>>

\* recordMoneyResult; its own failure is logged and nothing more.
Record(a) ==
    LET w == work[a] IN
    /\ w.stage = "moved" /\ Ends(a)
    /\ \/ /\ row' = [row EXCEPT ![w.d].money = w.money, ![w.d].amount = w.money \in Moves]
          /\ UNCHANGED crashes
       \/ FaultMayHappen /\ crashes' = crashes + 1 /\ UNCHANGED row
    /\ UNCHANGED <<moneyVars>>

\* The process dies.
Crash(a) ==
    /\ work[a].stage # "idle" /\ Ends(a)
    /\ FaultMayHappen /\ crashes' = crashes + 1
    /\ UNCHANGED <<row, moneyVars>>

-----------------------------------------------------------------------------
(* The payment, moved by others *)

\* The customer pays, an admin refunds, or the job's cancellation does.
OthersPay ==
    /\ \/ pay.status = "PENDING" /\ pay' = [pay EXCEPT !.status = "HELD"]
       \/ CanRefund /\ \E x \in 1..(Amount - pay.refunded) : pay' = Refunded(x)
       \/ pay.status = "HELD" /\ pay' = [pay EXCEPT !.status = "REFUNDED", !.refunded = Amount]
    /\ UNCHANGED <<row, work, out, moves, confirmed, lost, crashes>>

\* The job's completion or a retry captures.
OthersCapture ==
    /\ CanRelease
    /\ \/ /\ pay' = [pay EXCEPT !.status = "HELD", !.code = TRUE]
          /\ out' = [alive |-> TRUE, d |-> NoDispute]
       \/ pay' = [pay EXCEPT !.status = "PENDING_TRANSFER"] /\ UNCHANGED out
       \/ /\ pay' = [pay EXCEPT !.status = "TRANSFER_FAILED"]
          /\ out' = [alive |-> FALSE, d |-> NoDispute]
    /\ UNCHANGED <<row, work, moves, confirmed, lost, crashes>>

\* transfer.success; transfer.failed or .reversed, which undoes a movement.
TransferSucceeds ==
    /\ out.alive /\ pay' = [pay EXCEPT !.status = "RELEASED"]
    /\ UNCHANGED <<row, work, out, moves, confirmed, lost, crashes>>

TransferFails ==
    /\ out.alive /\ pay' = [pay EXCEPT !.status = "TRANSFER_FAILED"]
    /\ out' = [alive |-> FALSE, d |-> NoDispute]
    /\ moves' = IF out.d = NoDispute THEN moves ELSE moves - 1
    /\ confirmed' = confirmed \ {out.d}
    /\ UNCHANGED <<row, work, lost, crashes>>

Ruling(a) == \/ Claim(a) \/ ClaimDenied(a) \/ MoveRefund(a)
             \/ CaptureForRuling(a) \/ SeeRelease(a) \/ Rollback(a) \/ Record(a)

Next ==
    \/ \E d \in Disputes : Raise(d) \/ StartReview(d) \/ \E a \in Admins : Close(d, a)
    \/ \E a \in Admins, d \in Disputes : Plan(a, d)
    \/ \E a \in Admins : Ruling(a) \/ Crash(a)
    \/ OthersPay \/ OthersCapture \/ TransferSucceeds \/ TransferFails

Spec == Init /\ [][Next]_vars

-----------------------------------------------------------------------------
(* Properties *)

\* However many disputes of the booking are ruled on at once, and whichever
\* process dies in the middle, rulings move the payment's money once; only an
\* answer of Paystack that was lost lets another ruling move it again.
OneMovement == moves <= 1 + lost

\* A dispute that is still open work shows nothing of a ruling that failed: no
\* verdict, no resolver, no claim on the payment.
NoPhantomVerdict ==
    \A d \in Disputes : IsActive(d) =>
        /\ ~row[d].verdict /\ row[d].by = NoAdmin
        /\ row[d].money = "null" /\ ~row[d].amount

\* What an admin closed stays closed, by that admin, whatever ruling was under
\* way on it and fails afterwards.
ClosedStands ==
    [][\A d \in Disputes : Filed(d) /\ row[d].status = "CLOSED" =>
          row'[d].status = "CLOSED" /\ row'[d].by = row[d].by]_vars

\* The rulings' claims on the payment and the movements they learn of.
Owner == IF \E d \in Disputes : Claims(d) THEN CHOOSE d \in Disputes : Claims(d)
         ELSE NoDispute
PaidBy == IF confirmed = {} THEN NoDispute ELSE CHOOSE d \in Disputes : d \in confirmed

C == INSTANCE MoneyClaim WITH owner <- Owner, paidBy <- PaidBy

\* Rulings keep what claims promise: nobody moves money before the claim is
\* his, and no claim whose money moved is given up.
ImplementsClaim == C!Init /\ [][C!Next]_(C!vars)
=============================================================================
