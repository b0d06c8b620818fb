--------------------------- MODULE PaymentAttempts ---------------------------
(***************************************************************************)
(* One job's payment row and the attempts to pay it                        *)
(* (payments/payment-attempts.service.ts, the charge side of               *)
(* payments.service.ts, and saved-method-charge.service.ts).               *)
(*                                                                         *)
(* A handler that holds the lock on the payment row is one step.  A        *)
(* handler that asks Paystack and writes later is two steps, and what it   *)
(* will write waits in starting, replies or asks: any other step may come  *)
(* in between, and a crash loses it.                                       *)
(***************************************************************************)
EXTENDS Naturals, FiniteSets

CONSTANTS Refs,          \* Paystack references this payment may ever use
          OwnRef,        \* payments.reference, the first checkout's own
          SavedKinds,    \* the kinds of saved method the customer has
          Refusals,      \* may a verify be refused (429, 5xx) while Paystack
                         \* does know the transaction?
          NoRef          \* payments.paid_reference IS NULL

ASSUME RefsAssumption == OwnRef \in Refs /\ NoRef \notin Refs
ASSUME KindsAssumption == SavedKinds \subseteq {"mobile_money", "card"}
ASSUME RefusalsAssumption == Refusals \in BOOLEAN

Kinds == SavedKinds \cup {"hosted"}

Active == {"pending", "needs_otp", "hosted_open"}

\* The column's values, with "none" for no row.  A ninth, cancelled, is
\* written only by cancelForAccountDeletion, which nothing calls.
ChargeStatuses == Active \cup
    {"none", "succeeded", "failed", "expired", "duplicate"}
PaymentStatuses == {"PENDING", "HELD", "REFUNDED", "CANCELLED"}

\* What Paystack knows of a reference.  "mismatch" is a success for another
\* amount or currency; "success" and "mismatch" are final.
RemoteStates == {"absent", "open", "success", "mismatch", "failed"}

VARIABLES payment,    \* payments.status
          paidRef,    \* payments.paid_reference
          status,     \* payment_charges.status of each reference, or "none"
          kind,       \* payment_charges.method_type
          past,       \* expires_at has passed
          remote,     \* Paystack's own state of each reference
          starting,   \* attempts claimed whose Paystack call is not made yet
          replies,    \* Paystack's replies not written to the row yet
          asks        \* verifies that said "no success", not acted on yet

dbVars == <<payment, paidRef, status, kind, past>>
vars == <<payment, paidRef, status, kind, past, remote,
          starting, replies, asks>>

Replies == [ref : Refs, to : {"pending", "needs_otp", "failed"}]
Asks == [ref : Refs, to : {"failed", "expired"}]

(***************************************************************************)
(* Types: the columns' value sets, with "none" for a missing row.          *)
(***************************************************************************)
TypeOK ==
    /\ payment \in PaymentStatuses
    /\ paidRef \in Refs \cup {NoRef}
    /\ status \in [Refs -> ChargeStatuses]
    /\ kind \in [Refs -> Kinds]
    /\ past \in [Refs -> BOOLEAN]
    /\ remote \in [Refs -> RemoteStates]
    /\ starting \subseteq Refs
    /\ replies \subseteq Replies
    /\ asks \subseteq Asks

ActiveRefs == {r \in Refs : status[r] \in Active}

IsPaid == payment \in {"HELD", "REFUNDED"}

\* Mutant: any reference of a paid job passes for the one that paid.
HoldsMoneyIfPaid(r) == paidRef = r \/ IsPaid

\* DuplicateRefundService.holdsMoney
HoldsMoney(r) == IF paidRef # NoRef THEN paidRef = r
                                    ELSE IsPaid /\ r = OwnRef

(***************************************************************************)
(* A payment of today starts with no attempt.  One made before attempts    *)
(* were tracked has no row for its own reference: the migration gave it a  *)
(* paid_reference if it was paid, and its checkout may still be open if it *)
(* was cancelled.                                                          *)
(***************************************************************************)
Init ==
    /\ status = [r \in Refs |-> "none"]
    /\ kind = [r \in Refs |-> "hosted"]
    /\ past = [r \in Refs |-> FALSE]
    /\ starting = {} /\ replies = {} /\ asks = {}
    /\ \/ payment = "PENDING" /\ paidRef = NoRef
          /\ remote = [r \in Refs |-> "absent"]
       \/ payment = "CANCELLED" /\ paidRef = NoRef
          /\ remote = [r \in Refs |-> IF r = OwnRef THEN "open" ELSE "absent"]
       \/ payment = "HELD" /\ paidRef = OwnRef
          /\ remote = [r \in Refs |->
                         IF r = OwnRef THEN "success" ELSE "absent"]

-----------------------------------------------------------------------------
(* Starting an attempt *)

\* tryClaim's "created" outcome, under lockPayable's lock.  The outcomes
\* "existing", "stale" (a forced reconcile, see Ask) and 409 write nothing.
Claim(r, k) ==
    /\ payment = "PENDING"
    /\ ActiveRefs = {}
    /\ status[r] = "none" /\ remote[r] = "absent"
    /\ r = OwnRef <=> (k = "hosted" /\ status[OwnRef] = "none")
    /\ status' = [status EXCEPT ![r] = IF k = "hosted" THEN "hosted_open"
                                                       ELSE "pending"]
    /\ kind' = [kind EXCEPT ![r] = k]
    /\ past' = [past EXCEPT ![r] = FALSE]
    /\ starting' = starting \cup {r}
    /\ UNCHANGED <<payment, paidRef, remote, replies, asks>>

\* initializeTransaction: Paystack opens the checkout, or the call fails,
\* perhaps after Paystack opened it; then the attempt is to be released.
OpenCheckout(r) ==
    /\ r \in starting /\ kind[r] = "hosted"
    /\ starting' = starting \ {r}
    /\ \/ /\ remote' = [remote EXCEPT ![r] = "open"]
          /\ UNCHANGED replies
       \/ /\ remote' \in {remote, [remote EXCEPT ![r] = "open"]}
          /\ replies' = replies \cup {[ref |-> r, to |-> "failed"]}
    /\ UNCHANGED <<payment, paidRef, status, kind, past, asks>>

\* What mapChargeReply makes of Paystack's answer when the reference is now
\* in the state s there: an unreachable answer and a success both stay
\* pending; a step only the checkout can take is a failure of this attempt.
ReplyFor(r, s) ==
    {"pending"}
    \cup (IF s \in {"absent", "open", "failed"} THEN {"failed"} ELSE {})
    \cup (IF s = "open" /\ kind[r] = "mobile_money" THEN {"needs_otp"} ELSE {})

\* chargeMobileMoney or chargeAuthorization for a saved method.
ChargeSaved(r) ==
    /\ r \in starting /\ kind[r] # "hosted"
    /\ starting' = starting \ {r}
    /\ \E s \in RemoteStates : \E to \in ReplyFor(r, s) :
          /\ remote' = [remote EXCEPT ![r] = s]
          /\ replies' = replies \cup {[ref |-> r, to |-> to]}
    /\ UNCHANGED <<payment, paidRef, status, kind, past, asks>>

\* submitOtp: the row and the payment are read without a lock, the code goes
\* to Paystack, and the answer is written later.
SubmitOtp(r) ==
    /\ ~IsPaid
    /\ status[r] = "needs_otp"
    /\ \E s \in IF remote[r] = "open" THEN RemoteStates \ {"absent"}
                                      ELSE {remote[r]} :
       \E to \in ReplyFor(r, s) :
          /\ remote' = [remote EXCEPT ![r] = s]
          /\ replies' = replies \cup {[ref |-> r, to |-> to]}
    /\ UNCHANGED <<payment, paidRef, status, kind, past, starting, asks>>

\* Mutant: the reply is written over whatever the row says by now.
ApplyReplyAnyStatus(p) ==
    /\ p \in replies
    /\ replies' = replies \ {p}
    /\ status' = [status EXCEPT ![p.ref] = p.to]
    /\ UNCHANGED <<payment, paidRef, kind, past, remote, starting, asks>>

\* applyReply, and initializePayment's release of a checkout that did not
\* open: written only while the attempt is still active.
ApplyReply(p) ==
    /\ p \in replies
    /\ replies' = replies \ {p}
    /\ status' = IF status[p.ref] \in Active
                 THEN [status EXCEPT ![p.ref] = p.to] ELSE status
    /\ UNCHANGED <<payment, paidRef, kind, past, remote, starting, asks>>

-----------------------------------------------------------------------------
(* Checking with Paystack *)

\* Answers of verifyTransaction that are not a success.  A refused request
\* reads as "no such transaction" whatever the reason for the refusal.
NonSuccess(r) ==
    (IF remote[r] \in {"open", "failed"} THEN {remote[r]} ELSE {})
    \cup (IF remote[r] = "absent" \/ Refusals THEN {"not_found"} ELSE {})

\* reconcile, up to the answer, when the answer will release the attempt: it
\* is past its window, or it is a saved charge that Paystack says failed.
\* (A success settles, see Settle; no answer leaves the attempt active.)
Ask(r) ==
    /\ status[r] \in Active
    /\ \E a \in NonSuccess(r) :
          LET savedFailed == kind[r] # "hosted" /\ a = "failed"
          IN /\ past[r] \/ savedFailed
             /\ asks' = asks \cup
                  {[ref |-> r, to |-> IF savedFailed THEN "failed"
                                                     ELSE "expired"]}
    /\ UNCHANGED <<payment, paidRef, status, kind, past, remote,
                   starting, replies>>

\* release: only if the attempt is still active.
Release(q) ==
    /\ q \in asks
    /\ asks' = asks \ {q}
    /\ status' = IF status[q.ref] \in Active
                 THEN [status EXCEPT ![q.ref] = q.to] ELSE status
    /\ UNCHANGED <<payment, paidRef, kind, past, remote, starting, replies>>

\* Mutant: an attempt given up earlier counts as handled.
HandledOrReleased == {"succeeded", "duplicate", "failed", "expired"}

\* An attempt whose success was recorded before.
Handled == {"succeeded", "duplicate"}

\* Mutant: a refunded or cancelled payment is taken for an unpaid one.
OwedUnlessHeld == payment # "HELD"

\* The payment still waits for money.
Owed == payment = "PENDING"

\* applyChargeSuccess for a charge.success webhook (delivered any number of
\* times), a verify or a reconcile, under the payment's lock.  A reference
\* with no row must be the payment's own: linkPaymentReference first inserts
\* an expired row for it.
Settle(r) ==
    /\ remote[r] \in {"success", "mismatch"}
    /\ status[r] # "none" \/ r = OwnRef
    /\ LET linked == [status EXCEPT
                        ![r] = IF @ = "none" THEN "expired" ELSE @]
       IN IF remote[r] = "mismatch" \/ linked[r] \in Handled
          THEN status' = linked /\ UNCHANGED <<payment, paidRef>>
          ELSE IF Owed
          THEN /\ payment' = "HELD"
               /\ paidRef' = r
               /\ status' = [linked EXCEPT ![r] = "succeeded"]
          ELSE /\ status' = [linked EXCEPT
                               ![r] = IF HoldsMoney(r) THEN "succeeded"
                                                       ELSE "duplicate"]
               /\ UNCHANGED <<payment, paidRef>>
    /\ UNCHANGED <<kind, past, remote, starting, replies, asks>>

\* cancelPayment, when Paystack takes the refund.
CancelPayment ==
    /\ payment \in {"PENDING", "HELD"}
    /\ payment' = IF payment = "HELD" THEN "REFUNDED" ELSE "CANCELLED"
    /\ UNCHANGED <<paidRef, status, kind, past, remote, starting,
                   replies, asks>>

-----------------------------------------------------------------------------
(* The environment *)

\* The customer, the bank or the network finishes an open transaction,
\* whatever this side thinks of the attempt by now.
Finish(r) ==
    /\ remote[r] = "open"
    /\ \E s \in {"success", "mismatch", "failed"} :
          remote' = [remote EXCEPT ![r] = s]
    /\ UNCHANGED <<payment, paidRef, status, kind, past, starting,
                   replies, asks>>

WindowPasses(r) ==
    /\ status[r] \in Active /\ ~past[r]
    /\ past' = [past EXCEPT ![r] = TRUE]
    /\ UNCHANGED <<payment, paidRef, status, kind, remote, starting,
                   replies, asks>>

\* The process dies: what its requests were about to do is never done.
Crash ==
    /\ starting \cup replies \cup asks # {}
    /\ starting' = {} /\ replies' = {} /\ asks' = {}
    /\ UNCHANGED <<dbVars, remote>>

Next ==
    \/ \E r \in Refs : \/ \E k \in Kinds : Claim(r, k)
                       \/ OpenCheckout(r) \/ ChargeSaved(r) \/ SubmitOtp(r)
                       \/ Ask(r) \/ Settle(r)
                       \/ Finish(r) \/ WindowPasses(r)
    \/ \E p \in replies : ApplyReply(p)
    \/ \E q \in asks : Release(q)
    \/ CancelPayment
    \/ Crash

\* No step is fair: the customer need never come back, and charge.success
\* may never arrive (payments.service.ts:1063-1065).
Spec == Init /\ [][Next]_vars

-----------------------------------------------------------------------------
(* Properties *)

\* At most one attempt's row is active: the rule that
\* uq_payment_charges_one_active backs, kept by every late reply, release
\* and claim.  (A released attempt may still be finished at Paystack; what
\* becomes of that success is MoneyAccounted's.)
OneActiveAttempt ==
    \A r, s \in ActiveRefs : r = s

\* The money the payment row claims to hold was taken by Paystack, and every
\* other successful reference that was settled is a duplicate: nothing the
\* customer paid is counted twice or dropped.
MoneyAccounted ==
    /\ payment = "HELD" => paidRef # NoRef
    /\ paidRef # NoRef => remote[paidRef] = "success"
    /\ \A r \in Refs :
         /\ status[r] = "succeeded" => paidRef = r
         /\ status[r] = "duplicate" => paidRef # r /\ remote[r] = "success"

\* Once a reference holds the job's money no other ever replaces it, whatever
\* webhooks, cancellations and crashes follow.
HolderNeverReplaced == [][paidRef # NoRef => paidRef' = paidRef]_vars

\* A settled attempt is never reopened, released or re-judged by a reply or
\* a verify that was under way when it settled.
SettledStays ==
    [][\A r \in Refs : status[r] \in {"succeeded", "duplicate"}
                         => status'[r] = status[r]]_vars
=============================================================================
