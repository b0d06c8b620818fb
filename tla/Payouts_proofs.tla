---------------------------- MODULE Payouts_proofs ----------------------------
(***************************************************************************)
(* Proofs about Payouts, for any number of callers, handlers, transfers,   *)
(* payout methods and faults, any amount and any cap on checks.            *)
(***************************************************************************)
EXTENDS Payouts, TLAPS

\* A name check under way that matched did so of a method that was confirmed.
MatchesTrue ==
    \A c \in Callers : check[c] # Idle /\ check[c].outcome = "match"
                         => check[c].method \in matched

\* What a status and a refunded amount say is true of Paystack.
ClaimTrue(status, refunded) ==
    /\ status = "RELEASED" =>
         \E n \in Transfers : remote[n] \in {"success", "reversed"}
    /\ refunded <= refunds
    /\ status = "REFUNDED" => refunds = Amount

\* So it is of the row, and of each stale row that may still be saved over it.
ClaimsTrue ==
    /\ ClaimTrue(pay.status, pay.refunded)
    /\ \A h \in Handlers : saving[h] # Idle =>
         /\ ClaimTrue(saving[h].row.status, saving[h].row.refunded)
         /\ ClaimTrue(saving[h].to, saving[h].row.refunded)

\* The scheduler's column and the number of checks agree in a row.
CapKept(row) ==
    row.hold = "check_pending" => (row.next <=> row.checks < MaxChecks)

CapsKept ==
    /\ CapKept(pay)
    /\ \A h \in Handlers : saving[h] # Idle => CapKept(saving[h].row)

Gone(row) == /\ row.transfer \in Transfers
             /\ remote[row.transfer] \in {"failed", "reversed"}

\* Without faults the only live transfer is the one the row names, and the
\* row's status keeps any capture away from it; a webhook that is about to
\* make the payment capturable again speaks of a transfer that is gone.
NoFaults == lost = 0 /\ clobbers = 0

LiveIsNamed ==
    NoFaults =>
      /\ \A n \in Transfers : Live(n) =>
           /\ n = pay.transfer /\ pay.code
           /\ pay.status \in {"HELD", "RELEASED", "REFUNDED"}
      /\ \A h \in Handlers : saving[h] # Idle =>
           \/ saving[h].to \in {"RELEASED", saving[h].row.status}
           \/ saving[h].to = "TRANSFER_FAILED" /\ Gone(saving[h].row)

\* The inductive invariant: each property of the row is also one of the rows
\* that handlers have read and will save.
IInv == /\ TypeOK
        /\ MatchesTrue
        /\ SentOnlyIfMatched
        /\ ClaimsTrue
        /\ CapsKept
        /\ LiveIsNamed

-----------------------------------------------------------------------------
\* A payment that was just made HELD satisfies it.
LEMMA InitIInv == Init => IInv
<1> SUFFICES ASSUME Init PROVE IInv
  OBVIOUS
<1> USE AmountAssumption, ChecksAssumption, BoundsAssumption DEF Init
<1>1. TypeOK
  BY DEF TypeOK, Rows, PaymentStatuses, Capturable, Holds, TransferStates,
         NoTransfer
<1>2. MatchesTrue /\ SentOnlyIfMatched
  BY DEF MatchesTrue, SentOnlyIfMatched
<1>3. ClaimsTrue /\ CapsKept
  BY DEF ClaimsTrue, ClaimTrue, CapsKept, CapKept
<1>4. LiveIsNamed
  BY DEF LiveIsNamed, Live
<1> QED BY <1>1, <1>2, <1>3, <1>4 DEF IInv

\* Clearing a hold gives a row.
LEMMA NoHoldType == \A row \in Rows : NoHold(row) \in Rows
  BY DEF NoHold, Rows, Holds

\* A refund's status and amount make a row of a row.
LEMMA RefundedType ==
    \A row \in Rows, s \in PaymentStatuses, x \in 0..Amount :
        [row EXCEPT !.refunded = x, !.status = s] \in Rows
  BY DEF Rows

\* What a refund leaves of the row and of Paystack's refunds has its type.
LEMMA RefundType ==
    ASSUME TypeOK, NEW x \in 1..Amount, NEW row \in Rows,
           RefundOutcome(x, row)
    PROVE  pay' \in Rows /\ refunds' \in 0..Amount /\ lost' \in Nat
  BY AmountAssumption DEF TypeOK, RefundOutcome

\* Every step keeps the types.
LEMMA TypeStep == TypeOK /\ [Next]_vars => TypeOK'
<1> SUFFICES ASSUME TypeOK, [Next]_vars PROVE TypeOK'
  OBVIOUS
<1> USE AmountAssumption, ChecksAssumption, BoundsAssumption
<1>1. ASSUME NEW c \in Callers, Precheck(c) PROVE TypeOK'
  BY <1>1 DEF Precheck, TypeOK, Checks, Outcomes, profileVars, paystackVars
<1>2. ASSUME NEW c \in Callers, Begin(c),
             pay' \in Rows, UNCHANGED <<profileVars, saving, paystackVars,
                                        lost, clobbers>>
      PROVE  TypeOK'
  BY <1>2 DEF Begin, TypeOK, profileVars, paystackVars
<1>3. ASSUME NEW c \in Callers, Capture(c) PROVE TypeOK'
  <2>1. NoHold(pay) \in Rows
    BY NoHoldType DEF TypeOK
  <2>2. CASE CaptureSkipped(c)
    BY <1>2, <2>2 DEF CaptureSkipped, TypeOK
  <2>3. CASE CaptureWithoutMethod(c)
    BY <1>2, <2>1, <2>3
    DEF CaptureWithoutMethod, Rows, PaymentStatuses, Capturable
  <2>4. CASE CaptureHolds(c)
    BY <1>2, <2>1, <2>4
    DEF CaptureHolds, Rows, PaymentStatuses, Capturable, Holds
  <2>5. CASE CaptureWaits(c)
    <3>1. ChecksAfter \in Nat
      BY DEF ChecksAfter, TypeOK, Rows
    <3>2. NextCheck(ChecksAfter) \in BOOLEAN
      BY DEF NextCheck
    <3> HIDE DEF NextCheck, ChecksAfter
    <3>3. pay' \in Rows
      BY <2>5, <3>1, <3>2 DEF CaptureWaits, TypeOK, Rows, PaymentStatuses,
                              Capturable, Holds
    <3> QED BY <1>2, <2>5, <3>3 DEF CaptureWaits
  <2>6. CASE CaptureSends(c)
    <3>1. PICK n \in Transfers :
            LET row == [NoHold(pay) EXCEPT !.status = "HELD", !.transfer = n]
                failed == [row EXCEPT !.status = "TRANSFER_FAILED"]
                sent == /\ remote' = [remote EXCEPT ![n] = "sent"]
                        /\ payee' = [payee EXCEPT ![n] = method]
            IN  \/ pay' = [row EXCEPT !.code = TRUE] /\ sent /\ UNCHANGED lost
                \/ pay' = failed /\ UNCHANGED <<remote, payee, lost>>
                \/ pay' \in {failed, pay} /\ sent /\ lost' = lost + 1
      BY <2>6 DEF CaptureSends
    <3> DEFINE row == [NoHold(pay) EXCEPT !.status = "HELD", !.transfer = n]
               failed == [row EXCEPT !.status = "TRANSFER_FAILED"]
    <3>2. row \in Rows
      BY <2>1 DEF Rows, PaymentStatuses, Capturable
    <3>3. failed \in Rows /\ [row EXCEPT !.code = TRUE] \in Rows
      BY <3>2 DEF Rows, PaymentStatuses, Capturable
    <3>4. pay' \in Rows
      BY <3>1, <3>3 DEF TypeOK
    <3>5. /\ remote' \in [Transfers -> TransferStates]
          /\ payee' \in [Transfers -> Methods \cup {NoMethod}]
          /\ lost' \in Nat
      BY <3>1 DEF TypeOK, TransferStates
    <3> QED BY <2>6, <3>4, <3>5 DEF CaptureSends, Begin, TypeOK, profileVars
  <2> QED BY <1>3, <2>2, <2>3, <2>4, <2>5, <2>6 DEF Capture
<1>4. CASE SetupMethod
  BY <1>4 DEF SetupMethod, TypeOK, Methods, NoMethod, paystackVars
<1>5. ASSUME NEW x \in 1..Amount, AdminRefund(x) PROVE TypeOK'
  <2>1. [pay EXCEPT !.refunded = pay.refunded + x,
                    !.status = StatusAfterRefund(pay.status, x)] \in Rows
    <3>1. pay \in Rows /\ pay.refunded + x \in 0..Amount
      BY <1>5 DEF AdminRefund, TypeOK, Rows
    <3>2. StatusAfterRefund(pay.status, x) \in PaymentStatuses
      BY <1>5 DEF AdminRefund, StatusAfterRefund, PaymentStatuses, Capturable
    <3> QED BY <3>1, <3>2, RefundedType
  <2>2. pay' \in Rows /\ refunds' \in 0..Amount /\ lost' \in Nat
    BY <1>5, <2>1, RefundType DEF AdminRefund
  <2> QED BY <1>5, <2>2 DEF AdminRefund, TypeOK, profileVars
<1>6. CASE CancelPayment
  <2>1. [pay EXCEPT !.status = "REFUNDED", !.refunded = Amount] \in Rows
    <3>1. pay \in Rows /\ Amount \in 0..Amount
      BY DEF TypeOK
    <3>2. [pay EXCEPT !.status = "REFUNDED", !.refunded = Amount]
            = [pay EXCEPT !.refunded = Amount, !.status = "REFUNDED"]
      BY <3>1 DEF Rows
    <3> QED BY <3>1, <3>2, RefundedType DEF PaymentStatuses
  <2>2. pay' \in Rows /\ refunds' \in 0..Amount /\ lost' \in Nat
    BY <1>6, <2>1, RefundType DEF CancelPayment
  <2> QED BY <1>6, <2>2 DEF CancelPayment, TypeOK, profileVars
<1>7. ASSUME NEW h \in Handlers, NEW to \in PaymentStatuses, Read(h, to)
      PROVE  TypeOK'
  BY <1>7 DEF Read, TypeOK, Saves, profileVars, paystackVars
<1>8. ASSUME NEW h \in Handlers, NEW n \in Transfers,
             TransferSuccess(h, n) \/ TransferFailed(h, n)
      PROVE  TypeOK'
  BY <1>7, <1>8
  DEF TransferSuccess, TransferFailed, PaymentStatuses, Capturable
<1>9. ASSUME NEW h \in Handlers, FraudFlag(h) PROVE TypeOK'
  BY <1>7, <1>9 DEF FraudFlag, TypeOK, Rows
<1>10. ASSUME NEW h \in Handlers, Save(h) PROVE TypeOK'
  <2>1. saving[h] \in Saves
    BY <1>10 DEF Save, TypeOK
  <2>2. pay' \in Rows
    BY <1>10, <2>1 DEF Save, TypeOK, Saves, Rows
  <2>3. clobbers' \in Nat
    BY <1>10 DEF Save, TypeOK
  <2> QED BY <1>10, <2>2, <2>3 DEF Save, TypeOK, profileVars, paystackVars
<1>11. ASSUME NEW n \in Transfers, TransferEnds(n) PROVE TypeOK'
  BY <1>11 DEF TransferEnds, TypeOK, TransferStates, profileVars
<1>12. CASE UNCHANGED vars
  BY <1>12 DEF vars, TypeOK
<1> QED
  BY <1>1, <1>3, <1>4, <1>5, <1>6, <1>8, <1>9, <1>10, <1>11, <1>12 DEF Next

-----------------------------------------------------------------------------
\* What Paystack did is never undone: a transfer that succeeded did, one that
\* failed stays failed, and refunds only grow.
LEMMA PaystackFinal ==
    ASSUME TypeOK, [Next]_vars
    PROVE  /\ \A n \in Transfers :
                /\ remote[n] \in {"success", "reversed"}
                     => remote'[n] \in {"success", "reversed"}
                /\ remote[n] \in {"failed", "reversed"}
                     => remote'[n] \in {"failed", "reversed"}
           /\ refunds <= refunds' /\ refunds' <= Amount
<1> USE AmountAssumption DEF TypeOK
<1>1. ASSUME NEW c \in Callers, CaptureSends(c)
      PROVE  /\ \A n \in Transfers : remote[n] # "absent" => remote'[n] = remote[n]
             /\ refunds' = refunds
  BY <1>1 DEF CaptureSends
<1>2. ASSUME NEW n \in Transfers, TransferEnds(n)
      PROVE  /\ \A m \in Transfers :
                  /\ remote[m] \in {"success", "reversed"}
                       => remote'[m] \in {"success", "reversed"}
                  /\ remote[m] \in {"failed", "reversed"}
                       => remote'[m] \in {"failed", "reversed"}
             /\ refunds' = refunds
  BY <1>2 DEF TransferEnds
<1>3. ASSUME NEW x \in 1..Amount, NEW row, RefundOutcome(x, row)
      PROVE  refunds <= refunds' /\ refunds' <= Amount
  BY <1>3 DEF RefundOutcome
<1>4. CASE CancelPayment
  BY <1>3, <1>4 DEF CancelPayment
<1>5. ASSUME NEW x \in 1..Amount, AdminRefund(x)
      PROVE  remote' = remote /\ refunds <= refunds' /\ refunds' <= Amount
  BY <1>3, <1>5 DEF AdminRefund
<1>6. CASE UNCHANGED <<remote, refunds>>
  BY <1>6
<1> QED
  BY <1>1, <1>2, <1>4, <1>5, <1>6
  DEF Next, Capture, Precheck, CaptureSkipped, CaptureWithoutMethod,
      CaptureHolds, CaptureWaits, SetupMethod, CancelPayment, TransferSuccess,
      TransferFailed, FraudFlag, Read, Save, paystackVars, vars

\* No transfer goes where no name was confirmed: the method of the check that
\* matched is the method on file when the transfer goes out.
LEMMA MatchStep ==
    ASSUME TypeOK, MatchesTrue, SentOnlyIfMatched, [Next]_vars
    PROVE  MatchesTrue' /\ SentOnlyIfMatched'
<1> DEFINE Goal == MatchesTrue' /\ SentOnlyIfMatched'
<1> USE DEF MatchesTrue, SentOnlyIfMatched, TypeOK
<1>1. ASSUME NEW c \in Callers, Precheck(c) PROVE Goal
  BY <1>1 DEF Precheck, paystackVars
<1>2. ASSUME NEW c \in Callers, Begin(c), UNCHANGED <<matched, remote, payee>>
      PROVE  Goal
  BY <1>2 DEF Begin
<1>3. ASSUME NEW c \in Callers, CaptureSends(c) PROVE Goal
  <2>1. method \in matched
    BY <1>3 DEF CaptureSends, Begin, OutcomeNow
  <2>2. PICK n \in Transfers :
           \/ UNCHANGED <<remote, payee>>
           \/ /\ remote' = [remote EXCEPT ![n] = "sent"]
              /\ payee' = [payee EXCEPT ![n] = method]
    BY <1>3 DEF CaptureSends
  <2> QED BY <1>3, <2>1, <2>2 DEF CaptureSends, Begin, profileVars
<1>4. CASE SetupMethod
  BY <1>4 DEF SetupMethod, paystackVars
<1>5. ASSUME NEW n \in Transfers, TransferEnds(n) PROVE Goal
  BY <1>5 DEF TransferEnds, profileVars
<1>6. CASE UNCHANGED <<check, matched, remote, payee>>
  BY <1>6
<1> QED
  BY <1>1, <1>2, <1>3, <1>4, <1>5, <1>6
  DEF Next, Capture, CaptureSkipped, CaptureWithoutMethod, CaptureHolds,
      CaptureWaits, AdminRefund, CancelPayment, TransferSuccess,
      TransferFailed, FraudFlag, Read, Save, profileVars, paystackVars, vars

\* What was true of Paystack stays true of it.
LEMMA ClaimStays ==
    ASSUME TypeOK, [Next]_vars
    PROVE  \A s \in PaymentStatuses, x \in 0..Amount :
              ClaimTrue(s, x) =>
                /\ s = "RELEASED" =>
                     \E n \in Transfers : remote'[n] \in {"success", "reversed"}
                /\ x <= refunds'
                /\ s = "REFUNDED" => refunds' = Amount
<1>1. refunds' \in 0..Amount
  BY TypeStep DEF TypeOK
<1> QED BY <1>1, PaystackFinal, AmountAssumption DEF ClaimTrue, TypeOK

\* A row and a status that a handler still may save.
LEMMA SavingType ==
    ASSUME TypeOK, NEW h \in Handlers, saving[h] # Idle
    PROVE  saving[h].row \in Rows /\ saving[h].to \in PaymentStatuses
  BY DEF TypeOK, Saves

\* Rows and stale rows go on telling the truth if a step leaves the handlers
\* alone and writes a row that does.
LEMMA ClaimsKept ==
    ASSUME TypeOK, ClaimsTrue, [Next]_vars, UNCHANGED saving,
           ClaimTrue(pay.status, pay.refunded)'
    PROVE  ClaimsTrue'
<1> SUFFICES ASSUME NEW h \in Handlers, saving[h] # Idle
             PROVE  /\ ClaimTrue(saving[h].row.status, saving[h].row.refunded)'
                    /\ ClaimTrue(saving[h].to, saving[h].row.refunded)'
  BY DEF ClaimsTrue
<1>1. /\ saving[h].row.status \in PaymentStatuses
      /\ saving[h].row.refunded \in 0..Amount
      /\ saving[h].to \in PaymentStatuses
  BY SavingType DEF Rows
<1>2. /\ ClaimTrue(saving[h].row.status, saving[h].row.refunded)
      /\ ClaimTrue(saving[h].to, saving[h].row.refunded)
  BY DEF ClaimsTrue
<1> QED BY <1>1, <1>2, ClaimStays DEF ClaimTrue

\* The claims survive each step: a refund is written only when Paystack took
\* it, RELEASED only when a transfer succeeded, and what a stale row says of
\* Paystack does not become false while it waits to be saved.
LEMMA ClaimsStep ==
    ASSUME TypeOK, ClaimsTrue, [Next]_vars PROVE ClaimsTrue'
<1> USE AmountAssumption
<1>1. pay.status \in PaymentStatuses /\ pay.refunded \in 0..Amount
  BY DEF TypeOK, Rows
<1>2. ClaimTrue(pay.status, pay.refunded)
  BY DEF ClaimsTrue
<1>3. ASSUME pay'.status \in Capturable \cup {pay.status},
             pay'.refunded = pay.refunded
      PROVE  ClaimTrue(pay.status, pay.refunded)'
  BY <1>1, <1>2, <1>3, ClaimStays DEF ClaimTrue, Capturable
<1>4. ASSUME NEW c \in Callers, Capture(c) PROVE ClaimsTrue'
  <2>1. /\ pay'.status \in Capturable \cup {pay.status}
        /\ pay'.refunded = pay.refunded
    <3>1. pay \in Rows
      BY DEF TypeOK
    <3>2. CASE CaptureSends(c)
      <4>1. PICK n \in Transfers :
              LET row == [NoHold(pay) EXCEPT !.status = "HELD", !.transfer = n]
                  failed == [row EXCEPT !.status = "TRANSFER_FAILED"]
              IN pay' \in {[row EXCEPT !.code = TRUE], failed, pay}
        BY <3>2 DEF CaptureSends
      <4> QED BY <3>1, <4>1 DEF NoHold, Rows, Capturable
    <3>3. CASE CaptureSkipped(c)
      BY <3>3 DEF CaptureSkipped
    <3>4. CASE CaptureWithoutMethod(c) \/ CaptureHolds(c) \/ CaptureWaits(c)
      BY <3>1, <3>4 DEF CaptureWithoutMethod, CaptureHolds, CaptureWaits,
                        NoHold, Rows, Capturable
    <3> QED BY <1>4, <3>2, <3>3, <3>4 DEF Capture
  <2>2. UNCHANGED saving
    BY <1>4 DEF Capture, CaptureSkipped, CaptureWithoutMethod, CaptureHolds,
                CaptureWaits, CaptureSends
  <2> QED BY <1>3, <2>1, <2>2, ClaimsKept
<1>5. ASSUME NEW x \in 1..Amount, AdminRefund(x) PROVE ClaimsTrue'
  <2>1. CASE UNCHANGED pay
    BY <1>3, <1>5, <2>1, ClaimsKept DEF AdminRefund
  <2>2. CASE /\ refunds + x <= Amount /\ refunds' = refunds + x
             /\ pay' = [pay EXCEPT !.refunded = pay.refunded + x,
                                   !.status = StatusAfterRefund(pay.status, x)]
    <3>1. /\ pay'.refunded = pay.refunded + x
          /\ pay'.status = StatusAfterRefund(pay.status, x)
      BY <2>2 DEF TypeOK, Rows
    <3>2. ClaimTrue(pay.status, pay.refunded)'
      BY <1>1, <1>2, <1>5, <2>2, <3>1, ClaimStays
      DEF ClaimTrue, AdminRefund, StatusAfterRefund, TypeOK
    <3> QED BY <1>5, <3>2, ClaimsKept DEF AdminRefund
  <2> QED BY <1>5, <2>1, <2>2 DEF AdminRefund, RefundOutcome
<1>6. CASE CancelPayment
  <2>1. CASE UNCHANGED pay
    BY <1>3, <1>6, <2>1, ClaimsKept DEF CancelPayment
  <2>2. CASE /\ refunds + Amount <= Amount /\ refunds' = refunds + Amount
             /\ pay' = [pay EXCEPT !.status = "REFUNDED", !.refunded = Amount]
    <3>1. pay'.refunded = Amount /\ pay'.status = "REFUNDED"
      BY <2>2 DEF TypeOK, Rows
    <3>2. ClaimTrue(pay.status, pay.refunded)'
      BY <2>2, <3>1 DEF ClaimTrue, TypeOK
    <3> QED BY <1>6, <3>2, ClaimsKept DEF CancelPayment
  <2> QED BY <1>6, <2>1, <2>2 DEF CancelPayment, RefundOutcome
<1>7. ASSUME NEW h \in Handlers, NEW to \in PaymentStatuses, Read(h, to),
             ClaimTrue(to, pay.refunded)
      PROVE  ClaimsTrue'
  <2> SUFFICES ASSUME NEW g \in Handlers, saving'[g] # Idle
               PROVE  /\ ClaimTrue(saving[g].row.status, saving[g].row.refunded)'
                      /\ ClaimTrue(saving[g].to, saving[g].row.refunded)'
    BY <1>2, <1>7 DEF ClaimsTrue, ClaimTrue, Read, paystackVars
  <2>1. CASE g = h
    BY <1>2, <1>7, <2>1 DEF Read, ClaimTrue, TypeOK, paystackVars
  <2>2. CASE g # h
    BY <1>7, <2>2 DEF Read, ClaimsTrue, ClaimTrue, TypeOK, paystackVars
  <2> QED BY <2>1, <2>2
<1>8. ASSUME NEW h \in Handlers, NEW n \in Transfers, TransferSuccess(h, n)
      PROVE  ClaimsTrue'
  <2>1. ClaimTrue("RELEASED", pay.refunded)
    BY <1>2, <1>8 DEF ClaimTrue, TransferSuccess
  <2> QED BY <1>7, <1>8, <2>1 DEF TransferSuccess, PaymentStatuses
<1>9. ASSUME NEW h \in Handlers, NEW n \in Transfers, TransferFailed(h, n)
      PROVE  ClaimsTrue'
  <2>1. ClaimTrue("TRANSFER_FAILED", pay.refunded)
    BY <1>2 DEF ClaimTrue
  <2> QED BY <1>7, <1>9, <2>1 DEF TransferFailed, PaymentStatuses, Capturable
<1>10. ASSUME NEW h \in Handlers, FraudFlag(h) PROVE ClaimsTrue'
  BY <1>1, <1>2, <1>7, <1>10 DEF FraudFlag
<1>11. ASSUME NEW h \in Handlers, Save(h) PROVE ClaimsTrue'
  <2>1. saving[h].row \in Rows /\ saving[h].to \in PaymentStatuses
    BY <1>11, SavingType DEF Save
  <2>2. /\ ClaimTrue(saving[h].row.status, saving[h].row.refunded)
        /\ ClaimTrue(saving[h].to, saving[h].row.refunded)
    BY <1>11 DEF Save, ClaimsTrue
  <2>3. /\ pay'.status \in {saving[h].to, pay.status}
        /\ pay'.refunded \in {saving[h].row.refunded, pay.refunded}
    BY <1>11, <2>1 DEF Save, TypeOK, Rows
  <2>4. UNCHANGED <<remote, refunds>>
    BY <1>11 DEF Save, paystackVars
  <2>5. ClaimTrue(pay.status, pay.refunded)'
    BY <1>2, <2>2, <2>3, <2>4 DEF ClaimTrue
  <2>6. ASSUME NEW g \in Handlers, saving'[g] # Idle
        PROVE  saving[g] # Idle /\ saving'[g] = saving[g]
    BY <1>11, <2>6 DEF Save, TypeOK
  <2> QED BY <2>4, <2>5, <2>6 DEF ClaimsTrue, ClaimTrue
<1>12. ASSUME UNCHANGED <<pay, saving>> PROVE ClaimsTrue'
  BY <1>3, <1>12, ClaimsKept
<1> QED
  BY <1>4, <1>5, <1>6, <1>8, <1>9, <1>10, <1>11, <1>12
  DEF Next, Precheck, SetupMethod, TransferEnds, vars

-----------------------------------------------------------------------------
\* The scheduler's column follows the number of checks in every row that is
\* written, a stale one included.
LEMMA CapStep ==
    ASSUME TypeOK, CapsKept, [Next]_vars PROVE CapsKept'
<1> USE DEF CapKept
<1>1. pay \in Rows /\ CapKept(pay)
  BY DEF TypeOK, CapsKept
<1>2. ASSUME CapKept(pay)', UNCHANGED saving PROVE CapsKept'
  BY <1>2 DEF CapsKept
<1>3. ASSUME NEW c \in Callers, Capture(c) PROVE CapsKept'
  <2>1. UNCHANGED saving
    BY <1>3 DEF Capture, CaptureSkipped, CaptureWithoutMethod, CaptureHolds,
                CaptureWaits, CaptureSends
  <2>2. CASE CaptureSkipped(c)
    BY <1>1, <1>2, <2>1, <2>2 DEF CaptureSkipped
  <2>3. CASE CaptureWithoutMethod(c) \/ CaptureHolds(c)
    <3>1. pay'.hold \in {"none", "artisan_action"}
      BY <1>1, <2>3 DEF CaptureWithoutMethod, CaptureHolds, NoHold, Rows
    <3> QED BY <1>2, <2>1, <3>1
  <2>4. CASE CaptureWaits(c)
    <3>1. pay'.next = NextCheck(ChecksAfter) /\ pay'.checks = ChecksAfter
      <4> HIDE DEF NextCheck, ChecksAfter
      <4> QED BY <1>1, <2>4 DEF CaptureWaits, Rows
    <3> QED BY <1>2, <2>1, <3>1 DEF NextCheck
  <2>5. CASE CaptureSends(c)
    <3>1. PICK n \in Transfers :
            LET row == [NoHold(pay) EXCEPT !.status = "HELD", !.transfer = n]
                failed == [row EXCEPT !.status = "TRANSFER_FAILED"]
            IN pay' \in {[row EXCEPT !.code = TRUE], failed, pay}
      BY <2>5 DEF CaptureSends
    <3>2. pay'.hold = "none" \/ pay' = pay
      BY <1>1, <3>1 DEF NoHold, Rows
    <3> QED BY <1>1, <1>2, <2>1, <3>2
  <2> QED BY <1>3, <2>2, <2>3, <2>4, <2>5 DEF Capture
<1>4. ASSUME NEW x \in 1..Amount, AdminRefund(x) PROVE CapsKept'
  <2>1. CapKept(pay)'
    BY <1>1, <1>4 DEF AdminRefund, RefundOutcome, Rows
  <2> QED BY <1>2, <1>4, <2>1 DEF AdminRefund
<1>5. CASE CancelPayment
  <2>1. CapKept(pay)'
    BY <1>1, <1>5 DEF CancelPayment, RefundOutcome, Rows
  <2> QED BY <1>2, <1>5, <2>1 DEF CancelPayment
<1>6. ASSUME NEW h \in Handlers, NEW to, Read(h, to) PROVE CapsKept'
  BY <1>1, <1>6 DEF Read, CapsKept, TypeOK
<1>7. ASSUME NEW h \in Handlers, Save(h) PROVE CapsKept'
  <2>1. saving[h].row \in Rows /\ CapKept(saving[h].row)
    BY <1>7, SavingType DEF Save, CapsKept
  <2>2. CapKept(pay)'
    BY <1>1, <1>7, <2>1 DEF Save, Rows
  <2>3. ASSUME NEW g \in Handlers, saving'[g] # Idle
        PROVE  saving[g] # Idle /\ saving'[g] = saving[g]
    BY <1>7, <2>3 DEF Save, TypeOK
  <2> QED BY <2>2, <2>3 DEF CapsKept
<1>8. CASE UNCHANGED <<pay, saving>>
  BY <1>8 DEF CapsKept
<1> QED
  BY <1>3, <1>4, <1>5, <1>6, <1>7, <1>8
  DEF Next, Precheck, SetupMethod, TransferSuccess, TransferFailed, FraudFlag,
      TransferEnds, vars

-----------------------------------------------------------------------------
\* The two parts of LiveIsNamed.
NamedInRow ==
    \A n \in Transfers : Live(n) =>
        /\ n = pay.transfer /\ pay.code
        /\ pay.status \in {"HELD", "RELEASED", "REFUNDED"}

SavesSafe ==
    \A h \in Handlers : saving[h] # Idle =>
        \/ saving[h].to \in {"RELEASED", saving[h].row.status}
        \/ saving[h].to = "TRANSFER_FAILED" /\ Gone(saving[h].row)

\* Faults are only ever added.
LEMMA FaultsCount == ASSUME TypeOK, [Next]_vars, NoFaults' PROVE NoFaults
<1>1. ASSUME NEW c \in Callers, CaptureSends(c)
      PROVE  lost' \in {lost, lost + 1} /\ clobbers' = clobbers
  BY <1>1 DEF CaptureSends
<1>2. ASSUME NEW x, NEW row, RefundOutcome(x, row)
      PROVE  lost' \in {lost, lost + 1}
  BY <1>2 DEF RefundOutcome
<1>3. ASSUME NEW h \in Handlers, Save(h)
      PROVE  lost' = lost /\ clobbers' \in {clobbers, clobbers + 1}
  BY <1>3 DEF Save
<1>4. lost' \in {lost, lost + 1} /\ clobbers' \in {clobbers, clobbers + 1}
  BY <1>1, <1>2, <1>3
  DEF Next, Precheck, Capture, CaptureSkipped, CaptureWithoutMethod,
      CaptureHolds, CaptureWaits, SetupMethod, AdminRefund, CancelPayment,
      TransferSuccess, TransferFailed, FraudFlag, Read, TransferEnds, vars
<1> QED BY <1>4 DEF NoFaults, TypeOK

\* What a webhook read stays safe to save: a transfer that is gone is gone.
LEMMA SavesStep ==
    ASSUME TypeOK, SavesSafe, [Next]_vars PROVE SavesSafe'
<1> SUFFICES ASSUME NEW h \in Handlers, saving'[h] # Idle
             PROVE  \/ saving'[h].to \in {"RELEASED", saving'[h].row.status}
                    \/ /\ saving'[h].to = "TRANSFER_FAILED"
                       /\ Gone(saving[h].row)'
  BY DEF SavesSafe
<1>1. \A n \in Transfers : remote[n] \in {"failed", "reversed"}
                             => remote'[n] \in {"failed", "reversed"}
  BY PaystackFinal
<1>2. CASE saving[h] # Idle /\ saving'[h] = saving[h]
  BY <1>1, <1>2 DEF SavesSafe, Gone
<1>3. ASSUME NEW n \in Transfers, TransferSuccess(h, n)
      PROVE  saving'[h].to = "RELEASED"
  BY <1>3 DEF TransferSuccess, Read, TypeOK
<1>4. ASSUME NEW n \in Transfers, TransferFailed(h, n)
      PROVE  saving'[h].to = "TRANSFER_FAILED" /\ Gone(saving[h].row)'
  BY <1>4 DEF TransferFailed, Read, Gone, Concerns, TypeOK, paystackVars
<1>5. ASSUME FraudFlag(h) PROVE saving'[h].to = saving'[h].row.status
  BY <1>5 DEF FraudFlag, Read, TypeOK
<1>6. CASE saving'[h] # saving[h] \/ saving[h] = Idle
  <2>1. \/ \E n \in Transfers : TransferSuccess(h, n) \/ TransferFailed(h, n)
        \/ FraudFlag(h)
    BY <1>6 DEF Next, Precheck, Capture, CaptureSkipped, CaptureWithoutMethod,
                CaptureHolds, CaptureWaits, CaptureSends, SetupMethod,
                AdminRefund, CancelPayment, TransferSuccess, TransferFailed,
                FraudFlag, Read, Save, TransferEnds, TypeOK, vars
  <2> QED BY <1>3, <1>4, <1>5, <2>1
<1> QED BY <1>2, <1>6

\* As long as nothing is lost and no save lands on a change, a transfer goes
\* out only when no other lives, and the row that names it keeps captures away.
LEMMA LiveStep ==
    ASSUME TypeOK, NoFaults, NoFaults', NamedInRow, SavesSafe, [Next]_vars
    PROVE  NamedInRow'
<1> USE DEF NamedInRow, Live
<1>1. pay \in Rows /\ remote \in [Transfers -> TransferStates]
  BY DEF TypeOK
<1>2. ASSUME NEW c \in Callers, Capture(c) PROVE NamedInRow'
  <2>1. CASE CaptureSkipped(c)
    BY <2>1 DEF CaptureSkipped, paystackVars
  <2>2. CASE ~CaptureSkipped(c)
    <3>1. \A n \in Transfers : ~Live(n)
      <4>1. CanCapture
        BY <1>2, <2>2 DEF Capture, CaptureWithoutMethod, CaptureHolds,
                          CaptureWaits, CaptureSends
      <4> QED BY <4>1 DEF CanCapture, InFlight, Capturable
    <3>2. CASE CaptureSends(c)
      <4>1. PICK n \in Transfers :
              \/ UNCHANGED remote
              \/ /\ pay' = [[NoHold(pay) EXCEPT !.status = "HELD",
                                               !.transfer = n]
                             EXCEPT !.code = TRUE]
                 /\ remote' = [remote EXCEPT ![n] = "sent"]
              \/ lost' = lost + 1
        BY <3>2 DEF CaptureSends
      <4>2. CASE UNCHANGED remote
        BY <3>1, <4>2
      <4>3. CASE /\ pay' = [[NoHold(pay) EXCEPT !.status = "HELD",
                                               !.transfer = n]
                             EXCEPT !.code = TRUE]
                 /\ remote' = [remote EXCEPT ![n] = "sent"]
        <5>1. pay'.status = "HELD" /\ pay'.transfer = n /\ pay'.code
          BY <1>1, <4>3 DEF NoHold, Rows
        <5> QED BY <1>1, <3>1, <4>3, <5>1
      <4>4. lost' # lost + 1
        BY DEF NoFaults
      <4> QED BY <4>1, <4>2, <4>3, <4>4
    <3>3. CASE UNCHANGED remote
      BY <3>1, <3>3
    <3> QED BY <1>2, <2>2, <3>2, <3>3
            DEF Capture, CaptureWithoutMethod, CaptureHolds, CaptureWaits,
                paystackVars
  <2> QED BY <2>1, <2>2
<1>3. ASSUME NEW x \in 1..Amount, AdminRefund(x) PROVE NamedInRow'
  <2>1. /\ pay'.transfer = pay.transfer /\ pay'.code = pay.code
        /\ pay'.status \in {"REFUNDED", pay.status}
    BY <1>1, <1>3 DEF AdminRefund, RefundOutcome, StatusAfterRefund, Rows
  <2> QED BY <1>3, <2>1 DEF AdminRefund
<1>4. CASE CancelPayment
  <2>1. /\ pay'.transfer = pay.transfer /\ pay'.code = pay.code
        /\ pay'.status \in {"REFUNDED", pay.status}
    BY <1>1, <1>4 DEF CancelPayment, RefundOutcome, Rows
  <2> QED BY <1>4, <2>1 DEF CancelPayment
<1>5. ASSUME NEW h \in Handlers, Save(h) PROVE NamedInRow'
  <2>1. pay = saving[h].row /\ saving[h] # Idle /\ UNCHANGED remote
    BY <1>5 DEF Save, NoFaults, TypeOK, paystackVars
  <2>2. /\ pay'.transfer = pay.transfer /\ pay'.code = pay.code
        /\ pay'.status \in {saving[h].to, pay.status}
    BY <1>1, <1>5, <2>1 DEF Save, Rows
  <2>3. CASE saving[h].to = "TRANSFER_FAILED" /\ Gone(pay)
    BY <2>1, <2>2, <2>3 DEF Gone
  <2>4. CASE saving[h].to \in {"RELEASED", pay.status}
    BY <2>1, <2>2, <2>4
  <2> QED BY <2>1, <2>3, <2>4 DEF SavesSafe
<1>6. ASSUME NEW n \in Transfers, TransferEnds(n) PROVE NamedInRow'
  BY <1>1, <1>6 DEF TransferEnds
<1>7. CASE UNCHANGED <<pay, remote>>
  BY <1>7
<1> QED
  BY <1>2, <1>3, <1>4, <1>5, <1>6, <1>7
  DEF Next, Precheck, SetupMethod, TransferSuccess, TransferFailed, FraudFlag,
      Read, paystackVars, vars

-----------------------------------------------------------------------------
\* The inductive invariant is inductive.
LEMMA StepIInv == IInv /\ [Next]_vars => IInv'
<1> SUFFICES ASSUME IInv, [Next]_vars PROVE IInv'
  OBVIOUS
<1>1. TypeOK'
  BY TypeStep DEF IInv
<1>2. MatchesTrue' /\ SentOnlyIfMatched'
  BY MatchStep DEF IInv
<1>3. ClaimsTrue'
  BY ClaimsStep DEF IInv
<1>4. CapsKept'
  BY CapStep DEF IInv
<1>5. LiveIsNamed'
  <2> SUFFICES ASSUME NoFaults' PROVE NamedInRow' /\ SavesSafe'
    BY DEF LiveIsNamed, NamedInRow, SavesSafe
  <2>1. NoFaults
    BY FaultsCount DEF IInv
  <2>2. NamedInRow /\ SavesSafe
    BY <2>1 DEF IInv, LiveIsNamed, NamedInRow, SavesSafe
  <2> QED BY <2>1, <2>2, LiveStep, SavesStep DEF IInv
<1> QED BY <1>1, <1>2, <1>3, <1>4, <1>5 DEF IInv

\* In every reachable state a payout went out only for a matched account, under
\* a claim that is still true, and inside the cap on attempts.
THEOREM Invariant == Spec => []IInv
  BY InitIInv, StepIInv, PTL DEF Spec

\* Type correctness: the row's columns keep their value sets through captures,
\* refunds, webhooks and stale saves.
THEOREM TypeCorrect == Spec => []TypeOK
<1>1. IInv => TypeOK
  BY DEF IInv
<1> QED BY Invariant, <1>1, PTL

\* Every transfer of capturePayment goes to an account whose name Paystack
\* confirmed, however often the artisan changes the payout details.
THEOREM OnlyMatched == Spec => []SentOnlyIfMatched
<1>1. IInv => SentOnlyIfMatched
  BY DEF IInv
<1> QED BY Invariant, <1>1, PTL

\* The payment row never says that money moved which did not, whatever stale
\* row a webhook or a fraud flag saves over it.
THEOREM ClaimsSafe == Spec => []MoneyClaimsTrue
<1>1. IInv => MoneyClaimsTrue
  BY DEF IInv, ClaimsTrue, ClaimTrue, MoneyClaimsTrue
<1> QED BY Invariant, <1>1, PTL

\* Without a lost answer and without a save over a change, no capture, retry
\* or webhook lets a second transfer out while one is alive.
THEOREM OneTransfer == Spec => []AtMostOneLive
<1>1. IInv => AtMostOneLive
  BY DEF IInv, LiveIsNamed, NoFaults, AtMostOneLive
<1> QED BY Invariant, <1>1, PTL

\* The scheduler is asked for another name check exactly below the cap.
THEOREM CapHolds == Spec => []StopsAtCap
<1>1. IInv => StopsAtCap
  BY DEF IInv, CapsKept, CapKept, StopsAtCap
<1> QED BY Invariant, <1>1, PTL

-----------------------------------------------------------------------------
(* The same money refunded and paid out *)

\* A refund is made while no transfer is alive, an admin's of all that is left;
\* and no webhook or flag is saved over the status REFUNDED.
RefundsAlone ==
    (\E x \in 1..Amount : AdminRefund(x)) \/ CancelPayment
      => \A n \in Transfers : ~Live(n)
RefundsAll == \A x \in 1..Amount : AdminRefund(x) => x = Amount - pay.refunded
RefundedStays ==
    \A h \in Handlers : Save(h) /\ pay.status = "REFUNDED"
                            => pay'.status = "REFUNDED"
CarefulRefunds == [][RefundsAlone /\ RefundsAll /\ RefundedStays]_vars

\* What the customer got back is not also on its way to the artisan.
RefundedOrPaid == refunds > 0 => \A n \in Transfers : ~Live(n)

\* And the row says so: that is what keeps captures away from then on.
RefundedSaid == refunds > 0 => pay.status = "REFUNDED"

\* A refund that Paystack took and answered leaves the payment REFUNDED.
LEMMA RefundSays ==
    ASSUME TypeOK, NoFaults', [Next]_vars, RefundsAll,
           (\E x \in 1..Amount : AdminRefund(x)) \/ CancelPayment
    PROVE  pay'.status = "REFUNDED" /\ remote' = remote
<1>0. pay \in Rows /\ pay.refunded \in 0..Amount /\ lost \in Nat
  BY DEF TypeOK, Rows
<1>1. lost' # lost + 1
  BY <1>0 DEF NoFaults
<1>2. ASSUME NEW x \in 1..Amount, AdminRefund(x)
      PROVE  pay'.status = "REFUNDED" /\ remote' = remote
  <2>1. pay' = [pay EXCEPT !.refunded = pay.refunded + x,
                           !.status = StatusAfterRefund(pay.status, x)]
    BY <1>1, <1>2 DEF AdminRefund, RefundOutcome
  <2>2. pay'.status = StatusAfterRefund(pay.status, x)
    BY <1>0, <2>1 DEF Rows
  <2>3. pay.refunded + x >= Amount
    BY <1>0, <1>2, AmountAssumption DEF RefundsAll
  <2> QED BY <1>2, <2>2, <2>3 DEF StatusAfterRefund, AdminRefund
<1>3. CASE CancelPayment
  <2>1. pay' = [pay EXCEPT !.status = "REFUNDED", !.refunded = Amount]
    BY <1>1, <1>3 DEF CancelPayment, RefundOutcome
  <2> QED BY <1>0, <1>3, <2>1 DEF CancelPayment, Rows
<1> QED BY <1>2, <1>3

\* Once it is, no capture sends it out again.
LEMMA RefundedStep ==
    ASSUME TypeOK, NoFaults', [Next]_vars, RefundedOrPaid, RefundedSaid,
           RefundsAlone, RefundsAll, RefundedStays
    PROVE  RefundedOrPaid' /\ RefundedSaid'
<1> SUFFICES ASSUME refunds' > 0
             PROVE  /\ \A n \in Transfers : remote'[n] \notin {"sent", "success"}
                    /\ pay'.status = "REFUNDED"
  BY DEF RefundedOrPaid, RefundedSaid, Live
<1> DEFINE Goal == /\ \A n \in Transfers : remote'[n] \notin {"sent", "success"}
                   /\ pay'.status = "REFUNDED"
           Before == /\ \A n \in Transfers : remote[n] \notin {"sent", "success"}
                     /\ pay.status = "REFUNDED"
<1>1. ASSUME (\E x \in 1..Amount : AdminRefund(x)) \/ CancelPayment
      PROVE  Goal
  <2>1. pay'.status = "REFUNDED" /\ remote' = remote
    BY <1>1, RefundSays
  <2> QED BY <1>1, <2>1 DEF RefundsAlone, Live
<1>2. ASSUME UNCHANGED refunds PROVE Before
  BY <1>2 DEF RefundedOrPaid, RefundedSaid, Live
<1>3. ASSUME UNCHANGED <<pay, remote, refunds>> PROVE Goal
  BY <1>2, <1>3
<1>4. ASSUME NEW c \in Callers, Capture(c) PROVE Goal
  <2>1. UNCHANGED refunds
    BY <1>4 DEF Capture, CaptureSkipped, CaptureWithoutMethod, CaptureHolds,
                CaptureWaits, CaptureSends, paystackVars
  <2>2. ~CanCapture
    BY <1>2, <2>1 DEF CanCapture, Capturable
  <2> QED BY <1>3, <1>4, <2>2
          DEF Capture, CaptureSkipped, CaptureWithoutMethod, CaptureHolds,
              CaptureWaits, CaptureSends, paystackVars
<1>5. ASSUME NEW h \in Handlers, Save(h) PROVE Goal
  <2>1. UNCHANGED <<remote, refunds>>
    BY <1>5 DEF Save, paystackVars
  <2> QED BY <1>2, <1>5, <2>1 DEF RefundedStays
<1>6. ASSUME NEW n \in Transfers, TransferEnds(n) PROVE Goal
  <2>1. Before /\ UNCHANGED pay
    BY <1>2, <1>6 DEF TransferEnds
  <2>2. remote' = [remote EXCEPT ![n] = "reversed"]
    BY <1>6, <2>1 DEF TransferEnds
  <2> QED BY <2>1, <2>2 DEF TypeOK
<1>7. ASSUME UNCHANGED <<pay, paystackVars>> PROVE Goal
  BY <1>3, <1>7 DEF paystackVars
<1>8. ASSUME \/ \E c \in Callers : Precheck(c)
             \/ SetupMethod
             \/ \E h \in Handlers, n \in Transfers :
                    TransferSuccess(h, n) \/ TransferFailed(h, n)
             \/ \E h \in Handlers : FraudFlag(h)
             \/ UNCHANGED vars
      PROVE  Goal
  BY <1>7, <1>8 DEF Precheck, SetupMethod, TransferSuccess, TransferFailed,
                    FraudFlag, Read, paystackVars, vars
<1> HIDE DEF Goal
<1>9. Goal
  BY <1>1, <1>4, <1>5, <1>6, <1>8 DEF Next
<1> QED BY <1>9 DEF Goal

\* Without faults, were refunds made so, no payment would be both refunded, in
\* part or in full, and paid out.  What makes the artisan's capture send money
\* the customer got back is therefore one of: a partial refund that leaves the
\* payment HELD (adminRefund), a refund while a transfer is out, a transfer
\* webhook saved over REFUNDED, or a fault.
THEOREM NotRefundedAndPaid ==
    Spec /\ CarefulRefunds => [](NoFaults => RefundedOrPaid)
<1> DEFINE Kept == NoFaults => RefundedOrPaid /\ RefundedSaid
           Shown == NoFaults => RefundedOrPaid
<1>1. Init => Kept
  BY DEF Init, RefundedOrPaid, RefundedSaid
<1>2. IInv /\ Kept /\ [Next]_vars
      /\ [RefundsAlone /\ RefundsAll /\ RefundedStays]_vars => Kept'
  <2> SUFFICES ASSUME IInv, Kept, [Next]_vars, NoFaults',
                      [RefundsAlone /\ RefundsAll /\ RefundedStays]_vars
               PROVE  RefundedOrPaid' /\ RefundedSaid'
    OBVIOUS
  <2>1. TypeOK /\ RefundedOrPaid /\ RefundedSaid
    BY FaultsCount DEF IInv
  <2>2. CASE UNCHANGED vars
    BY <2>1, <2>2 DEF RefundedOrPaid, RefundedSaid, Live, vars
  <2>3. CASE RefundsAlone /\ RefundsAll /\ RefundedStays
    BY <2>1, <2>3, RefundedStep
  <2> QED BY <2>2, <2>3
<1>3. Kept => Shown
  OBVIOUS
<1> HIDE DEF Kept, Shown
<1>4. Spec /\ CarefulRefunds => []Shown
  BY Invariant, <1>1, <1>2, <1>3, PTL DEF Spec, CarefulRefunds
<1> QED BY <1>4 DEF Shown
=============================================================================
