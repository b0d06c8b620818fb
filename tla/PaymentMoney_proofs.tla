------------------------- MODULE PaymentMoney_proofs -------------------------
(***************************************************************************)
(* Proofs about PaymentAttempts, for any set of references, any saved      *)
(* methods, and a Paystack that may refuse any verify; and about           *)
(* PaymentMoney, which composes it with DuplicateRefund.                   *)
(***************************************************************************)
EXTENDS PaymentMoney, TLAPS

\* A paid payment names the reference that paid it, an unpaid one names none.
PaidNamesHolder ==
    /\ IsPaid => paidRef # NoRef
    /\ payment = "PENDING" => paidRef = NoRef

\* Paystack has not seen an attempt whose call is still to be made.
StartingUnseen == \A r \in starting : remote[r] = "absent"

\* The inductive invariant: the two safety properties need to know that an
\* unpaid payment has no holder, and that a call about to start cannot undo a
\* success at Paystack.
IInv ==
    /\ TypeOK
    /\ OneActiveAttempt
    /\ MoneyAccounted
    /\ PaidNamesHolder
    /\ StartingUnseen

\* The initial states satisfy the inductive invariant: no attempt yet, and a
\* payment made before attempts were tracked already names its reference.
LEMMA InitIInv == Init => IInv
<1> SUFFICES ASSUME Init PROVE IInv
  OBVIOUS
<1> USE RefsAssumption, KindsAssumption DEF Init
<1>1. TypeOK
  BY DEF TypeOK, PaymentStatuses, ChargeStatuses, Kinds, RemoteStates
<1>2. OneActiveAttempt
  BY DEF OneActiveAttempt, ActiveRefs, Active
<1>3. MoneyAccounted
  BY DEF MoneyAccounted
<1>4. PaidNamesHolder /\ StartingUnseen
  BY DEF PaidNamesHolder, StartingUnseen, IsPaid
<1> QED BY <1>1, <1>2, <1>3, <1>4 DEF IInv

\* Every step keeps the types.
LEMMA TypeStep == TypeOK /\ [Next]_vars => TypeOK'
<1> SUFFICES ASSUME TypeOK, [Next]_vars PROVE TypeOK'
  OBVIOUS
<1> USE RefsAssumption
        DEF TypeOK, PaymentStatuses, ChargeStatuses, RemoteStates, Active
<1>1. ASSUME NEW r \in Refs, NEW k \in Kinds, Claim(r, k) PROVE TypeOK'
  BY <1>1 DEF Claim
<1>2. ASSUME NEW r \in Refs, OpenCheckout(r) PROVE TypeOK'
  BY <1>2 DEF OpenCheckout, Replies
<1>3. ASSUME NEW r \in Refs, ChargeSaved(r) PROVE TypeOK'
  <2>1. PICK s \in RemoteStates : \E to \in ReplyFor(r, s) :
             /\ remote' = [remote EXCEPT ![r] = s]
             /\ replies' = replies \cup {[ref |-> r, to |-> to]}
    BY <1>3 DEF ChargeSaved
  <2>2. ReplyFor(r, s) \subseteq {"pending", "needs_otp", "failed"}
    BY DEF ReplyFor
  <2> QED BY <1>3, <2>1, <2>2 DEF ChargeSaved, Replies
<1>4. ASSUME NEW r \in Refs, SubmitOtp(r) PROVE TypeOK'
  <2>1. PICK s \in RemoteStates : \E to \in ReplyFor(r, s) :
             /\ remote' = [remote EXCEPT ![r] = s]
             /\ replies' = replies \cup {[ref |-> r, to |-> to]}
    BY <1>4 DEF SubmitOtp
  <2>2. ReplyFor(r, s) \subseteq {"pending", "needs_otp", "failed"}
    BY DEF ReplyFor
  <2> QED BY <1>4, <2>1, <2>2 DEF SubmitOtp, Replies
<1>5. ASSUME NEW r \in Refs, Ask(r) PROVE TypeOK'
  BY <1>5 DEF Ask, Asks
<1>6. ASSUME NEW r \in Refs, Settle(r) PROVE TypeOK'
  BY <1>6 DEF Settle, Owed, Handled
<1>7. ASSUME NEW r \in Refs, Finish(r) PROVE TypeOK'
  BY <1>7 DEF Finish
<1>8. ASSUME NEW r \in Refs, WindowPasses(r) PROVE TypeOK'
  BY <1>8 DEF WindowPasses
<1>9. ASSUME NEW p \in replies, ApplyReply(p) PROVE TypeOK'
  BY <1>9 DEF ApplyReply, Replies
<1>10. ASSUME NEW q \in asks, Release(q) PROVE TypeOK'
  BY <1>10 DEF Release, Asks
<1>11. CASE CancelPayment
  BY <1>11 DEF CancelPayment
<1>12. CASE Crash
  BY <1>12 DEF Crash, dbVars
<1>13. CASE UNCHANGED vars
  BY <1>13 DEF vars
<1> QED
  BY <1>1, <1>2, <1>3, <1>4, <1>5, <1>6, <1>7, <1>8, <1>9, <1>10, <1>11,
     <1>12, <1>13 DEF Next

\* Success at Paystack is final: no step of ours or of Paystack's takes a
\* reference out of it.
LEMMA SuccessFinal ==
    ASSUME TypeOK, StartingUnseen, [Next]_vars,
           NEW x \in Refs, remote[x] = "success"
    PROVE  remote'[x] = "success"
<1> USE DEF TypeOK, StartingUnseen
<1>1. ASSUME NEW r \in Refs, OpenCheckout(r) PROVE remote'[x] = "success"
  BY <1>1 DEF OpenCheckout
<1>2. ASSUME NEW r \in Refs, ChargeSaved(r) PROVE remote'[x] = "success"
  BY <1>2 DEF ChargeSaved
<1>3. ASSUME NEW r \in Refs, SubmitOtp(r) PROVE remote'[x] = "success"
  BY <1>3 DEF SubmitOtp
<1>4. ASSUME NEW r \in Refs, Finish(r) PROVE remote'[x] = "success"
  BY <1>4 DEF Finish
<1>5. ASSUME UNCHANGED remote PROVE remote'[x] = "success"
  BY <1>5
<1> QED
  BY <1>1, <1>2, <1>3, <1>4, <1>5
  DEF Next, Claim, ApplyReply, Ask, Release, Settle, CancelPayment,
      WindowPasses, Crash, dbVars, vars

\* A call that is still to be made stays unseen by Paystack.
LEMMA StartingStep ==
    TypeOK /\ StartingUnseen /\ [Next]_vars => StartingUnseen'
<1> SUFFICES ASSUME TypeOK, StartingUnseen, [Next]_vars
             PROVE  StartingUnseen'
  OBVIOUS
<1> USE DEF TypeOK, StartingUnseen
<1>1. ASSUME NEW r \in Refs, NEW k \in Kinds, Claim(r, k)
      PROVE  StartingUnseen'
  BY <1>1 DEF Claim
<1>2. ASSUME NEW r \in Refs, OpenCheckout(r) PROVE StartingUnseen'
  BY <1>2 DEF OpenCheckout
<1>3. ASSUME NEW r \in Refs, ChargeSaved(r) PROVE StartingUnseen'
  BY <1>3 DEF ChargeSaved
<1>4. ASSUME NEW r \in Refs, SubmitOtp(r) PROVE StartingUnseen'
  BY <1>4 DEF SubmitOtp
<1>5. ASSUME NEW r \in Refs, Finish(r) PROVE StartingUnseen'
  BY <1>5 DEF Finish
<1>6. CASE Crash
  BY <1>6 DEF Crash
<1>7. ASSUME UNCHANGED <<remote, starting>> PROVE StartingUnseen'
  BY <1>7
<1> QED
  BY <1>1, <1>2, <1>3, <1>4, <1>5, <1>6, <1>7
  DEF Next, ApplyReply, Ask, Release, Settle, CancelPayment, WindowPasses,
      vars

\* Only a claim makes an attempt active, and only when none is.
LEMMA ActiveStep ==
    ASSUME TypeOK, [Next]_vars
    PROVE  \/ ActiveRefs' \subseteq ActiveRefs
           \/ ActiveRefs = {} /\ \E r \in Refs : ActiveRefs' \subseteq {r}
<1> DEFINE Goal == \/ ActiveRefs' \subseteq ActiveRefs
                   \/ ActiveRefs = {} /\ \E r \in Refs : ActiveRefs' \subseteq {r}
<1> USE DEF TypeOK, ActiveRefs
<1>1. ASSUME NEW r \in Refs, NEW k \in Kinds, Claim(r, k) PROVE Goal
  BY <1>1 DEF Claim
<1>2. ASSUME NEW r \in Refs, Settle(r) PROVE Goal
  BY <1>2 DEF Settle, Owed, Handled, Active
<1>3. ASSUME NEW p \in replies, ApplyReply(p) PROVE Goal
  BY <1>3 DEF ApplyReply, Replies
<1>4. ASSUME NEW q \in asks, Release(q) PROVE Goal
  BY <1>4 DEF Release, Asks
<1>5. ASSUME UNCHANGED status PROVE Goal
  BY <1>5
<1> QED
  BY <1>1, <1>2, <1>3, <1>4, <1>5
  DEF Next, OpenCheckout, ChargeSaved, SubmitOtp, Ask, Finish, WindowPasses,
      CancelPayment, Crash, dbVars, vars

\* The money statements survive each step that moves money or statuses.
LEMMA MoneyStep ==
    ASSUME IInv, [Next]_vars PROVE MoneyAccounted' /\ PaidNamesHolder'
<1> DEFINE Goal == MoneyAccounted' /\ PaidNamesHolder'
<1> USE RefsAssumption
        DEF IInv, TypeOK, MoneyAccounted, PaidNamesHolder, IsPaid
<1>0. \A x \in Refs : remote[x] = "success" => remote'[x] = "success"
  BY SuccessFinal
<1>1. ASSUME NEW r \in Refs, Settle(r) PROVE Goal
  <2>1. UNCHANGED remote
    BY <1>1 DEF Settle
  <2>2. CASE payment = "PENDING" /\ payment' = "HELD"
    BY <1>1, <2>1, <2>2 DEF Settle, Owed, Handled
  <2>3. CASE UNCHANGED <<payment, paidRef>>
    BY <1>1, <2>1, <2>3 DEF Settle, Owed, Handled, HoldsMoney
  <2> QED BY <1>1, <2>2, <2>3 DEF Settle, Owed
<1>2. CASE CancelPayment
  BY <1>2 DEF CancelPayment, PaymentStatuses
<1>3. ASSUME NEW r \in Refs, NEW k \in Kinds, Claim(r, k) PROVE Goal
  BY <1>3 DEF Claim
<1>4. ASSUME NEW p \in replies, ApplyReply(p) PROVE Goal
  BY <1>4 DEF ApplyReply, Replies, Active
<1>5. ASSUME NEW q \in asks, Release(q) PROVE Goal
  BY <1>5 DEF Release, Asks, Active
<1>6. ASSUME UNCHANGED <<payment, paidRef, status>> PROVE Goal
  BY <1>0, <1>6
<1> QED
  BY <1>1, <1>2, <1>3, <1>4, <1>5, <1>6
  DEF Next, OpenCheckout, ChargeSaved, SubmitOtp, Ask, Finish, WindowPasses,
      Crash, dbVars, vars

\* The inductive invariant is inductive.
LEMMA StepIInv == IInv /\ [Next]_vars => IInv'
<1> SUFFICES ASSUME IInv, [Next]_vars PROVE IInv'
  OBVIOUS
<1>1. TypeOK'
  BY TypeStep DEF IInv
<1>2. OneActiveAttempt'
  BY ActiveStep DEF IInv, OneActiveAttempt
<1>3. MoneyAccounted' /\ PaidNamesHolder'
  BY MoneyStep
<1>4. StartingUnseen'
  BY StartingStep DEF IInv
<1> QED BY <1>1, <1>2, <1>3, <1>4 DEF IInv

\* In every reachable state a payment has at most one active attempt, a paid
\* payment names the attempt that holds its money, and the rest is accounted for.
THEOREM Invariant == Spec => []IInv
  BY InitIInv, StepIInv, PTL DEF Spec

\* Type correctness: the payment and attempt columns keep their value sets
\* in every behaviour of the handlers, Paystack and crashes.
THEOREM TypeCorrect == Spec => []TypeOK
<1>1. IInv => TypeOK
  BY DEF IInv
<1> QED BY Invariant, <1>1, PTL

\* At any time at most one attempt of a job can still take the customer's
\* money, however late replies and releases are written.
THEOREM OneActive == Spec => []OneActiveAttempt
<1>1. IInv => OneActiveAttempt
  BY DEF IInv
<1> QED BY Invariant, <1>1, PTL

\* The payment holds only money Paystack took, under one reference, and every
\* other settled success is a duplicate to refund.
THEOREM MoneySafe == Spec => []MoneyAccounted
<1>1. IInv => MoneyAccounted
  BY DEF IInv
<1> QED BY Invariant, <1>1, PTL

\* The reference that paid is never replaced.
THEOREM HolderStays == Spec => HolderNeverReplaced
<1>1. IInv /\ [Next]_vars => [paidRef # NoRef => paidRef' = paidRef]_vars
  BY DEF IInv, PaidNamesHolder, Next, Claim, OpenCheckout, ChargeSaved,
         SubmitOtp, ApplyReply, Ask, Release, Settle, Owed, Finish,
         WindowPasses, CancelPayment, Crash, dbVars, vars
<1> QED BY Invariant, <1>1, PTL DEF Spec, HolderNeverReplaced

\* A settled attempt stays settled, whatever was under way for it.
THEOREM SettledForGood == Spec => SettledStays
<1> DEFINE Stays == \A r \in Refs : status[r] \in {"succeeded", "duplicate"}
                                      => status'[r] = status[r]
<1>1. IInv /\ [Next]_vars => [Stays]_vars
  <2> SUFFICES ASSUME IInv, [Next]_vars PROVE [Stays]_vars
    OBVIOUS
  <2> USE DEF IInv, TypeOK
  <2>1. ASSUME NEW r \in Refs, NEW k \in Kinds, Claim(r, k) PROVE Stays
    BY <2>1 DEF Claim
  <2>2. ASSUME NEW r \in Refs, Settle(r) PROVE Stays
    BY <2>2 DEF Settle, Owed, Handled
  <2>3. ASSUME NEW p \in replies, ApplyReply(p) PROVE Stays
    BY <2>3 DEF ApplyReply, Active, Replies
  <2>4. ASSUME NEW q \in asks, Release(q) PROVE Stays
    BY <2>4 DEF Release, Active, Asks
  <2>5. ASSUME UNCHANGED status PROVE Stays
    BY <2>5
  <2> QED
    BY <2>1, <2>2, <2>3, <2>4, <2>5
    DEF Next, OpenCheckout, ChargeSaved, SubmitOtp, Ask, Finish,
        WindowPasses, CancelPayment, Crash, dbVars, vars
<1> QED BY Invariant, <1>1, PTL DEF Spec, SettledStays

-----------------------------------------------------------------------------
(* The composition with the refunds *)

\* What the refunds' rows and calls range over.
RefundsTyped ==
    /\ refund \in [Refs -> R!RefundStatuses]
    /\ tries \in [Refs -> Nat]
    /\ calls \subseteq [ref : Refs, try : Nat, ans : R!Answers]

\* What the two components keep together: the attempts' invariant, and refunds
\* of exactly the duplicates.
MoneyInv == IInv /\ RefundsTyped /\ RefundsAreDuplicates

\* A step of the attempts makes one reference a duplicate, or makes one that
\* is none the holder of a payment that had none, or does neither.
LEMMA AttemptSteps ==
    ASSUME IInv, Next
    PROVE  /\ \A x \in Refs : status[x] = "duplicate" => status'[x] = "duplicate"
           /\ \A x, y \in Refs :
                 /\ status[x] # "duplicate" /\ status'[x] = "duplicate"
                 /\ status[y] # "duplicate" /\ status'[y] = "duplicate"
                 => x = y
           /\ \/ paidRef' = paidRef
              \/ \E x \in Refs : /\ paidRef = NoRef /\ paidRef' = x
                                 /\ status[x] # "duplicate"
                                 /\ \A y \in Refs : status'[y] = "duplicate"
                                                    => status[y] = "duplicate"
<1> DEFINE Only == \A y \in Refs : status'[y] = "duplicate"
                                     => status[y] = "duplicate"
           Goal == /\ \A x \in Refs : status[x] = "duplicate"
                                        => status'[x] = "duplicate"
                   /\ \A x, y \in Refs :
                         /\ status[x] # "duplicate" /\ status'[x] = "duplicate"
                         /\ status[y] # "duplicate" /\ status'[y] = "duplicate"
                         => x = y
                   /\ \/ paidRef' = paidRef
                      \/ \E x \in Refs : /\ paidRef = NoRef /\ paidRef' = x
                                         /\ status[x] # "duplicate"
                                         /\ Only
<1> USE DEF IInv, TypeOK
<1>1. ASSUME NEW r \in Refs, NEW k \in Kinds, Claim(r, k) PROVE Goal
  BY <1>1 DEF Claim
<1>2. ASSUME NEW r \in Refs, Settle(r) PROVE Goal
  <2>1. CASE UNCHANGED paidRef
    BY <1>2, <2>1 DEF Settle, Owed, Handled
  <2>2. CASE ~UNCHANGED paidRef
    <3>1. /\ payment = "PENDING" /\ paidRef' = r /\ status[r] # "duplicate"
          /\ \A y \in Refs : status'[y] = IF y = r THEN "succeeded"
                                                   ELSE status[y]
      BY <1>2, <2>2 DEF Settle, Owed, Handled
    <3>2. paidRef = NoRef
      BY <3>1 DEF PaidNamesHolder
    <3> QED BY <3>1, <3>2
  <2> QED BY <2>1, <2>2
<1>3. ASSUME NEW p \in replies, ApplyReply(p) PROVE Goal
  BY <1>3 DEF ApplyReply, Active, Replies
<1>4. ASSUME NEW q \in asks, Release(q) PROVE Goal
  BY <1>4 DEF Release, Active, Asks
<1>5. ASSUME UNCHANGED <<status, paidRef>> PROVE Goal
  BY <1>5
<1> QED
  BY <1>1, <1>2, <1>3, <1>4, <1>5
  DEF Next, OpenCheckout, ChargeSaved, SubmitOtp, Ask, Finish,
      WindowPasses, CancelPayment, Crash, dbVars, vars

\* A step of the refund service keeps the types and never makes a refund of
\* what had none, nor the reverse.
LEMMA RefundSteps ==
    ASSUME MoneyInv, RefundStep PROVE RefundsTyped' /\ RefundsAreDuplicates'
<1> DEFINE Same == \A x \in Refs : refund'[x] = "none" <=> refund[x] = "none"
           Typed == refund' \in [Refs -> R!RefundStatuses]
<1> USE DEF MoneyInv, RefundsTyped, R!RefundStatuses, R!Due
<1>1. UNCHANGED vars
  BY DEF RefundStep
<1>2. ASSUME NEW r \in Refs, R!Lease(r) PROVE RefundsTyped' /\ Same
  <2>1. calls' \subseteq [ref : Refs, try : Nat, ans : R!Answers]
        /\ tries' \in [Refs -> Nat]
    BY <1>2 DEF R!Lease, R!Leasable, R!HoldsMoney, R!Answers
  <2>2. Typed /\ Same
    BY <1>2 DEF R!Lease, R!Leasable, R!HoldsMoney
  <2> QED BY <2>1, <2>2
<1>3. ASSUME NEW r \in Refs, R!FallDue(r) PROVE RefundsTyped' /\ Same
  BY <1>3 DEF R!FallDue
<1>4. ASSUME NEW r \in Refs, R!WebhookPending(r) \/ R!WebhookProcessed(r)
                             \/ R!WebhookFailed(r) \/ R!Conclude(r)
      PROVE  RefundsTyped' /\ Same
  BY <1>4 DEF R!WebhookPending, R!WebhookProcessed, R!WebhookFailed,
     R!Conclude
<1>5. ASSUME NEW c \in calls, R!CallPaystack(c) PROVE RefundsTyped' /\ Same
  <2>1. PICK a \in R!Answers : calls' = (calls \ {c}) \cup {[c EXCEPT !.ans = a]}
    BY <1>5 DEF R!CallPaystack, R!Answer, R!Answers
  <2>2. c \in [ref : Refs, try : Nat, ans : R!Answers]
    OBVIOUS
  <2>3. [c EXCEPT !.ans = a] \in [ref : Refs, try : Nat, ans : R!Answers]
    BY <2>1, <2>2
  <2>4. UNCHANGED <<refund, tries>>
    BY <1>5 DEF R!CallPaystack
  <2> QED BY <2>1, <2>3, <2>4
<1>6. ASSUME NEW c \in calls, R!WriteAnswer(c) PROVE RefundsTyped' /\ Same
  <2>1. c.ref \in Refs /\ c.ans \in {"requested", "processed", "error"}
    BY <1>6 DEF R!WriteAnswer, R!Answers
  <2>2. Typed /\ Same
    BY <1>6, <2>1 DEF R!WriteAnswer, R!AwaitsAnswer, R!StatusAfter
  <2>3. calls' \subseteq calls /\ UNCHANGED tries
    BY <1>6 DEF R!WriteAnswer
  <2> QED BY <2>2, <2>3
<1>7. ASSUME NEW c \in calls, R!LoseCall(c) PROVE RefundsTyped' /\ Same
  BY <1>7 DEF R!LoseCall
<1>8. RefundsTyped' /\ Same
  BY <1>2, <1>3, <1>4, <1>5, <1>6, <1>7 DEF RefundStep, R!RefundNext
<1> QED BY <1>1, <1>8 DEF RefundsAreDuplicates, vars

\* A step of the attempts makes the refund of the reference that it marks, and
\* of no other.
LEMMA MarkSteps ==
    ASSUME MoneyInv, AttemptStep PROVE RefundsTyped' /\ RefundsAreDuplicates'
<1> DEFINE marked == {r \in Refs : /\ status[r] # "duplicate"
                                   /\ status'[r] = "duplicate"}
<1> USE DEF MoneyInv, RefundsTyped, RefundsAreDuplicates
<1>1. /\ \A x \in Refs : status[x] = "duplicate" => status'[x] = "duplicate"
      /\ \A x, y \in marked : x = y
  BY AttemptSteps DEF AttemptStep
<1>2. CASE marked = {}
  BY <1>1, <1>2 DEF AttemptStep, refundVars
<1>3. CASE marked # {}
  <2>1. PICK r \in marked : R!BecomesDuplicate(r)
    BY <1>3 DEF AttemptStep
  <2>2. refund' = [refund EXCEPT ![r] = "pending"] /\ UNCHANGED <<tries, calls>>
    BY <2>1 DEF R!BecomesDuplicate
  <2> QED BY <1>1, <2>1, <2>2 DEF R!RefundStatuses, R!Due
<1> QED BY <1>2, <1>3

\* The joint invariant holds at first and is inductive.
LEMMA MoneyInvStep ==
    /\ MoneyInit => MoneyInv
    /\ MoneyInv /\ [MoneyNext]_allVars => MoneyInv'
<1>1. ASSUME MoneyInit PROVE MoneyInv
  <2>1. IInv
    BY <1>1, InitIInv DEF MoneyInit
  <2>2. RefundsTyped /\ RefundsAreDuplicates
    BY <1>1 DEF MoneyInit, Init, R!Init, RefundsTyped, RefundsAreDuplicates,
       R!RefundStatuses, R!Due
  <2> QED BY <2>1, <2>2 DEF MoneyInv
<1>2. ASSUME MoneyInv, AttemptStep PROVE MoneyInv'
  BY <1>2, MarkSteps, StepIInv DEF MoneyInv, AttemptStep
<1>3. ASSUME MoneyInv, RefundStep PROVE MoneyInv'
  BY <1>3, RefundSteps, StepIInv DEF MoneyInv, RefundStep
<1>4. ASSUME MoneyInv, UNCHANGED allVars PROVE MoneyInv'
  <2>1. IInv'
    BY <1>4, StepIInv DEF MoneyInv, allVars
  <2>2. UNCHANGED <<refund, tries, calls, status>>
    BY <1>4 DEF allVars, vars, refundVars
  <2> QED BY <1>4, <2>1, <2>2 DEF MoneyInv, RefundsTyped, RefundsAreDuplicates
<1> QED BY <1>1, <1>2, <1>3, <1>4 DEF MoneyNext

\* In every reachable state of the composition the attempts keep their own
\* invariant and each duplicate, and nothing else, has a refund.
THEOREM MoneyInvariant == MoneySpec => []MoneyInv
BY MoneyInvStep, PTL DEF MoneySpec

\* Refund bookkeeping sits on duplicates only, and every duplicate has it.
THEOREM Marked == MoneySpec => []RefundsAreDuplicates
<1>1. MoneyInv => RefundsAreDuplicates
  BY DEF MoneyInv
<1> QED BY MoneyInvariant, <1>1, PTL

\* The attempts and the refunds together implement what the refund service
\* is specified to meet: a settlement makes a holder only where there is
\* none, and marks a duplicate only where no refund is yet.
THEOREM Refinement == MoneySpec => ImplementsRefunds
<1>1. MoneyInit => R!Init
  BY DEF MoneyInit
<1>2. MoneyInv /\ [MoneyNext]_allVars => [R!Next]_(R!vars)
  <2> SUFFICES ASSUME MoneyInv, [MoneyNext]_allVars PROVE [R!Next]_(R!vars)
    OBVIOUS
  <2>0. MoneyInv'
    BY MoneyInvStep
  <2>1. Holder = paidRef /\ Holder' = paidRef'
    BY <2>0 DEF MoneyInv, IInv, PaidNamesHolder, Holder, IsPaid
  <2>2. ASSUME AttemptStep PROVE [R!Next]_(R!vars)
    <3> DEFINE marked == {r \in Refs : /\ status[r] # "duplicate"
                                       /\ status'[r] = "duplicate"}
    <3>1. CASE marked # {}
      BY <2>2, <3>1 DEF AttemptStep, R!Next
    <3>2. CASE marked = {} /\ paidRef' = paidRef
      BY <2>1, <2>2, <3>2 DEF AttemptStep, refundVars, R!vars
    <3>3. CASE marked = {} /\ paidRef' # paidRef
      <4>1. PICK x \in Refs : /\ paidRef = NoRef /\ paidRef' = x
                              /\ status[x] # "duplicate"
        BY <2>2, <3>3, AttemptSteps DEF MoneyInv, AttemptStep
      <4>2. refund[x] = "none"
        BY <4>1 DEF MoneyInv, RefundsAreDuplicates
      <4>3. UNCHANGED refundVars
        BY <2>2, <3>3 DEF AttemptStep
      <4>4. R!BecomesHolder(x)
        BY <2>1, <4>1, <4>2, <4>3 DEF R!BecomesHolder, refundVars
      <4> QED BY <4>4 DEF R!Next
    <3> QED BY <3>1, <3>2, <3>3
  <2>3. ASSUME RefundStep PROVE [R!Next]_(R!vars)
    BY <2>3 DEF RefundStep, R!Next
  <2>4. ASSUME UNCHANGED allVars PROVE [R!Next]_(R!vars)
    BY <2>1, <2>4 DEF allVars, vars, refundVars, R!vars
  <2> QED BY <2>2, <2>3, <2>4 DEF MoneyNext
<1> QED BY MoneyInvariant, <1>1, <1>2, PTL DEF MoneySpec, ImplementsRefunds

-----------------------------------------------------------------------------
(* Only money that Paystack took and the payment does not hold is refunded *)

\* A reference without a refund has no call under way and nothing at Paystack.
NoneMeansNothing ==
    /\ outcome \in [Refs -> R!Outcomes]
    /\ \A r \in Refs : refund[r] = "none" => R!CallsOf(r) = {} /\ outcome[r] = "none"

\* A settlement makes a refund due; it neither leases a call nor asks Paystack.
LEMMA AttemptRefundsNothing ==
    ASSUME MoneyInv, NoneMeansNothing, AttemptStep PROVE NoneMeansNothing'
<1>1. UNCHANGED <<calls, outcome>>
  BY DEF AttemptStep, refundVars, R!BecomesDuplicate
<1>2. \A r \in Refs : refund'[r] = "none" => refund[r] = "none"
  BY DEF AttemptStep, refundVars, R!BecomesDuplicate, MoneyInv, RefundsTyped
<1>3. \A r \in Refs : R!CallsOf(r)' = R!CallsOf(r)
  BY <1>1 DEF R!CallsOf
<1> QED BY <1>1, <1>2, <1>3 DEF NoneMeansNothing

\* A step of the refund service touches a reference that has a refund, and no
\* other.
LEMMA RefundTouchesRefunds ==
    ASSUME MoneyInv, NoneMeansNothing, RefundStep PROVE NoneMeansNothing'
<1> USE DEF MoneyInv, RefundsTyped, NoneMeansNothing, R!CallsOf, R!Outcomes
<1>0. RefundsTyped' /\ RefundsAreDuplicates' /\ UNCHANGED status
  BY RefundSteps DEF RefundStep, vars
<1>1. \A r \in Refs : refund'[r] = "none" => refund[r] = "none"
  BY <1>0 DEF RefundsAreDuplicates
<1>2. \A c \in calls : c.ref \in Refs /\ refund[c.ref] # "none"
  OBVIOUS
<1>3. ASSUME NEW r \in Refs, R!Lease(r) PROVE NoneMeansNothing'
  BY <1>1, <1>3 DEF R!Lease, R!Leasable, R!Due
<1>4. ASSUME NEW c \in calls, R!CallPaystack(c) PROVE NoneMeansNothing'
  <2>1. \A d \in calls' : d.ref = c.ref \/ d \in calls
    <3>1. PICK a \in R!Answers : calls' = (calls \ {c}) \cup {[c EXCEPT !.ans = a]}
      BY <1>4 DEF R!CallPaystack, R!Answer, R!Answers
    <3>2. [c EXCEPT !.ans = a].ref = c.ref
      OBVIOUS
    <3> QED BY <3>1, <3>2
  <2>2. /\ outcome' \in [Refs -> R!Outcomes]
        /\ \A r \in Refs : r # c.ref => outcome'[r] = outcome[r]
    BY <1>2, <1>4 DEF R!CallPaystack
  <2> QED BY <1>1, <1>2, <2>1, <2>2
<1>5. ASSUME NEW c \in calls, R!WriteAnswer(c) \/ R!LoseCall(c)
      PROVE  NoneMeansNothing'
  <2>1. calls' \subseteq calls /\ UNCHANGED outcome
    BY <1>5 DEF R!WriteAnswer, R!LoseCall
  <2> QED BY <1>1, <2>1
<1>6. ASSUME NEW r \in Refs, R!Conclude(r) PROVE NoneMeansNothing'
  BY <1>1, <1>6 DEF R!Conclude
<1>7. ASSUME UNCHANGED <<calls, outcome>> PROVE NoneMeansNothing'
  BY <1>1, <1>7
<1> QED
  BY <1>3, <1>4, <1>5, <1>6, <1>7
  DEF RefundStep, R!RefundNext, R!FallDue, R!WebhookPending,
      R!WebhookProcessed, R!WebhookFailed

\* Whatever is refunded, under way or at Paystack, is a duplicate.
LEMMA NothingInvariant == MoneySpec => []NoneMeansNothing
<1>1. MoneyInit => NoneMeansNothing
  BY DEF MoneyInit, R!Init, NoneMeansNothing, R!CallsOf, R!Outcomes
<1>2. MoneyInv /\ NoneMeansNothing /\ [MoneyNext]_allVars => NoneMeansNothing'
  <2>1. ASSUME NoneMeansNothing, UNCHANGED allVars PROVE NoneMeansNothing'
    BY <2>1 DEF allVars, refundVars, NoneMeansNothing, R!CallsOf
  <2> QED BY <2>1, AttemptRefundsNothing, RefundTouchesRefunds DEF MoneyNext
<1> QED BY MoneyInvariant, <1>1, <1>2, PTL DEF MoneySpec

\* A refund that is under way or that Paystack has is of money that Paystack
\* took and that the payment does not hold.
OnlyDuplicatesRefunded ==
    \A r \in Refs : R!CallsOf(r) # {} \/ outcome[r] # "none"
        => status[r] = "duplicate" /\ paidRef # r /\ remote[r] = "success"

\* End to end, from the customer's checkout to the refund: the automatic refund
\* (duplicate-refund.service.ts) never sends back what the payment holds, nor
\* what was never paid, however webhooks, checks and lost calls interleave.
THEOREM RefundsOnlyDuplicates == MoneySpec => []OnlyDuplicatesRefunded
<1>1. MoneyInv /\ NoneMeansNothing => OnlyDuplicatesRefunded
  BY DEF MoneyInv, IInv, MoneyAccounted, RefundsAreDuplicates,
         NoneMeansNothing, OnlyDuplicatesRefunded
<1> QED BY MoneyInvariant, NothingInvariant, <1>1, PTL

\* The reference that paid for the job is never refunded as a duplicate, with
\* the holder as the attempts really choose it.
THEOREM HolderKeepsItsMoney == MoneySpec => []R!HolderNeverRefunded
<1>1. MoneyInv /\ NoneMeansNothing => R!HolderNeverRefunded
  <2> SUFFICES ASSUME MoneyInv, NoneMeansNothing, Holder # NoRef
               PROVE  R!CallsOf(Holder) = {} /\ outcome[Holder] = "none"
    BY DEF R!HolderNeverRefunded
  <2>1. Holder = paidRef /\ paidRef \in Refs
    BY DEF MoneyInv, IInv, TypeOK, PaidNamesHolder, Holder, IsPaid
  <2>2. refund[paidRef] = "none"
    BY <2>1 DEF MoneyInv, IInv, MoneyAccounted, RefundsAreDuplicates
  <2> QED BY <2>1, <2>2 DEF NoneMeansNothing
<1> QED BY MoneyInvariant, NothingInvariant, <1>1, PTL
=============================================================================
