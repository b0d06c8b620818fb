------------------------ MODULE DuplicateRefund_proofs ------------------------
(***************************************************************************)
(* Proofs about DuplicateRefund, for any set of references, any cap on the *)
(* calls and any number of lost or overrunning calls.                      *)
(***************************************************************************)
EXTENDS DuplicateRefund, FiniteSetTheorems, TLAPS

\* A reference with no refund has nothing under way and nothing at Paystack.
NoneMeansNothing ==
    \A r \in Refs : refund[r] = "none" => CallsOf(r) = {} /\ outcome[r] = "none"

\* An answer that waits to be written is true of Paystack.
AnswersTrue ==
    \A c \in calls : /\ c.ans = "requested" => outcome[c.ref] # "none"
                     /\ c.ans = "processed" => outcome[c.ref] = "paid"

\* The customer has not been told of a refund that is still due.
DueUntold == \A r \in Refs : refund[r] \in Due \cup {"none"} => told[r] = 0

\* The inductive invariant: what the rows say is true only because the
\* answers still on their way are.
IInv ==
    /\ TypeOK
    /\ HolderNeverRefunded
    /\ RequestedWasTaken
    /\ ToldAtMostOnce
    /\ NoneMeansNothing
    /\ AnswersTrue
    /\ DueUntold

\* Nothing is due, leased or told at the start.
LEMMA InitIInv == Init => IInv
<1> SUFFICES ASSUME Init PROVE IInv
  OBVIOUS
<1> USE NoRefAssumption DEF Init
<1>1. TypeOK
  BY DEF TypeOK, RefundStatuses, Due, Outcomes
<1>2. HolderNeverRefunded /\ RequestedWasTaken /\ ToldAtMostOnce
  BY DEF HolderNeverRefunded, RequestedWasTaken, ToldAtMostOnce, CallsOf
<1>3. NoneMeansNothing /\ AnswersTrue /\ DueUntold
  BY DEF NoneMeansNothing, AnswersTrue, DueUntold, CallsOf
<1> QED BY <1>1, <1>2, <1>3 DEF IInv

\* A payment gets its holder: nothing of a reference with no refund changes.
LEMMA HolderStep ==
    ASSUME IInv, NEW r \in Refs, BecomesHolder(r) PROVE IInv'
BY NoRefAssumption DEF IInv, BecomesHolder, TypeOK, HolderNeverRefunded,
   RequestedWasTaken, ToldAtMostOnce, NoneMeansNothing, AnswersTrue,
   DueUntold, CallsOf

\* A duplicate's refund falls due.
LEMMA DuplicateStep ==
    ASSUME IInv, NEW r \in Refs, BecomesDuplicate(r) PROVE IInv'
BY DEF IInv, BecomesDuplicate, TypeOK, HolderNeverRefunded,
   RequestedWasTaken, ToldAtMostOnce, NoneMeansNothing, AnswersTrue,
   DueUntold, CallsOf, RefundStatuses, Due

\* Leasing: never for the holder, so its calls stay empty.
LEMMA LeaseStep ==
    ASSUME IInv, NEW r \in Refs, Lease(r) PROVE IInv'
<1> USE DEF IInv, TypeOK, Lease, Leasable, HoldsMoney, RefundStatuses, Due
<1>1. TypeOK'
  <2>1. tries' \in [Refs -> Nat] /\ calls' \subseteq [ref : Refs, try : Nat, ans : Answers]
    BY DEF Answers
  <2>2. refund' \in [Refs -> RefundStatuses] /\ due' \in [Refs -> BOOLEAN]
    OBVIOUS
  <2> QED BY <2>1, <2>2
<1>2. HolderNeverRefunded'
  BY DEF HolderNeverRefunded, CallsOf
<1>3. RequestedWasTaken' /\ ToldAtMostOnce'
  BY DEF RequestedWasTaken, ToldAtMostOnce
<1>4. NoneMeansNothing' /\ AnswersTrue' /\ DueUntold'
  BY DEF NoneMeansNothing, AnswersTrue, DueUntold, CallsOf
<1> QED BY <1>1, <1>2, <1>3, <1>4

\* Paystack answers: "paid" is final, and an answer is recorded with the
\* outcome it reports.
LEMMA CallStep ==
    ASSUME IInv, NEW c \in calls, CallPaystack(c) PROVE IInv'
<1> USE DEF IInv, TypeOK, CallPaystack, Answer
<1> DEFINE d(a) == [c EXCEPT !.ans = a]
<1>1. /\ c.ref \in Refs /\ c.try \in Nat /\ c = [ref |-> c.ref, try |-> c.try, ans |-> "unsent"]
  OBVIOUS
<1>2. PICK a \in Answers \ {"unsent"} :
         /\ calls' = (calls \ {c}) \cup {d(a)}
         /\ a = "requested" => outcome'[c.ref] # "none"
         /\ a = "processed" => outcome'[c.ref] = "paid"
  BY DEF Answers, Outcomes
<1>3. d(a) \in [ref : Refs, try : Nat, ans : Answers]
      /\ d(a).ref = c.ref /\ d(a).ans = a
  BY <1>1, <1>2
<1>4. outcome' \in [Refs -> Outcomes]
      /\ \A r \in Refs : /\ outcome[r] # "none" => outcome'[r] # "none"
                         /\ outcome[r] = "paid" => outcome'[r] = "paid"
                         /\ r # c.ref => outcome'[r] = outcome[r]
  BY <1>1 DEF Outcomes
<1>5. TypeOK'
  BY <1>2, <1>3, <1>4
<1>6. \A r \in Refs : CallsOf(r) = {} => CallsOf(r)' = {} /\ r # c.ref
  BY <1>2, <1>3 DEF CallsOf
<1>7. HolderNeverRefunded' /\ NoneMeansNothing'
  BY <1>4, <1>6, NoRefAssumption DEF HolderNeverRefunded, NoneMeansNothing
<1>8. RequestedWasTaken' /\ ToldAtMostOnce' /\ DueUntold'
  BY <1>4 DEF RequestedWasTaken, ToldAtMostOnce, DueUntold
<1>9. AnswersTrue'
  BY <1>2, <1>3, <1>4 DEF AnswersTrue
<1> QED BY <1>5, <1>7, <1>8, <1>9

\* An answer is written only where none is recorded yet, and it is true.
LEMMA WriteStep ==
    ASSUME IInv, NEW c \in calls, WriteAnswer(c) PROVE IInv'
<1> USE DEF IInv, TypeOK, WriteAnswer, AwaitsAnswer, StatusAfter
<1>1. c.ref \in Refs /\ c.ans \in {"requested", "processed", "error"}
  BY DEF Answers
<1>2. TypeOK'
  <2>1. StatusAfter(c) \in RefundStatuses
    BY <1>1 DEF RefundStatuses, Due
  <2>2. refund' \in [Refs -> RefundStatuses]
    BY <2>1
  <2>3. due' \in [Refs -> BOOLEAN]
    OBVIOUS
  <2>4. told' \in [Refs -> Nat]
    <3>1. told[c.ref] + 1 \in Nat
      BY <1>1
    <3>2. told' \in {told, [told EXCEPT ![c.ref] = @ + 1]}
      OBVIOUS
    <3> QED BY <3>1, <3>2
  <2>5. UNCHANGED <<holder, tries, outcome, faults>> /\ calls' \subseteq calls
    OBVIOUS
  <2> QED BY <2>2, <2>3, <2>4, <2>5
<1>3. \A r \in Refs : CallsOf(r)' \subseteq CallsOf(r)
  BY DEF CallsOf
<1>4. HolderNeverRefunded' /\ NoneMeansNothing' /\ AnswersTrue'
  BY <1>1, <1>3 DEF HolderNeverRefunded, NoneMeansNothing, AnswersTrue
<1>5. RequestedWasTaken' /\ ToldAtMostOnce' /\ DueUntold'
  BY <1>1 DEF RequestedWasTaken, ToldAtMostOnce, DueUntold, AnswersTrue, Due
<1> QED BY <1>2, <1>4, <1>5

\* A lost call, time, and Paystack's own progress change no status.
LEMMA QuietStep ==
    ASSUME IInv,
           \/ \E c \in calls : LoseCall(c)
           \/ \E r \in Refs : FallDue(r)
           \/ UNCHANGED vars
    PROVE  IInv'
<1> USE DEF IInv, TypeOK
<1>1. ASSUME NEW c \in calls, LoseCall(c) PROVE IInv'
  BY <1>1 DEF LoseCall, HolderNeverRefunded, RequestedWasTaken,
     ToldAtMostOnce, NoneMeansNothing, AnswersTrue, DueUntold, CallsOf
<1>2. ASSUME NEW r \in Refs, FallDue(r) PROVE IInv'
  BY <1>2 DEF FallDue, HolderNeverRefunded, RequestedWasTaken,
     ToldAtMostOnce, NoneMeansNothing, AnswersTrue, DueUntold, CallsOf
<1>3. CASE UNCHANGED vars
  BY <1>3 DEF vars, HolderNeverRefunded, RequestedWasTaken,
     ToldAtMostOnce, NoneMeansNothing, AnswersTrue, DueUntold, CallsOf
<1> QED BY <1>1, <1>2, <1>3

\* A webhook tells what Paystack did; only refund.pending tells the customer,
\* and only of a refund that was still due.
LEMMA WebhookStep ==
    ASSUME IInv, NEW r \in Refs,
           \/ WebhookPending(r) \/ WebhookProcessed(r) \/ WebhookFailed(r)
           \/ Conclude(r)
    PROVE  IInv'
<1> USE DEF IInv, TypeOK, HolderNeverRefunded, RequestedWasTaken,
        ToldAtMostOnce, NoneMeansNothing, AnswersTrue, DueUntold, CallsOf,
        RefundStatuses, Due
<1>1. CASE WebhookPending(r)
  BY <1>1 DEF WebhookPending
<1>2. CASE WebhookProcessed(r)
  BY <1>2 DEF WebhookProcessed
<1>3. CASE WebhookFailed(r)
  BY <1>3 DEF WebhookFailed
<1>4. CASE Conclude(r)
  BY <1>4 DEF Conclude, Outcomes
<1> QED BY <1>1, <1>2, <1>3, <1>4

\* The inductive invariant is inductive.
LEMMA StepIInv == IInv /\ [Next]_vars => IInv'
BY HolderStep, DuplicateStep, LeaseStep, CallStep, WriteStep, QuietStep,
   WebhookStep DEF Next, RefundNext

\* In every reachable state a refund row that says the money was taken or sent
\* agrees with the provider, and every answer still on its way is a true one.
THEOREM Invariant == Spec => []IInv
BY InitIInv, StepIInv, PTL DEF Spec

\* The refund columns keep their types.
THEOREM TypeCorrect == Spec => []TypeOK
<1>1. IInv => TypeOK
  BY DEF IInv
<1> QED BY Invariant, <1>1, PTL

\* The reference that holds the job's money is never refunded as a duplicate,
\* even if something marked it one.
THEOREM HolderSafe == Spec => []HolderNeverRefunded
<1>1. IInv => HolderNeverRefunded
  BY DEF IInv
<1> QED BY Invariant, <1>1, PTL

\* What the row says of a refund is true of Paystack, and the customer is
\* told at most once, for any number of lost calls and redelivered webhooks.
THEOREM RefundTold == Spec => [](RequestedWasTaken /\ ToldAtMostOnce)
<1>1. IInv => RequestedWasTaken /\ ToldAtMostOnce
  BY DEF IInv
<1> QED BY Invariant, <1>1, PTL

\* A refund that was taken or given up is never taken up again.
THEOREM Final == Spec => NeverReopened
<1> DEFINE Kept == \A r \in Refs :
                     refund[r] \in {"requested", "processed", "failed"}
                       => refund'[r] \notin Due
<1>1. IInv /\ [Next]_vars => [Kept]_vars
  <2> SUFFICES ASSUME IInv, [Next]_vars PROVE [Kept]_vars
    OBVIOUS
  <2> USE DEF IInv, TypeOK, Due
  <2>1. ASSUME NEW r \in Refs,
               BecomesDuplicate(r) \/ Lease(r) \/ WebhookPending(r)
                 \/ WebhookProcessed(r) \/ WebhookFailed(r)
        PROVE  Kept
    BY <2>1 DEF BecomesDuplicate, Lease, Leasable, WebhookPending,
       WebhookProcessed, WebhookFailed
  <2>2. ASSUME NEW c \in calls, WriteAnswer(c) PROVE Kept
    BY <2>2 DEF WriteAnswer, AwaitsAnswer
  <2>3. ASSUME UNCHANGED refund PROVE Kept
    BY <2>3
  <2> QED
    BY <2>1, <2>2, <2>3 DEF Next, RefundNext, BecomesHolder, FallDue,
       Conclude, CallPaystack, LoseCall, vars
<1> QED BY Invariant, <1>1, PTL DEF Spec, NeverReopened

-----------------------------------------------------------------------------
(* How many calls there are *)

\* Calls of a refund whose failure would still let it be tried again.
Young(r) == {c \in CallsOf(r) : c.try < MaxAttempts}

\* The row may be leased now, or when its time comes, without a further fault.
Ready(r) == \/ refund[r] = "pending"
            \/ refund[r] = "processing" /\ (due[r] \/ CallsOf(r) = {})

\* A row that is due has only calls that a fault put beside it; any other may
\* have one more, the call of its last lease.
Overlap(r) == Cardinality(CallsOf(r)) <=
                 faults + IF refund[r] = "pending" \/ due[r] THEN 0 ELSE 1

\* Each lease but the first was made possible by the failure of a call below
\* the cap, of which there are as many as tries below the cap less those still
\* under way, or by a fault.
Budget(r) ==
    tries[r] + (IF Ready(r) THEN 1 ELSE 0) + Cardinality(Young(r)) <=
       1 + (IF tries[r] < MaxAttempts THEN tries[r] ELSE MaxAttempts - 1) + faults

\* What bounds the calls of one reference.
Bounded(r) == /\ IsFiniteSet(CallsOf(r))
              /\ Overlap(r) /\ Budget(r)
              /\ refund[r] = "none" => tries[r] = 0

CallsInv == \A r \in Refs : Bounded(r)

\* Adding one element to a finite set.
LEMMA AddOne ==
    ASSUME NEW S, IsFiniteSet(S), NEW d
    PROVE  /\ Cardinality(S) \in Nat
           /\ IsFiniteSet(S \cup {d}) /\ Cardinality(S \cup {d}) \in Nat
           /\ Cardinality(S \cup {d}) <= Cardinality(S) + 1
<1>1. Cardinality(S) \in Nat
  BY FS_CardinalityType
<1>2. IsFiniteSet(S \cup {d}) /\ Cardinality(S \cup {d}) =
         IF d \in S THEN Cardinality(S) ELSE Cardinality(S) + 1
  BY FS_AddElement
<1> QED BY <1>1, <1>2

\* Removing one element of a finite set.
LEMMA RemoveOne ==
    ASSUME NEW S, IsFiniteSet(S), NEW c
    PROVE  /\ Cardinality(S) \in Nat
           /\ IsFiniteSet(S \ {c}) /\ Cardinality(S \ {c}) \in Nat
           /\ Cardinality(S \ {c}) = IF c \in S THEN Cardinality(S) - 1
                                                ELSE Cardinality(S)
<1>1. Cardinality(S) \in Nat
  BY FS_CardinalityType
<1>2. IsFiniteSet(S \ {c}) /\ Cardinality(S \ {c}) =
         IF c \in S THEN Cardinality(S) - 1 ELSE Cardinality(S)
  BY FS_RemoveElement
<1>3. Cardinality(S \ {c}) \in Nat
  BY <1>2, FS_CardinalityType
<1> QED BY <1>1, <1>2, <1>3

\* Replacing one element of a finite set.
LEMMA SwapOne ==
    ASSUME NEW S, IsFiniteSet(S), NEW c \in S, NEW d
    PROVE  /\ Cardinality(S) \in Nat
           /\ IsFiniteSet((S \ {c}) \cup {d})
           /\ Cardinality((S \ {c}) \cup {d}) \in Nat
           /\ Cardinality((S \ {c}) \cup {d}) <= Cardinality(S)
<1> DEFINE T == S \ {c}
<1>1. /\ IsFiniteSet(T) /\ Cardinality(T) = Cardinality(S) - 1
      /\ Cardinality(S) \in Nat
  BY RemoveOne
<1> HIDE DEF T
<1>2. /\ IsFiniteSet(T \cup {d}) /\ Cardinality(T \cup {d}) \in Nat
      /\ Cardinality(T \cup {d}) <= Cardinality(T) + 1
      /\ Cardinality(T) \in Nat
  BY <1>1, AddOne
<1>3. Cardinality(T \cup {d}) <= Cardinality(S)
  BY <1>1, <1>2
<1> QED BY <1>1, <1>2, <1>3 DEF T

\* A reference whose calls are the same is bounded as before if its row is no
\* readier than before.
LEMMA SameCalls ==
    ASSUME TypeOK, NEW r \in Refs, Bounded(r), CallsOf(r)' = CallsOf(r),
           tries'[r] = tries[r], faults' \in Nat, faults' >= faults,
           \/ /\ refund'[r] = refund[r] /\ due'[r] = due[r]
           \/ refund'[r] \in {"requested", "processed", "failed"} /\ ~due'[r]
    PROVE  Bounded(r)'
<1> USE MaxAttemptsAssumption DEF TypeOK
<1>1. Young(r)' = Young(r)
  BY DEF Young
<1>2. Young(r) \subseteq CallsOf(r)
  BY DEF Young
<1>3. Cardinality(CallsOf(r)) \in Nat /\ Cardinality(Young(r)) \in Nat
  BY <1>2, FS_Subset, FS_CardinalityType DEF Bounded
<1> QED BY <1>1, <1>3 DEF Bounded, Overlap, Budget, Ready

\* The steps that do not touch the calls or the tries.
LEMMA BoundedQuiet ==
    ASSUME IInv, CallsInv,
           \/ \E r \in Refs : \/ WebhookPending(r) \/ WebhookProcessed(r)
                              \/ WebhookFailed(r) \/ Conclude(r)
                              \/ BecomesHolder(r)
           \/ UNCHANGED vars
    PROVE  CallsInv'
<1> SUFFICES ASSUME NEW x \in Refs PROVE Bounded(x)'
  BY DEF CallsInv
<1> USE DEF IInv, TypeOK
<1>1. Bounded(x) /\ TypeOK
  BY DEF CallsInv
<1>2. /\ UNCHANGED <<calls, tries, faults>>
      /\ \/ refund'[x] = refund[x] /\ due'[x] = due[x]
         \/ refund'[x] \in {"requested", "processed", "failed"} /\ ~due'[x]
  BY DEF WebhookPending, WebhookProcessed, WebhookFailed, Conclude,
     BecomesHolder, vars
<1>3. CallsOf(x)' = CallsOf(x)
  BY <1>2 DEF CallsOf
<1> QED BY <1>1, <1>2, <1>3, SameCalls

\* A new duplicate is ready for its first lease.
LEMMA BoundedDuplicate ==
    ASSUME IInv, CallsInv, NEW r \in Refs, BecomesDuplicate(r)
    PROVE  CallsInv'
<1> SUFFICES ASSUME NEW x \in Refs PROVE Bounded(x)'
  BY DEF CallsInv
<1> USE MaxAttemptsAssumption DEF IInv, TypeOK, BecomesDuplicate
<1>1. Bounded(x) /\ TypeOK /\ CallsOf(x)' = CallsOf(x)
  BY DEF CallsInv, CallsOf
<1>2. CASE x # r
  <2>1. /\ tries'[x] = tries[x] /\ faults' \in Nat /\ faults' >= faults
        /\ refund'[x] = refund[x] /\ due'[x] = due[x]
    BY <1>2
  <2> HIDE DEF TypeOK, BecomesDuplicate
  <2> QED BY <1>1, <2>1, SameCalls
<1>3. CASE x = r
  <2>1. CallsOf(x) = {} /\ tries[x] = 0
    BY <1>1, <1>3 DEF NoneMeansNothing, Bounded
  <2>2. Young(x)' = {} /\ Cardinality({}) = 0
    BY <1>1, <2>1, FS_EmptySet DEF Young
  <2>3. IsFiniteSet(CallsOf(x)') /\ Cardinality(CallsOf(x)') = 0
    BY <1>1, <2>1, FS_EmptySet
  <2>4. Overlap(x)'
    BY <1>3, <2>3 DEF Overlap
  <2>5. Budget(x)'
    <3>1. Cardinality(Young(x)') = 0 /\ tries'[x] = 0
      BY <2>1, <2>2
    <3> QED BY <3>1 DEF Budget
  <2> QED BY <1>3, <2>1, <2>3, <2>4, <2>5 DEF Bounded
<1> QED BY <1>2, <1>3

\* A lease makes the row unready and adds one call.
LEMMA BoundedLease ==
    ASSUME IInv, CallsInv, NEW r \in Refs, Lease(r) PROVE CallsInv'
<1> SUFFICES ASSUME NEW x \in Refs PROVE Bounded(x)'
  BY DEF CallsInv
<1> USE MaxAttemptsAssumption
        DEF IInv, TypeOK, Lease, Leasable, HoldsMoney, Due
<1>1. Bounded(x) /\ TypeOK /\ faults' \in Nat /\ faults' >= faults
  BY DEF CallsInv
<1>s. x # r => /\ tries'[x] = tries[x]
               /\ refund'[x] = refund[x] /\ due'[x] = due[x]
  OBVIOUS
<1>2. CASE x # r
  <2>1. CallsOf(x)' = CallsOf(x)
    BY <1>2 DEF CallsOf
  <2> HIDE DEF TypeOK, Lease
  <2> QED BY <1>1, <1>s, <1>2, <2>1, SameCalls
<1>3. CASE x = r /\ HoldsMoney(r)
  <2>1. CallsOf(x)' = CallsOf(x)
    BY <1>3 DEF CallsOf
  <2>2. refund'[x] = "failed" /\ ~due'[x] /\ tries'[x] = tries[x]
    BY <1>3
  <2> HIDE DEF TypeOK, Lease
  <2> QED BY <1>1, <2>1, <2>2, SameCalls
<1>4. CASE x = r /\ ~HoldsMoney(r)
  <2> DEFINE d == [ref |-> r, try |-> tries[r] + 1, ans |-> "unsent"]
  <2>1. CallsOf(x)' = CallsOf(x) \cup {d}
    BY <1>4 DEF CallsOf
  <2>2. Young(x)' = IF tries[r] + 1 < MaxAttempts THEN Young(x) \cup {d}
                                                  ELSE Young(x)
    BY <2>1 DEF Young
  <2>3. IsFiniteSet(CallsOf(x)) /\ IsFiniteSet(Young(x))
    BY <1>1, FS_Subset DEF Bounded, Young
  <2>4. /\ refund'[x] = "processing" /\ ~due'[x] /\ tries'[x] = tries[x] + 1
        /\ faults' = faults /\ refund[x] \in Due /\ due[x]
    BY <1>4
  <2>5. /\ IsFiniteSet(CallsOf(x)') /\ CallsOf(x)' # {}
        /\ Cardinality(CallsOf(x)') \in Nat /\ Cardinality(CallsOf(x)) \in Nat
        /\ Cardinality(CallsOf(x)') <= Cardinality(CallsOf(x)) + 1
    <3> HIDE DEF d, Lease, TypeOK
    <3>1. /\ IsFiniteSet(CallsOf(x) \cup {d}) /\ Cardinality(CallsOf(x)) \in Nat
          /\ Cardinality(CallsOf(x) \cup {d}) \in Nat
          /\ Cardinality(CallsOf(x) \cup {d}) <= Cardinality(CallsOf(x)) + 1
      BY <2>3, AddOne
    <3> QED BY <2>1, <3>1
  <2>6. /\ Cardinality(Young(x)') \in Nat /\ Cardinality(Young(x)) \in Nat
        /\ Cardinality(Young(x)') <= Cardinality(Young(x))
                + IF tries[r] + 1 < MaxAttempts THEN 1 ELSE 0
    <3> HIDE DEF d, Lease, TypeOK
    <3>1. /\ Cardinality(Young(x)) \in Nat
          /\ Cardinality(Young(x) \cup {d}) \in Nat
          /\ Cardinality(Young(x) \cup {d}) <= Cardinality(Young(x)) + 1
      BY <2>3, AddOne
    <3> QED BY <2>2, <3>1
  <2>7. Overlap(x)'
    BY <1>1, <2>4, <2>5 DEF Bounded, Overlap
  <2>8. Budget(x)'
    <3>1. Ready(x) /\ ~Ready(x)'
      BY <2>4, <2>5 DEF Ready
    <3> QED BY <1>1, <1>4, <2>4, <2>6, <3>1 DEF Bounded, Budget
  <2> QED BY <2>4, <2>5, <2>7, <2>8 DEF Bounded
<1> QED BY <1>2, <1>3, <1>4

\* An answer takes the place of the call that waits for it.
LEMMA BoundedCall ==
    ASSUME IInv, CallsInv, NEW c \in calls, CallPaystack(c) PROVE CallsInv'
<1> SUFFICES ASSUME NEW x \in Refs PROVE Bounded(x)'
  BY DEF CallsInv
<1> USE MaxAttemptsAssumption DEF IInv, TypeOK
<1>1. Bounded(x) /\ TypeOK
  BY DEF CallsInv
<1>2. UNCHANGED <<refund, tries, due, faults>>
  BY DEF CallPaystack
<1>3. PICK a \in Answers : calls' = (calls \ {c}) \cup {[c EXCEPT !.ans = a]}
  BY DEF CallPaystack, Answer, Answers
<1> DEFINE d == [c EXCEPT !.ans = a]
<1>4. c \in [ref : Refs, try : Nat, ans : Answers]
  OBVIOUS
<1>5. d.ref = c.ref /\ d.try = c.try
  BY <1>4
<1> HIDE DEF d
<1>6. CASE x # c.ref
  <2>1. CallsOf(x)' = CallsOf(x)
    BY <1>3, <1>5, <1>6 DEF CallsOf, d
  <2> QED BY <1>1, <1>2, <2>1, SameCalls
<1>7. CASE x = c.ref
  <2>1. c \in CallsOf(x) /\ CallsOf(x)' = (CallsOf(x) \ {c}) \cup {d}
    BY <1>3, <1>5, <1>7 DEF CallsOf, d
  <2>2. Young(x)' = IF c.try < MaxAttempts THEN (Young(x) \ {c}) \cup {d}
                                           ELSE Young(x)
    BY <1>5, <2>1 DEF Young
  <2>3. IsFiniteSet(CallsOf(x)) /\ IsFiniteSet(Young(x))
    BY <1>1, FS_Subset DEF Bounded, Young
  <2>4. /\ IsFiniteSet(CallsOf(x)') /\ CallsOf(x)' # {} /\ CallsOf(x) # {}
        /\ Cardinality(CallsOf(x)') \in Nat /\ Cardinality(CallsOf(x)) \in Nat
        /\ Cardinality(CallsOf(x)') <= Cardinality(CallsOf(x))
    <3>1. /\ IsFiniteSet((CallsOf(x) \ {c}) \cup {d})
          /\ Cardinality(CallsOf(x)) \in Nat
          /\ Cardinality((CallsOf(x) \ {c}) \cup {d}) \in Nat
          /\ Cardinality((CallsOf(x) \ {c}) \cup {d}) <= Cardinality(CallsOf(x))
      BY <2>1, <2>3, SwapOne
    <3> QED BY <2>1, <3>1
  <2>5. /\ Cardinality(Young(x)') \in Nat /\ Cardinality(Young(x)) \in Nat
        /\ Cardinality(Young(x)') <= Cardinality(Young(x))
    <3>1. c.try < MaxAttempts => c \in Young(x)
      BY <2>1 DEF Young
    <3>2. CASE c.try < MaxAttempts
      <4>1. /\ Cardinality(Young(x)) \in Nat
            /\ Cardinality((Young(x) \ {c}) \cup {d}) \in Nat
            /\ Cardinality((Young(x) \ {c}) \cup {d}) <= Cardinality(Young(x))
        BY <2>3, <3>1, <3>2, SwapOne
      <4> QED BY <2>2, <3>2, <4>1
    <3>3. CASE ~(c.try < MaxAttempts)
      <4>1. Cardinality(Young(x)) \in Nat
        BY <2>3, FS_CardinalityType
      <4> QED BY <2>2, <3>3, <4>1
    <3> QED BY <3>2, <3>3
  <2>6. Ready(x)' = Ready(x)
    BY <1>2, <2>4 DEF Ready
  <2> QED BY <1>1, <1>2, <2>4, <2>5, <2>6 DEF Bounded, Overlap, Budget
<1> QED BY <1>6, <1>7

\* A call that ends, by its write or in a crash: a failure below the cap, or a
\* fault, pays for the lease that it makes possible.
LEMMA BoundedEnd ==
    ASSUME IInv, CallsInv, NEW c \in calls, WriteAnswer(c) \/ LoseCall(c)
    PROVE  CallsInv'
<1> SUFFICES ASSUME NEW x \in Refs PROVE Bounded(x)'
  BY DEF CallsInv
<1> USE MaxAttemptsAssumption DEF IInv, TypeOK
<1>1. Bounded(x) /\ TypeOK
  BY DEF CallsInv
<1>2. calls' = calls \ {c} /\ UNCHANGED tries
  BY DEF WriteAnswer, LoseCall
<1>3. faults' \in Nat /\ faults' >= faults
  BY DEF WriteAnswer, LoseCall
<1>4. c.ref \in Refs /\ c.try \in Nat
        /\ (WriteAnswer(c) => c.ans \in {"requested", "processed", "error"})
  BY DEF WriteAnswer, Answers
<1>5. CASE x # c.ref
  <2>1. CallsOf(x)' = CallsOf(x)
    BY <1>2, <1>5 DEF CallsOf
  <2>2. refund'[x] = refund[x] /\ due'[x] = due[x]
    BY <1>5 DEF WriteAnswer, LoseCall
  <2> QED BY <1>1, <1>2, <1>3, <2>1, <2>2, SameCalls
<1>6. CASE x = c.ref
  <2>1. c \in CallsOf(x) /\ CallsOf(x)' = CallsOf(x) \ {c}
    BY <1>2, <1>6 DEF CallsOf
  <2>2. Young(x)' = Young(x) \ {c} /\ (c.try < MaxAttempts => c \in Young(x))
    BY <2>1 DEF Young
  <2>3. IsFiniteSet(CallsOf(x)) /\ IsFiniteSet(Young(x))
    BY <1>1, FS_Subset DEF Bounded, Young
  <2>4. /\ IsFiniteSet(CallsOf(x)')
        /\ Cardinality(CallsOf(x)') \in Nat /\ Cardinality(CallsOf(x)) \in Nat
        /\ Cardinality(CallsOf(x)') = Cardinality(CallsOf(x)) - 1
    BY <2>1, <2>3, RemoveOne
  <2>5. /\ Cardinality(Young(x)') \in Nat /\ Cardinality(Young(x)) \in Nat
        /\ Cardinality(Young(x)') <= Cardinality(Young(x))
        /\ c.try < MaxAttempts => Cardinality(Young(x)') = Cardinality(Young(x)) - 1
    BY <2>2, <2>3, RemoveOne
  <2>7. CASE LoseCall(c)
    <3>1. UNCHANGED <<refund, due>> /\ faults' = faults + 1
      BY <2>7 DEF LoseCall
    <3> QED BY <1>1, <1>2, <2>4, <2>5, <3>1
            DEF Bounded, Overlap, Budget, Ready
  <2>8. CASE WriteAnswer(c) /\ ~AwaitsAnswer(x)
    <3>1. UNCHANGED <<refund, due, faults>> /\ refund[x] # "processing"
      BY <1>6, <2>8 DEF WriteAnswer, AwaitsAnswer
    <3> QED BY <1>1, <1>2, <2>4, <2>5, <3>1
            DEF Bounded, Overlap, Budget, Ready
  <2>9. CASE WriteAnswer(c) /\ AwaitsAnswer(x)
    <3>1. /\ faults' = faults /\ ~due'[x] /\ refund[x] = "processing"
          /\ refund'[x] = StatusAfter(c)
      BY <1>6, <2>9 DEF WriteAnswer, AwaitsAnswer
    <3>2. \/ refund'[x] \in {"requested", "processed", "failed"}
          \/ refund'[x] = "pending" /\ c.try < MaxAttempts
      BY <1>4, <2>9, <3>1 DEF StatusAfter
    <3>3. Overlap(x)'
      BY <1>1, <2>4, <3>1, <3>2 DEF Bounded, Overlap
    <3>4. Budget(x)'
      BY <1>1, <1>2, <2>5, <3>1, <3>2 DEF Bounded, Budget, Ready
    <3> QED BY <1>1, <2>4, <3>2, <3>3, <3>4 DEF Bounded
  <2> QED BY <1>6, <2>7, <2>8, <2>9
<1> QED BY <1>5, <1>6

\* A row that falls due beside its call costs a fault; without one it was
\* ready before.
LEMMA BoundedDue ==
    ASSUME IInv, CallsInv, NEW r \in Refs, FallDue(r) PROVE CallsInv'
<1> SUFFICES ASSUME NEW x \in Refs PROVE Bounded(x)'
  BY DEF CallsInv
<1> USE MaxAttemptsAssumption DEF IInv, TypeOK
<1>1. Bounded(x) /\ TypeOK
  BY DEF CallsInv
<1>2. /\ UNCHANGED <<calls, tries, refund>> /\ CallsOf(x)' = CallsOf(x)
      /\ faults' \in Nat /\ faults' >= faults
  BY DEF FallDue, CallsOf
<1>3. CASE x # r
  <2>1. due'[x] = due[x]
    BY <1>3 DEF FallDue
  <2> QED BY <1>1, <1>2, <2>1, SameCalls
<1>4. CASE x = r
  <2>1. Young(x)' = Young(x) /\ Young(x) \subseteq CallsOf(x)
    BY <1>2 DEF Young
  <2>2. /\ IsFiniteSet(CallsOf(x))
        /\ Cardinality(CallsOf(x)) \in Nat /\ Cardinality(Young(x)) \in Nat
    BY <1>1, <2>1, FS_Subset, FS_CardinalityType DEF Bounded
  <2>3. due'[x] /\ ~due[x] /\ refund[x] \in {"pending", "processing"}
    BY <1>4 DEF FallDue, Due
  <2>4. CASE refund[x] = "processing" /\ CallsOf(x) # {}
    <3>1. faults' = faults + 1
      BY <1>4, <2>4 DEF FallDue
    <3> QED BY <1>1, <1>2, <2>1, <2>2, <2>3, <2>4, <3>1
            DEF Bounded, Overlap, Budget, Ready
  <2>5. CASE refund[x] = "pending" \/ CallsOf(x) = {}
    <3>1. Ready(x) /\ Ready(x)'
      BY <1>2, <2>3, <2>5 DEF Ready
    <3>2. Cardinality(CallsOf(x)) <= faults
      BY <1>1, <2>5, FS_EmptySet DEF Bounded, Overlap
    <3>3. Overlap(x)'
      BY <1>2, <2>2, <2>3, <3>2 DEF Overlap
    <3>4. Budget(x)'
      BY <1>1, <1>2, <2>1, <2>2, <3>1 DEF Bounded, Budget
    <3> QED BY <1>1, <1>2, <3>3, <3>4 DEF Bounded
  <2> QED BY <2>3, <2>4, <2>5
<1> QED BY <1>3, <1>4

\* Only a fault lets two calls of one refund run at once or adds a call to the
\* cap, for any cap, any references and any number of faults.
THEOREM Capped == Spec => []CallsBounded
<1>1. Init => CallsInv
  <2> SUFFICES ASSUME Init, NEW r \in Refs PROVE Bounded(r)
    BY DEF CallsInv
  <2>1. CallsOf(r) = {} /\ Young(r) = {} /\ Cardinality({}) = 0
        /\ IsFiniteSet({})
    BY FS_EmptySet DEF Init, CallsOf, Young
  <2> QED BY <2>1, MaxAttemptsAssumption
          DEF Init, Bounded, Overlap, Budget, Ready
<1>2. IInv /\ CallsInv /\ [Next]_vars => CallsInv'
  BY BoundedQuiet, BoundedDuplicate, BoundedLease, BoundedCall, BoundedEnd,
     BoundedDue DEF Next, RefundNext
<1>3. IInv /\ CallsInv => CallsBounded
  <2> SUFFICES ASSUME IInv, CallsInv, NEW r \in Refs
               PROVE  /\ Cardinality(CallsOf(r)) <= 1 + faults
                      /\ tries[r] <= MaxAttempts + faults
    BY DEF CallsBounded
  <2>1. Bounded(r) /\ Young(r) \subseteq CallsOf(r)
    BY DEF CallsInv, Young
  <2>2. Cardinality(CallsOf(r)) \in Nat /\ Cardinality(Young(r)) \in Nat
    BY <2>1, FS_Subset, FS_CardinalityType DEF Bounded
  <2> QED BY <2>1, <2>2, MaxAttemptsAssumption
          DEF Bounded, Overlap, Budget, IInv, TypeOK
<1> QED BY Invariant, <1>1, <1>2, <1>3, PTL DEF Spec
=============================================================================
