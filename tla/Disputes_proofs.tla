---------------------------- MODULE Disputes_proofs ----------------------------
(***************************************************************************)
(* Proofs about Disputes, for any disputes, any admins, any amount and any *)
(* number of faults.                                                       *)
(***************************************************************************)
EXTENDS Disputes, TLAPS

\* A ruling that has claimed its dispute and not ended yet.
Busy(a) == work[a].stage \in {"claimed", "captured", "failed", "moved"}

\* What the claim of a ruling leaves in the money column.
Written(money) == IF money = "NONE" THEN "null" ELSE money

\* A ruling keeps what it claimed: only its own rollback reopens the dispute,
\* so the row still shows it, closed or not, and its money column is the
\* ruling's.
Holding ==
    \A a \in Admins : Busy(a) =>
        LET d == work[a].d IN
        /\ d \in Disputes
        /\ row[d].status \in {"RESOLVED", "CLOSED"}
        /\ row[d].money = Written(work[a].money)
        /\ row[d].status = "RESOLVED" => row[d].by = a

\* Only a ruling with money has a money action that can fail or be captured.
Moving ==
    \A a \in Admins :
        /\ work[a].stage # "idle" => work[a].d \in Disputes
        /\ work[a].stage \in {"claimed", "failed"} => work[a].money \in Moves
        /\ work[a].stage = "captured" => work[a].money = "RELEASE"

\* No two rulings under way have claimed the same dispute.
Apart ==
    \A a, b \in Admins : Busy(a) /\ Busy(b) /\ work[a].d = work[b].d => a = b

\* The unique index.
OneClaim == \A d, e \in Disputes : Claims(d) /\ Claims(e) => d = e

\* Where money is known to have moved the claim stays, and its ruling neither
\* moves money again nor rolls back.
ConfirmedHeld ==
    /\ \A d \in confirmed : d \in Disputes /\ Claims(d)
    /\ \A a \in Admins :
          work[a].stage \in {"claimed", "failed"} => work[a].d \notin confirmed

\* A transfer that a ruling learned of keeps everyone from another capture, and
\* shows its ruling that it was sent.
SentShows ==
    /\ out.d # NoDispute =>
          /\ out.d \in confirmed /\ out.alive
          /\ pay.code /\ pay.status \in {"HELD", "RELEASED", "REFUNDED"}
    /\ \A d \in confirmed : row[d].money = "RELEASE" => out.d = d

\* Every movement is known to the ruling that holds the claim, or its answer
\* was lost.
Accounted == moves = (IF confirmed = {} THEN 0 ELSE 1) + lost

\* No ruling began on a dispute that had a verdict.
CleanPlan == \A a \in Admins : work[a].hadVerdict = FALSE

IInv ==
    /\ TypeOK
    /\ Holding
    /\ Moving
    /\ Apart
    /\ OneClaim
    /\ ConfirmedHeld
    /\ SentShows
    /\ Accounted
    /\ CleanPlan
    /\ NoPhantomVerdict

\* Nothing is filed and nobody rules at first.
LEMMA InitIInv == Init => IInv
<1> SUFFICES ASSUME Init PROVE IInv
  OBVIOUS
<1> USE NoneAssumption, AmountAssumption, BoundsAssumption
    DEF Init, Idle, NoRow, Filed, Claims, IsActive, Busy, Active
<1>1. TypeOK
  BY DEF TypeOK, Rows, Work, Stages, Moves, Payments, PaymentStatuses, Releasable,
         Transfers
<1>2. Holding /\ Moving /\ Apart /\ OneClaim /\ CleanPlan
  BY DEF Holding, Moving, Apart, OneClaim, CleanPlan
<1>3. ConfirmedHeld /\ SentShows /\ Accounted /\ NoPhantomVerdict
  BY DEF ConfirmedHeld, SentShows, Accounted, NoPhantomVerdict
<1> QED BY <1>1, <1>2, <1>3 DEF IInv

\* The disputes are filed, reviewed and closed: rulings under way keep what they
\* hold, since a claimed dispute is neither filed again nor open.
LEMMA RowStep ==
    ASSUME IInv, NEW d \in Disputes,
           \/ Raise(d) \/ StartReview(d) \/ \E a \in Admins : Close(d, a)
    PROVE  IInv'
<1> USE NoneAssumption
    DEF IInv, TypeOK, Rows, NoRow, Work, Stages, DisputeStatuses, Active, Moves, moneyVars
<1> DEFINE Same == \A e \in Disputes : /\ Claims(e)' <=> Claims(e)
                                       /\ Claims(e) => row'[e].money = row[e].money
<1>1. CASE Raise(d)
  <2> USE <1>1 DEF Raise, Filed
  <2>1. TypeOK'
    OBVIOUS
  <2>2. Same
    BY DEF Claims
  <2>3. Holding' /\ Moving' /\ Apart' /\ CleanPlan'
    BY DEF Holding, Moving, Apart, CleanPlan, Busy, Written
  <2>4. OneClaim' /\ ConfirmedHeld' /\ SentShows' /\ Accounted'
    BY <2>2 DEF OneClaim, ConfirmedHeld, SentShows, Accounted
  <2>5. NoPhantomVerdict'
    BY DEF NoPhantomVerdict, IsActive
  <2> QED BY <2>1, <2>3, <2>4, <2>5
<1>2. CASE StartReview(d)
  <2> USE <1>2 DEF StartReview, Filed
  <2>1. TypeOK'
    OBVIOUS
  <2>2. Same
    BY DEF Claims
  <2>3. Holding' /\ Moving' /\ Apart' /\ CleanPlan'
    BY DEF Holding, Moving, Apart, CleanPlan, Busy, Written
  <2>4. OneClaim' /\ ConfirmedHeld' /\ SentShows' /\ Accounted'
    BY <2>2 DEF OneClaim, ConfirmedHeld, SentShows, Accounted
  <2>5. NoPhantomVerdict'
    BY DEF NoPhantomVerdict, IsActive
  <2> QED BY <2>1, <2>3, <2>4, <2>5
<1>3. ASSUME NEW a \in Admins, Close(d, a) PROVE IInv'
  <2> DEFINE r == [row[d] EXCEPT !.status = "CLOSED", !.by = a]
  <2>0. row[d] \in Rows /\ row[d].status # "CLOSED"
    BY <1>3 DEF Close, Filed
  <2>1. /\ r \in Rows
        /\ r.status = "CLOSED" /\ r.money = row[d].money
    BY <2>0
  <2>2. /\ row' = [row EXCEPT ![d] = r]
        /\ UNCHANGED <<work, moneyVars, crashes>>
    BY <1>3, <2>0 DEF Close
  <2> HIDE DEF r
  <2>3. TypeOK'
    BY <2>1, <2>2
  <2>4. Same
    BY <2>0, <2>1, <2>2 DEF Claims, Filed
  <2>5. Holding' /\ Moving' /\ Apart' /\ CleanPlan'
    BY <2>1, <2>2 DEF Holding, Moving, Apart, CleanPlan, Busy, Written
  <2>6. OneClaim' /\ ConfirmedHeld' /\ SentShows' /\ Accounted'
    BY <2>2, <2>4 DEF OneClaim, ConfirmedHeld, SentShows, Accounted
  <2>7. NoPhantomVerdict'
    BY <2>1, <2>2 DEF NoPhantomVerdict, IsActive, Filed
  <2> QED BY <2>3, <2>5, <2>6, <2>7
<1> QED BY <1>1, <1>2, <1>3

\* A ruling begins on a dispute that is open work and so has no verdict yet.
LEMMA PlanStep ==
    ASSUME IInv, NEW a \in Admins, NEW d \in Disputes, Plan(a, d)
    PROVE  IInv'
<1> USE NoneAssumption DEF IInv, moneyVars
<1>1. PICK p \in Plans(d) :
         work' = [work EXCEPT ![a] =
             [stage |-> "planned", d |-> d, was |-> row[d].status,
              hadVerdict |-> row[d].verdict, money |-> p.money, units |-> p.units]]
  BY DEF Plan
<1>2. p.money \in Moves \cup {"NONE"} /\ p.units \in 0..Amount
  BY AmountAssumption DEF Plans, Moves, TypeOK, Payments
<1>3. row[d].status \in Active /\ row[d].verdict = FALSE /\ Filed(d)
  BY DEF Plan, IsActive, NoPhantomVerdict, TypeOK, Rows, NoRow, Filed
<1>4. UNCHANGED <<row, moneyVars, crashes>> /\ work[a].stage = "idle"
  BY DEF Plan
<1>5. TypeOK'
  BY <1>1, <1>2, <1>3, <1>4 DEF TypeOK, Work, Stages
<1>6. Holding' /\ Moving' /\ Apart' /\ CleanPlan'
  BY <1>1, <1>3, <1>4 DEF TypeOK, Holding, Moving, Apart, CleanPlan, Busy
<1>7. OneClaim' /\ ConfirmedHeld' /\ SentShows' /\ Accounted' /\ NoPhantomVerdict'
  BY <1>1, <1>4 DEF TypeOK, OneClaim, ConfirmedHeld, SentShows, Accounted, NoPhantomVerdict,
     Claims, Filed, IsActive
<1> QED BY <1>5, <1>6, <1>7

\* A ruling that ends holds nothing any more, and touches no other's.
LEMMA EndStep ==
    ASSUME IInv, NEW a \in Admins, Ends(a)
    PROVE  /\ work' \in [Admins -> Work]
           /\ ~Busy(a)' /\ work'[a].stage = "idle"
           /\ \A b \in Admins \ {a} : work'[b] = work[b] /\ (Busy(b)' <=> Busy(b))
           /\ Moving' /\ Apart' /\ CleanPlan'
<1> USE DEF IInv, TypeOK
<1>1. Idle \in Work /\ Idle.stage = "idle" /\ ~Idle.hadVerdict
  BY NoneAssumption, AmountAssumption DEF Idle, Work, Stages, Active
<1>2. work'[a] = Idle /\ \A b \in Admins \ {a} : work'[b] = work[b]
  BY DEF Ends
<1>3. work' \in [Admins -> Work]
  BY <1>1 DEF Ends
<1>4. ~Busy(a)' /\ \A b \in Admins \ {a} : Busy(b)' <=> Busy(b)
  BY <1>1, <1>2 DEF Busy
<1>5. Moving'
  BY <1>1, <1>2 DEF Moving
<1>6. Apart' /\ CleanPlan'
  BY <1>1, <1>2, <1>4 DEF Apart, CleanPlan
<1> QED BY <1>1, <1>2, <1>3, <1>4, <1>5, <1>6

\* A ruling that goes on keeps its dispute and its money action, and touches no
\* other's.
LEMMA GoesStep ==
    ASSUME IInv, NEW a \in Admins, NEW s \in Stages, Goes(a, s),
           work[a].stage # "idle" /\ s # "idle",
           s \in {"claimed", "failed"} => work[a].money \in Moves,
           s = "captured" => work[a].money = "RELEASE",
           s \in {"claimed", "captured", "failed", "moved"} => Busy(a)
    PROVE  /\ work' \in [Admins -> Work]
           /\ work'[a].stage = s /\ work'[a].d = work[a].d
           /\ work'[a].money = work[a].money
           /\ \A b \in Admins \ {a} : work'[b] = work[b] /\ (Busy(b)' <=> Busy(b))
           /\ Moving' /\ Apart' /\ CleanPlan'
<1> USE DEF IInv, TypeOK
<1>1. /\ work'[a] = [work[a] EXCEPT !.stage = s]
      /\ \A b \in Admins \ {a} : work'[b] = work[b]
  BY DEF Goes
<1>2. /\ work'[a] \in Work
      /\ work'[a].stage = s /\ work'[a].d = work[a].d
      /\ work'[a].money = work[a].money /\ work'[a].hadVerdict = work[a].hadVerdict
  BY <1>1 DEF Work
<1>3. work' \in [Admins -> Work]
  BY <1>2 DEF Goes
<1>4. (Busy(a)' => Busy(a)) /\ \A b \in Admins \ {a} : Busy(b)' <=> Busy(b)
  BY <1>1, <1>2 DEF Busy
<1>5. Moving'
  BY <1>1, <1>2 DEF Moving
<1>8. \A b \in Admins : /\ Busy(b)' => Busy(b)
                         /\ work'[b].d = work[b].d
                         /\ work'[b].hadVerdict = work[b].hadVerdict
  BY <1>1, <1>2, <1>4, Zenon
<1>6. Apart' /\ CleanPlan'
  <2>1. ASSUME NEW b \in Admins, NEW c \in Admins, Busy(b)', Busy(c)',
               work'[b].d = work'[c].d
        PROVE  b = c
    BY <1>8, <2>1 DEF Apart
  <2>2. Apart'
    BY <2>1 DEF Apart
  <2>3. CleanPlan'
    BY <1>1, <1>2 DEF CleanPlan
  <2> QED BY <2>2, <2>3
<1>7. ASSUME NEW b \in Admins \ {a}
      PROVE  work'[b] = work[b] /\ (Busy(b)' <=> Busy(b))
  BY <1>1, <1>4, Zenon
<1> QED BY <1>2, <1>3, <1>5, <1>6, <1>7, Zenon

\* The claim and its row are one update: it takes the dispute from everyone else
\* who planned, and where it takes the payment nobody else had it.
LEMMA ClaimStep ==
    ASSUME IInv, NEW a \in Admins, Claim(a)
    PROVE  IInv'
<1> USE NoneAssumption DEF IInv, moneyVars
<1> DEFINE w == work[a]
           d == work[a].d
<1>1. /\ w \in Work /\ w.stage = "planned" /\ d \in Disputes
      /\ UNCHANGED <<moneyVars, crashes>>
  BY DEF Claim, TypeOK, Moving
<1>2. CASE ~Claimable(d)
  <2>1. Ends(a) /\ row' = row
    BY <1>2 DEF Claim
  <2>2. TypeOK' /\ Moving' /\ Apart' /\ CleanPlan'
    BY <1>1, <2>1, EndStep DEF TypeOK
  <2>3. Holding'
    BY <2>1, EndStep DEF Holding
  <2>4. OneClaim' /\ ConfirmedHeld' /\ SentShows' /\ Accounted' /\ NoPhantomVerdict'
    BY <1>1, <2>1, EndStep DEF OneClaim, ConfirmedHeld, SentShows, Accounted,
       NoPhantomVerdict, Claims, Filed, IsActive
  <2> QED BY <2>2, <2>3, <2>4
<1>3. CASE Claimable(d)
  <2> DEFINE r == [row[d] EXCEPT !.status = "RESOLVED", !.verdict = TRUE, !.by = a,
                                 !.money = Written(w.money), !.amount = FALSE]
             at == IF w.money = "NONE" THEN "moved" ELSE "claimed"
  <2>1. row[d] \in Rows /\ row[d].status \in Active /\ row[d].money = "null"
    BY <1>1, <1>3 DEF Claimable, TypeOK, NoRow, Active, NoPhantomVerdict, IsActive, Filed
  <2>2. /\ r \in Rows
        /\ r.status = "RESOLVED" /\ r.by = a /\ r.money = Written(w.money)
    BY <1>1, <2>1 DEF Rows, Written, Work, DisputeStatuses
  <2>3. row' = [row EXCEPT ![d] = r]
    BY <1>1, <1>3, <2>1 DEF Claim, Written, TypeOK
  <2>4. work' = [work EXCEPT ![a].stage = at]
    BY <1>3 DEF Claim
  <2>5. w.money \in Moves => \A e \in Disputes \ {d} : ~Claims(e)
    BY <1>3 DEF Claim, Conflicts, SiblingClaims
  <2> HIDE DEF r
  <2>6. TypeOK'
    BY <1>1, <2>2, <2>3, <2>4 DEF TypeOK, Work, Stages
  <2>7. \A b \in Admins : Busy(b) => work[b].d # d
    BY <2>1 DEF Holding, Active
  <2>8. Holding' /\ Moving' /\ Apart' /\ CleanPlan'
    <3>1. \A b \in Admins \ {a} : work'[b] = work[b] /\ Busy(b)' = Busy(b)
      BY <2>4 DEF TypeOK, Busy
    <3>2. /\ work'[a].d = d /\ work'[a].money = w.money /\ work'[a].stage = at
          /\ work'[a].hadVerdict = w.hadVerdict
      BY <1>1, <2>4 DEF TypeOK, Work
    <3>3. \A e \in Disputes \ {d} : row'[e] = row[e]
      BY <2>3 DEF TypeOK
    <3>4. row'[d] = r
      BY <1>1, <2>3 DEF TypeOK
    <3>5. Holding'
      BY <1>1, <2>2, <2>7, <3>1, <3>2, <3>3, <3>4 DEF Holding
    <3>6. Moving' /\ CleanPlan'
      BY <1>1, <3>1, <3>2 DEF Moving, CleanPlan, Work
    <3>7. Apart'
      BY <2>7, <3>1, <3>2 DEF Apart
    <3> QED BY <3>5, <3>6, <3>7
  <2>9. \A e \in Disputes : Claims(e)' <=> Claims(e) \/ (e = d /\ w.money \in Moves)
    BY <1>1, <2>1, <2>2, <2>3 DEF TypeOK, Claims, Filed, Rows, NoRow, Written, Moves, Work
  <2>10. ~Claims(d) /\ d \notin confirmed
    BY <1>1, <2>1 DEF Claims, ConfirmedHeld, Moves
  <2>11. OneClaim' /\ SentShows' /\ Accounted'
    BY <1>1, <2>3, <2>5, <2>9, <2>10
    DEF TypeOK, OneClaim, SentShows, Accounted
  <2>12. ConfirmedHeld'
    BY <1>1, <2>4, <2>9, <2>10 DEF TypeOK, ConfirmedHeld, Work
  <2>13. NoPhantomVerdict'
    BY <1>1, <2>2, <2>3 DEF TypeOK, NoPhantomVerdict, IsActive, Filed, Active
  <2> QED BY <2>6, <2>8, <2>11, <2>12, <2>13
<1> QED BY <1>2, <1>3

\* Denied the payment, the ruling plans on without money.
LEMMA DeniedStep ==
    ASSUME IInv, NEW a \in Admins, ClaimDenied(a)
    PROVE  IInv'
<1> USE NoneAssumption DEF IInv, moneyVars
<1>1. /\ work[a].stage = "planned"
      /\ work' = [work EXCEPT ![a] = [@ EXCEPT !.money = "NONE", !.units = 0]]
      /\ UNCHANGED <<row, moneyVars, crashes>>
  BY DEF ClaimDenied, TypeOK, Work
<1> DEFINE w == [work[a] EXCEPT !.money = "NONE", !.units = 0]
<1>6. work[a] \in Work
  BY DEF TypeOK
<1>7. /\ w \in Work /\ w.stage = "planned"
      /\ w.d = work[a].d /\ w.hadVerdict = work[a].hadVerdict
  <2> DEFINE v == [work[a] EXCEPT !.money = "NONE"]
  <2>1. /\ v \in Work /\ v.stage = work[a].stage
        /\ v.d = work[a].d /\ v.hadVerdict = work[a].hadVerdict
    BY <1>6 DEF Work
  <2>2. w = [v EXCEPT !.units = 0]
    OBVIOUS
  <2> HIDE DEF v, w
  <2> QED BY <1>1, <2>1, <2>2, AmountAssumption DEF Work
<1>2. /\ work'[a] \in Work /\ work'[a].stage = "planned"
      /\ work'[a].d = work[a].d /\ work'[a].hadVerdict = work[a].hadVerdict
      /\ \A b \in Admins \ {a} : work'[b] = work[b]
  BY <1>1, <1>7 DEF TypeOK
<1>3. TypeOK'
  BY <1>1, <1>2 DEF TypeOK
<1>4. Holding' /\ Moving' /\ Apart' /\ CleanPlan'
  BY <1>1, <1>2 DEF Holding, Moving, Apart, CleanPlan, Busy
<1>5. OneClaim' /\ ConfirmedHeld' /\ SentShows' /\ Accounted' /\ NoPhantomVerdict'
  BY <1>1, <1>2 DEF OneClaim, ConfirmedHeld, SentShows, Accounted, NoPhantomVerdict,
     Claims, Filed, IsActive
<1> QED BY <1>3, <1>4, <1>5

\* A ruling about to move money knows of no movement: one that was confirmed
\* holds the only claim, and its ruling is past that point.
LEMMA NoneConfirmed ==
    ASSUME IInv, NEW a \in Admins, work[a].stage = "claimed"
    PROVE  /\ work[a].d \in Disputes /\ Claims(work[a].d)
           /\ row[work[a].d].money = work[a].money
           /\ confirmed = {} /\ out.d = NoDispute
<1> USE DEF IInv
<1>1. Busy(a) /\ work[a].d \in Disputes /\ work[a].money \in Moves
  BY DEF Busy, Moving
<1>2. Claims(work[a].d) /\ row[work[a].d].money = work[a].money
  BY <1>1 DEF Holding, Claims, Filed, Written, Moves, NoRow
<1>3. confirmed = {}
  BY <1>1, <1>2 DEF ConfirmedHeld, OneClaim
<1>4. out.d = NoDispute
  BY <1>3 DEF SentShows
<1> QED BY <1>1, <1>2, <1>3, <1>4

\* The money of a ruling changes no row.  What it must leave true of the
\* payment is all that there is to show of it.
LEMMA MoneyStep ==
    ASSUME IInv, NEW a \in Admins, NEW s \in {"captured", "failed", "moved"},
           Goes(a, s), Busy(a), UNCHANGED <<row, crashes>>,
           s = "failed" => work[a].money \in Moves /\ work[a].d \notin confirmed',
           s = "captured" => work[a].money = "RELEASE",
           pay' \in Payments, out' \in Transfers, moves' \in Nat, lost' \in Nat,
           confirmed' \subseteq confirmed \cup {work[a].d},
           confirmed' # confirmed => work[a].stage = "claimed",
           SentShows', Accounted'
    PROVE  IInv'
<1> USE DEF IInv
<1>1. s \in Stages /\ work[a].stage # "idle"
  BY DEF Stages, Busy
<1>2. /\ work' \in [Admins -> Work]
      /\ work'[a].stage = s /\ work'[a].d = work[a].d /\ work'[a].money = work[a].money
      /\ \A b \in Admins \ {a} : work'[b] = work[b] /\ (Busy(b)' <=> Busy(b))
      /\ Moving' /\ Apart' /\ CleanPlan'
  BY <1>1, GoesStep
<1>3. work[a].d \in Disputes
  BY <1>1 DEF Moving
<1>4. TypeOK'
  BY <1>2, <1>3 DEF TypeOK
<1>5. Holding'
  BY <1>2 DEF Holding
<1>6. OneClaim' /\ NoPhantomVerdict'
  BY DEF OneClaim, NoPhantomVerdict, Claims, Filed, IsActive
<1>7. ConfirmedHeld'
  <2>1. \A d \in confirmed' : d \in Disputes /\ Claims(d)'
    BY <1>3, NoneConfirmed DEF ConfirmedHeld, Claims, Filed
  <2>2. ASSUME NEW b \in Admins, work'[b].stage \in {"claimed", "failed"}
        PROVE  work'[b].d \notin confirmed'
    <3>1. CASE b = a
      BY <1>2, <2>2, <3>1
    <3>2. CASE b # a
      <4>1. work'[b] = work[b] /\ Busy(b) /\ work[b].d # work[a].d
        BY <1>2, <2>2, <3>2 DEF Busy, Apart
      <4> QED BY <2>2, <4>1 DEF ConfirmedHeld
    <3> QED BY <3>1, <3>2
  <2> QED BY <2>1, <2>2 DEF ConfirmedHeld
<1> QED BY <1>2, <1>4, <1>5, <1>6, <1>7

\* What a refund leaves of the payment.
LEMMA RefundedType ==
    ASSUME TypeOK, NEW x \in 0..Amount, pay.refunded + x <= Amount
    PROVE  /\ Refunded(x) \in Payments /\ Refunded(x).code = pay.code
           /\ Refunded(x).status \in {pay.status, "REFUNDED"}
<1>1. pay.refunded \in 0..Amount /\ pay.refunded + x \in 0..Amount
  BY AmountAssumption DEF TypeOK, Payments
<1> DEFINE v == [pay EXCEPT !.refunded = @ + x]
<1>2. /\ v \in Payments /\ v.code = pay.code /\ v.status = pay.status
  BY <1>1 DEF TypeOK, Payments
<1>3. Refunded(x) = [v EXCEPT !.status = IF pay.refunded + x >= Amount THEN "REFUNDED" ELSE @]
  BY DEF Refunded
<1> HIDE DEF v
<1> QED BY <1>2, <1>3 DEF Payments, PaymentStatuses

\* A refund that Paystack took is confirmed, or its answer was lost; the
\* payment had no movement that its ruling knew of.
LEMMA MoveRefundStep ==
    ASSUME IInv, NEW a \in Admins, MoveRefund(a)
    PROVE  IInv'
<1> USE DEF IInv
<1> DEFINE w == work[a]
<1>1. /\ w.stage = "claimed" /\ w.money = "REFUND" /\ Busy(a)
      /\ UNCHANGED <<row, crashes>>
  BY DEF MoveRefund, Busy
<1>2. /\ w.d \in Disputes /\ row[w.d].money = "REFUND"
      /\ confirmed = {} /\ out.d = NoDispute
  BY <1>1, NoneConfirmed
<1>3. /\ w.units \in 0..Amount
      /\ pay \in Payments /\ out \in Transfers /\ moves \in Nat /\ lost \in Nat
  BY DEF TypeOK, Work
<1>4. CASE /\ w.units <= Amount - pay.refunded /\ pay' = Refunded(w.units)
           /\ Confirms(w.d) /\ Goes(a, "moved") /\ UNCHANGED <<out, lost>>
  <2>1. pay.refunded + w.units <= Amount
    BY <1>3, <1>4, AmountAssumption DEF Payments
  <2>2. pay' \in Payments
    BY <1>3, <1>4, <2>1, RefundedType
  <2>3. confirmed' = {w.d} /\ moves' = moves + 1
    BY <1>2, <1>4 DEF Confirms
  <2>4. SentShows'
    BY <1>1, <1>2, <1>4, <2>3 DEF SentShows
  <2>5. Accounted' /\ moves' \in Nat
    BY <1>2, <1>3, <1>4, <2>3 DEF Accounted
  <2> QED BY <1>1, <1>2, <1>3, <1>4, <2>2, <2>3, <2>4, <2>5, MoneyStep
<1>5. CASE Goes(a, "failed") /\ UNCHANGED moneyVars
  <2>1. SentShows' /\ Accounted'
    BY <1>1, <1>5 DEF SentShows, Accounted, moneyVars
  <2>2. UNCHANGED <<pay, out, moves, confirmed, lost>>
    BY <1>5 DEF moneyVars
  <2> QED BY <1>1, <1>2, <1>3, <1>5, <2>1, <2>2, MoneyStep DEF Moves
<1>6. CASE Loses /\ Goes(a, "failed") /\ UNCHANGED <<pay, out>>
  <2>1. lost' = lost + 1 /\ moves' = moves + 1 /\ confirmed' = confirmed
    BY <1>6 DEF Loses
  <2>2. SentShows' /\ Accounted' /\ moves' \in Nat /\ lost' \in Nat
    BY <1>1, <1>2, <1>3, <1>6, <2>1 DEF SentShows, Accounted
  <2> QED BY <1>1, <1>2, <1>3, <1>6, <2>1, <2>2, MoneyStep DEF Moves
<1> QED BY <1>4, <1>5, <1>6 DEF MoveRefund

\* A release that Paystack took is the transfer that the payment now shows.
LEMMA CaptureStep ==
    ASSUME IInv, NEW a \in Admins, CaptureForRuling(a)
    PROVE  IInv'
<1> USE DEF IInv
<1> DEFINE d == work[a].d
<1>1. /\ work[a].stage = "claimed" /\ work[a].money = "RELEASE" /\ Busy(a)
      /\ UNCHANGED <<row, crashes>>
  BY DEF CaptureForRuling, Busy
<1>2. /\ d \in Disputes /\ row[d].money = "RELEASE"
      /\ confirmed = {} /\ out.d = NoDispute
  BY <1>1, NoneConfirmed
<1>3. pay \in Payments /\ out \in Transfers /\ moves \in Nat /\ lost \in Nat
  BY DEF TypeOK
<1>4. CASE UNCHANGED moneyVars /\ (Goes(a, "failed") \/ Goes(a, "captured"))
  <2>1. UNCHANGED <<pay, out, moves, confirmed, lost>>
    BY <1>4 DEF moneyVars
  <2>2. SentShows' /\ Accounted'
    BY <1>1, <2>1 DEF SentShows, Accounted
  <2>3. CASE Goes(a, "failed")
    BY <1>1, <1>2, <1>3, <2>1, <2>2, <2>3, MoneyStep DEF Moves
  <2>4. CASE Goes(a, "captured")
    BY <1>1, <1>2, <1>3, <2>1, <2>2, <2>4, MoneyStep DEF Moves
  <2> QED BY <1>4, <2>3, <2>4
<1>5. CASE /\ pay' = [pay EXCEPT !.status = "PENDING_TRANSFER"]
           /\ Goes(a, "captured") /\ UNCHANGED <<out, moves, confirmed, lost>>
  <2>1. pay' \in Payments
    BY <1>3, <1>5 DEF Payments, PaymentStatuses, Releasable
  <2>2. SentShows' /\ Accounted'
    BY <1>2, <1>5 DEF SentShows, Accounted
  <2> QED BY <1>1, <1>2, <1>3, <1>5, <2>1, <2>2, MoneyStep
<1>6. CASE /\ pay' = [pay EXCEPT !.status = "HELD", !.code = TRUE]
           /\ out' = [alive |-> TRUE, d |-> d]
           /\ Confirms(d) /\ Goes(a, "captured") /\ UNCHANGED lost
  <2>1. pay' \in Payments /\ pay'.status = "HELD" /\ pay'.code = TRUE
    BY <1>3, <1>6 DEF Payments, PaymentStatuses, Releasable
  <2>2. out' \in Transfers /\ confirmed' = {d} /\ moves' = moves + 1
    BY <1>2, <1>6 DEF Transfers, Confirms
  <2>3. SentShows' /\ Accounted' /\ moves' \in Nat
    BY <1>1, <1>2, <1>3, <1>6, <2>1, <2>2 DEF SentShows, Accounted
  <2> QED BY <1>1, <1>2, <1>3, <1>6, <2>1, <2>2, <2>3, MoneyStep
<1>7. CASE /\ pay' = [pay EXCEPT !.status = "TRANSFER_FAILED"]
           /\ out' = [alive |-> FALSE, d |-> NoDispute]
           /\ Goes(a, "failed") /\ UNCHANGED <<moves, confirmed, lost>>
  <2>1. pay' \in Payments /\ out' \in Transfers
    BY <1>3, <1>7 DEF Payments, PaymentStatuses, Releasable, Transfers
  <2>2. SentShows' /\ Accounted'
    BY <1>2, <1>7 DEF SentShows, Accounted
  <2> QED BY <1>1, <1>2, <1>3, <1>7, <2>1, <2>2, MoneyStep DEF Moves
<1>8. CASE /\ pay' = [pay EXCEPT !.status = "TRANSFER_FAILED"]
           /\ out' = [alive |-> TRUE, d |-> NoDispute]
           /\ Loses /\ Goes(a, "failed")
  <2>1. pay' \in Payments /\ out' \in Transfers
    BY <1>3, <1>8 DEF Payments, PaymentStatuses, Releasable, Transfers
  <2>2. lost' = lost + 1 /\ moves' = moves + 1 /\ confirmed' = confirmed
    BY <1>8 DEF Loses
  <2>3. SentShows' /\ Accounted' /\ moves' \in Nat /\ lost' \in Nat
    BY <1>2, <1>3, <1>8, <2>2 DEF SentShows, Accounted
  <2> QED BY <1>1, <1>2, <1>3, <1>8, <2>1, <2>2, <2>3, MoneyStep DEF Moves
<1> QED BY <1>4, <1>5, <1>6, <1>7, <1>8 DEF CaptureForRuling

\* The second look takes no transfer for a failure that its ruling learned of.
LEMMA SeeStep ==
    ASSUME IInv, NEW a \in Admins, SeeRelease(a)
    PROVE  IInv'
<1> USE DEF IInv
<1> DEFINE d == work[a].d
           failed == pay.status = "PENDING_TRANSFER" \/ (pay.status # "RELEASED" /\ ~pay.code)
<1>1. /\ work[a].stage = "captured" /\ work[a].money = "RELEASE" /\ Busy(a)
      /\ d \in Disputes /\ row[d].money = "RELEASE"
      /\ UNCHANGED <<row, crashes>> /\ UNCHANGED moneyVars
  BY DEF SeeRelease, Busy, Moving, Holding, Written
<1>2. /\ pay \in Payments /\ out \in Transfers /\ moves \in Nat /\ lost \in Nat
      /\ UNCHANGED <<pay, out, moves, confirmed, lost>>
  BY <1>1 DEF TypeOK, moneyVars
<1>3. SentShows' /\ Accounted'
  BY <1>1, <1>2 DEF SentShows, Accounted
<1>4. CASE failed
  <2>1. d \notin confirmed
    BY <1>1, <1>4, NoneAssumption DEF SentShows
  <2>2. Goes(a, "failed")
    BY <1>4 DEF SeeRelease
  <2> QED BY <1>1, <1>2, <1>3, <2>1, <2>2, MoneyStep DEF Moves
<1>5. CASE ~failed
  <2>1. Goes(a, "moved")
    BY <1>5 DEF SeeRelease
  <2> QED BY <1>1, <1>2, <1>3, <2>1, MoneyStep
<1> QED BY <1>4, <1>5

\* A rollback gives up a claim whose money is not known to have moved, and only
\* where the row is still the ruling's own.
LEMMA RollbackStep ==
    ASSUME IInv, NEW a \in Admins, Rollback(a)
    PROVE  IInv'
<1> USE NoneAssumption DEF IInv
<1> DEFINE d == work[a].d
<1>1. /\ work[a].stage = "failed" /\ work[a].money \in Moves /\ Busy(a)
      /\ d \in Disputes /\ d \notin confirmed /\ Ends(a)
      /\ UNCHANGED <<pay, out, moves, confirmed, lost, crashes>>
  BY DEF Rollback, Busy, Moving, ConfirmedHeld, moneyVars
<1>2. /\ work' \in [Admins -> Work] /\ ~Busy(a)' /\ work'[a].stage = "idle"
      /\ \A b \in Admins \ {a} : work'[b] = work[b] /\ (Busy(b)' <=> Busy(b))
      /\ Moving' /\ Apart' /\ CleanPlan'
  BY <1>1, EndStep
<1>3. /\ row[d] \in Rows /\ row[d].money = work[a].money
  BY <1>1 DEF TypeOK, Holding, Written, Moves, NoRow
<1>4. CASE OwnRuling(a)
  <2> DEFINE r == Restored(a)
  <2>1. row' = [row EXCEPT ![d] = r]
    BY <1>4 DEF Rollback
  <2>2. /\ r \in Rows /\ r.money = "null" /\ ~r.verdict /\ r.by = NoAdmin /\ ~r.amount
    BY <1>3 DEF Restored, Rows, TypeOK, Work, DisputeStatuses, CleanPlan
  <2> HIDE DEF r
  <2>3. row' \in [Disputes -> Rows \cup {NoRow}]
    BY <2>1, <2>2 DEF TypeOK
  <2>4. row'[d] = r /\ \A e \in Disputes \ {d} : row'[e] = row[e]
    BY <1>1, <2>1 DEF TypeOK
  <2>5. Holding'
    <3>1. ASSUME NEW b \in Admins, Busy(b)'
          PROVE  b # a /\ Busy(b) /\ work'[b] = work[b] /\ work[b].d # d
      BY <1>1, <1>2, <3>1 DEF Apart
    <3>2. ASSUME NEW b \in Admins, Busy(b)'
          PROVE  work[b].d \in Disputes /\ row'[work[b].d] = row[work[b].d]
      BY <2>4, <3>1, <3>2 DEF Holding
    <3> QED BY <3>1, <3>2 DEF Holding
  <2>6. \A e \in Disputes : /\ Claims(e)' => Claims(e) /\ e # d
                            /\ Claims(e) /\ e # d => Claims(e)'
    BY <2>2, <2>4 DEF Claims, Filed, Moves
  <2>7. OneClaim'
    BY <2>6 DEF OneClaim
  <2>8. ConfirmedHeld'
    <3>1. \A e \in confirmed' : e \in Disputes /\ Claims(e)'
      BY <1>1, <2>6 DEF ConfirmedHeld
    <3>2. \A b \in Admins : work'[b].stage \in {"claimed", "failed"} => work'[b].d \notin confirmed'
      BY <1>1, <1>2 DEF ConfirmedHeld
    <3> QED BY <3>1, <3>2 DEF ConfirmedHeld
  <2>9. SentShows' /\ Accounted'
    BY <1>1, <2>4 DEF SentShows, Accounted, ConfirmedHeld
  <2>10. NoPhantomVerdict'
    BY <2>2, <2>4 DEF NoPhantomVerdict, IsActive, Filed
  <2>11. TypeOK'
    BY <1>1, <1>2, <2>3 DEF TypeOK
  <2> QED BY <1>2, <2>5, <2>7, <2>8, <2>9, <2>10, <2>11
<1>5. CASE ~OwnRuling(a)
  <2>1. row' = row
    BY <1>5 DEF Rollback
  <2>2. TypeOK' /\ Holding'
    BY <1>1, <1>2, <2>1 DEF TypeOK, Holding
  <2>3. OneClaim' /\ SentShows' /\ Accounted' /\ NoPhantomVerdict'
    BY <1>1, <2>1 DEF OneClaim, SentShows, Accounted, NoPhantomVerdict,
       Claims, Filed, IsActive
  <2>4. ConfirmedHeld'
    BY <1>1, <1>2, <2>1 DEF ConfirmedHeld, Claims, Filed
  <2> QED BY <1>2, <2>2, <2>3, <2>4
<1> QED BY <1>4, <1>5

\* What is recorded is what was claimed.
LEMMA RecordStep ==
    ASSUME IInv, NEW a \in Admins, Record(a)
    PROVE  IInv'
<1> USE NoneAssumption DEF IInv
<1> DEFINE w == work[a]
           d == work[a].d
<1>1. /\ w \in Work /\ w.stage = "moved" /\ Busy(a) /\ Ends(a) /\ d \in Disputes
      /\ UNCHANGED <<pay, out, moves, confirmed, lost>>
  BY DEF Record, Busy, Moving, TypeOK, moneyVars
<1>2. /\ work' \in [Admins -> Work] /\ ~Busy(a)' /\ work'[a].stage = "idle"
      /\ \A b \in Admins \ {a} : work'[b] = work[b] /\ (Busy(b)' <=> Busy(b))
      /\ Moving' /\ Apart' /\ CleanPlan'
  BY <1>1, EndStep
<1>3. /\ row[d] \in Rows /\ row[d].money = Written(w.money)
      /\ row[d].status \in {"RESOLVED", "CLOSED"}
  BY <1>1 DEF TypeOK, Holding, NoRow
<1>4. ConfirmedHeld' <=> \A e \in confirmed : Claims(e)'
  BY <1>1, <1>2 DEF ConfirmedHeld
<1>5. CASE /\ row' = [row EXCEPT ![d].money = w.money, ![d].amount = w.money \in Moves]
           /\ UNCHANGED crashes
  <2> DEFINE r == [row[d] EXCEPT !.money = w.money, !.amount = w.money \in Moves]
  <2>1. /\ r \in Rows /\ r.money = w.money /\ r.status = row[d].status /\ r.by = row[d].by
    <3> DEFINE v == [row[d] EXCEPT !.money = w.money]
               moved == w.money \in Moves
    <3>1. /\ v \in Rows /\ v.money = w.money /\ v.status = row[d].status
          /\ v.by = row[d].by
      BY <1>1, <1>3 DEF Rows, Work
    <3>2. r = [v EXCEPT !.amount = moved] /\ moved \in BOOLEAN
      OBVIOUS
    <3> HIDE DEF v, moved, r
    <3> QED BY <3>1, <3>2 DEF Rows
  <2>2. row' = [row EXCEPT ![d] = r]
    BY <1>5, <1>3 DEF TypeOK
  <2> HIDE DEF r
  <2>3. row'[d] = r /\ \A e \in Disputes \ {d} : row'[e] = row[e]
    BY <1>1, <2>2 DEF TypeOK
  <2>4. TypeOK'
    BY <1>1, <1>2, <1>5, <2>1, <2>2 DEF TypeOK
  <2>5. Holding'
    <3>1. ASSUME NEW b \in Admins, Busy(b)'
          PROVE  b # a /\ Busy(b) /\ work'[b] = work[b] /\ work[b].d # d
      BY <1>1, <1>2, <3>1 DEF Apart
    <3>2. ASSUME NEW b \in Admins, Busy(b)'
          PROVE  work[b].d \in Disputes /\ row'[work[b].d] = row[work[b].d]
      BY <2>3, <3>1, <3>2 DEF Holding
    <3> QED BY <3>1, <3>2 DEF Holding
  <2>6. \A e \in Disputes : Claims(e)' <=> Claims(e)
    BY <1>3, <2>1, <2>3 DEF Claims, Filed, Moves, Written, Rows, NoRow, DisputeStatuses,
       Active
  <2>7. OneClaim' /\ ConfirmedHeld'
    BY <1>1, <1>4, <2>6 DEF OneClaim, ConfirmedHeld
  <2>8. SentShows' /\ Accounted'
    BY <1>1, <1>3, <2>1, <2>3 DEF SentShows, Accounted, ConfirmedHeld, Written
  <2>9. NoPhantomVerdict'
    BY <1>3, <2>1, <2>3 DEF NoPhantomVerdict, IsActive, Filed, Active
  <2> QED BY <1>2, <2>4, <2>5, <2>7, <2>8, <2>9
<1>6. CASE crashes' = crashes + 1 /\ UNCHANGED row
  <2>1. TypeOK' /\ Holding'
    BY <1>1, <1>2, <1>6 DEF TypeOK, Holding
  <2>2. OneClaim' /\ SentShows' /\ Accounted' /\ NoPhantomVerdict'
    BY <1>1, <1>6 DEF OneClaim, SentShows, Accounted, NoPhantomVerdict, Claims, Filed,
       IsActive
  <2>3. ConfirmedHeld'
    BY <1>1, <1>4, <1>6 DEF ConfirmedHeld, Claims, Filed
  <2> QED BY <1>2, <2>1, <2>2, <2>3
<1> QED BY <1>5, <1>6 DEF Record

\* A ruling whose process dies leaves what it claimed.
LEMMA CrashStep ==
    ASSUME IInv, NEW a \in Admins, Crash(a)
    PROVE  IInv'
<1> USE DEF IInv
<1>1. Ends(a) /\ UNCHANGED <<row, pay, out, moves, confirmed, lost>> /\ crashes' = crashes + 1
  BY DEF Crash, moneyVars
<1>2. /\ work' \in [Admins -> Work] /\ ~Busy(a)' /\ work'[a].stage = "idle"
      /\ \A b \in Admins \ {a} : work'[b] = work[b] /\ (Busy(b)' <=> Busy(b))
      /\ Moving' /\ Apart' /\ CleanPlan'
  BY <1>1, EndStep
<1>3. TypeOK' /\ Holding'
  BY <1>1, <1>2 DEF TypeOK, Holding
<1>4. OneClaim' /\ SentShows' /\ Accounted' /\ NoPhantomVerdict'
  BY <1>1 DEF OneClaim, SentShows, Accounted, NoPhantomVerdict, Claims, Filed, IsActive
<1>5. ConfirmedHeld'
  BY <1>1, <1>2 DEF ConfirmedHeld, Claims, Filed
<1> QED BY <1>2, <1>3, <1>4, <1>5

\* Nobody else moves what a ruling's transfer holds, and a transfer that Paystack
\* undoes is taken off the account.
LEMMA OthersStep ==
    ASSUME IInv, OthersPay \/ OthersCapture \/ TransferSucceeds \/ TransferFails
    PROVE  IInv'
<1> USE NoneAssumption DEF IInv
<1>1. /\ UNCHANGED <<row, work, lost, crashes>> /\ confirmed' \subseteq confirmed
      /\ pay \in Payments /\ out \in Transfers /\ moves \in Nat /\ lost \in Nat
  BY DEF OthersPay, OthersCapture, TransferSucceeds, TransferFails, TypeOK
<1>2. Holding' /\ Moving' /\ Apart' /\ CleanPlan' /\ OneClaim' /\ NoPhantomVerdict'
  BY <1>1 DEF Holding, Moving, Apart, CleanPlan, OneClaim, NoPhantomVerdict, Busy,
     Claims, Filed, IsActive
<1>3. ConfirmedHeld'
  BY <1>1 DEF ConfirmedHeld, Claims, Filed
<1>4. /\ pay' \in Payments /\ out' \in Transfers /\ moves' \in Nat
      /\ SentShows' /\ Accounted'
  <2>1. CASE OthersPay
    <3> DEFINE Keeps == /\ pay' \in Payments /\ pay'.code = pay.code
                        /\ pay'.status \in {pay.status, "REFUNDED", "HELD"}
                        /\ pay.status \in {"PENDING", "HELD", "RELEASED"}
    <3>1. Keeps
      <4>1. ASSUME pay.status = "PENDING", pay' = [pay EXCEPT !.status = "HELD"]
            PROVE  Keeps
        BY <1>1, <4>1 DEF Payments, PaymentStatuses, Releasable
      <4>2. ASSUME CanRefund, NEW x \in 1..(Amount - pay.refunded), pay' = Refunded(x)
            PROVE  Keeps
        <5>1. x \in 0..Amount /\ pay.refunded + x <= Amount
          BY <1>1, AmountAssumption DEF Payments
        <5> QED BY <4>2, <5>1, RefundedType DEF CanRefund
      <4>3. ASSUME pay.status = "HELD",
                   pay' = [pay EXCEPT !.status = "REFUNDED", !.refunded = Amount]
            PROVE  Keeps
        <5>1. Amount \in 0..Amount
          BY AmountAssumption
        <5> QED BY <1>1, <4>3, <5>1 DEF Payments, PaymentStatuses, Releasable
      <4> HIDE DEF Keeps
      <4> QED BY <2>1, <4>1, <4>2, <4>3 DEF OthersPay
    <3>2. UNCHANGED <<out, moves, confirmed>>
      BY <2>1 DEF OthersPay
    <3> QED BY <1>1, <3>1, <3>2 DEF SentShows, Accounted
  <2>2. CASE OthersCapture
    <3>1. out.d = NoDispute /\ UNCHANGED <<moves, confirmed>>
      BY <2>2 DEF OthersCapture, CanRelease, SentShows, Releasable
    <3>2. pay' \in Payments /\ out' \in Transfers /\ out'.d = NoDispute
      <4>1. /\ [pay EXCEPT !.status = "HELD", !.code = TRUE] \in Payments
            /\ [pay EXCEPT !.status = "PENDING_TRANSFER"] \in Payments
            /\ [pay EXCEPT !.status = "TRANSFER_FAILED"] \in Payments
        BY <1>1 DEF Payments, PaymentStatuses, Releasable
      <4>2. \A up \in BOOLEAN : [alive |-> up, d |-> NoDispute] \in Transfers
        BY DEF Transfers
      <4>3. CASE /\ pay' = [pay EXCEPT !.status = "HELD", !.code = TRUE]
                 /\ out' = [alive |-> TRUE, d |-> NoDispute]
        BY <4>1, <4>2, <4>3
      <4>4. CASE pay' = [pay EXCEPT !.status = "PENDING_TRANSFER"] /\ UNCHANGED out
        BY <1>1, <3>1, <4>1, <4>4
      <4>5. CASE /\ pay' = [pay EXCEPT !.status = "TRANSFER_FAILED"]
                 /\ out' = [alive |-> FALSE, d |-> NoDispute]
        BY <4>1, <4>2, <4>5
      <4> QED BY <2>2, <4>3, <4>4, <4>5 DEF OthersCapture
    <3> QED BY <1>1, <3>1, <3>2 DEF SentShows, Accounted
  <2>3. CASE TransferSucceeds
    <3>1. /\ pay' \in Payments /\ pay'.status = "RELEASED" /\ pay'.code = pay.code
          /\ UNCHANGED <<out, moves, confirmed>>
      BY <1>1, <2>3 DEF TransferSucceeds, Payments, PaymentStatuses
    <3> QED BY <1>1, <3>1 DEF SentShows, Accounted
  <2>4. CASE TransferFails
    <3>1. /\ pay' \in Payments /\ out' \in Transfers /\ out'.d = NoDispute
          /\ confirmed' = confirmed \ {out.d}
          /\ moves' = IF out.d = NoDispute THEN moves ELSE moves - 1
      BY <1>1, <2>4 DEF TransferFails, Payments, PaymentStatuses, Releasable, Transfers
    <3>2. CASE out.d = NoDispute
      <4>1. confirmed' = confirmed
        BY <3>1, <3>2 DEF TypeOK
      <4> QED BY <1>1, <3>1, <3>2, <4>1 DEF SentShows, Accounted
    <3>3. CASE out.d # NoDispute
      <4>1. confirmed = {out.d} /\ confirmed' = {}
        BY <3>1, <3>3 DEF SentShows, ConfirmedHeld, OneClaim
      <4> QED BY <1>1, <3>1, <3>3, <4>1 DEF SentShows, Accounted
    <3> QED BY <3>2, <3>3
  <2> QED BY <2>1, <2>2, <2>3, <2>4
<1>5. TypeOK'
  BY <1>1, <1>4 DEF TypeOK
<1> QED BY <1>2, <1>3, <1>4, <1>5

\* Every step of the parties, the admins, Paystack and the rest of the payment's
\* handlers keeps the inductive invariant.
LEMMA StepIInv == IInv /\ [Next]_vars => IInv'
<1> SUFFICES ASSUME IInv, [Next]_vars PROVE IInv'
  OBVIOUS
<1>1. ASSUME NEW a \in Admins, Ruling(a) \/ Crash(a) PROVE IInv'
  BY <1>1, ClaimStep, DeniedStep, MoveRefundStep, CaptureStep, SeeStep, RollbackStep,
     RecordStep, CrashStep DEF Ruling
<1>2. CASE UNCHANGED vars
  BY <1>2 DEF vars, IInv, TypeOK, Holding, Moving, Apart, OneClaim, ConfirmedHeld,
     SentShows, Accounted, CleanPlan, NoPhantomVerdict, Busy, Claims, Filed, IsActive
<1> QED BY <1>1, <1>2, RowStep, PlanStep, OthersStep DEF Next

\* The inductive invariant holds in every reachable state.
THEOREM Invariant == Spec => []IInv
  BY InitIInv, StepIInv, PTL DEF Spec

\* Every column of a dispute and of its payment keeps its type.
THEOREM TypeCorrect == Spec => []TypeOK
<1>1. IInv => TypeOK
  BY DEF IInv
<1> QED BY Invariant, <1>1, PTL

\* However many admins rule on however many disputes of one payment, rulings move
\* its money once, but for the answers that Paystack lost.
THEOREM MovesOnce == Spec => []OneMovement
<1>1. IInv => OneMovement
  BY DEF IInv, TypeOK, Accounted, OneMovement
<1> QED BY Invariant, <1>1, PTL

\* A failed ruling leaves nothing of itself on a dispute that is open work again.
THEOREM NoTraceLeft == Spec => []NoPhantomVerdict
<1>1. IInv => NoPhantomVerdict
  BY DEF IInv
<1> QED BY Invariant, <1>1, PTL

\* What an admin closed no ruling under way reopens or takes over.
THEOREM ClosedForGood == Spec => ClosedStands
<1> DEFINE Stands(d) == Filed(d) /\ row[d].status = "CLOSED"
                          => row'[d].status = "CLOSED" /\ row'[d].by = row[d].by
           Stays == \A d \in Disputes : Stands(d)
<1>1. IInv /\ [Next]_vars => [Stays]_vars
  <2> SUFFICES ASSUME IInv, [Next]_vars, NEW d \in Disputes PROVE Stands(d)
    OBVIOUS
  <2> USE DEF IInv, TypeOK
  <2>1. ASSUME NEW e \in Disputes, Raise(e) \/ StartReview(e) PROVE Stands(d)
    BY <2>1 DEF Raise, StartReview, Filed
  <2>2. ASSUME NEW e \in Disputes, NEW a \in Admins, Close(e, a) PROVE Stands(d)
    BY <2>2 DEF Close
  <2>3. ASSUME NEW a \in Admins, Claim(a) PROVE Stands(d)
    BY <2>3 DEF Claim, Claimable, Active
  <2>4. ASSUME NEW a \in Admins, Rollback(a) PROVE Stands(d)
    BY <2>4 DEF Rollback, OwnRuling
  <2>5. ASSUME NEW a \in Admins, Record(a) PROVE Stands(d)
    <3> DEFINE e == work[a].d
    <3>1. CASE UNCHANGED row
      BY <3>1
    <3>2. CASE row' = [row EXCEPT ![e].money = work[a].money,
                                  ![e].amount = work[a].money \in Moves]
      <4>1. e \in Disputes /\ row[e] \in Rows
        BY <2>5 DEF Record, Moving, Holding, Busy, NoRow
      <4>2. /\ row'[e].status = row[e].status /\ row'[e].by = row[e].by
            /\ d # e => row'[d] = row[d]
        BY <3>2, <4>1 DEF Rows
      <4> QED BY <4>2
    <3> QED BY <2>5, <3>1, <3>2 DEF Record
  <2>6. CASE UNCHANGED row
    BY <2>6
  <2> QED BY <2>1, <2>2, <2>3, <2>4, <2>5, <2>6
      DEF Next, Ruling, Plan, ClaimDenied, MoveRefund, CaptureForRuling, SeeRelease,
          Crash, OthersPay, OthersCapture, TransferSucceeds, TransferFails, vars
<1> QED BY Invariant, <1>1, PTL DEF Spec, ClosedStands

-----------------------------------------------------------------------------
(* The refinement: rulings implement MoneyClaim. *)

\* Since one dispute at most has the claim, and only it has moved money, the
\* choices of the refinement mapping are that dispute.
Mapped ==
    /\ \A d \in Disputes : Claims(d) => Owner = d
    /\ (\A d \in Disputes : ~Claims(d)) => Owner = NoDispute
    /\ \A d \in confirmed : PaidBy = d
    /\ confirmed = {} => PaidBy = NoDispute

LEMMA Mapping == IInv => Mapped
<1> SUFFICES ASSUME IInv PROVE Mapped
  OBVIOUS
<1>1. ASSUME NEW d \in Disputes, Claims(d) PROVE Owner = d
  BY <1>1 DEF Owner, IInv, OneClaim
<1>2. ASSUME \A d \in Disputes : ~Claims(d) PROVE Owner = NoDispute
  BY <1>2 DEF Owner
<1>3. ASSUME NEW d \in confirmed PROVE PaidBy = d
  BY <1>3 DEF PaidBy, IInv, OneClaim, ConfirmedHeld
<1>4. ASSUME confirmed = {} PROVE PaidBy = NoDispute
  BY <1>4 DEF PaidBy
<1> QED BY <1>1, <1>2, <1>3, <1>4 DEF Mapped

\* Where the claims and the movements stay, so does what they map to.
LEMMA Stutters ==
    ASSUME IInv, Mapped, Mapped', UNCHANGED confirmed,
           \A d \in Disputes : Claims(d)' <=> Claims(d)
    PROVE  Owner' = Owner /\ PaidBy' = PaidBy
<1>1. Owner' = Owner
  <2>1. CASE \E d \in Disputes : Claims(d)
    <3>1. PICK d \in Disputes : Claims(d)
      BY <2>1
    <3>2. Claims(d)'
      BY <3>1
    <3> QED BY <3>1, <3>2 DEF Mapped
  <2>2. CASE \A d \in Disputes : ~Claims(d)
    <3>1. \A d \in Disputes : ~Claims(d)'
      BY <2>2
    <3> QED BY <2>2, <3>1 DEF Mapped
  <2> QED BY <2>1, <2>2
<1>2. PaidBy' = PaidBy
  BY DEF Mapped
<1> QED BY <1>1, <1>2

\* A claim takes a payment that nobody had.
LEMMA ClaimMaps ==
    ASSUME IInv, Mapped, Mapped', NEW a \in Admins, Claim(a)
    PROVE  [C!Next]_(C!vars)
<1> USE DEF IInv, TypeOK
<1> DEFINE w == work[a]
           d == work[a].d
<1>1. /\ w \in Work /\ w.stage = "planned" /\ d \in Disputes
      /\ UNCHANGED confirmed
  BY DEF Claim, Moving, moneyVars
<1>2. CASE ~Claimable(d) \/ w.money = "NONE"
  <2>1. \A e \in Disputes : Claims(e)' <=> Claims(e)
    <3>1. CASE ~Claimable(d)
      BY <3>1 DEF Claim, Claims, Filed
    <3>2. CASE Claimable(d) /\ w.money = "NONE"
      <4>1. row[d] \in Rows /\ row[d].money = "null"
        BY <1>1, <3>2 DEF Claimable, NoRow, Active, NoPhantomVerdict, IsActive, Filed
      <4>2. /\ row'[d].money = "null"
            /\ \A e \in Disputes \ {d} : row'[e] = row[e]
        <5>1. row' = [row EXCEPT ![d].status = "RESOLVED", ![d].verdict = TRUE,
                                 ![d].by = a, ![d].money = "null",
                                 ![d].amount = FALSE]
          BY <3>2 DEF Claim
        <5>2. row'[d] = [row[d] EXCEPT !.status = "RESOLVED", !.verdict = TRUE,
                                       !.by = a, !.money = "null",
                                       !.amount = FALSE]
          BY <1>1, <5>1
        <5>3. row'[d].money = "null"
          BY <4>1, <5>2 DEF Rows
        <5>4. \A e \in Disputes \ {d} : row'[e] = row[e]
          BY <1>1, <5>1
        <5> QED BY <5>3, <5>4
      <4> QED BY <4>1, <4>2 DEF Claims, Filed, Moves
    <3> QED BY <1>2, <3>1, <3>2
  <2> QED BY <1>1, <2>1, Stutters DEF C!vars
<1>3. CASE Claimable(d) /\ w.money # "NONE"
  <2>1. \A e \in Disputes : ~Claims(e)
    <3>1. \A e \in Disputes \ {d} : ~Claims(e)
      BY <1>1, <1>3 DEF Claim, Conflicts, SiblingClaims, Work
    <3>2. ~Claims(d)
      BY <1>1, <1>3 DEF Claimable, Active, NoPhantomVerdict, IsActive, Claims, Filed, Moves
    <3> QED BY <3>1, <3>2
  <2>2. row[d] \in Rows
    BY <1>1, <1>3 DEF Claimable, NoRow, Active
  <2> PICK e \in Disputes : e = d
    BY <1>1
  <2>3. Claims(e)'
    <3> DEFINE r == [row[d] EXCEPT !.status = "RESOLVED", !.verdict = TRUE, !.by = a,
                                   !.money = w.money, !.amount = FALSE]
    <3>1. r.status = "RESOLVED" /\ r.money = w.money
      BY <2>2 DEF Rows
    <3>2. row' = [row EXCEPT ![d] = r]
      BY <1>1, <1>3 DEF Claim
    <3> HIDE DEF r
    <3>3. row'[d].status = "RESOLVED" /\ row'[d].money = w.money
      BY <1>1, <3>1, <3>2
    <3>4. w.money \in Moves
      <4>1. w.money \in Moves \cup {"NONE"}
        BY <1>1 DEF Work
      <4> QED BY <1>3, <4>1
    <3>5. row'[e].money \in Moves /\ row'[e] # NoRow
      BY <3>3, <3>4 DEF NoRow
    <3> QED BY <3>5 DEF Claims, Filed
  <2>4. Owner = NoDispute /\ Owner' = e
    BY <2>1, <2>3 DEF Mapped
  <2>5. PaidBy' = PaidBy
    BY <1>1 DEF PaidBy
  <2> QED BY <2>4, <2>5 DEF C!Next, C!Claim
<1> QED BY <1>2, <1>3

\* Money that a ruling learns of is moved under its own claim, and is the first.
LEMMA MoveMaps ==
    ASSUME IInv, Mapped, Mapped', NEW a \in Admins, work[a].stage = "claimed",
           UNCHANGED row, UNCHANGED confirmed \/ confirmed' = confirmed \cup {work[a].d}
    PROVE  [C!Next]_(C!vars)
<1> DEFINE d == work[a].d
<1>1. d \in Disputes /\ Claims(d) /\ confirmed = {}
  BY NoneConfirmed
<1>2. \A e \in Disputes : Claims(e)' <=> Claims(e)
  BY DEF Claims, Filed
<1>3. CASE UNCHANGED confirmed
  BY <1>2, <1>3, Stutters DEF C!vars
<1>4. CASE confirmed' = confirmed \cup {d}
  <2>1. Owner = d /\ Owner' = d /\ PaidBy = NoDispute /\ PaidBy' = d
    BY <1>1, <1>2, <1>4 DEF Mapped
  <2> QED BY <1>1, <2>1 DEF C!Next, C!Move
<1> QED BY <1>3, <1>4

\* A claim is given up while no money is known to have moved.
LEMMA RollbackMaps ==
    ASSUME IInv, Mapped, Mapped', NEW a \in Admins, Rollback(a)
    PROVE  [C!Next]_(C!vars)
<1> USE DEF IInv, TypeOK
<1> DEFINE d == work[a].d
<1>1. /\ work[a].money \in Moves /\ Busy(a) /\ d \in Disputes /\ d \notin confirmed
      /\ UNCHANGED confirmed
  BY DEF Rollback, Busy, Moving, ConfirmedHeld, moneyVars
<1>2. row[d] \in Rows /\ Claims(d)
  BY <1>1 DEF Holding, Written, Moves, NoRow, Claims, Filed
<1>3. confirmed = {} /\ PaidBy = NoDispute /\ PaidBy' = NoDispute
  BY <1>1, <1>2 DEF ConfirmedHeld, OneClaim, Mapped
<1>4. CASE OwnRuling(a)
  <2>1. row'[d].money = "null"
    BY <1>1, <1>2, <1>4 DEF Rollback, Restored, Rows
  <2>2. \A e \in Disputes \ {d} : row'[e] = row[e] /\ ~Claims(e)
    BY <1>1, <1>2, <1>4 DEF Rollback, OneClaim
  <2>3. \A e \in Disputes : ~Claims(e)'
    BY <2>1, <2>2 DEF Claims, Filed, Moves
  <2>4. Owner' = NoDispute
    BY <2>3 DEF Mapped
  <2> QED BY <1>3, <2>4 DEF C!Next, C!Unclaim
<1>5. CASE ~OwnRuling(a)
  <2>1. \A e \in Disputes : Claims(e)' <=> Claims(e)
    BY <1>5 DEF Rollback, Claims, Filed
  <2> QED BY <1>1, <2>1, Stutters DEF C!vars
<1> QED BY <1>4, <1>5

\* Paystack undoes the one movement, or one that no ruling made.
LEMMA FailMaps ==
    ASSUME IInv, Mapped, Mapped', TransferFails
    PROVE  [C!Next]_(C!vars)
<1> USE NoneAssumption DEF IInv, TypeOK
<1>1. confirmed' = confirmed \ {out.d} /\ UNCHANGED row
  BY DEF TransferFails
<1>2. \A e \in Disputes : Claims(e)' <=> Claims(e)
  BY <1>1 DEF Claims, Filed
<1>3. CASE out.d = NoDispute
  <2>1. confirmed' = confirmed
    BY <1>1, <1>3
  <2> QED BY <1>2, <2>1, Stutters DEF C!vars
<1>4. CASE out.d # NoDispute
  <2>1. out.d \in Disputes /\ Claims(out.d) /\ confirmed' = {}
    BY <1>1, <1>4 DEF SentShows, ConfirmedHeld, OneClaim
  <2>2. Owner' = Owner /\ PaidBy' = NoDispute
    BY <1>2, <2>1 DEF Mapped
  <2> QED BY <2>2 DEF C!Next, C!Reverse
<1> QED BY <1>3, <1>4

\* Every step is a step of the promise, or none of its business.
LEMMA RefineStep == IInv /\ Mapped /\ Mapped' /\ [Next]_vars => [C!Next]_(C!vars)
<1> SUFFICES ASSUME IInv, Mapped, Mapped', [Next]_vars
             PROVE  [C!Next]_(C!vars)
  OBVIOUS
<1> USE DEF IInv, TypeOK
<1>1. ASSUME UNCHANGED confirmed, \A d \in Disputes : Claims(d)' <=> Claims(d)
      PROVE  [C!Next]_(C!vars)
  BY <1>1, Stutters DEF C!vars
<1>2. ASSUME UNCHANGED <<row, confirmed>> PROVE [C!Next]_(C!vars)
  <2>1. \A d \in Disputes : Claims(d)' <=> Claims(d)
    BY <1>2 DEF Claims, Filed
  <2> QED BY <1>1, <1>2, <2>1
<1>3. ASSUME NEW d \in Disputes, Raise(d) \/ StartReview(d) PROVE [C!Next]_(C!vars)
  <2>1. \A e \in Disputes : Claims(e)' <=> Claims(e)
    BY <1>3 DEF Raise, StartReview, Claims, Filed, NoRow, Moves, Rows
  <2> QED BY <1>1, <1>3, <2>1 DEF Raise, StartReview, moneyVars
<1>4. ASSUME NEW d \in Disputes, NEW a \in Admins, Close(d, a) PROVE [C!Next]_(C!vars)
  <2>1. row[d] \in Rows
    BY <1>4 DEF Close, Filed
  <2>2. /\ row'[d].money = row[d].money /\ row'[d].status = "CLOSED"
        /\ \A e \in Disputes \ {d} : row'[e] = row[e]
    BY <1>4, <2>1 DEF Close, Rows
  <2>3. \A e \in Disputes : Claims(e)' <=> Claims(e)
    BY <2>1, <2>2 DEF Claims, Filed, NoRow, Rows, DisputeStatuses, Active
  <2> QED BY <1>1, <1>4, <2>3 DEF Close, moneyVars
<1>5. ASSUME NEW a \in Admins, MoveRefund(a) \/ CaptureForRuling(a)
      PROVE  [C!Next]_(C!vars)
  <2>1. /\ work[a].stage = "claimed" /\ UNCHANGED row
        /\ UNCHANGED confirmed \/ confirmed' = confirmed \cup {work[a].d}
    BY <1>5 DEF MoveRefund, CaptureForRuling, Confirms, Loses, moneyVars
  <2> QED BY <2>1, MoveMaps
<1>6. ASSUME NEW a \in Admins, Record(a) PROVE [C!Next]_(C!vars)
  <2> DEFINE d == work[a].d
  <2>1. /\ d \in Disputes /\ row[d] \in Rows /\ row[d].money = Written(work[a].money)
        /\ UNCHANGED confirmed
    BY <1>6 DEF Record, Moving, Holding, Busy, NoRow, moneyVars
  <2>2. CASE UNCHANGED row
    BY <1>2, <2>1, <2>2
  <2>3. CASE row' = [row EXCEPT ![d].money = work[a].money,
                                ![d].amount = work[a].money \in Moves]
    <3>1. /\ row'[d].money = work[a].money /\ row'[d].status = row[d].status
          /\ \A e \in Disputes \ {d} : row'[e] = row[e]
      BY <2>1, <2>3 DEF Rows
    <3>2. \A e \in Disputes : Claims(e)' <=> Claims(e)
      BY <2>1, <3>1 DEF Claims, Filed, Moves, Written, Rows, NoRow, DisputeStatuses, Active
    <3> QED BY <1>1, <2>1, <3>2
  <2> QED BY <1>6, <2>2, <2>3 DEF Record
<1>7. ASSUME NEW a \in Admins, Claim(a) \/ Rollback(a) PROVE [C!Next]_(C!vars)
  BY <1>7, ClaimMaps, RollbackMaps
<1>8. CASE TransferFails
  BY <1>8, FailMaps
<1> QED
  BY <1>2, <1>3, <1>4, <1>5, <1>6, <1>7, <1>8
  DEF Next, Ruling, Plan, ClaimDenied, SeeRelease, Crash, OthersPay, OthersCapture,
      TransferSucceeds, moneyVars, vars

\* Rulings implement the promise of claims, for any disputes and admins: nobody
\* moves the payment's money before the claim is his, and no claim whose money
\* is known to have moved is given up.
THEOREM Refinement == Spec => ImplementsClaim
<1>1. Init => C!Init
  <2> SUFFICES ASSUME Init PROVE C!Init
    OBVIOUS
  <2>1. confirmed = {} /\ \A d \in Disputes : ~Claims(d)
    BY DEF Init, Claims, Filed, NoRow
  <2>2. Owner = NoDispute /\ PaidBy = NoDispute
    BY <2>1 DEF Owner, PaidBy
  <2> QED BY <2>2 DEF C!Init
<1>2. (IInv => Mapped) /\ (IInv' => Mapped')
  BY Mapping, PTL
<1>3. IInv /\ IInv' /\ [Next]_vars => [C!Next]_(C!vars)
  BY <1>2, RefineStep
<1> QED BY Invariant, <1>1, <1>3, PTL DEF Spec, ImplementsClaim
=============================================================================
