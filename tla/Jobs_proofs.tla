------------------------------ MODULE Jobs_proofs ------------------------------
(***************************************************************************)
(* Proofs about Jobs, for any set of artisans, any number of requests at   *)
(* once, of payments and of saves over a concurrent change.                *)
(***************************************************************************)
EXTENDS Jobs, TLAPS

Busy(q) == req[q] # Idle

\* The money is settled, for a cancellation of the job or of its booking.
Cancelling(q) ==
    \/ CancelPayment(q, "cancel", "cancel2")
    \/ CancelPayment(q, "bookingCancel", "bookingCancel2")

\* What a request saw decides the status of the row it will save.
OpenOps == {"apply", "accept", "accept2", "accept3", "accept4", "edit",
            "remove", "expire", "expire2"}

ReadStatus ==
    \A q \in Requests : Busy(q) =>
        /\ req[q].op \in OpenOps => req[q].row.status = "OPEN"
        /\ At(q, "start") => req[q].row.status = "PENDING"
        /\ At(q, "request") => req[q].row.status = "IN_PROGRESS"
        /\ req[q].op \in {"bookingCancel", "bookingCancel2"}
             => req[q].row.status = "PENDING"
        /\ At(q, "bookingComplete") =>
             /\ req[q].row.status \notin {"COMPLETED", "CANCELLED"}
             /\ req[q].row.intent = NoIntent

\* An acceptance under way has made its payment for the artisan it accepts,
\* and from its second commit on that application stays accepted.
Accepting ==
    \A q \in Requests : Busy(q) =>
        /\ req[q].op \in {"apply", "accept", "accept2", "accept3", "accept4"}
             => req[q].artisan \in Artisans
        /\ req[q].op \in {"accept2", "accept3", "accept4"} =>
             /\ req[q].intent \in Intents
             /\ pays[req[q].intent].status # "none"
             /\ pays[req[q].intent].artisan = req[q].artisan
        /\ req[q].op \in {"accept3", "accept4"} =>
             apps[req[q].artisan] = "ACCEPTED"

\* A row with a payment names the artisan the payment was made for.
PayeeNamed(row) ==
    row.intent # NoIntent =>
        /\ row.artisan \in Artisans
        /\ pays[row.intent].status # "none"
        /\ pays[row.intent].artisan = row.artisan

PayeesNamed ==
    /\ PayeeNamed(job)
    /\ \A q \in Requests : Busy(q) => PayeeNamed(req[q].row)

\* A booked job is never open, for nobody and in no stale row: no application
\* ever reaches it.
BookedJob ==
    /\ \A a \in Artisans : apps[a] = "none"
    /\ job.status # "OPEN"
    /\ \A q \in Requests : Busy(q) => req[q].row.status # "OPEN"

\* A posted job names, in each of its rows, an accepted applicant if anyone, and
\* has no booking to be cancelled or completed.
EngagedIn(row) == row.artisan # NoArtisan => apps[row.artisan] = "ACCEPTED"

BookingOps == {"bookingCancel", "bookingCancel2", "bookingComplete"}

PostedJob ==
    /\ EngagedIn(job)
    /\ \A q \in Requests :
          Busy(q) => EngagedIn(req[q].row) /\ req[q].op \notin BookingOps

\* Each completion but the last was taken back by a save over it.
Counted ==
    completions <= clobbers + (IF job.status = "COMPLETED" THEN 1 ELSE 0)

\* Without such saves:
\* an engaged job without a payment was booked;
Engaged == job.status \in {"PENDING", "IN_PROGRESS", "COMPLETED"}
UnpaidIsBooked == Engaged /\ job.intent = NoIntent => BookedJob

\* the payment of work that has started, or is about to, was made;
PaidFor(row) ==
    row.intent # NoIntent =>
        pays[row.intent].status \notin {"none", "PENDING", "CANCELLED"}
StartedPaid ==
    /\ job.status \in {"IN_PROGRESS", "COMPLETED"} => PaidFor(job)
    /\ \A q \in Requests : Busy(q) /\ At(q, "start") => PaidFor(req[q].row)

\* and money that no ruling released is on its way, or about to be, for a
\* completed job only.
CapturedDone ==
    /\ (\E q \in Requests : Busy(q) /\ At(q, "capture")) => job.status = "COMPLETED"
    /\ \A i \in Intents :
          ~pays[i].ruled /\ (pays[i].sent \/ pays[i].status = "PENDING_TRANSFER")
            => job.status = "COMPLETED"

\* The three facts about paid work hold while no stale save has landed.
Clean == clobbers = 0 => UnpaidIsBooked /\ StartedPaid /\ CapturedDone

\* The inductive invariant: the row, the requests holding a copy of it and the
\* payments it names.
IInv == /\ TypeOK
        /\ ReadStatus
        /\ Accepting
        /\ PayeesNamed
        /\ BookedJob \/ PostedJob
        /\ Counted
        /\ Clean

-----------------------------------------------------------------------------
(* Types *)

\* A request that is at some operation is busy, and its record is complete.
LEMMA AtBusy ==
    ASSUME TypeOK, NEW q \in Requests
    PROVE  /\ \A op \in Ops : At(q, op) => Busy(q)
           /\ Busy(q) => req[q] \in Work
  BY DEF TypeOK, At, Busy, Idle, Ops

\* An operation that goes on, and one that is done, leave a record.
LEMMA ReqType ==
    ASSUME TypeOK, NEW q \in Requests
    PROVE  /\ \A op \in Ops : Busy(q) /\ Continue(q, op)
                => req' \in [Requests -> Work \cup {Idle}]
           /\ Done(q) => req' \in [Requests -> Work \cup {Idle}]
<1>1. ASSUME NEW op \in Ops, Busy(q) PROVE [req[q] EXCEPT !.op = op] \in Work
  BY <1>1, AtBusy DEF Work
<1> QED BY <1>1 DEF TypeOK, Continue, Done

\* A read starts a request on the row as it is.
LEMMA BeginType ==
    ASSUME TypeOK, NEW q \in Requests, NEW op \in Ops,
           NEW a \in Artisans \cup {NoArtisan}, Begin(q, op, a)
    PROVE  TypeOK'
<1>1. [op |-> op, row |-> job, artisan |-> a, intent |-> job.intent] \in Work
  BY DEF TypeOK, Work, Rows
<1> QED BY <1>1 DEF Begin, TypeOK

\* A save writes a row, and counts the change it writes over.
LEMMA SaveType ==
    ASSUME TypeOK, NEW q \in Requests, NEW whole \in Rows, NEW only \in Rows,
           SaveOver(q, whole, only)
    PROVE  job' \in Rows /\ clobbers' \in Nat
  BY DEF SaveOver, TypeOK

\* A hold makes the first payment that there is not yet.
LEMMA HoldForm ==
    ASSUME TypeOK, NEW q \in Requests, HoldPayment(q)
    PROVE  \E i \in Intents :
             /\ pays' = [pays EXCEPT ![i] =
                  [status |-> "PENDING", artisan |-> Payee(q), sent |-> FALSE,
              ruled |-> FALSE]]
             /\ req' = [req EXCEPT ![q] = [req[q] EXCEPT !.op = "accept2",
                                                        !.intent = i]]
<1>1. PICK i \in Intents :
        /\ pays' = [pays EXCEPT ![i] =
             [status |-> "PENDING", artisan |-> Payee(q), sent |-> FALSE,
              ruled |-> FALSE]]
        /\ req' = [req EXCEPT ![q].op = "accept2", ![q].intent = i]
  BY Zenon DEF HoldPayment
<1>2. [req EXCEPT ![q].op = "accept2", ![q].intent = i]
      = [req EXCEPT ![q] = [req[q] EXCEPT !.op = "accept2", !.intent = i]]
  BY DEF TypeOK
<1> QED BY <1>1, <1>2

\* Every step keeps the types.
LEMMA TypeStep == TypeOK /\ [Next]_vars => TypeOK'
<1> SUFFICES ASSUME TypeOK, [Next]_vars PROVE TypeOK'
  OBVIOUS
<1>1. ASSUME NEW q \in Requests, NEW a \in Artisans,
             ReadApply(q, a) \/ ReadAccept(q, a)
      PROVE  TypeOK'
  BY <1>1, BeginType DEF ReadApply, ReadAccept, Ops
<1>2. ASSUME NEW q \in Requests,
             \/ ReadEdit(q) \/ ReadRemove(q) \/ ReadExpire(q)
             \/ ReadStart(q) \/ ReadRequest(q) \/ ReadCancel(q)
             \/ ReadBookingCancel(q) \/ ReadBookingComplete(q)
      PROVE  TypeOK'
  BY <1>2, BeginType DEF ReadEdit, ReadRemove, ReadExpire, ReadStart, ReadRequest,
                         ReadCancel, ReadBookingCancel, ReadBookingComplete, Ops
<1>3. ASSUME NEW q \in Requests, Apply(q) PROVE TypeOK'
  <2>1. req' \in [Requests -> Work \cup {Idle}]
    BY <1>3, ReqType DEF Apply
  <2> QED BY <1>3, <2>1 DEF Apply, TypeOK
<1>4. ASSUME NEW q \in Requests, HoldPayment(q) PROVE TypeOK'
  <2>1. Busy(q) /\ req[q] \in Work
    BY <1>4, AtBusy DEF HoldPayment, Ops
  <2>2. PICK i \in Intents :
          /\ pays' = [pays EXCEPT ![i] =
               [status |-> "PENDING", artisan |-> Payee(q), sent |-> FALSE,
              ruled |-> FALSE]]
          /\ req' = [req EXCEPT ![q] = [req[q] EXCEPT !.op = "accept2",
                                                     !.intent = i]]
    BY <1>4, HoldForm
  <2>3. [req[q] EXCEPT !.op = "accept2", !.intent = i] \in Work
    BY <2>1 DEF Work, Ops
  <2>4. [status |-> "PENDING", artisan |-> Payee(q), sent |-> FALSE,
              ruled |-> FALSE] \in Payments
    BY <2>1 DEF Payments, PaymentStatuses, Payee, Work
  <2> QED BY <1>4, <2>2, <2>3, <2>4 DEF HoldPayment, TypeOK
<1>5. ASSUME NEW q \in Requests, AcceptOne(q) PROVE TypeOK'
  <2>1. Busy(q)
    BY <1>5, AtBusy DEF AcceptOne, Ops
  <2>2. req' \in [Requests -> Work \cup {Idle}]
    BY <1>5, <2>1, ReqType DEF AcceptOne, Ops
  <2> QED BY <1>5, <2>2 DEF AcceptOne, TypeOK
<1>6. ASSUME NEW q \in Requests, RejectOthers(q) PROVE TypeOK'
  <2>1. Busy(q)
    BY <1>6, AtBusy DEF RejectOthers, Ops
  <2>2. req' \in [Requests -> Work \cup {Idle}]
    BY <1>6, <2>1, ReqType DEF RejectOthers, Ops
  <2> QED BY <1>6, <2>2 DEF RejectOthers, RejectPending, TypeOK
<1>7. ASSUME NEW q \in Requests, RejectWaiting(q) PROVE TypeOK'
  <2>1. Busy(q)
    BY <1>7, AtBusy DEF RejectWaiting, Ops
  <2>2. req' \in [Requests -> Work \cup {Idle}]
    BY <1>7, <2>1, ReqType DEF RejectWaiting, Ops
  <2> QED BY <1>7, <2>2 DEF RejectWaiting, RejectPending, TypeOK
<1>8. ASSUME NEW q \in Requests,
             \/ Edit(q) \/ Expire(q) \/ Start(q) \/ RequestCompletion(q)
             \/ Engage(q) \/ BookingCancel(q)
      PROVE  TypeOK'
  <2>1. Busy(q) /\ req[q] \in Work
    BY <1>8, AtBusy DEF Edit, Expire, Start, RequestCompletion, Engage, BookingCancel,
                      Ops
  <2>2. req[q].row \in Rows /\ job \in Rows
    BY <2>1 DEF Work, TypeOK
  <2>3. \A row \in Rows :
          /\ [row EXCEPT !.status = "EXPIRED"] \in Rows
          /\ [row EXCEPT !.status = "IN_PROGRESS"] \in Rows
          /\ [row EXCEPT !.status = "CANCELLED"] \in Rows
          /\ [row EXCEPT !.requested = TRUE] \in Rows
          /\ [row EXCEPT !.status = "PENDING", !.artisan = req[q].artisan,
                         !.intent = req[q].intent] \in Rows
    BY <2>1 DEF Rows, Work, Statuses
  <2>4. job' \in Rows /\ clobbers' \in Nat
    BY <1>8, <2>2, <2>3, SaveType
    DEF Edit, Expire, Start, RequestCompletion, Engage, BookingCancel
  <2>5. req' \in [Requests -> Work \cup {Idle}]
    BY <1>8, ReqType DEF Edit, Expire, Start, RequestCompletion, Engage, BookingCancel
  <2> QED BY <1>8, <2>4, <2>5
          DEF Edit, Expire, Start, RequestCompletion, Engage, BookingCancel, TypeOK
<1>9. ASSUME NEW q \in Requests, Remove(q) PROVE TypeOK'
  <2>1. req' \in [Requests -> Work \cup {Idle}]
    BY <1>9, ReqType DEF Remove
  <2> QED BY <1>9, <2>1 DEF Remove, TypeOK, Rows
<1>10. ASSUME NEW q \in Requests, Complete(q) PROVE TypeOK'
  <2>1. job' \in Rows
    BY <1>10 DEF Complete, TypeOK, Rows, Statuses
  <2>2. [op |-> "capture", row |-> job', artisan |-> NoArtisan,
         intent |-> job.intent] \in Work
    BY <2>1 DEF TypeOK, Work, Rows, Ops
  <2> QED BY <1>10, <2>1, <2>2 DEF Complete, TypeOK
<1>11. ASSUME NEW i \in Intents, NEW p \in Captured(pays[i])
       PROVE  p \in Payments
  BY <1>11 DEF Captured, TypeOK, Payments, PaymentStatuses
<1>12. ASSUME NEW q \in Requests, Capture(q) PROVE TypeOK'
  <2>1. req' \in [Requests -> Work \cup {Idle}]
    BY <1>12, ReqType DEF Capture
  <2>2. pays' \in [Intents -> Payments]
    BY <1>11, <1>12 DEF Capture, TypeOK
  <2> QED BY <1>12, <2>1, <2>2 DEF Capture, TypeOK
<1>13. ASSUME NEW q \in Requests, Cancelling(q) PROVE TypeOK'
  <2>1. Busy(q)
    BY <1>13, AtBusy DEF Cancelling, CancelPayment, Ops
  <2>2. req' \in [Requests -> Work \cup {Idle}]
    BY <1>13, <2>1, ReqType DEF Cancelling, CancelPayment, Ops
  <2>3. pays' \in [Intents -> Payments]
    BY <1>13 DEF Cancelling, CancelPayment, TypeOK, Payments, PaymentStatuses
  <2> QED BY <1>13, <2>2, <2>3 DEF Cancelling, CancelPayment, TypeOK
<1>14. ASSUME NEW q \in Requests, Cancel(q) PROVE TypeOK'
  <2>1. req' \in [Requests -> Work \cup {Idle}]
    BY <1>14, ReqType DEF Cancel
  <2>2. job' \in Rows
    BY <1>14 DEF Cancel, TypeOK, Rows, Statuses
  <2> QED BY <1>14, <2>1, <2>2 DEF Cancel, RejectPending, TypeOK
<1>15. ASSUME NEW q \in Requests, BookingComplete(q) PROVE TypeOK'
  <2>1. Busy(q) /\ req[q] \in Work
    BY <1>15, AtBusy DEF BookingComplete, Ops
  <2>2. \A row \in Rows : [row EXCEPT !.status = "COMPLETED"] \in Rows
    BY DEF Rows, Statuses
  <2>3. job' \in Rows /\ clobbers' \in Nat
    BY <1>15, <2>1, <2>2, SaveType DEF BookingComplete, Work, TypeOK
  <2>4. req' \in [Requests -> Work \cup {Idle}]
    BY <1>15, ReqType DEF BookingComplete
  <2> QED BY <1>15, <2>3, <2>4 DEF BookingComplete, TypeOK
<1>16. ASSUME NEW q \in Requests, Drop(q) PROVE TypeOK'
  BY <1>16, ReqType DEF Drop, TypeOK
<1>17. ASSUME NEW i \in Intents, Pay(i) \/ TransferSucceeds(i) PROVE TypeOK'
  BY <1>17 DEF Pay, TransferSucceeds, TypeOK, Payments, PaymentStatuses
<1>18. ASSUME NEW i \in Intents, RetryTransfer(i) PROVE TypeOK'
  BY <1>11, <1>18 DEF RetryTransfer, TypeOK
<1>19. ASSUME NEW i \in Intents, Release(i) PROVE TypeOK'
  <2>1. PICK p \in Captured(pays[i]) : pays' = [pays EXCEPT ![i] = [p EXCEPT !.ruled = TRUE]]
    BY <1>19 DEF Release
  <2>2. [p EXCEPT !.ruled = TRUE] \in Payments
    BY <1>11 DEF Payments
  <2> QED BY <1>19, <2>1, <2>2 DEF Release, TypeOK
<1>20. CASE UNCHANGED vars
  BY <1>20 DEF vars, TypeOK
<1> QED
  BY <1>1, <1>2, <1>3, <1>4, <1>5, <1>6, <1>7, <1>8, <1>9, <1>10, <1>12,
     <1>13, <1>14, <1>15, <1>16, <1>17, <1>18, <1>19, <1>20 DEF Next, Cancelling

-----------------------------------------------------------------------------
(* What the steps have in common *)

\* A request reads the job, and what it found decides what it may go on with.
Reading(q) ==
    \E op \in {"apply", "accept", "edit", "remove", "expire", "start",
              "request", "cancel", "bookingCancel", "bookingComplete"},
       a \in Artisans \cup {NoArtisan} :
        /\ Begin(q, op, a)
        /\ op \in {"apply", "accept"} => a \in Artisans
        /\ op \in OpenOps => job.status = "OPEN"
        /\ op = "start" => job.status = "PENDING" /\ Secured(job)
        /\ op = "request" => job.status = "IN_PROGRESS"
        /\ op \in BookingOps => Booked
        /\ op = "bookingCancel" => job.status = "PENDING"
        /\ op = "bookingComplete" =>
              job.status \notin {"COMPLETED", "CANCELLED"} /\ job.intent = NoIntent

\* A request saves the row it read, or its own changes to the row there is.
Saving(q) ==
    /\ Busy(q) /\ Done(q)
    /\ UNCHANGED <<apps, pays, completions>>
    /\ \/ job = req[q].row /\ clobbers' = clobbers
       \/ clobbers' = clobbers + 1
    /\ \E row \in {req[q].row, job} :
          /\ job'.intent = row.intent /\ job'.artisan = row.artisan
          /\ \/ At(q, "edit") /\ job'.status = row.status
             \/ At(q, "request") /\ job'.status = row.status
             \/ At(q, "start") /\ job'.status = "IN_PROGRESS"
             \/ At(q, "expire2") /\ job'.status = "EXPIRED"
             \/ At(q, "bookingCancel2") /\ job'.status = "CANCELLED"

\* Reads are readings.
LEMMA Reads ==
    ASSUME NEW q \in Requests,
           \/ \E a \in Artisans : ReadApply(q, a) \/ ReadAccept(q, a)
           \/ ReadEdit(q) \/ ReadRemove(q) \/ ReadExpire(q)
           \/ ReadStart(q) \/ ReadRequest(q) \/ ReadCancel(q)
           \/ ReadBookingCancel(q) \/ ReadBookingComplete(q)
    PROVE  Reading(q)
<1>1. CASE ReadBookingCancel(q) \/ ReadBookingComplete(q)
  BY <1>1 DEF ReadBookingCancel, ReadBookingComplete, Reading, OpenOps, BookingOps
<1>2. CASE ~(ReadBookingCancel(q) \/ ReadBookingComplete(q))
  BY <1>2 DEF ReadApply, ReadAccept, ReadEdit, ReadRemove, ReadExpire, ReadStart,
         ReadRequest, ReadCancel, Reading, OpenOps, BookingOps
<1> QED BY <1>1, <1>2

\* Saves are savings.
LEMMA Saves ==
    ASSUME TypeOK, NEW q \in Requests,
           Edit(q) \/ Expire(q) \/ Start(q) \/ RequestCompletion(q) \/ BookingCancel(q)
    PROVE  Saving(q)
<1>1. Busy(q) /\ req[q] \in Work
  BY AtBusy DEF Edit, Expire, Start, RequestCompletion, BookingCancel, Ops
<1>2. req[q].row \in Rows /\ job \in Rows
  BY <1>1 DEF Work, TypeOK
<1>3. \A row \in Rows :
        /\ [row EXCEPT !.status = "EXPIRED"].status = "EXPIRED"
        /\ [row EXCEPT !.status = "EXPIRED"].intent = row.intent
        /\ [row EXCEPT !.status = "EXPIRED"].artisan = row.artisan
        /\ [row EXCEPT !.status = "IN_PROGRESS"].status = "IN_PROGRESS"
        /\ [row EXCEPT !.status = "IN_PROGRESS"].intent = row.intent
        /\ [row EXCEPT !.status = "IN_PROGRESS"].artisan = row.artisan
        /\ [row EXCEPT !.status = "CANCELLED"].status = "CANCELLED"
        /\ [row EXCEPT !.status = "CANCELLED"].intent = row.intent
        /\ [row EXCEPT !.status = "CANCELLED"].artisan = row.artisan
        /\ [row EXCEPT !.requested = TRUE].status = row.status
        /\ [row EXCEPT !.requested = TRUE].intent = row.intent
        /\ [row EXCEPT !.requested = TRUE].artisan = row.artisan
  BY DEF Rows
<1>4. ASSUME NEW whole, NEW only, SaveOver(q, whole, only)
      PROVE  \/ job = req[q].row /\ clobbers' = clobbers
             \/ clobbers' = clobbers + 1
  BY <1>4 DEF SaveOver
<1>5. CASE Edit(q)
  BY <1>1, <1>4, <1>5 DEF Edit, SaveOver, Saving
<1>6. CASE Expire(q)
  <2>1. PICK row \in {req[q].row, job} : job' = [row EXCEPT !.status = "EXPIRED"]
    BY <1>6 DEF Expire, SaveOver
  <2>2. row \in Rows
    BY <1>2
  <2> QED BY <1>1, <1>3, <1>4, <1>6, <2>1, <2>2 DEF Expire, Saving
<1>7. CASE Start(q)
  <2>1. PICK row \in {req[q].row, job} : job' = [row EXCEPT !.status = "IN_PROGRESS"]
    BY <1>7 DEF Start, SaveOver
  <2>2. row \in Rows
    BY <1>2
  <2> QED BY <1>1, <1>3, <1>4, <1>7, <2>1, <2>2 DEF Start, Saving
<1>8. CASE RequestCompletion(q)
  <2>1. PICK row \in {req[q].row, job} : job' = [row EXCEPT !.requested = TRUE]
    BY <1>8 DEF RequestCompletion, SaveOver
  <2>2. row \in Rows
    BY <1>2
  <2> QED BY <1>1, <1>3, <1>4, <1>8, <2>1, <2>2 DEF RequestCompletion, Saving
<1>9. CASE BookingCancel(q)
  <2>1. PICK row \in {req[q].row, job} : job' = [row EXCEPT !.status = "CANCELLED"]
    BY <1>9 DEF BookingCancel, SaveOver
  <2>2. row \in Rows
    BY <1>2
  <2> QED BY <1>1, <1>3, <1>4, <1>9, <2>1, <2>2 DEF BookingCancel, Saving
<1> QED BY <1>5, <1>6, <1>7, <1>8, <1>9

\* What an acceptance saves at the end.
LEMMA EngageWrites ==
    ASSUME TypeOK, NEW q \in Requests, Engage(q)
    PROVE  /\ Busy(q) /\ At(q, "accept4") /\ Done(q)
           /\ UNCHANGED <<apps, pays, completions>>
           /\ \/ job = req[q].row /\ clobbers' = clobbers
              \/ clobbers' = clobbers + 1
           /\ job'.status = "PENDING"
           /\ job'.artisan = req[q].artisan /\ job'.intent = req[q].intent
<1>1. Busy(q) /\ req[q] \in Work
  BY AtBusy DEF Engage, Ops
<1>2. req[q].row \in Rows /\ job \in Rows
  BY <1>1 DEF Work, TypeOK
<1>3. \A row \in Rows :
        LET new == [row EXCEPT !.status = "PENDING", !.artisan = req[q].artisan,
                               !.intent = req[q].intent]
        IN /\ new.status = "PENDING"
           /\ new.artisan = req[q].artisan /\ new.intent = req[q].intent
  BY DEF Rows
<1> QED BY <1>1, <1>2, <1>3 DEF Engage, SaveOver

\* What the completion of a booking saves.
LEMMA BookingCompletes ==
    ASSUME TypeOK, NEW q \in Requests, BookingComplete(q)
    PROVE  /\ Busy(q) /\ At(q, "bookingComplete") /\ Done(q)
           /\ UNCHANGED <<apps, pays>>
           /\ completions' = completions + 1 /\ job'.status = "COMPLETED"
           /\ \/ clobbers' = clobbers + 1
              \/ clobbers' = clobbers /\ job = req[q].row
           /\ \E row \in {req[q].row, job} :
                job'.intent = row.intent /\ job'.artisan = row.artisan
<1>1. Busy(q) /\ req[q] \in Work
  BY AtBusy DEF BookingComplete, Ops
<1>2. req[q].row \in Rows /\ job \in Rows
  BY <1>1 DEF Work, TypeOK
<1>3. PICK row \in {req[q].row, job} : job' = [row EXCEPT !.status = "COMPLETED"]
  BY DEF BookingComplete, SaveOver
<1>4. job'.status = "COMPLETED" /\ job'.intent = row.intent /\ job'.artisan = row.artisan
  BY <1>2, <1>3 DEF Rows
<1>5. \/ clobbers' = clobbers + 1
      \/ clobbers' = clobbers /\ job = req[q].row
  BY DEF BookingComplete, SaveOver
<1> QED BY <1>1, <1>4, <1>5 DEF BookingComplete

\* What a capture makes of a payment.
LEMMA CapturedForm ==
    ASSUME NEW was \in Payments, NEW p \in Captured(was)
    PROVE  /\ p \in Payments /\ [p EXCEPT !.ruled = TRUE] \in Payments
           /\ p.status \in {"HELD", "PENDING_TRANSFER"}
           /\ p.ruled = was.ruled
           /\ p.status = "PENDING_TRANSFER" \/ p.sent
           /\ [p EXCEPT !.ruled = TRUE].status = p.status
           /\ [p EXCEPT !.ruled = TRUE].sent = p.sent
           /\ [p EXCEPT !.ruled = TRUE].ruled
  BY DEF Captured, Payments, PaymentStatuses

\* What a cancellation makes of a payment.
LEMMA CancelForm ==
    ASSUME TypeOK, NEW q \in Requests, Cancelling(q)
    PROVE  \/ pays' = pays
           \/ \E k \in Intents, p \in Payments :
                /\ pays' = [pays EXCEPT ![k] = p]
                /\ \/ pays[k].status = "HELD" /\ p.status = "REFUNDED"
                   \/ pays[k].status = "PENDING" /\ p.status = "CANCELLED"
                /\ p.artisan = pays[k].artisan /\ p.sent = pays[k].sent
                /\ p.ruled = pays[k].ruled
<1> DEFINE i == req[q].row.intent
           p == [pays[i] EXCEPT !.status =
                   IF @ = "HELD" THEN "REFUNDED" ELSE "CANCELLED"]
<1>1. i \in Intents \cup {NoIntent}
  <2>1. req[q] \in Work
    BY AtBusy DEF Cancelling, CancelPayment, Ops
  <2> QED BY <2>1 DEF Work, Rows
<1>2. SUFFICES ASSUME i # NoIntent, pays[i].status \in {"HELD", "PENDING"},
                      pays' = [pays EXCEPT ![i] = p]
               PROVE  \E k \in Intents, r \in Payments :
                        /\ pays' = [pays EXCEPT ![k] = r]
                        /\ \/ pays[k].status = "HELD" /\ r.status = "REFUNDED"
                           \/ pays[k].status = "PENDING" /\ r.status = "CANCELLED"
                        /\ r.artisan = pays[k].artisan /\ r.sent = pays[k].sent
                        /\ r.ruled = pays[k].ruled
  BY DEF Cancelling, CancelPayment
<1>3. i \in Intents /\ pays[i] \in Payments
  BY <1>1, <1>2 DEF TypeOK
<1>4. /\ p \in Payments /\ p.artisan = pays[i].artisan /\ p.sent = pays[i].sent
      /\ p.ruled = pays[i].ruled
      /\ \/ pays[i].status = "HELD" /\ p.status = "REFUNDED"
         \/ pays[i].status = "PENDING" /\ p.status = "CANCELLED"
  BY <1>2, <1>3 DEF Payments, PaymentStatuses
<1> HIDE DEF i, p
<1> QED BY <1>2, <1>3, <1>4

\* The steps there are.
LEMMA Cases ==
    ASSUME TypeOK, [Next]_vars
    PROVE  \/ \E q \in Requests :
                \/ Reading(q) \/ Saving(q)
                \/ Apply(q) \/ HoldPayment(q) \/ AcceptOne(q) \/ RejectOthers(q)
                \/ Engage(q) \/ RejectWaiting(q) \/ Remove(q) \/ Complete(q)
                \/ Capture(q) \/ Cancelling(q) \/ Cancel(q) \/ Drop(q)
                \/ BookingComplete(q)
           \/ \E i \in Intents :
                Pay(i) \/ TransferSucceeds(i) \/ RetryTransfer(i) \/ Release(i)
           \/ UNCHANGED vars
<1>1. CASE Next
  BY <1>1, Reads, Saves DEF Next, Cancelling
<1>2. CASE UNCHANGED vars
  BY <1>2
<1> QED BY <1>1, <1>2

\* A payment, once made, stays its artisan's, and one that was paid stays so;
\* an application, once accepted, stays accepted.
LEMMA Stable ==
    ASSUME TypeOK, [Next]_vars
    PROVE  /\ \A i \in Intents :
                /\ pays[i].status # "none" =>
                     pays'[i].status # "none" /\ pays'[i].artisan = pays[i].artisan
                /\ pays[i].status \notin {"none", "PENDING", "CANCELLED"} =>
                     pays'[i].status \notin {"none", "PENDING", "CANCELLED"}
           /\ \A a \in Artisans : apps[a] = "ACCEPTED" => apps'[a] = "ACCEPTED"
<1> DEFINE PaysKept == \A i \in Intents :
               /\ pays[i].status # "none" =>
                    pays'[i].status # "none" /\ pays'[i].artisan = pays[i].artisan
               /\ pays[i].status \notin {"none", "PENDING", "CANCELLED"} =>
                    pays'[i].status \notin {"none", "PENDING", "CANCELLED"}
           AppsKept == \A a \in Artisans :
               apps[a] = "ACCEPTED" => apps'[a] = "ACCEPTED"
<1>1. pays \in [Intents -> Payments] /\ DOMAIN apps = Artisans
  BY DEF TypeOK
<1>2. ASSUME NEW q \in Requests, HoldPayment(q) PROVE PaysKept /\ AppsKept
  BY <1>1, <1>2 DEF HoldPayment
<1>3. ASSUME NEW i \in Intents, NEW p \in Captured(pays[i]),
             pays' = [pays EXCEPT ![i] = p]
      PROVE  PaysKept
  <2>1. p.artisan = pays[i].artisan /\ p.status \in {"HELD", "PENDING_TRANSFER"}
    BY <1>1, <1>3 DEF Captured, Payments
  <2> QED BY <1>1, <1>3, <2>1
<1>4. ASSUME NEW q \in Requests, Capture(q), Busy(q) PROVE PaysKept /\ AppsKept
  <2>1. req[q].intent \in Intents \cup {NoIntent}
    BY <1>4, AtBusy DEF Work
  <2>2. CASE UNCHANGED pays
    BY <1>4, <2>2 DEF Capture
  <2>3. CASE req[q].intent \in Intents
    BY <1>3, <1>4, <2>3 DEF Capture
  <2>4. CASE req[q].intent \notin Intents
    <3>1. UNCHANGED pays \/ \E p : pays' = [pays EXCEPT ![req[q].intent] = p]
      BY <1>4 DEF Capture
    <3> QED BY <1>1, <1>4, <2>4, <3>1 DEF Capture
  <2> QED BY <2>1, <2>3, <2>4
<1>5. ASSUME NEW q \in Requests, Cancelling(q) PROVE PaysKept /\ AppsKept
  <2>1. apps' = apps
    BY <1>5 DEF Cancelling, CancelPayment
  <2> QED BY <1>1, <1>5, <2>1, CancelForm
<1>6. ASSUME NEW i \in Intents, Pay(i) \/ TransferSucceeds(i)
      PROVE  PaysKept /\ AppsKept
  BY <1>1, <1>6 DEF Pay, TransferSucceeds, Payments
<1>7. ASSUME NEW i \in Intents, RetryTransfer(i) PROVE PaysKept /\ AppsKept
  BY <1>3, <1>7 DEF RetryTransfer
<1>8. ASSUME NEW i \in Intents, Release(i) PROVE PaysKept /\ AppsKept
  <2>1. PICK p \in Captured(pays[i]) : pays' = [pays EXCEPT ![i] = [p EXCEPT !.ruled = TRUE]]
    BY <1>8 DEF Release
  <2>2. p \in Payments /\ p.artisan = pays[i].artisan /\ p.status \in {"HELD", "PENDING_TRANSFER"}
    BY <1>1 DEF Captured, Payments, PaymentStatuses
  <2>3. [p EXCEPT !.ruled = TRUE].artisan = p.artisan /\ [p EXCEPT !.ruled = TRUE].status = p.status
    BY <2>2 DEF Payments
  <2> QED BY <1>1, <1>8, <2>1, <2>2, <2>3 DEF Release
<1>9. ASSUME NEW q \in Requests, Apply(q) \/ AcceptOne(q)
      PROVE  PaysKept /\ AppsKept
  BY <1>1, <1>9 DEF Apply, AcceptOne
<1>10. ASSUME NEW q \in Requests,
             RejectOthers(q) \/ RejectWaiting(q) \/ Cancel(q)
      PROVE  PaysKept /\ AppsKept
  BY <1>1, <1>10 DEF RejectOthers, RejectWaiting, Cancel, RejectPending
<1>11. ASSUME NEW q \in Requests,
              \/ Reading(q) \/ Saving(q) \/ Engage(q) \/ Remove(q)
              \/ Complete(q) \/ Drop(q) \/ BookingComplete(q)
       PROVE  PaysKept /\ AppsKept
  BY <1>11, BookingCompletes DEF Reading, Begin, Saving, Engage, Remove, Complete, Drop
<1>12. CASE UNCHANGED vars
  BY <1>12 DEF vars
<1>13. ASSUME NEW q \in Requests, Capture(q) PROVE Busy(q)
  BY <1>13, AtBusy DEF Capture, Ops
<1> QED
  BY <1>2, <1>4, <1>5, <1>6, <1>7, <1>8, <1>9, <1>10, <1>11, <1>12, <1>13,
     Cases

\* Where the job's artisan and payment come from.
LEMMA JobStep ==
    ASSUME TypeOK, [Next]_vars
    PROVE  \/ job'.intent = job.intent /\ job'.artisan = job.artisan
           \/ \E q \in Requests : /\ Busy(q)
                                  /\ job'.intent = req[q].row.intent
                                  /\ job'.artisan = req[q].row.artisan
           \/ \E q \in Requests : /\ Busy(q) /\ At(q, "accept4")
                                  /\ job'.intent = req[q].intent
                                  /\ job'.artisan = req[q].artisan
<1> DEFINE Same == job'.intent = job.intent /\ job'.artisan = job.artisan
<1>1. ASSUME NEW q \in Requests, Remove(q) \/ Complete(q) \/ Cancel(q) PROVE Same
  BY <1>1 DEF Remove, Complete, Cancel, TypeOK, Rows
<1>2. ASSUME NEW q \in Requests,
             \/ Reading(q) \/ Apply(q) \/ HoldPayment(q) \/ AcceptOne(q)
             \/ RejectOthers(q) \/ RejectWaiting(q) \/ Capture(q)
             \/ Cancelling(q) \/ Drop(q)
      PROVE  Same
  BY <1>2 DEF Reading, Begin, Apply, HoldPayment, AcceptOne, RejectOthers,
              RejectWaiting, Capture, Cancelling, CancelPayment, Drop
<1>3. ASSUME NEW i \in Intents,
             Pay(i) \/ TransferSucceeds(i) \/ RetryTransfer(i) \/ Release(i)
      PROVE  Same
  BY <1>3 DEF Pay, TransferSucceeds, RetryTransfer, Release
<1>4. CASE UNCHANGED vars
  BY <1>4 DEF vars
<1>5. ASSUME NEW q \in Requests, Saving(q)
      PROVE  Same \/ /\ Busy(q) /\ job'.intent = req[q].row.intent
                     /\ job'.artisan = req[q].row.artisan
  BY <1>5 DEF Saving
<1>6. ASSUME NEW q \in Requests, BookingComplete(q)
      PROVE  Same \/ /\ Busy(q) /\ job'.intent = req[q].row.intent
                     /\ job'.artisan = req[q].row.artisan
  BY <1>6, BookingCompletes
<1> QED BY <1>1, <1>2, <1>3, <1>4, <1>5, <1>6, EngageWrites, Cases

\* The job is open after a step only if it was, in the table or in a row that
\* was saved over it.
LEMMA OpenStep ==
    ASSUME TypeOK, [Next]_vars, job'.status = "OPEN"
    PROVE  \/ job.status = "OPEN"
           \/ \E q \in Requests : Busy(q) /\ req[q].row.status = "OPEN"
<1>1. ASSUME NEW q \in Requests, Remove(q) \/ Complete(q) \/ Cancel(q)
      PROVE  job.status = "OPEN"
  BY <1>1 DEF Remove, Complete, Cancel, TypeOK, Rows
<1>2. ASSUME NEW q \in Requests,
             \/ Reading(q) \/ Apply(q) \/ HoldPayment(q) \/ AcceptOne(q)
             \/ RejectOthers(q) \/ RejectWaiting(q) \/ Capture(q)
             \/ Cancelling(q) \/ Drop(q)
      PROVE  job.status = "OPEN"
  BY <1>2 DEF Reading, Begin, Apply, HoldPayment, AcceptOne, RejectOthers,
              RejectWaiting, Capture, Cancelling, CancelPayment, Drop
<1>3. ASSUME NEW i \in Intents,
             Pay(i) \/ TransferSucceeds(i) \/ RetryTransfer(i) \/ Release(i)
      PROVE  job.status = "OPEN"
  BY <1>3 DEF Pay, TransferSucceeds, RetryTransfer, Release
<1>4. CASE UNCHANGED vars
  BY <1>4 DEF vars
<1>5. ASSUME NEW q \in Requests, Saving(q)
      PROVE  \/ job.status = "OPEN"
             \/ Busy(q) /\ req[q].row.status = "OPEN"
  BY <1>5 DEF Saving
<1>6. ASSUME NEW q \in Requests, Engage(q) PROVE FALSE
  BY <1>6, EngageWrites
<1>7. ASSUME NEW q \in Requests, BookingComplete(q) PROVE FALSE
  BY <1>7, BookingCompletes
<1> QED BY <1>1, <1>2, <1>3, <1>4, <1>5, <1>6, <1>7, Cases

\* The row a busy request holds is the one it held, or the job's row as it is
\* read or as it was completed; and a request goes on in order.
LEMMA ReqStep ==
    ASSUME TypeOK, [Next]_vars, NEW q \in Requests, Busy(q)'
    PROVE  \/ Busy(q) /\ req'[q] = req[q]
           \/ Reading(q) /\ req'[q].row = job
           \/ Complete(q) /\ req'[q].row = job' /\ req'[q].op = "capture"
           \/ /\ Busy(q) /\ req'[q].row = req[q].row
              /\ req'[q].artisan = req[q].artisan
              /\ \/ HoldPayment(q)
                 \/ /\ req'[q].intent = req[q].intent
                    /\ \/ AcceptOne(q) /\ req'[q].op = "accept3"
                       \/ RejectOthers(q) /\ req'[q].op = "accept4"
                       \/ RejectWaiting(q) /\ req'[q].op = "expire2"
                       \/ Cancelling(q) /\ req'[q].op = "cancel2"
                       \/ /\ Cancelling(q) /\ At(q, "bookingCancel")
                          /\ req'[q].op = "bookingCancel2"
<1> DEFINE Goal == \/ Busy(q) /\ req'[q] = req[q]
                   \/ Reading(q) /\ req'[q].row = job
                   \/ Complete(q) /\ req'[q].row = job' /\ req'[q].op = "capture"
                   \/ /\ Busy(q) /\ req'[q].row = req[q].row
                      /\ req'[q].artisan = req[q].artisan
                      /\ \/ HoldPayment(q)
                         \/ /\ req'[q].intent = req[q].intent
                            /\ \/ AcceptOne(q) /\ req'[q].op = "accept3"
                               \/ RejectOthers(q) /\ req'[q].op = "accept4"
                               \/ RejectWaiting(q) /\ req'[q].op = "expire2"
                               \/ Cancelling(q) /\ req'[q].op = "cancel2"
                               \/ /\ Cancelling(q) /\ At(q, "bookingCancel")
                                  /\ req'[q].op = "bookingCancel2"
<1> SUFFICES Goal
  OBVIOUS
<1>0. req \in [Requests -> Work \cup {Idle}]
  BY DEF TypeOK
<1>1. ASSUME NEW p \in Requests, Reading(p) PROVE Goal
  <2>1. PICK r : r.row = job /\ req' = [req EXCEPT ![p] = r]
    BY <1>1 DEF Reading, Begin
  <2>2. CASE p = q
    BY <1>0, <1>1, <2>1, <2>2
  <2>3. CASE p # q
    BY <1>0, <2>1, <2>3 DEF Busy
  <2> QED BY <2>2, <2>3
<1>2. ASSUME NEW p \in Requests, Done(p) PROVE Goal
  BY <1>0, <1>2 DEF Done, Busy
<1>3. ASSUME NEW p \in Requests, Complete(p) PROVE Goal
  BY <1>0, <1>3 DEF Complete, Busy
<1>4. ASSUME NEW p \in Requests, HoldPayment(p) PROVE Goal
  <2>1. Busy(p) /\ req[p] \in Work
    BY <1>4, AtBusy DEF HoldPayment, Ops
  <2>2. PICK i \in Intents :
          req' = [req EXCEPT ![p] = [req[p] EXCEPT !.op = "accept2", !.intent = i]]
    BY <1>4 DEF HoldPayment
  <2>3. CASE p = q
    <3>1. req'[q] = [req[q] EXCEPT !.op = "accept2", !.intent = i]
      BY <1>0, <2>2, <2>3
    <3>2. req'[q].row = req[q].row /\ req'[q].artisan = req[q].artisan
      BY <2>1, <2>3, <3>1 DEF Work
    <3> QED BY <1>4, <2>1, <2>3, <3>2
  <2>4. CASE p # q
    BY <1>0, <2>2, <2>4 DEF Busy
  <2> QED BY <2>3, <2>4
<1>5. ASSUME NEW p \in Requests, NEW op \in Ops, Busy(p), Continue(p, op)
      PROVE  \/ Busy(q) /\ req'[q] = req[q]
             \/ /\ p = q /\ req'[q].row = req[q].row /\ req'[q].op = op
                /\ req'[q].artisan = req[q].artisan
                /\ req'[q].intent = req[q].intent
  <2>1. req[p] \in Work
    BY <1>5, AtBusy
  <2> QED BY <1>0, <1>5, <2>1 DEF Continue, Busy, Work
<1>6. ASSUME NEW p \in Requests, AcceptOne(p) PROVE Goal
  <2>1. Busy(p)
    BY <1>6, AtBusy DEF AcceptOne, Ops
  <2> QED BY <1>5, <1>6, <2>1 DEF AcceptOne, Ops
<1>7. ASSUME NEW p \in Requests, RejectOthers(p) PROVE Goal
  <2>1. Busy(p)
    BY <1>7, AtBusy DEF RejectOthers, Ops
  <2> QED BY <1>5, <1>7, <2>1 DEF RejectOthers, Ops
<1>8. ASSUME NEW p \in Requests, RejectWaiting(p) PROVE Goal
  <2>1. Busy(p)
    BY <1>8, AtBusy DEF RejectWaiting, Ops
  <2> QED BY <1>5, <1>8, <2>1 DEF RejectWaiting, Ops
<1>9. ASSUME NEW p \in Requests, Cancelling(p) PROVE Goal
  <2>1. Busy(p)
    BY <1>9, AtBusy DEF Cancelling, CancelPayment, Ops
  <2>2. CASE CancelPayment(p, "cancel", "cancel2")
    BY <1>5, <1>9, <2>1, <2>2 DEF CancelPayment, Ops
  <2>3. CASE CancelPayment(p, "bookingCancel", "bookingCancel2")
    BY <1>5, <1>9, <2>1, <2>3 DEF CancelPayment, Ops
  <2> QED BY <1>9, <2>2, <2>3 DEF Cancelling
<1>10. CASE UNCHANGED req
  BY <1>10 DEF Busy
<1>11. ASSUME NEW p \in Requests, Engage(p) \/ BookingComplete(p) PROVE Done(p)
  BY <1>11 DEF Engage, BookingComplete
<1> HIDE DEF Goal
<1> QED
  BY <1>1, <1>2, <1>3, <1>4, <1>6, <1>7, <1>8, <1>9, <1>10, <1>11, Cases
  DEF Saving, Apply, Remove, Capture, Cancel, Drop, Pay, TransferSucceeds,
      RetryTransfer, Release, vars

-----------------------------------------------------------------------------
(* The parts of the invariant *)

\* What a reading request has done is begin.
LEMMA ReadingBegins ==
    ASSUME TypeOK, NEW q \in Requests, Reading(q)
    PROVE  /\ req'[q].row = job
           /\ req'[q].op \in {"apply", "accept", "edit", "remove", "expire",
                              "start", "request", "cancel", "bookingCancel",
                              "bookingComplete"}
           /\ req'[q].op \in {"apply", "accept"} => req'[q].artisan \in Artisans
           /\ req'[q].op \in OpenOps => job.status = "OPEN"
           /\ req'[q].op = "start" => job.status = "PENDING" /\ Secured(job)
           /\ req'[q].op = "request" => job.status = "IN_PROGRESS"
           /\ req'[q].op \in BookingOps => Booked
           /\ req'[q].op = "bookingCancel" => job.status = "PENDING"
           /\ req'[q].op = "bookingComplete" =>
                job.status \notin {"COMPLETED", "CANCELLED"} /\ job.intent = NoIntent
           /\ UNCHANGED <<job, apps, pays, completions, clobbers>>
<1>1. PICK op \in {"apply", "accept", "edit", "remove", "expire", "start",
                   "request", "cancel", "bookingCancel", "bookingComplete"},
        a \in Artisans \cup {NoArtisan} :
        /\ Begin(q, op, a)
        /\ op \in {"apply", "accept"} => a \in Artisans
        /\ op \in OpenOps => job.status = "OPEN"
        /\ op = "start" => job.status = "PENDING" /\ Secured(job)
        /\ op = "request" => job.status = "IN_PROGRESS"
        /\ op \in BookingOps => Booked
        /\ op = "bookingCancel" => job.status = "PENDING"
        /\ op = "bookingComplete" =>
              job.status \notin {"COMPLETED", "CANCELLED"} /\ job.intent = NoIntent
  BY DEF Reading
<1>2. req'[q] = [op |-> op, row |-> job, artisan |-> a, intent |-> job.intent]
  BY <1>1 DEF Begin, TypeOK
<1> QED BY <1>1, <1>2 DEF Begin

\* A hold goes on to the application, with the payment it made.
LEMMA HoldMakes ==
    ASSUME TypeOK, NEW q \in Requests, HoldPayment(q)
    PROVE  /\ Busy(q) /\ At(q, "accept")
           /\ req'[q].op = "accept2" /\ req'[q].row = req[q].row
           /\ req'[q].artisan = req[q].artisan
           /\ req'[q].intent \in Intents
           /\ pays'[req'[q].intent].status = "PENDING"
           /\ pays'[req'[q].intent].artisan = req[q].artisan
<1>1. Busy(q) /\ req[q] \in Work
  BY AtBusy DEF HoldPayment, Ops
<1>2. PICK i \in Intents :
        /\ pays' = [pays EXCEPT ![i] =
             [status |-> "PENDING", artisan |-> Payee(q), sent |-> FALSE,
              ruled |-> FALSE]]
        /\ req' = [req EXCEPT ![q] = [req[q] EXCEPT !.op = "accept2", !.intent = i]]
  BY HoldForm
<1>3. /\ req'[q] = [req[q] EXCEPT !.op = "accept2", !.intent = i]
      /\ pays'[i] = [status |-> "PENDING", artisan |-> Payee(q), sent |-> FALSE,
              ruled |-> FALSE]
  BY <1>2 DEF TypeOK
<1>4. /\ req'[q].op = "accept2" /\ req'[q].intent = i
      /\ req'[q].row = req[q].row /\ req'[q].artisan = req[q].artisan
  BY <1>1, <1>3 DEF Work
<1>5. At(q, "accept")
  BY DEF HoldPayment
<1>6. pays'[i].status = "PENDING" /\ pays'[i].artisan = req[q].artisan
  BY <1>3 DEF Payee
<1> QED BY <1>1, <1>4, <1>5, <1>6

\* A request goes on only with a row it may save.
LEMMA ReadStatusStep ==
    ASSUME TypeOK, ReadStatus, [Next]_vars PROVE ReadStatus'
<1> SUFFICES ASSUME NEW q \in Requests, Busy(q)'
             PROVE  /\ req'[q].op \in OpenOps => req'[q].row.status = "OPEN"
                    /\ req'[q].op = "start" => req'[q].row.status = "PENDING"
                    /\ req'[q].op = "request" => req'[q].row.status = "IN_PROGRESS"
                    /\ req'[q].op \in {"bookingCancel", "bookingCancel2"}
                         => req'[q].row.status = "PENDING"
                    /\ req'[q].op = "bookingComplete" =>
                         /\ req'[q].row.status \notin {"COMPLETED", "CANCELLED"}
                         /\ req'[q].row.intent = NoIntent
  BY DEF ReadStatus, At
<1>1. CASE Busy(q) /\ req'[q] = req[q]
  BY <1>1 DEF ReadStatus, At
<1>2. CASE Reading(q) /\ req'[q].row = job
  BY <1>2, ReadingBegins
<1>3. CASE Complete(q) /\ req'[q].op = "capture"
  BY <1>3 DEF OpenOps
<1>4. CASE HoldPayment(q)
  BY <1>4, HoldMakes DEF ReadStatus, At, OpenOps
<1>5. CASE /\ Busy(q) /\ req'[q].row = req[q].row
           /\ \/ AcceptOne(q) /\ req'[q].op = "accept3"
              \/ RejectOthers(q) /\ req'[q].op = "accept4"
              \/ RejectWaiting(q) /\ req'[q].op = "expire2"
              \/ Cancelling(q) /\ req'[q].op = "cancel2"
              \/ At(q, "bookingCancel") /\ req'[q].op = "bookingCancel2"
  BY <1>5 DEF ReadStatus, At, OpenOps, AcceptOne, RejectOthers, RejectWaiting
<1> QED BY <1>1, <1>2, <1>3, <1>4, <1>5, ReqStep

\* An acceptance keeps its payment and, once saved, its application.
LEMMA AcceptingStep ==
    ASSUME TypeOK, Accepting, [Next]_vars PROVE Accepting'
<1> SUFFICES ASSUME NEW q \in Requests, Busy(q)'
             PROVE  /\ req'[q].op \in {"apply", "accept", "accept2", "accept3", "accept4"}
                         => req'[q].artisan \in Artisans
                    /\ req'[q].op \in {"accept2", "accept3", "accept4"} =>
                         /\ req'[q].intent \in Intents
                         /\ pays'[req'[q].intent].status # "none"
                         /\ pays'[req'[q].intent].artisan = req'[q].artisan
                    /\ req'[q].op \in {"accept3", "accept4"} =>
                         apps'[req'[q].artisan] = "ACCEPTED"
  BY DEF Accepting
<1>1. CASE Busy(q) /\ req'[q] = req[q]
  BY <1>1, Stable DEF Accepting
<1>2. CASE Reading(q) /\ req'[q].row = job
  BY <1>2, ReadingBegins
<1>3. CASE Complete(q) /\ req'[q].op = "capture"
  BY <1>3
<1>4. CASE HoldPayment(q)
  BY <1>4, HoldMakes DEF Accepting, At
<1>5. CASE /\ Busy(q) /\ AcceptOne(q) /\ req'[q].op = "accept3"
           /\ req'[q].artisan = req[q].artisan /\ req'[q].intent = req[q].intent
  <2>1. At(q, "accept2") /\ apps' = [apps EXCEPT ![req[q].artisan] = "ACCEPTED"]
    BY <1>5 DEF AcceptOne
  <2>2. req[q].artisan \in Artisans
    BY <1>5, <2>1 DEF Accepting, At
  <2>3. apps'[req'[q].artisan] = "ACCEPTED"
    BY <1>5, <2>1, <2>2 DEF TypeOK
  <2> QED BY <1>5, <2>1, <2>2, <2>3, Stable DEF Accepting, At
<1>6. CASE /\ Busy(q) /\ RejectOthers(q) /\ req'[q].op = "accept4"
           /\ req'[q].artisan = req[q].artisan /\ req'[q].intent = req[q].intent
  BY <1>6, Stable DEF Accepting, At, RejectOthers
<1>7. CASE req'[q].op \in {"expire2", "cancel2", "bookingCancel2"}
  BY <1>7
<1> QED BY <1>1, <1>2, <1>3, <1>4, <1>5, <1>6, <1>7, ReqStep

\* What is true of the job's row, and of each row a request holds, is true of
\* the row a step writes: it takes its payee from one of them, or from an
\* acceptance.
LEMMA PayeesStep ==
    ASSUME TypeOK, Accepting, PayeesNamed, [Next]_vars PROVE PayeesNamed'
<1>1. /\ job \in Rows
      /\ \A q \in Requests : Busy(q) => req[q].row \in Rows
  BY AtBusy DEF TypeOK, Work
<1>2. ASSUME NEW row \in Rows, PayeeNamed(row), NEW new,
             new.intent = row.intent, new.artisan = row.artisan
      PROVE  new.intent # NoIntent => /\ new.artisan \in Artisans
                                      /\ pays'[new.intent].status # "none"
                                      /\ pays'[new.intent].artisan = new.artisan
  BY <1>2, Stable DEF PayeeNamed, Rows
<1>3. PayeeNamed(job)'
  <2>1. CASE \E q \in Requests : /\ Busy(q) /\ At(q, "accept4")
                                 /\ job'.intent = req[q].intent
                                 /\ job'.artisan = req[q].artisan
    BY <2>1, Stable DEF Accepting, At, PayeeNamed
  <2>2. CASE job'.intent = job.intent /\ job'.artisan = job.artisan
    BY <1>1, <1>2, <2>2 DEF PayeesNamed, PayeeNamed
  <2>3. CASE \E q \in Requests : /\ Busy(q) /\ job'.intent = req[q].row.intent
                                 /\ job'.artisan = req[q].row.artisan
    BY <1>1, <1>2, <2>3 DEF PayeesNamed, PayeeNamed
  <2> QED BY <2>1, <2>2, <2>3, JobStep
<1>4. ASSUME NEW q \in Requests, Busy(q)' PROVE PayeeNamed(req[q].row)'
  <2>1. CASE Busy(q) /\ req'[q].row = req[q].row
    BY <1>1, <1>2, <2>1 DEF PayeesNamed, PayeeNamed
  <2>2. CASE req'[q].row = job
    BY <1>1, <1>2, <2>2 DEF PayeesNamed, PayeeNamed
  <2>3. CASE req'[q].row = job'
    BY <1>3, <2>3 DEF PayeeNamed
  <2> QED BY <1>4, <2>1, <2>2, <2>3, ReqStep
<1> QED BY <1>3, <1>4 DEF PayeesNamed

\* A booked job stays one: only an application could end that, and no request
\* ever found the job open.
LEMMA BookedStep ==
    ASSUME TypeOK, ReadStatus, BookedJob, [Next]_vars PROVE BookedJob'
<1>1. job'.status # "OPEN"
  BY OpenStep DEF BookedJob
<1>2. ASSUME NEW q \in Requests, Busy(q)' PROVE req'[q].row.status # "OPEN"
  BY <1>1, <1>2, ReqStep DEF BookedJob
<1>3. ASSUME NEW a \in Artisans PROVE apps'[a] = "none"
  <2>1. apps[a] = "none" /\ DOMAIN apps = Artisans
    BY DEF BookedJob, TypeOK
  <2>2. ASSUME NEW q \in Requests, Apply(q) \/ AcceptOne(q) PROVE FALSE
    <3>1. Busy(q) /\ req[q].op \in OpenOps
      BY <2>2, AtBusy DEF Apply, AcceptOne, At, OpenOps, Ops
    <3> QED BY <3>1 DEF ReadStatus, BookedJob
  <2>3. ASSUME NEW q \in Requests, RejectOthers(q) PROVE FALSE
    <3>1. Busy(q) /\ req[q].op \in OpenOps
      BY <2>3, AtBusy DEF RejectOthers, At, OpenOps, Ops
    <3> QED BY <3>1 DEF ReadStatus, BookedJob
  <2>4. ASSUME NEW q \in Requests, RejectWaiting(q) \/ Cancel(q)
        PROVE  apps'[a] = "none"
    BY <2>1, <2>4 DEF RejectWaiting, Cancel, RejectPending
  <2> HIDE DEF OpenOps
  <2> QED BY <2>1, <2>2, <2>3, <2>4, Cases, EngageWrites, BookingCompletes
          DEF Reading, Begin, Saving, HoldPayment, Remove, Complete, Capture,
              Cancelling, CancelPayment, Drop, Pay, TransferSucceeds, RetryTransfer,
              Release, vars
<1> QED BY <1>1, <1>2, <1>3 DEF BookedJob

\* A posted job's rows go on naming accepted applicants.
LEMMA PostedStep ==
    ASSUME TypeOK, Accepting, PayeesNamed, PostedJob, [Next]_vars
    PROVE  PostedJob'
<1>0. /\ job.artisan \in Artisans \cup {NoArtisan}
      /\ \A q \in Requests : Busy(q) => req[q].row.artisan \in Artisans \cup {NoArtisan}
  BY AtBusy DEF TypeOK, Work, Rows
<1>1. ASSUME NEW row, row.artisan \in Artisans \cup {NoArtisan}, EngagedIn(row),
             NEW new, new.artisan = row.artisan
      PROVE  new.artisan # NoArtisan => apps'[new.artisan] = "ACCEPTED"
  BY <1>1, Stable DEF EngagedIn
<1>2. EngagedIn(job)'
  <2>1. CASE \E q \in Requests : /\ Busy(q) /\ At(q, "accept4")
                                 /\ job'.artisan = req[q].artisan
    BY <2>1, Stable DEF Accepting, At, EngagedIn
  <2>2. CASE job'.intent = job.intent /\ job'.artisan = job.artisan
    BY <1>0, <1>1, <2>2 DEF PostedJob, EngagedIn
  <2>3. CASE \E q \in Requests : /\ Busy(q) /\ job'.intent = req[q].row.intent
                                 /\ job'.artisan = req[q].row.artisan
    BY <1>0, <1>1, <2>3 DEF PostedJob, EngagedIn
  <2> QED BY <2>1, <2>2, <2>3, JobStep
<1>3. ASSUME NEW q \in Requests, Busy(q)' PROVE EngagedIn(req[q].row)'
  <2>1. CASE Busy(q) /\ req'[q].row = req[q].row
    BY <1>0, <1>1, <2>1 DEF PostedJob, EngagedIn
  <2>2. CASE req'[q].row = job
    BY <1>0, <1>1, <2>2 DEF PostedJob, EngagedIn
  <2>3. CASE req'[q].row = job'
    BY <1>2, <2>3 DEF EngagedIn
  <2> QED BY <1>3, <2>1, <2>2, <2>3, ReqStep
<1>4. ~Booked
  BY <1>0 DEF Booked, PostedJob, EngagedIn
<1>5. ASSUME NEW q \in Requests, Busy(q)' PROVE req'[q].op \notin BookingOps
  <2>1. CASE Busy(q) /\ req'[q] = req[q]
    BY <2>1 DEF PostedJob
  <2>2. CASE Reading(q)
    BY <1>4, <2>2, ReadingBegins
  <2>3. CASE HoldPayment(q)
    BY <2>3, HoldMakes DEF BookingOps
  <2>4. CASE Busy(q) /\ At(q, "bookingCancel")
    BY <2>4 DEF PostedJob, BookingOps, At
  <2>5. CASE req'[q].op \in {"capture", "accept3", "accept4", "expire2", "cancel2"}
    BY <2>5 DEF BookingOps
  <2> QED BY <1>5, <2>1, <2>2, <2>3, <2>4, <2>5, ReqStep
<1> QED BY <1>2, <1>3, <1>5 DEF PostedJob

\* A save over nobody's change neither completes a job nor takes that back.
LEMMA SaveClean ==
    ASSUME TypeOK, ReadStatus, NEW q \in Requests, Saving(q) \/ Engage(q)
    PROVE  /\ completions' = completions
           /\ \/ clobbers' = clobbers + 1
              \/ /\ clobbers' = clobbers /\ job = req[q].row
                 /\ job.status # "COMPLETED" /\ job'.status # "COMPLETED"
<1>1. CASE Saving(q)
  BY <1>1 DEF Saving, ReadStatus, At, OpenOps
<1>2. CASE Engage(q)
  BY <1>2, EngageWrites DEF ReadStatus, At, OpenOps
<1> QED BY <1>1, <1>2

\* Steps that are no save leave the number of saves over a change alone, and
\* a completed job completed; only a completion makes it one.
LEMMA OtherStep ==
    ASSUME TypeOK, [Next]_vars,
           ~ \E q \in Requests : Saving(q) \/ Engage(q) \/ BookingComplete(q)
    PROVE  /\ clobbers' = clobbers
           /\ job.status = "COMPLETED" => job'.status = "COMPLETED"
           /\ \/ \E q \in Requests : Complete(q)
              \/ /\ completions' = completions
                 /\ job'.status = "COMPLETED" => job.status = "COMPLETED"
<1> USE DEF TypeOK, Rows
<1>1. ASSUME NEW q \in Requests, Remove(q) \/ Cancel(q)
      PROVE  /\ clobbers' = clobbers /\ completions' = completions
             /\ job'.status = "COMPLETED" <=> job.status = "COMPLETED"
  BY <1>1 DEF Remove, Cancel, StillCancellable, Cancellable
<1>2. ASSUME NEW q \in Requests, Complete(q)
      PROVE  clobbers' = clobbers /\ job'.status = "COMPLETED"
  BY <1>2 DEF Complete
<1>3. ASSUME NEW q \in Requests,
             \/ Reading(q) \/ Apply(q) \/ HoldPayment(q) \/ AcceptOne(q)
             \/ RejectOthers(q) \/ RejectWaiting(q) \/ Capture(q)
             \/ Cancelling(q) \/ Drop(q)
      PROVE  UNCHANGED <<clobbers, completions, job>>
  BY <1>3 DEF Reading, Begin, Apply, HoldPayment, AcceptOne, RejectOthers,
              RejectWaiting, Capture, Cancelling, CancelPayment, Drop
<1>4. ASSUME NEW i \in Intents,
             Pay(i) \/ TransferSucceeds(i) \/ RetryTransfer(i) \/ Release(i)
      PROVE  UNCHANGED <<clobbers, completions, job>>
  BY <1>4 DEF Pay, TransferSucceeds, RetryTransfer, Release
<1>5. CASE UNCHANGED vars
  BY <1>5 DEF vars
<1> QED BY <1>1, <1>2, <1>3, <1>4, <1>5, Cases

\* A further completion was made possible by a save over the last one.
LEMMA CountedStep ==
    ASSUME TypeOK, ReadStatus, Counted, [Next]_vars PROVE Counted'
<1> USE DEF Counted
<1>0. completions \in Nat /\ clobbers \in Nat
  BY DEF TypeOK
<1>1. ASSUME NEW q \in Requests, Saving(q) \/ Engage(q) PROVE Counted'
  BY <1>0, <1>1, SaveClean
<1>2. ASSUME NEW q \in Requests, BookingComplete(q) PROVE Counted'
  <2>1. clobbers' = clobbers => job.status # "COMPLETED"
    BY <1>0, <1>2, BookingCompletes DEF ReadStatus
  <2> QED BY <1>0, <1>2, <2>1, BookingCompletes
<1>3. CASE ~ \E q \in Requests : Saving(q) \/ Engage(q) \/ BookingComplete(q)
  <2>1. CASE \E q \in Requests : Complete(q)
    <3>1. /\ job.status = "IN_PROGRESS" /\ job'.status = "COMPLETED"
          /\ completions' = completions + 1 /\ clobbers' = clobbers
      BY <2>1 DEF Complete, MayComplete, TypeOK, Rows
    <3> QED BY <1>0, <3>1
  <2>2. CASE completions' = completions
    BY <1>0, <1>3, <2>2, OtherStep
  <2> QED BY <1>3, <2>1, <2>2, OtherStep
<1> QED BY <1>1, <1>2, <1>3

-----------------------------------------------------------------------------
(* Without saves over a change *)

\* Saves over a change are only ever added.
LEMMA ClobbersCount ==
    ASSUME TypeOK, ReadStatus, [Next]_vars, clobbers' = 0
    PROVE  /\ clobbers = 0
           /\ \A q \in Requests :
                Saving(q) \/ Engage(q) \/ BookingComplete(q) => job = req[q].row
<1>1. clobbers \in Nat
  BY DEF TypeOK
<1> QED BY <1>1, SaveClean, BookingCompletes, OtherStep

\* An engaged job without a payment stays a booked one: an acceptance brings
\* a payment, and no other step engages.
LEMMA UnpaidStep ==
    ASSUME TypeOK, ReadStatus, Accepting, BookedJob \/ PostedJob, UnpaidIsBooked, [Next]_vars,
           clobbers' = 0
    PROVE  UnpaidIsBooked'
<1> SUFFICES ASSUME Engaged', job'.intent = NoIntent PROVE BookedJob'
  BY DEF UnpaidIsBooked
<1>0. CASE BookedJob
  BY <1>0, BookedStep
<1> SUFFICES ASSUME PostedJob PROVE BookedJob'
  BY <1>0
<1>1. SUFFICES Engaged /\ job.intent = NoIntent
  BY <1>1, BookedStep DEF UnpaidIsBooked
<1> USE DEF Engaged
<1>2. ASSUME NEW q \in Requests, Saving(q) PROVE Engaged /\ job.intent = NoIntent
  BY <1>2, ClobbersCount DEF Saving, ReadStatus, At, OpenOps
<1>3. ASSUME NEW q \in Requests, Engage(q) PROVE FALSE
  <2>1. req[q].intent \in Intents /\ job'.intent = req[q].intent
    BY <1>3, EngageWrites DEF Accepting, At
  <2> QED BY <2>1, BoundsAssumption DEF Intents, NoIntent
<1>4. ASSUME NEW q \in Requests, Remove(q) \/ Complete(q) \/ Cancel(q)
      PROVE  Engaged /\ job.intent = NoIntent
  BY <1>4 DEF Remove, Complete, MayComplete, Cancel, TypeOK, Rows
<1>5. ASSUME NEW q \in Requests,
             \/ Reading(q) \/ Apply(q) \/ HoldPayment(q) \/ AcceptOne(q)
             \/ RejectOthers(q) \/ RejectWaiting(q) \/ Capture(q)
             \/ Cancelling(q) \/ Drop(q)
      PROVE  Engaged /\ job.intent = NoIntent
  BY <1>5 DEF Reading, Begin, Apply, HoldPayment, AcceptOne, RejectOthers,
              RejectWaiting, Capture, Cancelling, CancelPayment, Drop
<1>6. ASSUME NEW i \in Intents,
             Pay(i) \/ TransferSucceeds(i) \/ RetryTransfer(i) \/ Release(i)
      PROVE  Engaged /\ job.intent = NoIntent
  BY <1>6 DEF Pay, TransferSucceeds, RetryTransfer, Release
<1>7. CASE UNCHANGED vars
  BY <1>7 DEF vars
<1>8. ASSUME NEW q \in Requests, BookingComplete(q) PROVE FALSE
  BY <1>8, BookingCompletes DEF PostedJob, BookingOps, At
<1> QED BY <1>2, <1>3, <1>4, <1>5, <1>6, <1>7, <1>8, Cases

\* Work that starts was paid for when that was read, and what was paid stays
\* paid, whatever becomes of the money.
LEMMA StartedStep ==
    ASSUME TypeOK, ReadStatus, PayeesNamed, StartedPaid, [Next]_vars,
           clobbers' = 0
    PROVE  StartedPaid'
<1>0. /\ job \in Rows
      /\ \A q \in Requests : Busy(q) => req[q].row \in Rows
  BY AtBusy DEF TypeOK, Work
<1>1. ASSUME NEW row \in Rows, PaidFor(row), NEW new, new.intent = row.intent
      PROVE  new.intent # NoIntent =>
                pays'[new.intent].status \notin {"none", "PENDING", "CANCELLED"}
  BY <1>1, Stable DEF PaidFor, Rows
<1>2. ASSUME NEW q \in Requests, Busy(q)', req'[q].op = "start"
      PROVE  PaidFor(req[q].row)'
  <2>1. CASE Busy(q) /\ req'[q] = req[q]
    BY <1>0, <1>1, <1>2, <2>1 DEF StartedPaid, At, PaidFor
  <2>2. CASE Reading(q)
    <3>1. req'[q].row = job /\ Secured(job)
      BY <1>2, <2>2, ReadingBegins
    <3>2. PaidFor(job)
      BY <3>1 DEF Secured, PaidFor
    <3> QED BY <1>0, <1>1, <3>1, <3>2 DEF PaidFor
  <2>3. CASE HoldPayment(q)
    BY <1>2, <2>3, HoldMakes
  <2> QED BY <1>2, <2>1, <2>2, <2>3, ReqStep
<1>3. ASSUME job'.status \in {"IN_PROGRESS", "COMPLETED"}
      PROVE  PaidFor(job)'
  <2>1. ASSUME job.status \in {"IN_PROGRESS", "COMPLETED"},
               job'.intent = job.intent
        PROVE  PaidFor(job)'
    BY <1>0, <1>1, <2>1 DEF StartedPaid, PaidFor
  <2>2. ASSUME NEW q \in Requests, Saving(q) PROVE PaidFor(job)'
    <3>1. job = req[q].row /\ job'.intent = job.intent
      BY <2>2, ClobbersCount DEF Saving
    <3>2. CASE At(q, "start")
      BY <1>0, <1>1, <2>2, <3>1, <3>2 DEF StartedPaid, Saving, PaidFor
    <3>3. CASE ~At(q, "start")
      BY <1>3, <2>1, <2>2, <3>1, <3>3 DEF Saving
    <3> QED BY <3>2, <3>3
  <2>3. ASSUME NEW q \in Requests, Engage(q) PROVE FALSE
    BY <1>3, <2>3, EngageWrites
  <2>4. ASSUME NEW q \in Requests, Remove(q) \/ Complete(q) \/ Cancel(q)
        PROVE  /\ job.status \in {"IN_PROGRESS", "COMPLETED"}
               /\ job'.intent = job.intent
    BY <1>3, <2>4 DEF Remove, Complete, MayComplete, Cancel, TypeOK, Rows
  <2>5. ASSUME NEW q \in Requests,
               \/ Reading(q) \/ Apply(q) \/ HoldPayment(q) \/ AcceptOne(q)
               \/ RejectOthers(q) \/ RejectWaiting(q) \/ Capture(q)
               \/ Cancelling(q) \/ Drop(q)
        PROVE  job' = job
    BY <2>5 DEF Reading, Begin, Apply, HoldPayment, AcceptOne, RejectOthers,
                RejectWaiting, Capture, Cancelling, CancelPayment, Drop
  <2>6. ASSUME NEW i \in Intents,
               Pay(i) \/ TransferSucceeds(i) \/ RetryTransfer(i) \/ Release(i)
        PROVE  job' = job
    BY <2>6 DEF Pay, TransferSucceeds, RetryTransfer, Release
  <2>7. CASE job' = job
    BY <1>3, <2>1, <2>7
  <2>8. ASSUME NEW q \in Requests, BookingComplete(q) PROVE PaidFor(job)'
    <3>1. job = req[q].row /\ Busy(q) /\ At(q, "bookingComplete")
      BY <2>8, ClobbersCount, BookingCompletes
    <3>2. job'.intent = NoIntent
      BY <2>8, <3>1, BookingCompletes DEF ReadStatus
    <3> QED BY <3>2 DEF PaidFor
  <2> QED BY <2>1, <2>2, <2>3, <2>4, <2>5, <2>6, <2>7, <2>8, Cases DEF vars
<1> QED BY <1>2, <1>3 DEF StartedPaid, At

\* Money is sent by the capture of a completed job, or by a retry of it.
LEMMA CapturedStep ==
    ASSUME TypeOK, ReadStatus, CapturedDone, [Next]_vars, clobbers' = 0
    PROVE  CapturedDone'
<1> DEFINE Out(i) == ~pays[i].ruled /\ (pays[i].sent \/ pays[i].status = "PENDING_TRANSFER")
<1>0. pays \in [Intents -> Payments]
  BY DEF TypeOK
<1>1. ASSUME job.status = "COMPLETED" PROVE job'.status = "COMPLETED"
  <2>1. ASSUME NEW q \in Requests, Saving(q) \/ Engage(q) PROVE FALSE
    <3>1. clobbers = 0 /\ clobbers' # clobbers + 1
      BY ClobbersCount
    <3> QED BY <1>1, <2>1, <3>1, SaveClean
  <2>2. ASSUME NEW q \in Requests, BookingComplete(q) PROVE job'.status = "COMPLETED"
    BY <2>2, BookingCompletes
  <2> QED BY <1>1, <2>1, <2>2, OtherStep
<1>2. ASSUME NEW q \in Requests, Busy(q)', req'[q].op = "capture"
      PROVE  job'.status = "COMPLETED"
  <2>1. CASE Busy(q) /\ req'[q] = req[q]
    BY <1>1, <1>2, <2>1 DEF CapturedDone, At
  <2>2. CASE Complete(q)
    BY <2>2 DEF Complete, TypeOK, Rows
  <2>3. CASE Reading(q)
    BY <1>2, <2>3, ReadingBegins
  <2>4. CASE HoldPayment(q)
    BY <1>2, <2>4, HoldMakes
  <2> QED BY <1>2, <2>1, <2>2, <2>3, <2>4, ReqStep
<1>3. ASSUME NEW q \in Requests, Capture(q) PROVE job'.status = "COMPLETED"
  <2>1. Busy(q) /\ At(q, "capture")
    BY <1>3, AtBusy DEF Capture, Ops
  <2> QED BY <1>1, <2>1 DEF CapturedDone
<1>4. ASSUME NEW k \in Intents, NEW i \in Intents, RetryTransfer(k), Out(i)', ~Out(i)
      PROVE  job'.status = "COMPLETED"
  <2>1. PICK p \in Captured(pays[k]) : pays' = [pays EXCEPT ![k] = p]
    BY <1>4 DEF RetryTransfer
  <2>2. p.ruled = pays[k].ruled
    BY <1>0 DEF Captured, Payments
  <2>3. i = k /\ ~pays[k].ruled
    BY <1>0, <1>4, <2>1, <2>2
  <2> QED BY <1>1, <1>4, <2>3 DEF CapturedDone, RetryTransfer
<1>5. ASSUME NEW i \in Intents, Out(i)', ~Out(i)
      PROVE  job'.status = "COMPLETED"
  <2>1. ASSUME NEW q \in Requests, HoldPayment(q) PROVE FALSE
    <3>1. PICK k \in Intents : pays' = [pays EXCEPT ![k] =
            [status |-> "PENDING", artisan |-> Payee(q), sent |-> FALSE,
              ruled |-> FALSE]]
      BY <2>1 DEF HoldPayment
    <3> QED BY <1>0, <1>5, <3>1
  <2>2. ASSUME NEW q \in Requests, Cancelling(q) PROVE FALSE
    BY <1>0, <1>5, <2>2, CancelForm
  <2>3. ASSUME NEW k \in Intents, Pay(k) \/ TransferSucceeds(k) PROVE FALSE
    BY <1>0, <1>5, <2>3 DEF Pay, TransferSucceeds, Payments
  <2>4. ASSUME UNCHANGED pays PROVE FALSE
    BY <1>5, <2>4
  <2>5. ASSUME NEW k \in Intents, Release(k) PROVE FALSE
    <3>1. PICK p \in Captured(pays[k]) : pays' = [pays EXCEPT ![k] = [p EXCEPT !.ruled = TRUE]]
      BY <2>5 DEF Release
    <3>2. p \in Payments
      BY <1>0 DEF Captured, Payments, PaymentStatuses
    <3>3. [p EXCEPT !.ruled = TRUE].ruled = TRUE
      BY <3>2 DEF Payments
    <3> QED BY <1>0, <1>5, <3>1, <3>3
  <2> HIDE DEF Out
  <2> QED
    BY <1>3, <1>4, <1>5, <2>1, <2>2, <2>3, <2>4, <2>5, Cases, EngageWrites,
       BookingCompletes
    DEF Reading, Begin, Saving, Apply, AcceptOne, RejectOthers, RejectWaiting,
        Remove, Complete, Cancel, Drop, vars
<1>6. ASSUME NEW i \in Intents, Out(i)' PROVE job'.status = "COMPLETED"
  BY <1>1, <1>5, <1>6 DEF CapturedDone
<1> QED BY <1>2, <1>6 DEF CapturedDone, At

-----------------------------------------------------------------------------
\* A job begins posted, or booked.
LEMMA InitIInv == Init => IInv
<1> SUFFICES ASSUME Init PROVE IInv
  OBVIOUS
<1> USE ArtisansAssumption, BoundsAssumption DEF Intents, NoIntent
<1>1. PICK s \in {"OPEN", "PENDING"}, a \in Artisans, i \in {NoIntent, 1} :
        /\ s = "OPEN" => i = NoIntent
        /\ job = [status |-> s, requested |-> FALSE,
                  artisan |-> IF s = "OPEN" THEN NoArtisan ELSE a,
                  intent |-> i, deleted |-> FALSE]
        /\ pays = [k \in Intents |-> IF k = i
             THEN [status |-> "PENDING", artisan |-> a, sent |-> FALSE, ruled |-> FALSE]
             ELSE [status |-> "none", artisan |-> NoArtisan, sent |-> FALSE,
                   ruled |-> FALSE]]
  BY DEF Init
<1>2. \A q \in Requests : ~Busy(q)
  BY DEF Init, Busy
<1>3. /\ \A x \in Artisans : apps[x] = "none"
      /\ completions = 0 /\ clobbers = 0
  BY DEF Init
<1>4. i \in Intents \cup {NoIntent}
  BY <1>1
<1>5. TypeOK
  <2>1. job \in Rows
    BY <1>1, <1>4 DEF Rows, Statuses
  <2>2. pays \in [Intents -> Payments]
    BY <1>1 DEF Payments, PaymentStatuses
  <2> QED BY <2>1, <2>2 DEF Init, TypeOK
<1>6. PayeesNamed
  BY <1>1, <1>2 DEF PayeesNamed, PayeeNamed
<1>7. BookedJob \/ PostedJob
  <2>1. CASE s = "OPEN"
    BY <1>1, <1>2, <2>1 DEF PostedJob, EngagedIn
  <2>2. CASE s = "PENDING"
    BY <1>1, <1>2, <1>3, <2>2 DEF BookedJob
  <2> QED BY <1>1, <2>1, <2>2
<1>8. Clean
  <2>1. UnpaidIsBooked
    BY <1>1, <1>2, <1>3 DEF UnpaidIsBooked, Engaged, BookedJob
  <2>2. StartedPaid /\ CapturedDone
    BY <1>1, <1>2 DEF StartedPaid, CapturedDone
  <2> QED BY <2>1, <2>2 DEF Clean
<1> QED BY <1>2, <1>3, <1>5, <1>6, <1>7, <1>8
        DEF IInv, ReadStatus, Accepting, Counted

\* The inductive invariant is inductive.
LEMMA StepIInv == IInv /\ [Next]_vars => IInv'
<1> SUFFICES ASSUME IInv, [Next]_vars PROVE IInv'
  OBVIOUS
<1> USE DEF IInv
<1>1. TypeOK'
  BY TypeStep
<1>2. ReadStatus' /\ Accepting'
  BY ReadStatusStep, AcceptingStep
<1>3. PayeesNamed' /\ (BookedJob' \/ PostedJob')
  BY PayeesStep, BookedStep, PostedStep
<1>4. Counted'
  BY CountedStep
<1>5. Clean'
  <2> SUFFICES ASSUME clobbers' = 0
               PROVE  UnpaidIsBooked' /\ StartedPaid' /\ CapturedDone'
    BY DEF Clean
  <2>1. UnpaidIsBooked /\ StartedPaid /\ CapturedDone
    BY ClobbersCount DEF Clean
  <2> QED BY <2>1, UnpaidStep, StartedStep, CapturedStep
<1> QED BY <1>1, <1>2, <1>3, <1>4, <1>5

\* In every reachable state the job and its payments agree, unless a stale save
\* has put back an older job row.
THEOREM Invariant == Spec => []IInv
  BY InitIInv, StepIInv, PTL DEF Spec

\* Type correctness: rows, applications, payments and what requests carry keep
\* their types through every handler, however they interleave.
THEOREM TypeCorrect == Spec => []TypeOK
<1>1. IInv => TypeOK
  BY DEF IInv
<1> QED BY Invariant, <1>1, PTL

\* The job's payment is for the artisan the job names, who was accepted or
\* booked, even after saves over other changes.
THEOREM PayeeSafe == Spec => []PayeeIsEngaged
<1>1. IInv => PayeeIsEngaged
  BY ArtisansAssumption DEF IInv, PayeesNamed, PayeeNamed, BookedJob, PostedJob, EngagedIn,
         PayeeIsEngaged
<1> QED BY Invariant, <1>1, PTL

\* confirmCompletion and autoCompleteJob complete a job once between them, but
\* for saves over the completion.
THEOREM CompletesOnce == Spec => []CompletedOnce
<1>1. IInv => CompletedOnce
  BY DEF IInv, Counted, CompletedOnce, TypeOK
<1> QED BY Invariant, <1>1, PTL

\* Without such saves work starts after its payment was made.
THEOREM StartsPaid == Spec => []StartedWasPaid
<1>1. IInv => StartedWasPaid
  BY DEF IInv, Clean, UnpaidIsBooked, Engaged, BookedJob, StartedPaid, PaidFor,
         StartedWasPaid
<1> QED BY Invariant, <1>1, PTL

\* Without such saves money leaves for a completed job, or by a ruling.
THEOREM SentDone == Spec => []SentForCompleted
<1>1. IInv => SentForCompleted
  BY DEF IInv, Clean, CapturedDone, SentForCompleted
<1> QED BY Invariant, <1>1, PTL

-----------------------------------------------------------------------------
(* A refund and a transfer of the same payment *)

\* The check of cancelJob, and of a booking's cancellation, repeated where the
\* money is settled.
ChecksWhereItRefunds ==
    [][\A q \in Requests : Cancelling(q) => Cancellable(job)]_vars

\* The comment's claim of the payments that no ruling released, for as long as no
\* save lands over a change.
NotBoth == \A i \in Intents :
    ~pays[i].ruled => ~(pays[i].status = "REFUNDED" /\ pays[i].sent)
NotBothYet == clobbers = 0 => NotBoth

\* Only a cancellation refunds, and what was sent was sent for a completed job.
LEMMA NotBothStep ==
    ASSUME IInv, NotBothYet, [Next]_vars,
           \A q \in Requests : Cancelling(q) => Cancellable(job)
    PROVE  NotBothYet'
<1> SUFFICES ASSUME clobbers' = 0, NEW i \in Intents,
                    pays'[i].status = "REFUNDED", pays'[i].sent, ~pays'[i].ruled
             PROVE  FALSE
  BY DEF NotBothYet, NotBoth
<1>0. /\ pays[i] \in Payments
      /\ \A p \in Payments, s \in PaymentStatuses : [p EXCEPT !.status = s].sent = p.sent
      /\ \A p \in Payments, s \in PaymentStatuses : [p EXCEPT !.status = s].ruled = p.ruled
  <2>1. pays[i] \in Payments
    BY DEF IInv, TypeOK
  <2> QED BY <2>1 DEF Payments
<1> USE DEF IInv, TypeOK, Payments
<1>1. /\ clobbers = 0
      /\ ~pays[i].ruled => ~(pays[i].status = "REFUNDED" /\ pays[i].sent)
      /\ ~pays[i].ruled /\ pays[i].sent => job.status = "COMPLETED"
  BY ClobbersCount DEF NotBothYet, NotBoth, Clean, CapturedDone
<1>2. ASSUME NEW q \in Requests, Cancelling(q) PROVE FALSE
  <2>2. pays'[i].sent = pays[i].sent /\ pays'[i].ruled = pays[i].ruled
    BY <1>2, CancelForm
  <2>3. Cancellable(job)
    BY <1>2
  <2> QED BY <1>1, <2>2, <2>3 DEF Cancellable
<1>3. ASSUME NEW k \in Intents, NEW p \in Captured(pays[k]),
             pays' = [pays EXCEPT ![k] = p]
      PROVE  FALSE
  <2>1. p.status # "REFUNDED"
    BY CapturedForm
  <2> HIDE DEF Payments
  <2> QED BY <1>1, <1>3, <2>1
<1>4. ASSUME NEW q \in Requests, Capture(q) PROVE FALSE
  <2>1. PICK k \in Intents \cup {NoIntent} : k = req[q].intent
    <3>1. req[q] \in Work
      BY <1>4, AtBusy DEF Capture, Ops
    <3> QED BY <3>1 DEF Work
  <2>2. CASE pays' = pays
    BY <1>1, <2>2
  <2>3. CASE pays' # pays
    <3>1. PICK p \in Captured(pays[k]) : pays' = [pays EXCEPT ![k] = p]
      BY <1>4, <2>1, <2>3 DEF Capture
    <3>2. k \in Intents
      BY <2>1, <2>3, <3>1
    <3> QED BY <1>3, <3>1, <3>2
  <2> QED BY <2>2, <2>3
<1>8. ASSUME NEW k \in Intents, Pay(k) \/ TransferSucceeds(k) PROVE FALSE
  BY <1>1, <1>8 DEF Pay, TransferSucceeds
<1>9. ASSUME NEW k \in Intents, RetryTransfer(k) PROVE FALSE
  BY <1>3, <1>9 DEF RetryTransfer
<1>5. ASSUME NEW q \in Requests, HoldPayment(q) PROVE FALSE
  BY <1>1, <1>5 DEF HoldPayment
<1>6. ASSUME UNCHANGED pays PROVE FALSE
  BY <1>1, <1>6
<1>7. ASSUME NEW k \in Intents, Release(k) PROVE FALSE
  <2>1. PICK p \in Captured(pays[k]) : pays' = [pays EXCEPT ![k] = [p EXCEPT !.ruled = TRUE]]
    BY <1>7 DEF Release
  <2>2. [p EXCEPT !.ruled = TRUE].ruled = TRUE
    BY CapturedForm
  <2> QED BY <1>1, <2>1, <2>2
<1> QED
  BY <1>2, <1>4, <1>5, <1>6, <1>7, <1>8, <1>9, Cases, EngageWrites, BookingCompletes
  DEF Reading, Begin, Saving, Apply, AcceptOne, RejectOthers, RejectWaiting,
      Remove, Complete, Cancel, Drop, vars

\* Were the check made where the money is settled, no timing edge would refund
\* and send the same payment, as jobs.service.ts:978-981 says, but for a save
\* over a completion and for a ruling, which does not look at the job:
\* cancelJob's early check, out of date by the time it refunds, the stale saves
\* and the rulings are all that stands against the comment.
THEOREM NotRefundedAndSent ==
    Spec /\ ChecksWhereItRefunds => [](clobbers = 0 => NotBoth)
<1>1. Init => NotBothYet
  BY DEF Init, NotBothYet, NotBoth
<1>2. IInv /\ NotBothYet /\ [Next]_vars
      /\ [\A q \in Requests : Cancelling(q) => Cancellable(job)]_vars
      => NotBothYet'
  <2>1. CASE UNCHANGED vars
    BY <2>1 DEF NotBothYet, NotBoth, vars
  <2> QED BY <2>1, NotBothStep
<1> QED BY Invariant, <1>1, <1>2, PTL DEF Spec, ChecksWhereItRefunds, NotBothYet

-----------------------------------------------------------------------------
(* A completed job and the capture of its payment *)

\* No capture that could still be made is lost to a crash or a failed write.
CapturesRun ==
    [][\A q \in Requests : Drop(q) /\ At(q, "capture")
                              => ~CanCapture(pays[req[q].intent])]_vars

\* The payment of a completed job that is in escrow, untouched, has a capture
\* on its way to it.
CompletedIsCaptured ==
    job.status = "COMPLETED" /\ job.intent # NoIntent
        /\ pays[job.intent].status = "HELD" /\ ~pays[job.intent].sent
      => \E q \in Requests : At(q, "capture") /\ req[q].intent = job.intent

\* A capture under way waits, is made or is dropped.
LEMMA CaptureWaits ==
    ASSUME TypeOK, [Next]_vars, NEW q \in Requests, At(q, "capture")
    PROVE  req'[q] = req[q] \/ Capture(q) \/ Drop(q)
<1>0. req \in [Requests -> Work \cup {Idle}] /\ req[q] # Idle
  BY AtBusy DEF TypeOK, Busy, Ops
<1> DEFINE Goal == req'[q] = req[q] \/ Capture(q) \/ Drop(q)
<1>1. ASSUME NEW p \in Requests, Reading(p) \/ Complete(p) PROVE Goal
  BY <1>0, <1>1 DEF Reading, Begin, Complete
<1>2. ASSUME NEW p \in Requests, p # q,
             Done(p) \/ HoldPayment(p) \/ \E op \in Ops : Continue(p, op)
      PROVE  Goal
  BY <1>0, <1>2 DEF Done, Continue, HoldPayment
<1>3. ASSUME NEW p \in Requests,
             \/ Apply(p) \/ HoldPayment(p) \/ AcceptOne(p) \/ RejectOthers(p)
             \/ RejectWaiting(p) \/ Remove(p) \/ Cancelling(p) \/ Cancel(p)
             \/ Engage(p) \/ Saving(p) \/ BookingComplete(p)
      PROVE  /\ p # q
             /\ Done(p) \/ HoldPayment(p) \/ \E op \in Ops : Continue(p, op)
  BY <1>3 DEF Apply, HoldPayment, AcceptOne, RejectOthers, RejectWaiting,
              Remove, Cancelling, CancelPayment, Cancel, Engage, Saving,
              BookingComplete, At, Ops
<1>4. ASSUME NEW p \in Requests, Capture(p) \/ Drop(p) PROVE Goal
  BY <1>2, <1>4 DEF Capture, Drop
<1>5. ASSUME UNCHANGED req PROVE Goal
  BY <1>5
<1>6. ASSUME NEW i \in Intents,
             Pay(i) \/ TransferSucceeds(i) \/ RetryTransfer(i) \/ Release(i)
      PROVE  Goal
  BY <1>5, <1>6 DEF Pay, TransferSucceeds, RetryTransfer, Release
<1>7. ASSUME NEW p \in Requests,
             \/ Apply(p) \/ HoldPayment(p) \/ AcceptOne(p) \/ RejectOthers(p)
             \/ RejectWaiting(p) \/ Remove(p) \/ Cancelling(p) \/ Cancel(p)
             \/ Engage(p) \/ Saving(p) \/ BookingComplete(p)
      PROVE  Goal
  BY <1>2, <1>3, <1>7
<1>8. ASSUME UNCHANGED vars PROVE Goal
  BY <1>5, <1>8 DEF vars
<1> HIDE DEF Goal
<1>9. Goal
  BY <1>1, <1>4, <1>6, <1>7, <1>8, Cases
<1> QED BY <1>9 DEF Goal

\* A step leaves a payment in escrow, untouched, only where it was, or was
\* waited for.
LEMMA HeldStep ==
    ASSUME TypeOK, [Next]_vars, NEW i \in Intents,
           pays'[i].status = "HELD", ~pays'[i].sent
    PROVE  /\ pays[i].status \in {"HELD", "PENDING"}
           /\ pays[i].status = "HELD" => ~pays[i].sent
<1>0. pays \in [Intents -> Payments]
  BY DEF TypeOK
<1> DEFINE Goal == /\ pays[i].status \in {"HELD", "PENDING"}
                   /\ pays[i].status = "HELD" => ~pays[i].sent
<1>1. ASSUME NEW k, NEW p \in Captured(pays[k]), pays' = [pays EXCEPT ![k] = p]
      PROVE  Goal
  <2>1. k \in Intents => p.status = "PENDING_TRANSFER" \/ p.sent
    BY <1>0, <1>1 DEF Captured, Payments
  <2>2. k # i
    BY <1>0, <1>1, <2>1
  <2> QED BY <1>0, <1>1, <2>2
<1>2. ASSUME NEW q \in Requests, HoldPayment(q) PROVE Goal
  <2>1. PICK k \in Intents : pays' = [pays EXCEPT ![k] =
          [status |-> "PENDING", artisan |-> Payee(q), sent |-> FALSE,
              ruled |-> FALSE]]
    BY <1>2, HoldForm
  <2>2. k # i
    BY <1>0, <2>1
  <2> QED BY <1>0, <2>1, <2>2
<1>3. ASSUME NEW q \in Requests, Cancelling(q) PROVE Goal
  BY <1>0, <1>3 DEF Cancelling, CancelPayment, Payments
<1>4. ASSUME NEW k \in Intents, Pay(k) \/ TransferSucceeds(k) PROVE Goal
  BY <1>0, <1>4 DEF Pay, TransferSucceeds, Payments
<1>5. ASSUME UNCHANGED pays PROVE Goal
  BY <1>5
<1>6. ASSUME NEW q \in Requests, Capture(q) PROVE Goal
  BY <1>1, <1>5, <1>6 DEF Capture
<1>7. ASSUME NEW k \in Intents, RetryTransfer(k) PROVE Goal
  BY <1>1, <1>7 DEF RetryTransfer
<1>8. ASSUME NEW k \in Intents, Release(k) PROVE Goal
  <2>1. PICK p \in Captured(pays[k]) : pays' = [pays EXCEPT ![k] = [p EXCEPT !.ruled = TRUE]]
    BY <1>8 DEF Release
  <2> DEFINE new == [p EXCEPT !.ruled = TRUE]
  <2>2. pays[k] \in Payments
    BY <1>0
  <2>3. /\ p.status \in {"HELD", "PENDING_TRANSFER"}
        /\ p.status = "PENDING_TRANSFER" \/ p.sent
        /\ new.status = p.status /\ new.sent = p.sent
    BY <2>1, <2>2, CapturedForm
  <2> HIDE DEF new
  <2>4. k # i
    BY <1>0, <2>1, <2>2, <2>3 DEF new
  <2> QED BY <1>0, <2>1, <2>4
<1> HIDE DEF Goal
<1>9. Goal
  BY <1>2, <1>3, <1>4, <1>5, <1>6, <1>7, <1>8, Cases, EngageWrites, BookingCompletes
  DEF Reading, Begin, Saving, Apply, AcceptOne, RejectOthers, RejectWaiting,
      Remove, Complete, Cancel, Drop, vars
<1> QED BY <1>9 DEF Goal

\* Without saves over a change a completed job keeps its payment.
LEMMA CompletedKeeps ==
    ASSUME TypeOK, ReadStatus, [Next]_vars, clobbers' = 0,
           job.status = "COMPLETED"
    PROVE  job'.intent = job.intent
<1> DEFINE Same == job'.intent = job.intent
<1>1. ASSUME NEW q \in Requests, Saving(q) \/ Engage(q) PROVE FALSE
  <2>1. clobbers = 0 /\ clobbers' # clobbers + 1
    BY ClobbersCount
  <2> QED BY <1>1, <2>1, SaveClean
<1>2. ASSUME NEW q \in Requests, Remove(q) \/ Complete(q) \/ Cancel(q) PROVE Same
  BY <1>2 DEF Remove, Complete, Cancel, TypeOK, Rows
<1>3. ASSUME UNCHANGED job PROVE Same
  BY <1>3
<1>4. ASSUME NEW q \in Requests, BookingComplete(q) PROVE FALSE
  <2>1. job = req[q].row /\ Busy(q) /\ At(q, "bookingComplete")
    BY <1>4, ClobbersCount, BookingCompletes
  <2> QED BY <2>1 DEF ReadStatus
<1> HIDE DEF Same
<1>5. Same
  BY <1>1, <1>2, <1>3, <1>4, Cases
  DEF Reading, Begin, Apply, HoldPayment, AcceptOne, RejectOthers,
      RejectWaiting, Capture, Cancelling, CancelPayment, Drop, Pay, TransferSucceeds,
      RetryTransfer, Release, vars
<1> QED BY <1>5 DEF Same

\* A completion sends its capture on its way, and the capture leaves nothing
\* behind in escrow that it did not send.
LEMMA CompletedCaptureStep ==
    ASSUME IInv, clobbers = 0 => CompletedIsCaptured, [Next]_vars, clobbers' = 0,
           \A q \in Requests : Drop(q) /\ At(q, "capture")
                                  => ~CanCapture(pays[req[q].intent])
    PROVE  CompletedIsCaptured'
<1>1. /\ TypeOK /\ ReadStatus /\ clobbers = 0 /\ CompletedIsCaptured
      /\ StartedPaid
  BY ClobbersCount DEF IInv, Clean
<1> SUFFICES ASSUME job'.status = "COMPLETED", job'.intent # NoIntent,
                    pays'[job'.intent].status = "HELD", ~pays'[job'.intent].sent
             PROVE  \E q \in Requests :
                      req'[q].op = "capture" /\ req'[q].intent = job'.intent
  BY DEF CompletedIsCaptured, At
<1>2. CASE job.status = "COMPLETED"
  <2>1. job'.intent = job.intent /\ job.intent \in Intents
    <3>1. job'.intent = job.intent
      BY <1>1, <1>2, CompletedKeeps
    <3> QED BY <1>1, <3>1 DEF TypeOK, Rows
  <2>2. pays[job.intent].status = "HELD" /\ ~pays[job.intent].sent
    <3>1. pays[job.intent].status # "PENDING"
      BY <1>1, <1>2, <2>1 DEF StartedPaid, PaidFor
    <3> QED BY <1>1, <2>1, <3>1, HeldStep
  <2>3. PICK q \in Requests : At(q, "capture") /\ req[q].intent = job.intent
    BY <1>1, <1>2, <2>1, <2>2 DEF CompletedIsCaptured
  <2>4. CanCapture(pays[req[q].intent])
    BY <2>2, <2>3 DEF CanCapture
  <2>5. ~Drop(q)
    BY <2>3, <2>4
  <2>6. ~Capture(q)
    <3>1. ASSUME Capture(q) PROVE FALSE
      <4>1. PICK p \in Captured(pays[job.intent]) :
              pays' = [pays EXCEPT ![job.intent] = p]
        BY <2>3, <2>4, <3>1 DEF Capture
      <4>2. p.status = "PENDING_TRANSFER" \/ p.sent
        BY <1>1, <2>1 DEF Captured, TypeOK, Payments
      <4>3. pays'[job.intent] = p
        BY <1>1, <2>1, <4>1 DEF TypeOK
      <4> QED BY <2>1, <4>2, <4>3
    <3> QED BY <3>1
  <2>7. req'[q] = req[q]
    BY <1>1, <2>3, <2>5, <2>6, CaptureWaits
  <2> QED BY <2>1, <2>3, <2>7 DEF At
<1>3. CASE job.status # "COMPLETED"
  <2>1. ~ \E q \in Requests : Saving(q) \/ Engage(q) \/ BookingComplete(q)
    <3>1. clobbers' # clobbers + 1
      BY <1>1
    <3>2. ASSUME NEW q \in Requests, BookingComplete(q) PROVE FALSE
      <4>1. job = req[q].row /\ Busy(q) /\ At(q, "bookingComplete")
        BY <1>1, <3>2, ClobbersCount, BookingCompletes
      <4>2. job'.intent = NoIntent
        BY <1>1, <3>2, <4>1, BookingCompletes DEF ReadStatus
      <4> QED BY <4>2
    <3> QED BY <1>1, <3>1, <3>2, SaveClean
  <2>2. PICK q \in Requests : Complete(q)
    BY <1>1, <1>3, <2>1, OtherStep
  <2>3. job'.intent = job.intent
    BY <1>1, <2>2 DEF Complete, TypeOK, Rows
  <2>4. req'[q] = [op |-> "capture", row |-> job', artisan |-> NoArtisan,
                   intent |-> job.intent]
    BY <1>1, <2>2, <2>3 DEF Complete, TypeOK
  <2> QED BY <2>3, <2>4
<1> QED BY <1>2, <1>3

\* jobs.service.ts:924-927: the capture that follows a completion, if it fails,
\* "leaves the Payment in a retryable state".  So it is, and money never lies in
\* escrow for a completed job with nobody about to send it, as long as no capture
\* is lost before it is tried and no stale save lands: only those lead there.
THEOREM CompletionIsCaptured ==
    Spec /\ CapturesRun => [](clobbers = 0 => CompletedIsCaptured)
<1> DEFINE Clear == clobbers = 0 => CompletedIsCaptured
<1>1. Init => Clear
  BY DEF Init, CompletedIsCaptured
<1>2. IInv /\ Clear /\ [Next]_vars
      /\ [\A q \in Requests : Drop(q) /\ At(q, "capture")
                                 => ~CanCapture(pays[req[q].intent])]_vars
      => Clear'
  <2>1. CASE UNCHANGED vars
    BY <2>1 DEF CompletedIsCaptured, At, vars
  <2> QED BY <2>1, CompletedCaptureStep
<1> QED BY Invariant, <1>1, <1>2, PTL DEF Spec, CapturesRun
=============================================================================
