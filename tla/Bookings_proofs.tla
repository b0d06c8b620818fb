---------------------------- MODULE Bookings_proofs ----------------------------
(***************************************************************************)
(* Proofs about Bookings, for any bookings, customers, windows and         *)
(* requests, and any cap on the requests that wait.                        *)
(***************************************************************************)
EXTENDS Bookings, FiniteSetTheorems, TLAPS

\* Operations on a booking that has a job, and those whose payment has ended.
WithJob == {"cancelPay", "cancelBoth", "complete",
            "start", "request", "capture", "jobPay", "jobCancel"}
Paid == {"cancelBoth", "jobCancel"}
Requesting == Creating \cup Working \cup {Idle}

\* A request works on a booking that exists.
Works(q) == req[q].op \in Ops

\* A booking that nobody confirmed has no job and no payment.
Unconfirmed ==
    \A b \in Bookings :
        booking[b] = Absent \/ booking[b].status \in {"PENDING", "EXPIRED"}
            => job[b] = "none" /\ bill[b] = "none"

\* A confirmed booking has a job.
ConfirmedHasJob == \A b \in Bookings : Is(b, "CONFIRMED") => job[b] # "none"

\* What a request has read is still true where it matters: a job that was there
\* is there, a payment that was voided is, and a job that had ended has.
ReadsHold ==
    \A q \in Requests : Works(q) =>
        LET b == req[q].b IN
        /\ booking[b] # Absent
        /\ req[q].op \in WithJob => job[b] # "none"
        /\ req[q].op \in Paid => bill[b] \notin {"PENDING", "HELD"}
        /\ req[q].op = "complete" =>
              /\ req[q].job # "none"
              /\ req[q].job \in EndedJob => job[b] \in EndedJob \/ b \in reopened

\* A booking that is being reminded of exists and has a job.
RemindedExist == \A b \in reminding : booking[b] # Absent /\ job[b] # "none"

\* The waiting requests of a customer can be counted, and are within the cap.
WaitingCounted ==
    \A k \in Customers :
        IsFiniteSet(Waiting(k)) /\ Cardinality(Waiting(k)) <= MaxPending

IInv ==
    /\ TypeOK
    /\ Unconfirmed
    /\ ConfirmedHasJob
    /\ ReadsHold
    /\ RemindedExist
    /\ WaitingCounted
    /\ NoDoubleBooking
    /\ CompletedTogether
    /\ CancelledUnbilled

\* What a request carries follows from its operation.
LEMMA WorkForm ==
    ASSUME TypeOK, NEW q \in Requests
    PROVE  /\ req[q] \in Requesting
           /\ Works(q) => req[q] \in Working
           /\ At(q, "create") => req[q] \in Creating
           /\ req[q] = Idle => ~Works(q) /\ ~At(q, "create")
           /\ Idle.op = "idle" /\ Idle \in Requesting
BY DEF TypeOK, Requesting, Creating, Working, Idle, Ops, Works, At

\* Overlap is symmetric.
LEMMA OverlapSymmetric ==
    ASSUME NEW v \in Windows, NEW w \in Windows
    PROVE  Overlap(v, w) <=> Overlap(w, v)
<1>1. v \in Nat \X Nat /\ w \in Nat \X Nat
  BY WindowsAssumption
<1>2. v[1] \in Nat /\ v[2] \in Nat /\ w[1] \in Nat /\ w[2] \in Nat
  BY <1>1
<1> QED BY <1>2 DEF Overlap

\* At first nothing is there but one booking that was confirmed long ago.
LEMMA InitIInv == Init => IInv
<1> SUFFICES ASSUME Init PROVE IInv
  OBVIOUS
<1>1. PICK old \in {{}} \cup {{b} : b \in Followed}, w \in Windows, k \in Customers :
         /\ booking = [b \in Bookings |-> IF b \notin old THEN Absent
               ELSE [status |-> "CONFIRMED", window |-> w, by |-> k]]
         /\ job = [b \in Bookings |-> IF b \in old THEN "PENDING" ELSE "none"]
  BY DEF Init
<1>2. /\ bill = [b \in Bookings |-> "none"] /\ req = [q \in Requests |-> Idle]
      /\ overdue = {} /\ reminding = {} /\ revived = {} /\ reopened = {}
  BY DEF Init
<1>3. TypeOK
  BY <1>1, <1>2 DEF TypeOK, Rows, Statuses, JobStatuses, Bills
<1>4. Absent.status = "absent" /\ \A b \in Bookings : ~Is(b, "PENDING") /\ ~Is(b, "COMPLETED")
  BY <1>1 DEF Is, Absent
<1>5. \A b, c \in Bookings : Occupies(b) /\ Occupies(c) => b = c
  BY <1>1, <1>4 DEF Occupies, Occupying
<1>6. Unconfirmed /\ ConfirmedHasJob /\ ReadsHold /\ RemindedExist
  BY <1>1, <1>2, <1>4 DEF Unconfirmed, ConfirmedHasJob, ReadsHold, RemindedExist,
     Works, Idle, Ops, Is, Absent
<1>7. WaitingCounted
  <2>1. \A k1 \in Customers : Waiting(k1) = {}
    BY <1>4 DEF Waiting
  <2> QED BY <2>1, FS_EmptySet, BoundsAssumption DEF WaitingCounted
<1>8. NoDoubleBooking /\ CompletedTogether /\ CancelledUnbilled
  BY <1>1, <1>2, <1>4, <1>5 DEF NoDoubleBooking, CompletedTogether, CancelledUnbilled
<1> QED BY <1>3, <1>6, <1>7, <1>8 DEF IInv

-----------------------------------------------------------------------------
(* What the steps have in common *)

\* Fewer requests wait, or as many: the cap holds.
LEMMA FewerWait ==
    ASSUME WaitingCounted, \A k \in Customers : Waiting(k)' \subseteq Waiting(k)
    PROVE  WaitingCounted'
<1> SUFFICES ASSUME NEW k \in Customers
             PROVE  IsFiniteSet(Waiting(k)') /\ Cardinality(Waiting(k)') <= MaxPending
  BY DEF WaitingCounted
<1>1. IsFiniteSet(Waiting(k)) /\ Cardinality(Waiting(k)) <= MaxPending
  BY DEF WaitingCounted
<1>2. /\ IsFiniteSet(Waiting(k)') /\ Cardinality(Waiting(k)') <= Cardinality(Waiting(k))
  BY <1>1, FS_Subset
<1>3. Cardinality(Waiting(k)) \in Nat /\ Cardinality(Waiting(k)') \in Nat
  BY <1>1, <1>2, FS_CardinalityType
<1> QED BY <1>1, <1>2, <1>3, BoundsAssumption

\* A booking moves on to a status that takes no window that it did not have, or
\* is known as revived.
LEMMA StatusStep ==
    ASSUME IInv, NEW b \in Bookings, booking[b] # Absent,
           NEW s \in Statuses \ {"PENDING"},
           booking' = [booking EXCEPT ![b].status = s],
           revived \subseteq revived',
           s = "CONFIRMED" => Occupies(b) \/ b \in revived'
    PROVE  /\ booking' \in [Bookings -> Rows \cup {Absent}]
           /\ booking'[b].status = s /\ booking'[b] # Absent
           /\ \A c \in Bookings \ {b} : booking'[c] = booking[c]
           /\ WaitingCounted' /\ NoDoubleBooking'
<1> USE DEF IInv
<1> DEFINE r == [booking[b] EXCEPT !.status = s]
<1>1. booking[b] \in Rows
  BY DEF TypeOK
<1>2. /\ r \in Rows /\ r.status = s /\ r.window = booking[b].window /\ r.by = booking[b].by
  BY <1>1 DEF Rows
<1>3. r # Absent
  BY <1>2 DEF Absent, Statuses
<1>4. booking' = [booking EXCEPT ![b] = r]
  OBVIOUS
<1> HIDE DEF r
<1>5. booking'[b] = r /\ \A c \in Bookings \ {b} : booking'[c] = booking[c]
  BY <1>4 DEF TypeOK
<1>6. booking' \in [Bookings -> Rows \cup {Absent}]
  BY <1>2, <1>4 DEF TypeOK
<1>7. WaitingCounted'
  <2>1. \A k \in Customers : Waiting(k)' \subseteq Waiting(k)
    BY <1>2, <1>5 DEF Waiting, Is
  <2> QED BY <2>1, FewerWait
<1>8. NoDoubleBooking'
  <2>1. \A c \in Bookings : booking'[c].window = booking[c].window
    BY <1>2, <1>5
  <2>2. \A c \in Bookings : Occupies(c)' => Occupies(c) \/ c \in revived'
    BY <1>2, <1>5 DEF Occupies, Occupying
  <2> QED BY <2>1, <2>2 DEF NoDoubleBooking
<1> QED BY <1>2, <1>3, <1>5, <1>6, <1>7, <1>8

\* Only requests change: no booking, no job and no payment.
LEMMA ReqStep ==
    ASSUME IInv, NEW q \in Requests, NEW n \in Requesting, req' = [req EXCEPT ![q] = n],
           UNCHANGED <<booking, workVars, runVars>>,
           n.op \in Ops =>
              /\ booking[n.b] # Absent
              /\ n.op \in WithJob => job[n.b] # "none"
              /\ n.op \in Paid => bill[n.b] \notin {"PENDING", "HELD"}
              /\ n.op = "complete" => n.job # "none" /\ (n.job \in EndedJob => job[n.b] \in EndedJob)
    PROVE  IInv'
<1> USE DEF IInv, workVars, runVars
<1>1. /\ req' \in [Requests -> Requesting]
      /\ req'[q] = n /\ \A p \in Requests \ {q} : req'[p] = req[p]
  BY DEF TypeOK, Requesting
<1>2. TypeOK'
  BY <1>1 DEF TypeOK, Requesting
<1>3. ReadsHold'
  BY <1>1 DEF ReadsHold, Works
<1>4. /\ Unconfirmed' /\ ConfirmedHasJob' /\ RemindedExist'
      /\ CompletedTogether' /\ CancelledUnbilled'
  BY DEF Unconfirmed, ConfirmedHasJob, RemindedExist, CompletedTogether,
     CancelledUnbilled, Is
<1>5. \A k \in Customers : Waiting(k)' \subseteq Waiting(k)
  BY DEF Waiting, Is
<1>6. WaitingCounted' /\ NoDoubleBooking'
  BY <1>5, FewerWait DEF NoDoubleBooking, Occupies
<1> QED BY <1>2, <1>3, <1>4, <1>6

\* One booking with its job and payment changes, and a request goes on: what each
\* of them has to keep.
LEMMA PairStep ==
    ASSUME IInv, NEW b \in Bookings,
           job' \in [Bookings -> JobStatuses], bill' \in [Bookings -> Bills],
           \A c \in Bookings \ {b} : /\ booking'[c] = booking[c]
                                     /\ job'[c] = job[c] /\ bill'[c] = bill[c],
           booking' \in [Bookings -> Rows \cup {Absent}],
           booking[b] # Absent => booking'[b] # Absent,
           WaitingCounted', NoDoubleBooking',
           overdue' \subseteq Bookings, revived' \subseteq Bookings,
           reminding' \subseteq reminding,
           reopened \subseteq reopened', reopened' \subseteq Bookings,
           req' \in [Requests -> Requesting],
           \A p \in Requests : Works(p)' =>
              \/ req'[p] = req[p]
              \/ /\ req'[p].op \in Paid \cup {"capture"} /\ req'[p].b = b
                 /\ booking[b] # Absent /\ job'[b] # "none"
                 /\ req'[p].op \in Paid => bill'[b] \notin {"PENDING", "HELD"},
           booking'[b] = Absent \/ booking'[b].status \in {"PENDING", "EXPIRED"}
               => job'[b] = "none" /\ bill'[b] = "none",
           booking'[b].status = "CONFIRMED" => job'[b] # "none",
           booking'[b].status = "COMPLETED" => job'[b] \in EndedJob \/ b \in reopened',
           job'[b] = "CANCELLED" => bill'[b] \notin {"PENDING", "HELD"},
           job[b] # "none" => job'[b] # "none",
           job[b] \in EndedJob => job'[b] \in EndedJob \/ b \in reopened',
           job[b] # "none" /\ bill[b] \notin {"PENDING", "HELD"}
               => bill'[b] \notin {"PENDING", "HELD"}
    PROVE  IInv'
<1> USE DEF IInv
<1>1. TypeOK'
  BY DEF TypeOK, Requesting
<1>2. Unconfirmed'
  <2> SUFFICES ASSUME NEW c \in Bookings,
                      booking'[c] = Absent \/ booking'[c].status \in {"PENDING", "EXPIRED"}
               PROVE  job'[c] = "none" /\ bill'[c] = "none"
    BY DEF Unconfirmed
  <2>1. CASE c = b
    BY <2>1
  <2>2. CASE c # b
    BY <2>2 DEF Unconfirmed
  <2> QED BY <2>1, <2>2
<1>3. ConfirmedHasJob'
  BY DEF ConfirmedHasJob, Is
<1>4. CompletedTogether' /\ CancelledUnbilled'
  BY DEF CompletedTogether, CancelledUnbilled, Is
<1>6. RemindedExist'
  BY DEF RemindedExist, TypeOK
<1>5. ReadsHold'
  <2> SUFFICES ASSUME NEW p \in Requests, Works(p)'
               PROVE  LET c == req'[p].b IN
                      /\ booking'[c] # Absent
                      /\ req'[p].op \in WithJob => job'[c] # "none"
                      /\ req'[p].op \in Paid => bill'[c] \notin {"PENDING", "HELD"}
                      /\ req'[p].op = "complete" =>
                            /\ req'[p].job # "none"
                            /\ req'[p].job \in EndedJob =>
                                  job'[c] \in EndedJob \/ c \in reopened'
    BY DEF ReadsHold
  <2>1. CASE req'[p] # req[p]
    BY <2>1 DEF Paid
  <2>2. CASE req'[p] = req[p]
    <3>1. Works(p) /\ req[p].b \in Bookings
      <4>1. Works(p)
        BY <2>2 DEF Works
      <4> QED BY <4>1, WorkForm DEF Working
    <3>2. CASE req[p].b = b
      BY <2>2, <3>1, <3>2 DEF ReadsHold, WithJob, Paid
    <3>3. CASE req[p].b # b
      BY <2>2, <3>1, <3>3 DEF ReadsHold
    <3> QED BY <3>2, <3>3
  <2> QED BY <2>1, <2>2
<1> QED BY <1>1, <1>2, <1>3, <1>4, <1>5, <1>6

-----------------------------------------------------------------------------
(* Steps that read *)

LEMMA BeginStep ==
    ASSUME IInv, NEW q \in Requests, NEW op \in Ops \ (Paid \cup {"cancelPay"}),
           NEW b \in Bookings, NEW j \in JobStatuses, Begin(q, op, b, j),
           UNCHANGED <<booking, workVars, runVars>>,
           booking[b] # Absent,
           op \in WithJob => Is(b, "CONFIRMED") \/ job[b] # "none",
           op = "complete" => j = job[b]
    PROVE  IInv'
<1> USE DEF IInv
<1> DEFINE n == [op |-> op, b |-> b, job |-> j]
<1>1. n \in Requesting /\ n.op = op /\ n.b = b /\ n.job = j
  BY DEF Requesting, Working
<1>2. req' = [req EXCEPT ![q] = n]
  BY DEF Begin
<1>3. op \in WithJob => job[b] # "none"
  BY DEF ConfirmedHasJob
<1> HIDE DEF n
<1>4. n.op = "complete" => n.job # "none" /\ (n.job \in EndedJob => job[n.b] \in EndedJob)
  BY <1>1, <1>3 DEF WithJob
<1> QED BY <1>1, <1>2, <1>3, <1>4, ReqStep

\* The requests that read a booking begin with what holds of it.
LEMMA ReadSteps ==
    ASSUME IInv, NEW q \in Requests, NEW b \in Bookings, Reads(q, b)
    PROVE  IInv'
<1> USE DEF IInv, Reads
<1>1. "none" \in JobStatuses /\ job[b] \in JobStatuses /\ Absent.status = "absent"
  BY DEF JobStatuses, TypeOK, Absent
<1> USE DEF WithJob, Paid
<1>2. CASE ReadDecline(q, b)
  BY <1>1, <1>2, BeginStep DEF ReadDecline, Is, Ops
<1>3. CASE ReadCancel(q, b)
  BY <1>1, <1>3, BeginStep DEF ReadCancel, Occupies, Occupying, Ops
<1>4. CASE ReadComplete(q, b)
  BY <1>1, <1>4, BeginStep DEF ReadComplete, Is, Ops
<1>5. CASE ReadNoShow(q, b)
  BY <1>1, <1>5, BeginStep DEF ReadNoShow, Is, Ops
<1>6. job[b] # "none" => booking[b] # Absent
  BY DEF Unconfirmed
<1>7. CASE ReadStart(q, b)
  BY <1>1, <1>6, <1>7, BeginStep DEF ReadStart, Ops
<1>8. CASE ReadRequest(q, b)
  BY <1>1, <1>6, <1>8, BeginStep DEF ReadRequest, Ops
<1>9. CASE ReadJobCancel(q, b)
  BY <1>1, <1>6, <1>9, BeginStep DEF ReadJobCancel, Cancellable, Ops
<1> QED BY <1>2, <1>3, <1>4, <1>5, <1>7, <1>8, <1>9

\* A request to create begins, a cancellation sees its job, or a request dies.
LEMMA QuietSteps ==
    ASSUME IInv, NEW q \in Requests,
           (\E w \in Windows : ReadCreate(q, w)) \/ CancelSeesJob(q) \/ Crash(q)
    PROVE  IInv'
<1> USE DEF IInv
<1>1. Idle \in Requesting /\ Idle.op \notin Ops
  BY WorkForm DEF Ops
<1>2. ASSUME NEW w \in Windows, ReadCreate(q, w) PROVE IInv'
  <2> DEFINE n == [op |-> "create", window |-> w]
  <2>1. n \in Requesting /\ n.op = "create" /\ req' = [req EXCEPT ![q] = n]
    BY <1>2 DEF Requesting, Creating, ReadCreate
  <2> HIDE DEF n
  <2> QED BY <1>2, <2>1, ReqStep DEF ReadCreate, Ops
<1>3. CASE CancelSeesJob(q)
  <2>1. req[q] \in Working /\ booking[req[q].b] # Absent
    <3>1. Works(q)
      BY <1>3 DEF CancelSeesJob, At, Works, Ops
    <3> QED BY <3>1, WorkForm DEF ReadsHold
  <2>2. CASE job[req[q].b] = "none"
    <3> DEFINE n == [req[q] EXCEPT !.op = "cancelAlone"]
    <3>1. n \in Requesting /\ n.op = "cancelAlone" /\ n.b = req[q].b /\ n.op \notin WithJob \cup Paid
      BY <2>1 DEF Requesting, Working, Ops, WithJob, Paid
    <3>2. req' = [req EXCEPT ![q] = n]
      BY <1>3, <2>2 DEF CancelSeesJob, Continue
    <3> HIDE DEF n
    <3> QED BY <1>3, <2>1, <3>1, <3>2, ReqStep DEF CancelSeesJob
  <2>3. CASE job[req[q].b] = "PENDING"
    <3> DEFINE n == [req[q] EXCEPT !.op = "cancelPay"]
    <3>1. n \in Requesting /\ n.op = "cancelPay" /\ n.b = req[q].b /\ n.op \notin Paid
      BY <2>1 DEF Requesting, Working, Ops, Paid
    <3>2. req' = [req EXCEPT ![q] = n]
      BY <1>3, <2>3 DEF CancelSeesJob, Continue
    <3> HIDE DEF n
    <3> QED BY <1>3, <2>1, <2>3, <3>1, <3>2, ReqStep DEF CancelSeesJob
  <2>4. CASE job[req[q].b] \notin {"none", "PENDING"}
    <3>1. req' = [req EXCEPT ![q] = Idle]
      BY <1>3, <2>4 DEF CancelSeesJob, Done
    <3> QED BY <1>1, <1>3, <3>1, ReqStep DEF CancelSeesJob
  <2> QED BY <2>2, <2>3, <2>4
<1>4. CASE Crash(q)
  BY <1>1, <1>4, ReqStep DEF Crash, Done
<1> QED BY <1>2, <1>3, <1>4

-----------------------------------------------------------------------------
(* Steps that write *)

\* A request that ends leaves the others.
LEMMA DoneStep ==
    ASSUME IInv, NEW q \in Requests, Done(q)
    PROVE  /\ req' \in [Requests -> Requesting]
           /\ \A p \in Requests : Works(p)' => req'[p] = req[p]
<1>1. Idle \in Requesting /\ Idle.op \notin Ops
  BY WorkForm DEF Ops, IInv
<1> QED BY <1>1 DEF IInv, TypeOK, Done, Works, Requesting

\* No booking changes.
LEMMA SameBookings ==
    ASSUME IInv, UNCHANGED <<booking, revived>>
    PROVE  /\ WaitingCounted' /\ NoDoubleBooking'
           /\ booking' \in [Bookings -> Rows \cup {Absent}]
<1>1. \A k \in Customers : Waiting(k)' \subseteq Waiting(k)
  BY DEF Waiting, Is
<1> QED BY <1>1, FewerWait DEF IInv, TypeOK, NoDoubleBooking, Occupies

\* A job that waits or runs is of a booking that was confirmed, and of a completed
\* one only where it was put back to work.
LEMMA JobThere ==
    ASSUME IInv, NEW b \in Bookings, job[b] # "none"
    PROVE  /\ booking[b] # Absent /\ booking[b].status \notin {"PENDING", "EXPIRED"}
           /\ booking[b].status = "COMPLETED" => job[b] \in EndedJob \/ b \in reopened
  BY DEF IInv, Unconfirmed, CompletedTogether, Is

\* The customer pays.
LEMMA PayStep ==
    ASSUME IInv, NEW b \in Bookings, Pay(b)
    PROVE  IInv'
<1> USE DEF IInv
<1>1. req' \in [Requests -> Requesting] /\ UNCHANGED <<booking, job, req, reopened, runVars>>
  BY DEF Pay, TypeOK, Requesting
<1>2. /\ bill' \in [Bookings -> Bills] /\ bill[b] = "PENDING" /\ bill'[b] = "HELD"
      /\ \A c \in Bookings \ {b} : bill'[c] = bill[c]
  BY DEF Pay, TypeOK, Bills
<1>3. booking[b] # Absent /\ booking[b].status \notin {"PENDING", "EXPIRED"} /\ job[b] # "CANCELLED"
  BY <1>2 DEF Unconfirmed, CancelledUnbilled
<1> QED BY <1>1, <1>2, <1>3, SameBookings, PairStep
        DEF TypeOK, ConfirmedHasJob, CompletedTogether, Is, runVars

\* A window that was free under the lock is taken by one that may wait.
LEMMA CreateStep ==
    ASSUME IInv, NEW q \in Requests, NEW k \in Customers, Create(q, k)
    PROVE  IInv'
<1> USE DEF IInv
<1> DEFINE w == req[q].window
<1>1. w \in Windows /\ req[q] \in Creating
  BY WorkForm DEF Create, Creating
<1>2. /\ UNCHANGED <<job, bill, reopened, overdue, reminding, revived>> /\ Done(q)
      /\ req' \in [Requests -> Requesting]
      /\ \A p \in Requests : Works(p)' => req'[p] = req[p]
  BY DoneStep DEF Create, workVars, runVars
<1>3. CASE UNCHANGED booking
  <2>1. TypeOK'
    BY <1>2, <1>3 DEF TypeOK, Requesting
  <2>2. /\ Unconfirmed' /\ ConfirmedHasJob' /\ RemindedExist'
        /\ CompletedTogether' /\ CancelledUnbilled'
    BY <1>2, <1>3 DEF Unconfirmed, ConfirmedHasJob, RemindedExist, CompletedTogether,
       CancelledUnbilled, Is
  <2>3. ReadsHold'
    BY <1>2, <1>3 DEF ReadsHold, Works
  <2> QED BY <1>2, <1>3, <2>1, <2>2, <2>3, SameBookings
<1>4. ASSUME NEW b \in Bookings, booking[b] = Absent, StillFree(w), MayWait(k),
             booking' = [booking EXCEPT ![b] =
                            [status |-> "PENDING", window |-> w, by |-> k]]
      PROVE  IInv'
  <2> DEFINE r == [status |-> "PENDING", window |-> w, by |-> k]
  <2>1. r \in Rows /\ r.status = "PENDING" /\ r.window = w /\ r.by = k
    BY <1>1 DEF Rows, Statuses
  <2>2. booking' = [booking EXCEPT ![b] = r] /\ Absent.status = "absent"
    BY <1>4 DEF Absent
  <2> HIDE DEF r
  <2>3. /\ booking'[b] = r /\ \A c \in Bookings \ {b} : booking'[c] = booking[c]
        /\ booking' \in [Bookings -> Rows \cup {Absent}]
    BY <2>1, <2>2 DEF TypeOK
  <2>4. WaitingCounted'
    <3> SUFFICES ASSUME NEW l \in Customers
                 PROVE  IsFiniteSet(Waiting(l)') /\ Cardinality(Waiting(l)') <= MaxPending
      BY DEF WaitingCounted
    <3>1. IsFiniteSet(Waiting(l)) /\ Cardinality(Waiting(l)) <= MaxPending
      BY DEF WaitingCounted
    <3>2. CASE l = k
      <4>1. Waiting(l)' = Waiting(l) \cup {b}
        BY <2>1, <2>3, <3>2 DEF Waiting, Is
      <4>2. b \notin Waiting(l)
        BY <1>4, <2>2 DEF Waiting, Is
      <4>3. IsFiniteSet(Waiting(l)') /\ Cardinality(Waiting(l)') = Cardinality(Waiting(l)) + 1
        BY <3>1, <4>1, <4>2, FS_AddElement
      <4>4. Cardinality(Waiting(l)) < MaxPending /\ Cardinality(Waiting(l)) \in Nat
        BY <1>4, <3>1, <3>2, FS_CardinalityType DEF MayWait
      <4> QED BY <4>3, <4>4, BoundsAssumption
    <3>3. CASE l # k
      <4>1. Waiting(l)' = Waiting(l)
        BY <1>4, <2>1, <2>2, <2>3, <3>3 DEF Waiting, Is
      <4> QED BY <3>1, <4>1
    <3> QED BY <3>2, <3>3
  <2>5. NoDoubleBooking'
    <3> SUFFICES ASSUME NEW c \in Bookings, NEW d \in Bookings, c # d,
                        Occupies(c)', Occupies(d)',
                        Overlap(booking'[c].window, booking'[d].window)
                 PROVE  c \in revived \/ d \in revived
      BY <1>2 DEF NoDoubleBooking, Overlap
    <3>1. \A e \in Bookings \ {b} :
             /\ Occupies(e)' => Occupies(e) /\ booking'[e].window = booking[e].window
             /\ Occupies(e) => booking[e].window \in Windows
      BY <2>2, <2>3 DEF Occupies, Occupying, TypeOK, Rows
    <3>2. \A e \in Bookings \ {b} : Occupies(e) => ~Overlap(booking[e].window, w)
      BY <1>4 DEF StillFree, Taken
    <3>3. CASE c # b /\ d # b
      BY <3>1, <3>3 DEF NoDoubleBooking
    <3>4. CASE d = b
      BY <2>1, <2>3, <3>1, <3>2, <3>4
    <3>5. CASE c = b
      BY <1>1, <2>1, <2>3, <3>1, <3>2, <3>5, OverlapSymmetric
    <3> QED BY <3>3, <3>4, <3>5
  <2>6. job[b] = "none" /\ bill[b] = "none"
    BY <1>4 DEF Unconfirmed
  <2> QED BY <1>2, <1>4, <2>1, <2>3, <2>4, <2>5, <2>6, PairStep DEF TypeOK, EndedJob
<1> QED BY <1>3, <1>4 DEF Create

\* A request is confirmed: its job and payment are made with it.
LEMMA ConfirmStep ==
    ASSUME IInv, NEW b \in Bookings, Confirm(b)
    PROVE  IInv'
<1> USE DEF IInv
<1>1. booking[b] # Absent /\ Occupies(b) /\ "CONFIRMED" \in Statuses \ {"PENDING"}
  BY DEF Confirm, Is, Absent, Occupies, Occupying, Statuses
<1>2. /\ booking' \in [Bookings -> Rows \cup {Absent}]
      /\ booking'[b].status = "CONFIRMED" /\ booking'[b] # Absent
      /\ \A c \in Bookings \ {b} : booking'[c] = booking[c]
      /\ WaitingCounted' /\ NoDoubleBooking'
  BY <1>1, StatusStep DEF Confirm, runVars
<1>3. job[b] = "none" /\ bill[b] = "none"
  BY DEF Confirm, Is, Unconfirmed
<1>4. /\ job' \in [Bookings -> JobStatuses] /\ bill' \in [Bookings -> Bills]
      /\ job'[b] = "PENDING" /\ bill'[b] = "PENDING"
      /\ \A c \in Bookings \ {b} : job'[c] = job[c] /\ bill'[c] = bill[c]
  BY DEF Confirm, TypeOK, JobStatuses, Bills
<1>5. /\ req' \in [Requests -> Requesting]
      /\ UNCHANGED <<req, reopened, overdue, reminding, revived>>
  BY DEF Confirm, TypeOK, Requesting, runVars
<1> QED BY <1>2, <1>3, <1>4, <1>5, PairStep DEF TypeOK, EndedJob

\* A request that was not answered expires if it still is not.
LEMMA ExpireSteps ==
    ASSUME IInv, (\E b \in Bookings : ExpireBooking(b)) \/ FindOverdue
    PROVE  IInv'
<1> USE DEF IInv
<1>1. /\ UNCHANGED <<job, bill, req, reopened, reminding, revived>> /\ overdue' \subseteq Bookings
      /\ req' \in [Requests -> Requesting]
  BY DEF ExpireBooking, FindOverdue, workVars, TypeOK, Requesting
<1>2. CASE UNCHANGED booking
  <2>1. TypeOK'
    BY <1>1, <1>2 DEF TypeOK
  <2>2. /\ Unconfirmed' /\ ConfirmedHasJob' /\ RemindedExist'
        /\ CompletedTogether' /\ CancelledUnbilled'
    BY <1>1, <1>2 DEF Unconfirmed, ConfirmedHasJob, RemindedExist, CompletedTogether,
       CancelledUnbilled, Is
  <2>3. ReadsHold'
    BY <1>1, <1>2 DEF ReadsHold, Works
  <2> QED BY <1>1, <1>2, <2>1, <2>2, <2>3, SameBookings
<1>3. ASSUME NEW b \in Bookings, StillPending(b),
             booking' = [booking EXCEPT ![b].status = "EXPIRED"]
      PROVE  IInv'
  <2>1. booking[b] # Absent /\ "EXPIRED" \in Statuses \ {"PENDING"}
    BY <1>3 DEF StillPending, Is, Absent, Statuses
  <2>2. /\ booking' \in [Bookings -> Rows \cup {Absent}]
        /\ booking'[b].status = "EXPIRED" /\ booking'[b] # Absent
        /\ \A c \in Bookings \ {b} : booking'[c] = booking[c]
        /\ WaitingCounted' /\ NoDoubleBooking'
    BY <1>1, <1>3, <2>1, StatusStep
  <2>3. job[b] = "none" /\ bill[b] = "none"
    BY <1>3 DEF StillPending, Is, Unconfirmed
  <2> QED BY <1>1, <2>2, <2>3, PairStep DEF TypeOK, EndedJob
<1> QED BY <1>2, <1>3 DEF ExpireBooking, FindOverdue

\* A job that runs or waits is completed or cancelled, and a booking that is
\* still confirmed follows.
LEMMA FollowStep ==
    ASSUME IInv, NEW b \in Bookings, NEW s \in EndedJob, Cancellable(job[b]),
           job' = [job EXCEPT ![b] = s], Sync(b, s),
           s = "CANCELLED" => bill[b] \notin {"PENDING", "HELD"},
           UNCHANGED <<bill, reopened, overdue, reminding, revived>>,
           req' \in [Requests -> Requesting],
           \A p \in Requests : Works(p)' =>
              \/ req'[p] = req[p]
              \/ req'[p].op = "capture" /\ req'[p].b = b
    PROVE  IInv'
<1> USE DEF IInv
<1>1. job[b] # "none" /\ job[b] \notin EndedJob
  BY DEF Cancellable, EndedJob
<1>2. /\ booking[b] # Absent /\ booking[b].status \notin {"PENDING", "EXPIRED"}
      /\ booking[b].status = "COMPLETED" => job[b] \in EndedJob \/ b \in reopened
  BY <1>1, JobThere
<1>3. /\ job' \in [Bookings -> JobStatuses] /\ job'[b] = s /\ s # "none"
      /\ \A c \in Bookings \ {b} : job'[c] = job[c]
      /\ bill' \in [Bookings -> Bills] /\ bill' = bill
  BY DEF TypeOK, JobStatuses, EndedJob
<1>4. \A p \in Requests : Works(p)' =>
         \/ req'[p] = req[p]
         \/ /\ req'[p].op \in Paid \cup {"capture"} /\ req'[p].b = b
            /\ booking[b] # Absent /\ job'[b] # "none"
            /\ req'[p].op \in Paid => bill'[b] \notin {"PENDING", "HELD"}
  BY <1>2, <1>3 DEF Paid
<1>5. CASE Syncable(b)
  <2>1. s \in Statuses \ {"PENDING"} /\ s # "CONFIRMED"
    BY DEF EndedJob, Statuses
  <2>2. booking' = [booking EXCEPT ![b].status = s]
    BY <1>5 DEF Sync
  <2>3. /\ booking' \in [Bookings -> Rows \cup {Absent}]
        /\ booking'[b].status = s /\ booking'[b] # Absent
        /\ \A c \in Bookings \ {b} : booking'[c] = booking[c]
        /\ WaitingCounted' /\ NoDoubleBooking'
    BY <1>2, <2>1, <2>2, StatusStep
  <2>4. s \notin {"PENDING", "EXPIRED", "CONFIRMED"}
    BY DEF EndedJob
  <2> QED BY <1>3, <1>4, <2>3, <2>4, PairStep DEF TypeOK
<1>6. CASE ~Syncable(b)
  <2>1. UNCHANGED booking
    BY <1>6 DEF Sync
  <2> QED BY <1>2, <1>3, <1>4, <2>1, SameBookings, PairStep DEF TypeOK
<1> QED BY <1>5, <1>6

LEMMA CompleteJobStep ==
    ASSUME IInv, NEW q \in Requests, NEW b \in Bookings, CompleteJob(q, b)
    PROVE  IInv'
<1> USE DEF IInv
<1> DEFINE n == [op |-> "capture", b |-> b, job |-> "none"]
<1>1. n \in Requesting /\ n.op = "capture" /\ n.b = b
  BY DEF Requesting, Working, Ops, JobStatuses
<1>2. req' = [req EXCEPT ![q] = n]
  BY DEF CompleteJob, Begin
<1> HIDE DEF n
<1>3. /\ req' \in [Requests -> Requesting]
      /\ req'[q] = n /\ \A p \in Requests \ {q} : req'[p] = req[p]
  BY <1>1, <1>2 DEF TypeOK, Requesting
<1>4. /\ job' = [job EXCEPT ![b] = "COMPLETED"] /\ Sync(b, "COMPLETED")
      /\ Cancellable(job[b]) /\ "COMPLETED" \in EndedJob
      /\ UNCHANGED <<bill, reopened, overdue, reminding, revived>>
  BY DEF CompleteJob, runVars, Cancellable, EndedJob
<1> QED BY <1>1, <1>3, <1>4, FollowStep

LEMMA CancelJobStep ==
    ASSUME IInv, NEW q \in Requests, CancelJob(q)
    PROVE  IInv'
<1> USE DEF IInv
<1> DEFINE b == req[q].b
<1>1. /\ b \in Bookings /\ bill[b] \notin {"PENDING", "HELD"}
  <2>1. Works(q) /\ req[q].op \in Paid
    BY DEF CancelJob, At, Works, Ops, Paid
  <2> QED BY <2>1, WorkForm DEF ReadsHold, Working
<1>2. /\ Done(q) /\ UNCHANGED <<bill, reopened, overdue, reminding, revived>>
  BY DEF CancelJob, runVars
<1>3. /\ req' \in [Requests -> Requesting]
      /\ \A p \in Requests : Works(p)' => req'[p] = req[p]
  BY <1>2, DoneStep
<1>4. CASE Cancellable(job[b])
  <2>1. job' = [job EXCEPT ![b] = "CANCELLED"] /\ Sync(b, "CANCELLED") /\ "CANCELLED" \in EndedJob
    BY <1>4 DEF CancelJob, EndedJob
  <2> QED BY <1>1, <1>2, <1>3, <1>4, <2>1, FollowStep
<1>5. CASE ~Cancellable(job[b])
  <2>1. req' = [req EXCEPT ![q] = Idle] /\ Idle \in Requesting /\ Idle.op \notin Ops
    BY <1>2, WorkForm DEF Done, Ops
  <2> QED BY <1>2, <1>5, <2>1, ReqStep DEF CancelJob, workVars, runVars
<1> QED BY <1>4, <1>5

\* The payment of a booking moves on, and the request with it: it is refunded or
\* voided before a cancellation, or captured after the completion.
LEMMA CaptureStep ==
    ASSUME IInv, NEW q \in Requests, Capture(q)
    PROVE  IInv'
<1> USE DEF IInv
<1> DEFINE b == req[q].b
<1>1. b \in Bookings /\ job[b] # "none" /\ Done(q)
      /\ UNCHANGED <<booking, job, reopened, overdue, reminding, revived>>
  <2>1. Works(q) /\ req[q].op \in WithJob
    BY DEF Capture, At, Works, Ops, WithJob
  <2> QED BY <2>1, WorkForm DEF ReadsHold, Working, Capture, runVars
<1>2. /\ booking[b] # Absent /\ booking[b].status \notin {"PENDING", "EXPIRED"}
      /\ booking[b].status = "COMPLETED" => job[b] \in EndedJob \/ b \in reopened
  BY <1>1, JobThere
<1>3. /\ req' \in [Requests -> Requesting]
      /\ \A p \in Requests : Works(p)' => req'[p] = req[p]
  BY <1>1, DoneStep
<1>4. /\ bill' \in [Bookings -> Bills]
      /\ \A c \in Bookings \ {b} : bill'[c] = bill[c]
      /\ bill[b] \notin {"PENDING", "HELD"} => bill'[b] \notin {"PENDING", "HELD"}
  BY <1>1 DEF Capture, TypeOK, Bills
<1> QED BY <1>1, <1>2, <1>3, <1>4, SameBookings, PairStep DEF TypeOK, CancelledUnbilled

\* A save of the job as it was read puts it to work, or back to work.
LEMMA RunStep ==
    ASSUME IInv, NEW q \in Requests, StartJob(q) \/ RequestCompletion(q)
    PROVE  IInv'
<1> USE DEF IInv
<1> DEFINE b == req[q].b
<1>1. b \in Bookings /\ job[b] # "none" /\ Done(q)
      /\ UNCHANGED <<booking, bill, overdue, reminding, revived>>
  <2>1. Works(q) /\ req[q].op \in WithJob
    BY DEF StartJob, RequestCompletion, At, Works, Ops, WithJob
  <2> QED BY <2>1, WorkForm DEF ReadsHold, Working, StartJob, RequestCompletion, runVars
<1>2. /\ booking[b] # Absent /\ booking[b].status \notin {"PENDING", "EXPIRED"}
      /\ booking[b].status = "COMPLETED" => job[b] \in EndedJob \/ b \in reopened
  BY <1>1, JobThere
<1>3. CASE UNCHANGED <<job, reopened>>
  <2>1. req' = [req EXCEPT ![q] = Idle] /\ Idle \in Requesting /\ Idle.op \notin Ops
    BY <1>1, WorkForm DEF Done, Ops
  <2> QED BY <1>1, <1>3, <2>1, ReqStep DEF workVars, runVars
<1>4. CASE SaveRunning(b)
  <2>1. /\ req' \in [Requests -> Requesting]
        /\ \A p \in Requests : Works(p)' => req'[p] = req[p]
    BY <1>1, DoneStep
  <2>2. /\ job' \in [Bookings -> JobStatuses] /\ job'[b] = "IN_PROGRESS"
        /\ \A c \in Bookings \ {b} : job'[c] = job[c]
    BY <1>1, <1>4 DEF SaveRunning, TypeOK, JobStatuses
  <2>3. /\ reopened \subseteq reopened' /\ reopened' \subseteq Bookings
        /\ job[b] \in EndedJob => b \in reopened'
    BY <1>1, <1>4 DEF SaveRunning, TypeOK
  <2> QED BY <1>1, <1>2, <2>1, <2>2, <2>3, SameBookings, PairStep DEF TypeOK
<1> QED BY <1>3, <1>4 DEF StartJob, RequestCompletion

\* A cancellation voids the payment or has it refunded before anything else.
LEMMA CancelPaysStep ==
    ASSUME IInv, NEW q \in Requests,
           NEW op \in {"cancelPay", "jobPay"}, NEW next \in Paid,
           CancelPays(q, op, next)
    PROVE  IInv'
<1> USE DEF IInv
<1> DEFINE b == req[q].b
<1>1. /\ Works(q) /\ req[q] \in Working /\ b \in Bookings
      /\ booking[b] # Absent /\ job[b] # "none"
  <2>1. Works(q) /\ req[q].op \in WithJob
    BY DEF CancelPays, At, Works, Ops, WithJob
  <2> QED BY <2>1, WorkForm DEF ReadsHold, Working
<1>2. UNCHANGED <<booking, job, reopened, overdue, reminding, revived>>
  BY DEF CancelPays, runVars
<1>3. CASE Done(q) /\ UNCHANGED bill
  <2>1. req' = [req EXCEPT ![q] = Idle] /\ Idle \in Requesting /\ Idle.op \notin Ops
    BY <1>3, WorkForm DEF Done, Ops
  <2> QED BY <1>2, <1>3, <2>1, ReqStep DEF workVars, runVars
<1>4. CASE bill' = [bill EXCEPT ![b] = Refunded(@)] /\ Continue(q, next)
  <2> DEFINE n == [req[q] EXCEPT !.op = next]
  <2>1. n \in Requesting /\ n.op = next /\ n.b = b
    BY <1>1 DEF Requesting, Working, Ops, Paid
  <2>2. req' = [req EXCEPT ![q] = n]
    BY <1>4 DEF Continue
  <2> HIDE DEF n
  <2>3. /\ req' \in [Requests -> Requesting]
        /\ req'[q] = n /\ \A p \in Requests \ {q} : req'[p] = req[p]
    BY <2>1, <2>2 DEF TypeOK, Requesting
  <2>4. Refunded(bill[b]) \in Bills \ {"PENDING", "HELD"}
    BY <1>1 DEF Refunded, TypeOK, Bills
  <2>5. /\ bill' \in [Bookings -> Bills] /\ bill'[b] \notin {"PENDING", "HELD"}
        /\ \A c \in Bookings \ {b} : bill'[c] = bill[c]
    BY <1>1, <1>4, <2>4 DEF TypeOK
  <2>6. booking[b].status \notin {"PENDING", "EXPIRED"}
    BY <1>1 DEF Unconfirmed
  <2>7. booking[b].status = "COMPLETED" => job[b] \in EndedJob \/ b \in reopened
    BY <1>1 DEF CompletedTogether, Is
  <2> QED BY <1>1, <1>2, <2>1, <2>3, <2>5, <2>6, <2>7, SameBookings, PairStep
          DEF TypeOK
<1> QED BY <1>3, <1>4 DEF CancelPays

\* A request saves the booking with a status of its own, whatever it has become,
\* and with it the job.
LEMMA SaveStep ==
    ASSUME IInv, NEW q \in Requests, Works(q), Done(q),
           NEW s \in {"DECLINED", "CANCELLED", "COMPLETED", "NO_SHOW"}, Save(q, s),
           UNCHANGED <<bill, reopened, overdue, reminding, revived>>,
           NEW j \in JobStatuses, job' = [job EXCEPT ![req[q].b] = j],
           s = "COMPLETED" => j \in EndedJob \/ req[q].b \in reopened,
           j = "CANCELLED" => bill[req[q].b] \notin {"PENDING", "HELD"},
           job[req[q].b] # "none" => j # "none",
           job[req[q].b] \in EndedJob => j \in EndedJob
    PROVE  IInv'
<1> USE DEF IInv
<1> DEFINE b == req[q].b
<1>1. b \in Bookings /\ booking[b] # Absent
  BY WorkForm DEF ReadsHold, Working
<1>2. s \in Statuses \ {"PENDING", "EXPIRED", "CONFIRMED"}
  BY DEF Statuses
<1>4. /\ booking' \in [Bookings -> Rows \cup {Absent}]
      /\ booking'[b].status = s /\ booking'[b] # Absent
      /\ \A c \in Bookings \ {b} : booking'[c] = booking[c]
      /\ WaitingCounted' /\ NoDoubleBooking'
  BY <1>1, <1>2, StatusStep DEF Save
<1>5. /\ job' \in [Bookings -> JobStatuses] /\ job'[b] = j
      /\ \A c \in Bookings \ {b} : job'[c] = job[c]
  BY <1>1 DEF TypeOK
<1>6. /\ req' \in [Requests -> Requesting]
      /\ \A p \in Requests : Works(p)' => req'[p] = req[p]
  BY DoneStep
<1> QED BY <1>1, <1>2, <1>4, <1>5, <1>6, PairStep DEF TypeOK

\* The four requests that save the booking.
LEMMA SaveSteps ==
    ASSUME IInv, NEW q \in Requests,
           Decline(q) \/ Cancel(q) \/ Complete(q) \/ NoShow(q)
    PROVE  IInv'
<1> USE DEF IInv
<1> DEFINE b == req[q].b
<1>1. /\ Works(q) /\ req[q] \in Working /\ b \in Bookings /\ Done(q)
      /\ UNCHANGED <<bill, reopened, overdue, reminding, revived>>
  <2>1. Works(q) /\ Done(q) /\ UNCHANGED <<bill, reopened, overdue, reminding, revived>>
    BY DEF Decline, Cancel, Complete, NoShow, At, Works, Ops, workVars, runVars
  <2> QED BY <2>1, WorkForm DEF Working
<1>2. job[b] \in JobStatuses /\ job = [job EXCEPT ![b] = job[b]]
  BY <1>1 DEF TypeOK
<1>4. (job[b] = "CANCELLED" => bill[b] \notin {"PENDING", "HELD"})
  BY <1>1 DEF CancelledUnbilled
<1>5. CASE Decline(q)
  BY <1>1, <1>2, <1>4, <1>5, SaveStep DEF Decline, workVars
<1>6. CASE NoShow(q)
  BY <1>1, <1>2, <1>4, <1>6, SaveStep DEF NoShow, workVars
<1>7. CASE Cancel(q)
  <2>1. Save(q, "CANCELLED")
    BY <1>7 DEF Cancel
  <2>2. CASE job' = job
    BY <1>1, <1>2, <1>4, <2>1, <2>2, SaveStep
  <2>3. CASE At(q, "cancelBoth") /\ job' = [job EXCEPT ![b] = "CANCELLED"]
    <3>1. bill[b] \notin {"PENDING", "HELD"}
      BY <1>1, <2>3 DEF At, ReadsHold, Paid
    <3>2. "CANCELLED" \in JobStatuses /\ "CANCELLED" \in EndedJob
      BY DEF JobStatuses, EndedJob
    <3> QED BY <1>1, <2>1, <2>3, <3>1, <3>2, SaveStep
  <2> QED BY <1>7, <2>2, <2>3 DEF Cancel
<1>8. CASE Complete(q)
  <2>1. /\ Save(q, "COMPLETED") /\ At(q, "complete")
        /\ req[q].job \in JobStatuses
    BY <1>1, <1>8 DEF Complete, Working
  <2>2. /\ req[q].job # "none"
        /\ req[q].job \in EndedJob => job[b] \in EndedJob \/ b \in reopened
    BY <1>1, <2>1 DEF ReadsHold, At
  <2>3. CASE Finishes(req[q].job)
    <3>1. job' = [job EXCEPT ![b] = "COMPLETED"]
      BY <1>8, <2>3 DEF Complete
    <3>2. "COMPLETED" \in JobStatuses /\ "COMPLETED" \in EndedJob
      BY DEF JobStatuses, EndedJob
    <3> QED BY <1>1, <2>1, <3>1, <3>2, SaveStep
  <2>4. CASE ~Finishes(req[q].job)
    <3>1. job' = job /\ (job[b] \in EndedJob \/ b \in reopened)
      BY <1>8, <2>1, <2>2, <2>4 DEF Complete, Finishes, JobStatuses, EndedJob
    <3> QED BY <1>1, <1>2, <1>4, <2>1, <3>1, SaveStep
  <2> QED BY <2>3, <2>4
<1> QED BY <1>5, <1>6, <1>7, <1>8

\* A run of the reminders begins, saves one of what it listed, or dies.
LEMMA ReminderSteps ==
    ASSUME IInv,
           FindReminders \/ CrashReminders \/ \E b \in Bookings : SendReminder(b)
    PROVE  IInv'
<1> USE DEF IInv
<1>1. /\ UNCHANGED <<job, bill, reopened, req, overdue>>
      /\ req' \in [Requests -> Requesting]
  BY DEF FindReminders, CrashReminders, SendReminder, workVars, TypeOK, Requesting
<1>2. CASE UNCHANGED <<booking, revived>> /\ reminding' \subseteq reminding \cup {b \in Bookings : Is(b, "CONFIRMED")}
  <2>1. TypeOK'
    BY <1>1, <1>2 DEF TypeOK
  <2>2. /\ Unconfirmed' /\ ConfirmedHasJob' /\ CompletedTogether' /\ CancelledUnbilled'
    BY <1>1, <1>2 DEF Unconfirmed, ConfirmedHasJob, CompletedTogether, CancelledUnbilled, Is
  <2>3. ReadsHold'
    BY <1>1, <1>2 DEF ReadsHold, Works
  <2>4. RemindedExist'
    BY <1>1, <1>2 DEF RemindedExist, ConfirmedHasJob, Is, Absent, TypeOK
  <2> QED BY <1>2, <2>1, <2>2, <2>3, <2>4, SameBookings
<1>3. ASSUME NEW b \in Bookings, b \in reminding, reminding' = reminding \ {b},
             booking' = [booking EXCEPT ![b].status = "CONFIRMED"],
             revived' = IF Is(b, "CONFIRMED") THEN revived ELSE revived \cup {b}
      PROVE  IInv'
  <2>1. /\ booking[b] # Absent /\ job[b] # "none" /\ "CONFIRMED" \in Statuses \ {"PENDING"}
        /\ revived \subseteq revived' /\ revived' \subseteq Bookings
        /\ Occupies(b) \/ b \in revived'
    BY <1>3 DEF RemindedExist, Statuses, TypeOK, Is, Occupies, Occupying
  <2>2. /\ booking' \in [Bookings -> Rows \cup {Absent}]
        /\ booking'[b].status = "CONFIRMED" /\ booking'[b] # Absent
        /\ \A c \in Bookings \ {b} : booking'[c] = booking[c]
        /\ WaitingCounted' /\ NoDoubleBooking'
    BY <1>3, <2>1, StatusStep
  <2>3. job[b] = "CANCELLED" => bill[b] \notin {"PENDING", "HELD"}
    BY DEF CancelledUnbilled
  <2> QED BY <1>1, <1>3, <2>1, <2>2, <2>3, PairStep DEF TypeOK
<1>4. CASE FindReminders \/ CrashReminders
  BY <1>2, <1>4, BoundsAssumption DEF FindReminders, CrashReminders
<1>5. ASSUME NEW b \in Bookings, SendReminder(b) PROVE IInv'
  BY <1>2, <1>3, <1>5 DEF SendReminder
<1> QED BY <1>4, <1>5

\* Every step keeps the invariant.
LEMMA StepIInv == IInv /\ [Next]_vars => IInv'
<1> SUFFICES ASSUME IInv, [Next]_vars PROVE IInv'
  OBVIOUS
<1>1. ASSUME NEW q \in Requests, Proceeds(q) \/ Crash(q) PROVE IInv'
  <2>1. ASSUME CancelPays(q, "cancelPay", "cancelBoth") \/ CancelPays(q, "jobPay", "jobCancel")
        PROVE  IInv'
    BY <2>1, CancelPaysStep DEF Paid
  <2> QED BY <1>1, <2>1, QuietSteps, CreateStep, SaveSteps, RunStep, CaptureStep,
             CancelJobStep DEF Proceeds
<1>2. ASSUME NEW q \in Requests, NEW b \in Bookings, Reads(q, b) \/ CompleteJob(q, b)
      PROVE  IInv'
  BY <1>2, ReadSteps, CompleteJobStep
<1>3. ASSUME NEW b \in Bookings,
             Confirm(b) \/ ExpireBooking(b) \/ SendReminder(b) \/ Pay(b)
      PROVE  IInv'
  BY <1>3, ConfirmStep, ExpireSteps, ReminderSteps, PayStep
<1>4. CASE FindOverdue \/ FindReminders \/ CrashReminders
  BY <1>4, ExpireSteps, ReminderSteps
<1>5. CASE UNCHANGED vars
  <2> USE <1>5 DEF IInv, vars
  <2>1. TypeOK' /\ Unconfirmed' /\ ConfirmedHasJob' /\ ReadsHold' /\ RemindedExist'
    BY DEF TypeOK, Unconfirmed, ConfirmedHasJob, ReadsHold, RemindedExist, Works, Is
  <2>2. CompletedTogether' /\ CancelledUnbilled'
    BY DEF CompletedTogether, CancelledUnbilled, Is
  <2>3. WaitingCounted' /\ NoDoubleBooking'
    BY SameBookings
  <2> QED BY <2>1, <2>2, <2>3
<1> QED BY <1>1, <1>2, <1>3, <1>4, <1>5 DEF Next

-----------------------------------------------------------------------------
\* The inductive invariant holds throughout.
THEOREM Invariant == Spec => []IInv
  BY InitIInv, StepIInv, PTL DEF Spec

\* A booking is a whole row with a status of its own, whichever request saved it.
THEOREM TypeCorrect == Spec => []TypeOK
<1>1. IInv => TypeOK
  BY DEF IInv
<1> QED BY Invariant, <1>1, PTL

\* No two bookings of the artisan occupy overlapping windows, unless a late
\* reminder revived one, however many requests overlap.
THEOREM NotDoubleBooked == Spec => []NoDoubleBooking
<1>1. IInv => NoDoubleBooking
  BY DEF IInv
<1> QED BY Invariant, <1>1, PTL

\* The cap on a customer's unanswered requests holds for any cap.
THEOREM CapHolds == Spec => []PendingCapped
<1>1. IInv => PendingCapped
  BY DEF IInv, WaitingCounted, PendingCapped
<1> QED BY Invariant, <1>1, PTL

\* An expired request bills nobody.
THEOREM ExpiresUnbilled == Spec => []ExpiredUnbilled
<1>1. IInv => ExpiredUnbilled
  BY DEF IInv, Unconfirmed, ExpiredUnbilled, Is
<1> QED BY Invariant, <1>1, PTL

\* A completed booking leaves no job that waits or runs, unless a late save of the
\* job put it back to work.
THEOREM CompletesTogether == Spec => []CompletedTogether
<1>1. IInv => CompletedTogether
  BY DEF IInv
<1> QED BY Invariant, <1>1, PTL

\* A cancelled job has no payment that waits or is held.
THEOREM CancelsUnbilled == Spec => []CancelledUnbilled
<1>1. IInv => CancelledUnbilled
  BY DEF IInv
<1> QED BY Invariant, <1>1, PTL

-----------------------------------------------------------------------------
(* Saves that find the booking as it was read *)

\* A reminder's save leaves the booking as it is: it finds it CONFIRMED, or
\* writes its stamp alone.
RemindersKeep == [][\A b \in Bookings : SendReminder(b) => UNCHANGED booking]_vars

\* Then no booking is ever revived.
LEMMA RevivesNone ==
    ASSUME IInv, revived = {}, [Next]_vars,
           \A b \in Bookings : SendReminder(b) => UNCHANGED booking
    PROVE  revived' = {}
<1>1. ASSUME NEW b \in Bookings, SendReminder(b) PROVE revived' = {}
  <2>1. booking[b] \in Rows
    BY <1>1 DEF SendReminder, IInv, RemindedExist, TypeOK
  <2>2. SUFFICES ASSUME booking' = [booking EXCEPT ![b].status = "CONFIRMED"],
                        ~Is(b, "CONFIRMED")
                 PROVE  FALSE
    BY <1>1, <2>2 DEF SendReminder
  <2>3. booking'[b].status = "CONFIRMED"
    BY <2>1, <2>2 DEF IInv, TypeOK, Rows
  <2> QED BY <1>1, <2>2, <2>3 DEF Is
<1>2. ASSUME NEW q \in Requests, NEW b \in Bookings, Reads(q, b) \/ CompleteJob(q, b)
      PROVE  revived' = revived
  BY <1>2 DEF Reads, ReadDecline, ReadCancel, ReadComplete, ReadNoShow,
              ReadStart, ReadRequest, ReadJobCancel, CompleteJob, runVars
<1>3. ASSUME NEW q \in Requests, Proceeds(q) \/ Crash(q)
      PROVE  revived' = revived
  BY <1>3 DEF Proceeds, Crash, ReadCreate, Create, Decline, CancelSeesJob,
              CancelPays, Cancel, Complete, NoShow, StartJob, RequestCompletion,
              Capture, CancelJob, runVars
<1>4. ASSUME NEW b \in Bookings, Confirm(b) \/ ExpireBooking(b) \/ Pay(b)
      PROVE  revived' = revived
  BY <1>4 DEF Confirm, ExpireBooking, Pay, runVars
<1>5. ASSUME FindOverdue \/ FindReminders \/ CrashReminders \/ UNCHANGED vars
      PROVE  revived' = revived
  BY <1>5 DEF FindOverdue, FindReminders, CrashReminders, vars
<1> QED BY <1>1, <1>2, <1>3, <1>4, <1>5 DEF Next

\* Late reminders are all that can put two bookings of the artisan into
\* overlapping windows: without them the windows that any two occupy are apart.
THEOREM NeverDoubleBooked ==
    Spec /\ RemindersKeep =>
        [](\A b, c \in Bookings :
              b # c /\ Occupies(b) /\ Occupies(c)
                => ~Overlap(booking[b].window, booking[c].window))
<1> DEFINE Apart == \A b, c \in Bookings :
                       b # c /\ Occupies(b) /\ Occupies(c)
                         => ~Overlap(booking[b].window, booking[c].window)
           None == revived = {}
<1>1. Init => None
  BY DEF Init
<1>2. IInv /\ None /\ [Next]_vars
      /\ [\A b \in Bookings : SendReminder(b) => UNCHANGED booking]_vars
      => None'
  <2>1. CASE UNCHANGED vars
    BY <2>1 DEF vars
  <2> QED BY <2>1, RevivesNone
<1>3. IInv /\ None => Apart
  BY DEF IInv, NoDoubleBooking
<1> HIDE DEF Apart, None
<1>4. Spec /\ RemindersKeep => []Apart
  BY Invariant, <1>1, <1>2, <1>3, PTL DEF Spec, RemindersKeep
<1> QED BY <1>4 DEF Apart

\* decline saves only while the booking is still PENDING, as the expiry's
\* conditional update does.
DeclinesWaiting ==
    [][\A q \in Requests :
          Decline(q) => UNCHANGED booking \/ Is(req[q].b, "PENDING")]_vars

\* A declined request was never confirmed: it has no job and nobody is billed.
DeclinedUnbilled ==
    \A b \in Bookings : Is(b, "DECLINED") => job[b] = "none" /\ bill[b] = "none"

\* What becomes of a booking that ends a step DECLINED.
LEMMA DeclinedStep ==
    ASSUME IInv, DeclinedUnbilled, [Next]_vars,
           \A q \in Requests :
              Decline(q) => UNCHANGED booking \/ Is(req[q].b, "PENDING")
    PROVE  DeclinedUnbilled'
<1> SUFFICES ASSUME NEW b \in Bookings, booking'[b].status = "DECLINED"
             PROVE  job'[b] = "none" /\ bill'[b] = "none"
  BY DEF DeclinedUnbilled, Is
<1> DEFINE Goal == job'[b] = "none" /\ bill'[b] = "none"
<1>0. /\ TypeOK /\ Unconfirmed /\ Absent.status = "absent"
      /\ booking[b].status = "DECLINED" => job[b] = "none" /\ bill[b] = "none"
  BY DEF IInv, DeclinedUnbilled, Is, Absent
<1>1. ASSUME booking[b].status = "DECLINED", UNCHANGED workVars PROVE Goal
  BY <1>0, <1>1 DEF workVars
<1>2. ASSUME NEW q \in Requests, Decline(q) PROVE Goal
  <2>1. CASE UNCHANGED booking \/ req[q].b # b
    BY <1>0, <1>1, <1>2, <2>1 DEF Decline, Save, TypeOK
  <2>2. CASE req[q].b = b /\ Is(req[q].b, "PENDING")
    BY <1>0, <1>2, <2>2 DEF Decline, Is, Unconfirmed, workVars
  <2> QED BY <1>2, <2>1, <2>2
<1>3. ASSUME NEW q \in Requests, NEW s, Save(q, s), s # "DECLINED"
      PROVE  booking[b].status = "DECLINED" /\ req[q].b # b
  <2>1. CASE req[q].b # b
    BY <1>0, <1>3, <2>1 DEF Save, TypeOK
  <2>2. CASE req[q].b = b
    <3>1. booking'[b] = [booking[b] EXCEPT !.status = s]
      BY <1>0, <1>3, <2>2 DEF Save, TypeOK
    <3>2. CASE booking[b] \in Rows
      BY <1>3, <3>1, <3>2 DEF Rows
    <3>3. CASE booking[b] = Absent
      BY <1>3, <3>1, <3>3 DEF Absent
    <3> QED BY <1>0, <3>2, <3>3 DEF TypeOK
  <2> QED BY <2>1, <2>2
<1>4. ASSUME NEW q \in Requests,
             Cancel(q) \/ Complete(q) \/ NoShow(q)
      PROVE  Goal
  <2>1. CASE Cancel(q)
    BY <1>0, <1>3, <2>1 DEF Cancel, TypeOK
  <2>2. CASE Complete(q)
    BY <1>0, <1>3, <2>2 DEF Complete, TypeOK
  <2>3. CASE NoShow(q)
    BY <1>1, <1>3, <2>3 DEF NoShow
  <2> QED BY <1>4, <2>1, <2>2, <2>3
<1>5. ASSUME NEW q \in Requests, NEW k \in Customers, Create(q, k) PROVE Goal
  BY <1>0, <1>1, <1>5 DEF Create, TypeOK
<1>6. ASSUME NEW q \in Requests, NEW op, NEW next, CancelPays(q, op, next) PROVE Goal
  <2>1. booking[b].status = "DECLINED" /\ job' = job
    BY <1>6 DEF CancelPays
  <2>2. bill[b] = "none" /\ Refunded(bill[b]) = "none"
    BY <1>0, <2>1 DEF Refunded
  <2> QED BY <1>0, <1>6, <2>1, <2>2 DEF CancelPays, TypeOK
<1>7. ASSUME NEW q \in Requests,
             \/ \E w \in Windows : ReadCreate(q, w)
             \/ CancelSeesJob(q) \/ Crash(q)
             \/ \E c \in Bookings : Reads(q, c)
      PROVE  Goal
  BY <1>1, <1>7 DEF ReadCreate, CancelSeesJob, Crash, Reads, ReadDecline,
                    ReadCancel, ReadComplete, ReadNoShow, ReadStart, ReadRequest,
                    ReadJobCancel
<1>8. ASSUME NEW c \in Bookings, NEW s \in Statuses \ {"DECLINED"},
             booking' = [booking EXCEPT ![c].status = s]
      PROVE  booking[b].status = "DECLINED" /\ c # b
  <2>1. CASE c # b
    BY <1>0, <1>8, <2>1 DEF TypeOK
  <2>2. CASE c = b
    <3>1. booking'[b] = [booking[b] EXCEPT !.status = s]
      BY <1>0, <1>8, <2>2 DEF TypeOK
    <3>2. CASE booking[b] \in Rows
      BY <1>8, <3>1, <3>2 DEF Rows
    <3>3. CASE booking[b] = Absent
      BY <1>8, <3>1, <3>3 DEF Absent
    <3> QED BY <1>0, <3>2, <3>3 DEF TypeOK
  <2> QED BY <2>1, <2>2
<1>9. ASSUME NEW c \in Bookings, Confirm(c) \/ ExpireBooking(c) PROVE Goal
  <2>1. CASE Confirm(c)
    BY <1>0, <1>8, <2>1 DEF Confirm, TypeOK, Statuses
  <2>2. CASE ExpireBooking(c)
    BY <1>1, <1>8, <2>2 DEF ExpireBooking, Statuses
  <2> QED BY <1>9, <2>1, <2>2
<1>10. ASSUME NEW c \in Bookings, Pay(c) PROVE Goal
  BY <1>0, <1>10 DEF Pay, TypeOK
<1>11. ASSUME NEW c \in Bookings, NEW s \in EndedJob, Cancellable(job[c]),
              job' = [job EXCEPT ![c] = s], Sync(c, s), UNCHANGED bill
       PROVE  Goal
  <2>1. booking[b].status = "DECLINED"
    BY <1>8, <1>11 DEF Sync, Statuses, EndedJob
  <2>2. c # b
    BY <1>0, <1>11, <2>1 DEF Cancellable
  <2>3. job'[b] = job[b] /\ bill'[b] = bill[b]
    BY <1>0, <1>11, <2>2 DEF TypeOK
  <2> QED BY <1>0, <2>1, <2>3
<1>12. ASSUME FindOverdue \/ FindReminders \/ CrashReminders \/ UNCHANGED vars
       PROVE  Goal
  BY <1>1, <1>12 DEF FindOverdue, FindReminders, CrashReminders, vars, workVars
<1>14. ASSUME NEW q \in Requests, NEW c \in Bookings, CompleteJob(q, c) PROVE Goal
  BY <1>11, <1>14 DEF CompleteJob, Cancellable, EndedJob
<1>15. ASSUME NEW q \in Requests, StartJob(q) \/ RequestCompletion(q) \/ Capture(q) \/ CancelJob(q)
       PROVE  Goal
  <2> DEFINE c == req[q].b
  <2>1. c \in Bookings /\ job[c] # "none"
    <3>1. Works(q) /\ req[q].op \in WithJob
      BY <1>15 DEF StartJob, RequestCompletion, Capture, CancelJob, At, Works, Ops, WithJob
    <3> QED BY <3>1, WorkForm DEF IInv, ReadsHold, Working
  <2>2. CASE UNCHANGED booking
    <3>1. booking[b].status = "DECLINED" /\ c # b
      BY <1>0, <2>1, <2>2
    <3>2. job'[b] = job[b] /\ bill'[b] = bill[b]
      BY <1>0, <1>15, <3>1
      DEF StartJob, RequestCompletion, Capture, CancelJob, SaveRunning, TypeOK
    <3> QED BY <1>0, <3>1, <3>2
  <2>3. CASE ~UNCHANGED booking
    <3>1. CancelJob(q)
      BY <1>15, <2>3 DEF StartJob, RequestCompletion, Capture
    <3>2. /\ Cancellable(job[c]) /\ job' = [job EXCEPT ![c] = "CANCELLED"]
          /\ Sync(c, "CANCELLED") /\ UNCHANGED bill /\ "CANCELLED" \in EndedJob
      BY <2>3, <3>1 DEF CancelJob, EndedJob
    <3> QED BY <1>11, <2>1, <3>2
  <2> QED BY <2>2, <2>3
<1>16. ASSUME NEW c \in Bookings, SendReminder(c) PROVE Goal
  BY <1>1, <1>8, <1>16 DEF SendReminder, Statuses
<1> HIDE DEF Goal
<1>13. Goal
  BY <1>2, <1>4, <1>5, <1>6, <1>7, <1>9, <1>10, <1>12, <1>14, <1>15, <1>16
  DEF Next, Proceeds
<1> QED BY <1>13 DEF Goal

\* A decline that saved only what is still unanswered would leave no declined
\* booking with a job or a bill: the save over a confirmation is the one way.
THEOREM DeclinesUnbilled == Spec /\ DeclinesWaiting => []DeclinedUnbilled
<1>1. Init => DeclinedUnbilled
  BY DEF Init, DeclinedUnbilled, Is, Absent
<1>2. IInv /\ DeclinedUnbilled /\ [Next]_vars
      /\ [\A q \in Requests :
            Decline(q) => UNCHANGED booking \/ Is(req[q].b, "PENDING")]_vars
      => DeclinedUnbilled'
  <2>1. CASE UNCHANGED vars
    BY <2>1 DEF DeclinedUnbilled, Is, vars
  <2> QED BY <2>1, DeclinedStep
<1> QED BY Invariant, <1>1, <1>2, PTL DEF Spec, DeclinesWaiting
=============================================================================
