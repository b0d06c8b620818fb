------------------------------- MODULE Bookings -------------------------------
(***************************************************************************)
(* The direct bookings of one artisan (bookings/bookings.service.ts,       *)
(* scheduler/bookings-scheduler.service.ts), each with the job and the     *)
(* payment that its confirmation makes.                                    *)
(*                                                                         *)
(* create and confirm take a row lock and are one step each after what     *)
(* they read before it.  decline, cancel, complete and flagNoShow, and the *)
(* job's startJob and requestCompletion, read their row, decide, and save  *)
(* the entity later without a lock: what they read waits in req.  Expiry   *)
(* and the reminders list bookings and handle them one by one, expiry with *)
(* a conditional update and the reminders with a save of what was listed.  *)
(***************************************************************************)
EXTENDS Naturals, FiniteSets

CONSTANTS Bookings,      \* rows that may be requested
          Customers,     \* who request them
          Windows,       \* <<start, end>> of the appointments, on one date
          Requests,      \* requests under way at once
          MaxPending,    \* MAX_PENDING_BOOKINGS_PER_ARTISAN, of each customer
          Followed       \* bound: bookings followed beyond their confirmation

ASSUME WindowsAssumption ==
    Windows \subseteq {w \in Nat \X Nat : w[1] < w[2]}
ASSUME BoundsAssumption == MaxPending \in Nat \ {0} /\ Followed \subseteq Bookings

Statuses == {"PENDING", "CONFIRMED", "COMPLETED", "CANCELLED", "DECLINED",
             "EXPIRED", "NO_SHOW"}
Occupying == {"PENDING", "CONFIRMED"}
JobStatuses == {"none", "PENDING", "IN_PROGRESS", "COMPLETED", "CANCELLED"}
EndedJob == {"COMPLETED", "CANCELLED"}
\* "ENDED" is CANCELLED or REFUNDED; "SENT" is captured, in any way.
Bills == {"none", "PENDING", "HELD", "ENDED", "SENT"}

\* The columns that decide; the stamps of the reminders sent and the flags of a
\* no-show are left out.
Rows == [status : Statuses, window : Windows, by : Customers]
Absent == [status |-> "absent"]

Ops == {"decline", "cancel", "cancelPay", "cancelBoth", "cancelAlone",
        "complete", "noShow",
        "start", "request", "capture", "jobPay", "jobCancel"}
Creating == [op : {"create"}, window : Windows]
Working == [op : Ops, b : Bookings, job : JobStatuses]
Idle == [op |-> "idle"]

VARIABLES booking,   \* the bookings
          job,       \* status of the job made from each
          bill,      \* status of that job's payment
          req,       \* the requests under way
          overdue,   \* what an expiry run found and has not handled yet
          reminding, \* what a reminder run found and has not handled yet
          revived,   \* bookings that a late save put back to CONFIRMED
          reopened   \* bookings whose ended job a late save put back to work

vars == <<booking, job, bill, req, overdue, reminding, revived, reopened>>
workVars == <<job, bill, reopened>>
runVars == <<overdue, reminding, revived>>

TypeOK ==
    /\ booking \in [Bookings -> Rows \cup {Absent}]
    /\ job \in [Bookings -> JobStatuses]
    /\ bill \in [Bookings -> Bills]
    /\ req \in [Requests -> Creating \cup Working \cup {Idle}]
    /\ overdue \subseteq Bookings /\ reminding \subseteq Bookings
    /\ revived \subseteq Bookings /\ reopened \subseteq Bookings

\* A booking confirmed before bookings were paid for may have a job without a
\* payment.
Init ==
    /\ \E old \in {{}} \cup {{b} : b \in Followed}, w \in Windows, k \in Customers :
          /\ booking = [b \in Bookings |-> IF b \notin old THEN Absent
               ELSE [status |-> "CONFIRMED", window |-> w, by |-> k]]
          /\ job = [b \in Bookings |-> IF b \in old THEN "PENDING" ELSE "none"]
    /\ bill = [b \in Bookings |-> "none"]
    /\ req = [q \in Requests |-> Idle]
    /\ overdue = {} /\ reminding = {} /\ revived = {} /\ reopened = {}

Is(b, status) == booking[b].status = status
Occupies(b) == booking[b].status \in Occupying
Overlap(v, w) == v[1] < w[2] /\ v[2] > w[1]
Taken(w) == \E b \in Bookings : Occupies(b) /\ Overlap(booking[b].window, w)

At(q, op) == req[q].op = op
Begin(q, op, b, j) ==
    /\ req[q] = Idle
    /\ req' = [req EXCEPT ![q] = [op |-> op, b |-> b, job |-> j]]
Continue(q, op) == req' = [req EXCEPT ![q].op = op]
Done(q) == req' = [req EXCEPT ![q] = Idle]

\* Mutant: the booking takes its job's status.
SaveAsJob(q, status) ==
    booking' = [booking EXCEPT ![req[q].b].status =
                   IF job[req[q].b] = "IN_PROGRESS" THEN "IN_PROGRESS" ELSE status]

\* repo.save of an entity that was read with another status: the handler's own
\* status is written whatever the row has become.
Save(q, status) ==
    booking' = [booking EXCEPT ![req[q].b].status = status]

-----------------------------------------------------------------------------
(* The request *)

\* create: the profile, the service and the hours are checked, and no booking
\* occupies the window when the windows are computed ...
ReadCreate(q, w) ==
    /\ req[q] = Idle /\ ~Taken(w)
    /\ \E b \in Bookings : booking[b] = Absent  \* bound
    /\ req' = [req EXCEPT ![q] = [op |-> "create", window |-> w]]
    /\ UNCHANGED <<booking, workVars, runVars>>

\* Mutant: only the windows computed before the lock are checked.
StillFreeAsRead(w) == TRUE

\* The overlap check under the lock of the artisan's profile row.
StillFree(w) == ~Taken(w)

Waiting(k) == {b \in Bookings : Is(b, "PENDING") /\ booking[b].by = k}

\* Mutant: off by one.
MayWaitOneMore(k) == Cardinality(Waiting(k)) <= MaxPending

\* The cap on a customer's unanswered requests, under the same lock.
MayWait(k) == Cardinality(Waiting(k)) < MaxPending

\* ... and the insert, which checks again under the lock.  Nothing before it
\* depends on who the customer is.
Create(q, k) ==
    /\ At(q, "create")
    /\ IF StillFree(req[q].window) /\ MayWait(k)
       THEN \E b \in Bookings :
               /\ booking[b] = Absent
               /\ booking' = [booking EXCEPT ![b] =
                     [status |-> "PENDING", window |-> req[q].window, by |-> k]]
       ELSE UNCHANGED booking
    /\ Done(q)
    /\ UNCHANGED <<workVars, runVars>>

\* confirm: the booking is locked, and its job and payment are made with it.
Confirm(b) ==
    /\ Is(b, "PENDING")
    /\ booking' = [booking EXCEPT ![b].status = "CONFIRMED"]
    /\ job' = [job EXCEPT ![b] = "PENDING"]
    /\ bill' = [bill EXCEPT ![b] = "PENDING"]
    /\ UNCHANGED <<req, reopened, runVars>>

\* decline: no lock between the check and the save.
ReadDecline(q, b) ==
    /\ Is(b, "PENDING") /\ Begin(q, "decline", b, "none")
    /\ UNCHANGED <<booking, workVars, runVars>>

Decline(q) ==
    /\ At(q, "decline") /\ Save(q, "DECLINED")
    /\ Done(q)
    /\ UNCHANGED <<workVars, runVars>>

-----------------------------------------------------------------------------
(* The expiry of unanswered requests, every hour *)

\* findExpiryCandidateIds: any of the PENDING bookings may be 24 hours old.
FindOverdue ==
    /\ overdue = {} /\ \E b \in Bookings : Is(b, "PENDING")
    /\ overdue' = {b \in Bookings : Is(b, "PENDING")}
    /\ UNCHANGED <<booking, workVars, req, reminding, revived>>

\* Mutant: what was found is expired whatever became of it.
StillPendingAsFound(b) == TRUE

\* The conditional update's own condition.
StillPending(b) == Is(b, "PENDING")

ExpireBooking(b) ==
    /\ b \in overdue
    /\ overdue' = overdue \ {b}
    /\ booking' = IF StillPending(b)
                  THEN [booking EXCEPT ![b].status = "EXPIRED"] ELSE booking
    /\ UNCHANGED <<workVars, req, reminding, revived>>

-----------------------------------------------------------------------------
(* The appointment *)

\* cancel: the booking ...
ReadCancel(q, b) ==
    /\ Occupies(b) /\ Begin(q, "cancel", b, "none")
    /\ UNCHANGED <<booking, workVars, runVars>>

\* ... its job, which must not have started ...
CancelSeesJob(q) ==
    /\ At(q, "cancel")
    /\ CASE job[req[q].b] = "none" -> Continue(q, "cancelAlone")
         [] job[req[q].b] = "PENDING" -> Continue(q, "cancelPay")
         [] OTHER -> Done(q)
    /\ UNCHANGED <<booking, workVars, runVars>>

\* ... its payment, voided or refunded before anything else (cancelPayment), as
\* cancelJob does too ...
\* Mutant: a checkout that is open is not voided.
RefundedIfHeld(status) == IF status = "HELD" THEN "ENDED" ELSE status

Refunded(status) == IF status \in {"PENDING", "HELD"} THEN "ENDED" ELSE status

CancelPays(q, op, next) ==
    /\ At(q, op)
    /\ \/ /\ bill' = [bill EXCEPT ![req[q].b] = Refunded(@)]
          /\ Continue(q, next)
       \/ bill[req[q].b] = "HELD" /\ UNCHANGED bill /\ Done(q)  \* refused
    /\ UNCHANGED <<booking, job, reopened, runVars>>

\* ... and the two rows in one transaction; a job that was not seen is left.
Cancel(q) ==
    /\ \/ At(q, "cancelBoth") /\ job' = [job EXCEPT ![req[q].b] = "CANCELLED"]
       \/ At(q, "cancelAlone") /\ UNCHANGED job
    /\ Save(q, "CANCELLED") /\ Done(q)
    /\ UNCHANGED <<bill, reopened, runVars>>

\* complete, of a job without a payment; with one it is the job's completion.
ReadComplete(q, b) ==
    /\ b \in Followed
    /\ Is(b, "CONFIRMED") /\ bill[b] = "none"
    /\ Begin(q, "complete", b, job[b])
    /\ UNCHANGED <<booking, workVars, runVars>>

\* Mutant: the job is left as it is, as it was before BK-23.
FinishesNever(status) == FALSE

\* A job is finished with its booking unless it had ended when it was read.
Finishes(status) == status \in {"PENDING", "IN_PROGRESS"}

Complete(q) ==
    /\ At(q, "complete") /\ Save(q, "COMPLETED")
    /\ job' = IF Finishes(req[q].job) THEN [job EXCEPT ![req[q].b] = "COMPLETED"] ELSE job
    /\ Done(q)
    /\ UNCHANGED <<bill, reopened, runVars>>

\* flagNoShow, by either party, after the appointment's end.
ReadNoShow(q, b) ==
    /\ b \in Followed
    /\ Is(b, "CONFIRMED") /\ Begin(q, "noShow", b, "none")
    /\ UNCHANGED <<booking, workVars, runVars>>

NoShow(q) ==
    /\ At(q, "noShow") /\ Save(q, "NO_SHOW")
    /\ Done(q)
    /\ UNCHANGED <<workVars, runVars>>

\* findReminderCandidates: any CONFIRMED bookings may be due, and are loaded
\* together; one run at a time.
FindReminders ==
    /\ reminding = {}
    /\ reminding' \in SUBSET {b \in Followed : Is(b, "CONFIRMED")} \ {{}}
    /\ UNCHANGED <<booking, workVars, req, overdue, revived>>

\* Of each in turn the events are sent and the entity is saved with its stamp:
\* also with the status it was listed with, unless the save's own load came
\* before the change, or the save fails.
SendReminder(b) ==
    /\ b \in reminding
    /\ reminding' = reminding \ {b}
    /\ \/ UNCHANGED <<booking, revived>>
       \/ /\ booking' = [booking EXCEPT ![b].status = "CONFIRMED"]
          /\ revived' = IF Is(b, "CONFIRMED") THEN revived ELSE revived \cup {b}
    /\ UNCHANGED <<workVars, req, overdue>>

-----------------------------------------------------------------------------
(* The job and its payment *)

\* syncLinkedBooking only touches a booking that is still CONFIRMED.
Syncable(b) == Is(b, "CONFIRMED")

Sync(b, status) ==
    booking' = IF Syncable(b) THEN [booking EXCEPT ![b].status = status] ELSE booking

Pay(b) ==
    /\ b \in Followed
    /\ bill[b] = "PENDING" /\ bill' = [bill EXCEPT ![b] = "HELD"]
    /\ UNCHANGED <<booking, job, req, reopened, runVars>>

\* A save of the job by a handler that read it waiting or running.
SaveRunning(b) ==
    /\ job' = [job EXCEPT ![b] = "IN_PROGRESS"]
    /\ reopened' = IF job[b] \in EndedJob THEN reopened \cup {b} ELSE reopened

\* startJob.
ReadStart(q, b) ==
    /\ b \in Followed
    /\ job[b] = "PENDING" /\ bill[b] \in {"none", "HELD"}
    /\ Begin(q, "start", b, "none")
    /\ UNCHANGED <<booking, workVars, runVars>>

StartJob(q) ==
    /\ At(q, "start") /\ SaveRunning(req[q].b)
    /\ Done(q)
    /\ UNCHANGED <<booking, bill, runVars>>

\* requestCompletion, whose own change is a stamp.
ReadRequest(q, b) ==
    /\ job[b] = "IN_PROGRESS" /\ Begin(q, "request", b, "none")
    /\ UNCHANGED <<booking, workVars, runVars>>

RequestCompletion(q) ==
    /\ At(q, "request")
    /\ SaveRunning(req[q].b) \/ UNCHANGED <<job, reopened>>
    /\ Done(q)
    /\ UNCHANGED <<booking, bill, runVars>>

\* confirmCompletion or autoCompleteJob, under the job's lock ...
CompleteJob(q, b) ==
    /\ job[b] = "IN_PROGRESS" /\ job' = [job EXCEPT ![b] = "COMPLETED"]
    /\ Sync(b, "COMPLETED")
    /\ Begin(q, "capture", b, "none")
    /\ UNCHANGED <<bill, reopened, runVars>>

\* ... and the capture that follows.
Capture(q) ==
    /\ At(q, "capture")
    /\ bill' = [bill EXCEPT ![req[q].b] = IF @ = "HELD" THEN "SENT" ELSE @]
    /\ Done(q)
    /\ UNCHANGED <<booking, job, reopened, runVars>>

\* assertCancellable
Cancellable(status) == status \in {"PENDING", "IN_PROGRESS"}

\* cancelJob: the check, the refund (CancelPays), and the check again under the
\* job's lock.
ReadJobCancel(q, b) ==
    /\ b \in Followed
    /\ Cancellable(job[b]) /\ Begin(q, "jobPay", b, "none")
    /\ UNCHANGED <<booking, workVars, runVars>>

CancelJob(q) ==
    LET b == req[q].b IN
    /\ At(q, "jobCancel")
    /\ IF Cancellable(job[b])
       THEN job' = [job EXCEPT ![b] = "CANCELLED"] /\ Sync(b, "CANCELLED")
       ELSE UNCHANGED <<job, booking>>
    /\ Done(q)
    /\ UNCHANGED <<bill, reopened, runVars>>

\* The process dies: a request, or the run of the reminders.
Crash(q) ==
    /\ req[q] # Idle /\ Done(q)
    /\ UNCHANGED <<booking, workVars, runVars>>

CrashReminders ==
    /\ reminding # {} /\ reminding' = {}
    /\ UNCHANGED <<booking, workVars, req, overdue, revived>>

Reads(q, b) ==
    \/ ReadDecline(q, b) \/ ReadCancel(q, b) \/ ReadComplete(q, b)
    \/ ReadNoShow(q, b) \/ ReadStart(q, b) \/ ReadRequest(q, b) \/ ReadJobCancel(q, b)

Proceeds(q) ==
    \/ \E w \in Windows : ReadCreate(q, w)
    \/ \E k \in Customers : Create(q, k)
    \/ Decline(q) \/ CancelSeesJob(q) \/ Cancel(q)
    \/ CancelPays(q, "cancelPay", "cancelBoth") \/ CancelPays(q, "jobPay", "jobCancel")
    \/ Complete(q) \/ NoShow(q)
    \/ StartJob(q) \/ RequestCompletion(q) \/ Capture(q) \/ CancelJob(q)

Next ==
    \/ \E q \in Requests :
         \/ Proceeds(q) \/ Crash(q)
         \/ \E b \in Bookings : Reads(q, b) \/ CompleteJob(q, b)
    \/ \E b \in Bookings :
         Confirm(b) \/ ExpireBooking(b) \/ SendReminder(b) \/ Pay(b)
    \/ FindOverdue \/ FindReminders \/ CrashReminders

Spec == Init /\ [][Next]_vars

-----------------------------------------------------------------------------
(* Properties *)

\* Two bookings of the artisan never occupy overlapping windows, except where a
\* reminder that was being sent wrote CONFIRMED over a booking that had ended.
NoDoubleBooking ==
    \A b, c \in Bookings :
        b # c /\ Occupies(b) /\ Occupies(c) /\ Overlap(booking[b].window, booking[c].window)
          => b \in revived \/ c \in revived

\* No customer has more unanswered requests with the artisan than the cap,
\* however many are sent at once.
PendingCapped == \A k \in Customers : Cardinality(Waiting(k)) <= MaxPending

\* An expired request was never confirmed: it has no job and nobody is billed.
ExpiredUnbilled ==
    \A b \in Bookings : Is(b, "EXPIRED") => job[b] = "none" /\ bill[b] = "none"

\* A booking and its job finish together: a completed booking leaves its job
\* neither waiting nor running, except where a save of the job that was being
\* made, of its start or of the request to complete it, was written over its end.
CompletedTogether ==
    \A b \in Bookings : Is(b, "COMPLETED") => job[b] \in EndedJob \/ b \in reopened

\* A cancelled job keeps nobody's money and waits for none: its payment was
\* voided or refunded before it was cancelled, or was the artisan's already.
CancelledUnbilled ==
    \A b \in Bookings : job[b] = "CANCELLED" => bill[b] \notin {"PENDING", "HELD"}
=============================================================================
