--------------------------------- MODULE Jobs ---------------------------------
(***************************************************************************)
(* One posted job, its applications and its payments, from OPEN to the     *)
(* payout (jobs/jobs.service.ts), with what a booking's cancellation and   *)
(* completion (bookings/bookings.service.ts) and a dispute's ruling        *)
(* (disputes/disputes.service.ts) make of a job that came from a booking.  *)
(*                                                                         *)
(* Most handlers read the job without a lock, check it, and save it back   *)
(* later: a request is a read followed by one step per commit, and what it *)
(* read waits in req.  Only confirmCompletion, autoCompleteJob and the end *)
(* of cancelJob hold the row lock, and they lock only against each other.  *)
(* A crash drops a request between two of its steps.                       *)
(*                                                                         *)
(* Of a payment only what these handlers make of it is kept: Payouts and   *)
(* PaymentAttempts have the rest, and Bookings has the booking itself.     *)
(***************************************************************************)
EXTENDS Naturals, FiniteSets

CONSTANTS Artisans,
          NoArtisan,
          Requests,       \* requests and scheduler runs under way at once
          MaxPayments,    \* bound: payments ever created
          MaxClobbers,    \* bound: saves over a concurrent change
          Disputed        \* whether a ruling may release the job's money

ASSUME ArtisansAssumption == NoArtisan \notin Artisans
ASSUME BoundsAssumption == MaxPayments \in Nat \ {0} /\ MaxClobbers \in Nat
ASSUME DisputedAssumption == Disputed \in BOOLEAN

Intents == 1..MaxPayments
NoIntent == 0

Statuses == {"OPEN", "PENDING", "IN_PROGRESS", "COMPLETED", "CANCELLED",
             "EXPIRED"}
PaymentStatuses == {"none", "PENDING", "CANCELLED", "HELD", "REFUNDED",
                    "PENDING_TRANSFER", "RELEASED"}

Rows == [status : Statuses,
         requested : BOOLEAN,               \* completionRequestedAt is set
         artisan : Artisans \cup {NoArtisan},\* acceptedArtisan
         intent : Intents \cup {NoIntent},  \* paymentIntentId
         deleted : BOOLEAN]                 \* deletedAt is set

Payments == [status : PaymentStatuses,
             artisan : Artisans \cup {NoArtisan},
             sent : BOOLEAN,                \* transferCode is set
             ruled : BOOLEAN]               \* released by a ruling

VARIABLES job,          \* the job row
          apps,         \* job_applications.status of each artisan, or "none"
          pays,         \* the payments made for the job
          req,          \* of each request: idle, or what it does and read
          completions,  \* times the job was made COMPLETED
          clobbers      \* saves that overwrote a concurrent change so far

vars == <<job, apps, pays, req, completions, clobbers>>

Idle == [op |-> "idle"]
Ops == {"apply", "accept", "accept2", "accept3", "accept4", "start", "edit",
        "remove", "cancel", "cancel2", "expire", "expire2", "request",
        "capture", "bookingCancel", "bookingCancel2", "bookingComplete"}
Work == [op : Ops, row : Rows, artisan : Artisans \cup {NoArtisan},
         intent : Intents \cup {NoIntent}]

(***************************************************************************)
(* Types: the rows' columns and the requests under way.                    *)
(***************************************************************************)
TypeOK ==
    /\ job \in Rows
    /\ apps \in [Artisans -> {"none", "PENDING", "ACCEPTED", "REJECTED"}]
    /\ pays \in [Intents -> Payments]
    /\ req \in [Requests -> Work \cup {Idle}]
    /\ completions \in Nat /\ clobbers \in Nat

\* A job is posted OPEN; one made from a confirmed booking begins with its
\* artisan and with its payment (BookingsService.confirm), or, if made before
\* bookings were paid for, without.
Init ==
    /\ apps = [a \in Artisans |-> "none"]
    /\ \E s \in {"OPEN", "PENDING"}, a \in Artisans, i \in {NoIntent, 1} :
          /\ s = "OPEN" => i = NoIntent
          /\ job = [status |-> s, requested |-> FALSE,
                    artisan |-> IF s = "OPEN" THEN NoArtisan ELSE a,
                    intent |-> i, deleted |-> FALSE]
          /\ pays = [k \in Intents |-> IF k = i
               THEN [status |-> "PENDING", artisan |-> a, sent |-> FALSE, ruled |-> FALSE]
               ELSE [status |-> "none", artisan |-> NoArtisan, sent |-> FALSE,
                     ruled |-> FALSE]]
    /\ req = [q \in Requests |-> Idle]
    /\ completions = 0 /\ clobbers = 0

-----------------------------------------------------------------------------
(* Reading and saving without a lock *)

Begin(q, op, a) ==
    /\ req[q] = Idle /\ ~job.deleted
    /\ req' = [req EXCEPT ![q] =
         [op |-> op, row |-> job, artisan |-> a, intent |-> job.intent]]
    /\ UNCHANGED <<job, apps, pays, completions, clobbers>>

At(q, op) == req[q].op = op
Continue(q, op) == req' = [req EXCEPT ![q].op = op]
Done(q) == req' = [req EXCEPT ![q] = Idle]

\* repo.save writes every column in which the entity differs from the row it
\* loads again just before: the row as it was read with the handler's own
\* changes, or only those changes where that load came before someone else's.
SaveOver(q, whole, only) ==
    /\ job' \in {whole, only}
    /\ IF job = req[q].row THEN UNCHANGED clobbers
       ELSE clobbers < MaxClobbers /\ clobbers' = clobbers + 1

\* Applications that still wait for an answer are rejected.
RejectPending == [a \in Artisans |-> IF apps[a] = "PENDING" THEN "REJECTED"
                                                           ELSE apps[a]]

\* A job that came from a booking names its artisan, and nobody applied for it.
Booked == job.artisan # NoArtisan /\ \A a \in Artisans : apps[a] = "none"

-----------------------------------------------------------------------------
(* The open job *)

\* applyToJob: the job was OPEN and the artisan had not applied.
ReadApply(q, a) ==
    job.status = "OPEN" /\ apps[a] = "none" /\ Begin(q, "apply", a)

Apply(q) ==
    /\ At(q, "apply")
    /\ apps[req[q].artisan] = "none"    \* UQ_job_applications_artisan_job
    /\ apps' = [apps EXCEPT ![req[q].artisan] = "PENDING"]
    /\ Done(q)
    /\ UNCHANGED <<job, pays, completions, clobbers>>

\* update (assertMutable) and remove (OPEN only).
ReadEdit(q) == job.status = "OPEN" /\ Begin(q, "edit", NoArtisan)

Edit(q) ==
    /\ At(q, "edit")
    /\ SaveOver(q, req[q].row, job)
    /\ Done(q)
    /\ UNCHANGED <<apps, pays, completions>>

ReadRemove(q) == job.status = "OPEN" /\ Begin(q, "remove", NoArtisan)

Remove(q) ==
    /\ At(q, "remove")
    /\ job' = [job EXCEPT !.deleted = TRUE]
    /\ Done(q)
    /\ UNCHANGED <<apps, pays, completions, clobbers>>

\* expireJob, of an OPEN job past its deadline: it rejects who waits, then
\* saves the job as EXPIRED.
ReadExpire(q) == job.status = "OPEN" /\ Begin(q, "expire", NoArtisan)

RejectWaiting(q) ==
    /\ At(q, "expire")
    /\ apps' = RejectPending
    /\ Continue(q, "expire2")
    /\ UNCHANGED <<job, pays, completions, clobbers>>

Expire(q) ==
    /\ At(q, "expire2")
    /\ SaveOver(q, [req[q].row EXCEPT !.status = "EXPIRED"],
                   [job EXCEPT !.status = "EXPIRED"])
    /\ Done(q)
    /\ UNCHANGED <<apps, pays, completions>>

-----------------------------------------------------------------------------
(* acceptApplication: four commits after the reads *)

ReadAccept(q, a) ==
    job.status = "OPEN" /\ apps[a] = "PENDING" /\ Begin(q, "accept", a)

\* Mutant: the payee is looked up on the job, where it is not saved yet.
PayeeOnJob(q) == job.artisan

\* holdPayment is told whose application is accepted.
Payee(q) == req[q].artisan

HoldPayment(q) ==
    /\ At(q, "accept")
    /\ \E i \in Intents :
          /\ pays[i].status = "none"
          /\ \A k \in 1..(i - 1) : pays[k].status # "none"
          /\ pays' = [pays EXCEPT ![i] =
               [status |-> "PENDING", artisan |-> Payee(q), sent |-> FALSE,
                ruled |-> FALSE]]
          /\ req' = [req EXCEPT ![q].op = "accept2", ![q].intent = i]
    /\ UNCHANGED <<job, apps, completions, clobbers>>

\* The application is saved as ACCEPTED, whatever it says by now.
AcceptOne(q) ==
    /\ At(q, "accept2")
    /\ apps' = [apps EXCEPT ![req[q].artisan] = "ACCEPTED"]
    /\ Continue(q, "accept3")
    /\ UNCHANGED <<job, pays, completions, clobbers>>

RejectOthers(q) ==
    /\ At(q, "accept3")
    /\ apps' = [RejectPending EXCEPT ![req[q].artisan] = apps[req[q].artisan]]
    /\ Continue(q, "accept4")
    /\ UNCHANGED <<job, pays, completions, clobbers>>

Engage(q) ==
    LET new(row) == [row EXCEPT !.status = "PENDING",
                                !.artisan = req[q].artisan,
                                !.intent = req[q].intent]
    IN /\ At(q, "accept4")
       /\ SaveOver(q, new(req[q].row), new(job))
       /\ Done(q)
       /\ UNCHANGED <<apps, pays, completions>>

-----------------------------------------------------------------------------
(* The work *)

\* Mutant: work may begin before the customer has paid.
SecuredAlways(row) == TRUE

\* isPaymentSecured
Secured(row) == row.intent # NoIntent => pays[row.intent].status = "HELD"

ReadStart(q) ==
    job.status = "PENDING" /\ Secured(job) /\ Begin(q, "start", NoArtisan)

\* startJob, by transitionAndSave.
Start(q) ==
    /\ At(q, "start")
    /\ SaveOver(q, [req[q].row EXCEPT !.status = "IN_PROGRESS"],
                   [job EXCEPT !.status = "IN_PROGRESS"])
    /\ Done(q)
    /\ UNCHANGED <<apps, pays, completions>>

ReadRequest(q) ==
    /\ job.status = "IN_PROGRESS" /\ ~job.requested
    /\ Begin(q, "request", NoArtisan)

RequestCompletion(q) ==
    /\ At(q, "request")
    /\ SaveOver(q, [req[q].row EXCEPT !.requested = TRUE],
                   [job EXCEPT !.requested = TRUE])
    /\ Done(q)
    /\ UNCHANGED <<apps, pays, completions>>

\* Mutant: the state is not checked again under the lock.
MayCompleteAgain ==
    job.status \in {"IN_PROGRESS", "COMPLETED"} /\ job.requested

\* What confirmCompletion and autoCompleteJob check under the row lock.
MayComplete == job.status = "IN_PROGRESS" /\ job.requested

\* confirmCompletion or autoCompleteJob (48 hours after the request): the job
\* is COMPLETED in one locked transaction; the capture comes after it.
Complete(q) ==
    /\ req[q] = Idle /\ ~job.deleted
    /\ MayComplete
    /\ job' = [job EXCEPT !.status = "COMPLETED"]
    /\ completions' = completions + 1
    /\ req' = IF job.intent = NoIntent THEN req
              ELSE [req EXCEPT ![q] = [op |-> "capture", row |-> job',
                      artisan |-> NoArtisan, intent |-> job.intent]]
    /\ UNCHANGED <<apps, pays, clobbers>>

CanCapture(p) ==
    p.status = "PENDING_TRANSFER" \/ (p.status = "HELD" /\ ~p.sent)

\* capturePayment: the payment is HELD with a transfer out, or waits for one
\* (PENDING_TRANSFER stands for TRANSFER_FAILED too).
Captured(p) == {[p EXCEPT !.status = "HELD", !.sent = TRUE],
                [p EXCEPT !.status = "PENDING_TRANSFER"]}

Capture(q) ==
    /\ At(q, "capture")
    /\ LET i == req[q].intent
       IN IF CanCapture(pays[i])
          THEN \E p \in Captured(pays[i]) : pays' = [pays EXCEPT ![i] = p]
          ELSE UNCHANGED pays
    /\ Done(q)
    /\ UNCHANGED <<job, apps, completions, clobbers>>

-----------------------------------------------------------------------------
(* cancelJob: check, settle the money, check again under the lock *)

\* assertCancellable
Cancellable(row) ==
    row.status \notin {"COMPLETED", "CANCELLED", "EXPIRED"} /\ ~row.requested

ReadCancel(q) == Cancellable(job) /\ Begin(q, "cancel", NoArtisan)

\* cancelPayment of the payment the job had when it was read.  A transfer
\* under way leaves the payment HELD.  A refused refund ends the request.
CancelPayment(q, op, next) ==
    /\ At(q, op)
    /\ LET i == req[q].row.intent
       IN IF i # NoIntent /\ pays[i].status \in {"HELD", "PENDING"}
          THEN pays' = [pays EXCEPT ![i].status =
                          IF @ = "HELD" THEN "REFUNDED" ELSE "CANCELLED"]
          ELSE UNCHANGED pays
    /\ Continue(q, next)
    /\ UNCHANGED <<job, apps, completions, clobbers>>

\* Mutant: the second check is left out.
CancellableNow == TRUE

StillCancellable == Cancellable(job) /\ ~job.deleted

\* The transaction under the lock.  paymentIntentId is set to undefined, which
\* save skips.
Cancel(q) ==
    /\ At(q, "cancel2")
    /\ IF StillCancellable
       THEN /\ job' = [job EXCEPT !.status = "CANCELLED"]
            /\ apps' = RejectPending
       ELSE UNCHANGED <<job, apps>>
    /\ Done(q)
    /\ UNCHANGED <<pays, completions, clobbers>>

-----------------------------------------------------------------------------
(* The booking a job came from: both rows are saved as they were read *)

\* BookingsService.cancel, while the job waits: the money is settled as by
\* cancelJob, and nothing is checked again.
ReadBookingCancel(q) ==
    Booked /\ job.status = "PENDING" /\ Begin(q, "bookingCancel", NoArtisan)

BookingCancel(q) ==
    /\ At(q, "bookingCancel2")
    /\ SaveOver(q, [req[q].row EXCEPT !.status = "CANCELLED"],
                   [job EXCEPT !.status = "CANCELLED"])
    /\ Done(q)
    /\ UNCHANGED <<apps, pays, completions>>

\* BookingsService.complete of a job without a payment; one with a payment goes
\* through confirmCompletion.
ReadBookingComplete(q) ==
    /\ Booked /\ job.intent = NoIntent
    /\ job.status \notin {"COMPLETED", "CANCELLED"}
    /\ Begin(q, "bookingComplete", NoArtisan)

BookingComplete(q) ==
    /\ At(q, "bookingComplete")
    /\ SaveOver(q, [req[q].row EXCEPT !.status = "COMPLETED"],
                   [job EXCEPT !.status = "COMPLETED"])
    /\ completions' = completions + 1
    /\ Done(q)
    /\ UNCHANGED <<apps, pays>>

-----------------------------------------------------------------------------
(* The environment *)

\* releaseWithheldPayment, by a ruling on a dispute about the booking.  It does
\* not look at the job, which may have parted from its booking.
Release(i) ==
    /\ Disputed /\ Booked /\ CanCapture(pays[i])
    /\ \E p \in Captured(pays[i]) :
          pays' = [pays EXCEPT ![i] = [p EXCEPT !.ruled = TRUE]]
    /\ UNCHANGED <<job, apps, req, completions, clobbers>>

\* The customer pays (applyChargeSuccess).
Pay(i) ==
    /\ pays[i].status = "PENDING"
    /\ pays' = [pays EXCEPT ![i].status = "HELD"]
    /\ UNCHANGED <<job, apps, req, completions, clobbers>>

\* transfer.success, whatever the payment's status.
TransferSucceeds(i) ==
    /\ pays[i].sent
    /\ pays' = [pays EXCEPT ![i].status = "RELEASED"]
    /\ UNCHANGED <<job, apps, req, completions, clobbers>>

\* retry-transfer, by the artisan.
RetryTransfer(i) ==
    /\ pays[i].status = "PENDING_TRANSFER"
    /\ \E p \in Captured(pays[i]) : pays' = [pays EXCEPT ![i] = p]
    /\ UNCHANGED <<job, apps, req, completions, clobbers>>

\* The process dies, a refund is refused, or a write fails.
Drop(q) ==
    /\ req[q] # Idle
    /\ Done(q)
    /\ UNCHANGED <<job, apps, pays, completions, clobbers>>

Next ==
    \/ \E q \in Requests :
         \/ \E a \in Artisans : ReadApply(q, a) \/ ReadAccept(q, a)
         \/ Apply(q)
         \/ HoldPayment(q) \/ AcceptOne(q) \/ RejectOthers(q) \/ Engage(q)
         \/ ReadEdit(q) \/ Edit(q) \/ ReadRemove(q) \/ Remove(q)
         \/ ReadExpire(q) \/ RejectWaiting(q) \/ Expire(q)
         \/ ReadStart(q) \/ Start(q) \/ ReadRequest(q) \/ RequestCompletion(q)
         \/ Complete(q) \/ Capture(q)
         \/ ReadCancel(q) \/ CancelPayment(q, "cancel", "cancel2") \/ Cancel(q)
         \/ ReadBookingCancel(q)
         \/ CancelPayment(q, "bookingCancel", "bookingCancel2")
         \/ BookingCancel(q)
         \/ ReadBookingComplete(q) \/ BookingComplete(q)
         \/ Drop(q)
    \/ \E i \in Intents : Pay(i) \/ TransferSucceeds(i) \/ RetryTransfer(i) \/ Release(i)

Spec == Init /\ [][Next]_vars

-----------------------------------------------------------------------------
(* Properties *)

\* The job's money is meant for the artisan who was engaged for it, through
\* any interleaving of acceptances, edits and stale saves.
PayeeIsEngaged ==
    job.intent # NoIntent =>
        /\ pays[job.intent].artisan = job.artisan
        /\ \/ apps[job.artisan] = "ACCEPTED"
           \/ \A a \in Artisans : apps[a] = "none"     \* a booked job

\* Confirmation, auto-completion and the completion of the booking complete the
\* job once between them; only a save over a concurrent change can take a
\* completion back, or make it again.
CompletedOnce == completions <= 1 + clobbers

\* Without such a save, work that has started was paid for: the payment the
\* job names is or was in escrow.  Only an old booked job has none.
StartedWasPaid ==
    clobbers = 0 /\ job.status \in {"IN_PROGRESS", "COMPLETED"} =>
        IF job.intent = NoIntent THEN \A a \in Artisans : apps[a] = "none"
        ELSE pays[job.intent].status \notin {"none", "PENDING", "CANCELLED"}

\* Without such a save, money that no ruling released goes out for a job that
\* stays completed: it is not cancelled, expired or back to work.
SentForCompleted ==
    clobbers = 0 =>
        \A i \in Intents :
            pays[i].sent /\ ~pays[i].ruled => job.status = "COMPLETED"

\* jobs.service.ts:978-981: even a residual timing edge "can't result in both
\* a refund and a transfer for the same payment".
NeverRefundedAndSent ==
    \A i \in Intents : ~(pays[i].status = "REFUNDED" /\ pays[i].sent)
=============================================================================
