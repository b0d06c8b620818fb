# Formal models of the JIN_VA backend

TLA+ modules of the part of the backend that moves money and decides who may:
payments, their refunds and payouts, the jobs and bookings they are made for,
the disputes that reverse them, the idempotency keys in front of them, and the
accounts, sessions and codes behind every caller. TLC checks each on small
instances; TLAPS proves every safety property that a passing run checks, for
every value of the constants. Line numbers below and in the modules refer to
`src/src/`.

## 1. The system

A NestJS service over PostgreSQL (TypeORM), with Paystack for money. Customers
post jobs or book artisans, a job's money is taken when an artisan is engaged
and kept until the work is confirmed, and is then sent to the artisan or given
back. Several processes may serve requests, and cron jobs run in them too, so
everything that is not under a row lock or in one SQL statement interleaves.

| Component | State | Operations | Talks to |
|---|---|---|---|
| Payment attempts (`payments/payment-attempts.service.ts`, `saved-method-charge.service.ts`) | `payment_charges` rows: status, method, window; `payments.status`, `paystackReference` | initialize a checkout, charge a saved method, submit an OTP, reconcile, release, settle a success, cancel | Paystack initialize, charge, verify; `charge.success` webhook |
| Duplicate refunds (`payments/duplicate-refund.service.ts`) | refund columns of a `payment_charges` row | lease and call, write the answer, retry sweep, refund webhooks | Paystack refund; payments scheduler; notifications |
| Escrow and payout (`payments/payments.service.ts`, `payout-hold.ts`) | `payments` row: status, hold, checks, transfer, refunded amount; the artisan's payout method | capture with a name check, admin refund, cancel, fraud flag, transfer webhooks, retries | Paystack resolve, transfer, refund; jobs, disputes, admin |
| Jobs (`jobs/jobs.service.ts`) | `jobs` and `job_applications` rows | apply, accept, edit, remove, expire, start, request and confirm completion, auto-complete, cancel | payments (hold, secured?, capture, cancel) |
| Idempotency keys (`common/idempotency/`) | `idempotency_keys` rows | begin, complete, fail, purge | every POST that moves money |
| Bookings (`bookings/bookings.service.ts`) | `bookings` rows, the job and payment of each | request, confirm, decline, expire, cancel, complete, no-show, remind; written back by the job | jobs, payments, availability; bookings scheduler |
| Disputes (`disputes/disputes.service.ts`) | `disputes` rows with a claim on a payment | raise, review, close; a ruling: plan, claim, move money, record or roll back | payments (refund, release) |
| Codes (`auth/codes/`, `auth/code-auth.service.ts`) | `auth_codes` and `auth_code_requests` rows | reserve a send, issue, verify, count a wrong try, revoke, purge | mail; sign-in; password reset |
| Accounts (`users/`, `auth/`, `admin/admin.service.ts`) | `users` and `user_tokens` rows | sign in, refresh, sign out, new password, avatar, ban, suspend and their lifting, delete, restore, purge | commitments in jobs, bookings, payments and disputes |
| The rest | profiles, catalogue, reviews, messages, notifications, verification, analytics, uploads | single-row writes and queries | – |

What is hard here: handlers that read a row without a lock and save the whole
entity later (`repo.save` writes every column that differs from what it loads
again just before); Paystack calls whose answer is lost; webhooks that come
twice, late or in the wrong order; checks made before a lock and acted on under
it; a process that dies between two commits; retries with caps and leases.
`PROJECT.json` lists each such place with its line.

What makes the components correct:

- *attempts*: one attempt at most can take money; all money taken is the escrow
  or owed back; what is settled stays settled.
- *refunds*: the escrow is never refunded as a duplicate; a refund is asked for
  a bounded number of times, told once, never reopened, and ends.
- *payouts*: money goes only to an account whose name was confirmed; at most one
  transfer lives; the row claims nothing that did not happen.
- *jobs*: the payee is who was engaged; work begins after payment; a job is
  completed once; money leaves for a completed job, or by an admin's ruling,
  which does not look at the job.
- *keys*: a key lets one request run at a time, a rerun has a reason, a replay
  is one's own.
- *bookings*: an artisan is not booked twice for one time; a customer has a
  bounded number of open requests; an expired request bills nobody; a booking,
  its job and its payment end together, unless a late save of the job is written
  over its end.
- *disputes*: rulings move a payment's money once; a ruling that failed leaves
  no trace; what is closed stays closed.
- *codes*: a code is single use and dies of too many wrong tries, whose number
  concurrency may exceed only by the requests there are; exactly one of them
  answers for its death, and records it if it can.
- *accounts*: a refresh token is redeemed once; a new password ends the sessions
  of the old one; sanctions stand; a purged account stays purged.

## 2. The modules

| Module | Models | Checked by | Proved in |
|---|---|---|---|
| `PaymentAttempts` | the references of one payment, from claim to settlement | `attempts` | `PaymentMoney_proofs` |
| `DuplicateRefund` | the refunds of one payment's duplicate references; also the abstract specification the attempts must meet | `refunds` | `DuplicateRefund_proofs` |
| `PaymentMoney` | both together: extends the attempts, instantiates the refunds with `holder` defined from the attempts' state | `money` | `PaymentMoney_proofs` |
| `Payouts` | the payment from HELD on, the payout method, Paystack's transfers | `payouts` | `Payouts_proofs` |
| `Jobs` | one job, its applications and payments, requests that read now and save later | `jobs`, `jobs_refund` | `Jobs_proofs` |
| `IdempotencyKeys` | the row of one key and the requests that carry it | `keys` | `IdempotencyKeys_proofs` |
| `Bookings` | one artisan's bookings, each with its job and payment | `bookings` | `Bookings_proofs` |
| `Disputes` | the disputes of one booking, the rulings on them and the payment they move | `disputes` | `Disputes_proofs` |
| `MoneyClaim` | abstract: a payment is claimed before it is moved, and a claim that moved it is not given up | by `Disputes` implementing it | `Disputes_proofs` |
| `AuthCodes` | one address's codes and the requests that send and check them | `codes` | `Access_proofs` |
| `OneTimeCode` | abstract: a code is unsent, usable, then used or dead for good | by `AuthCodes` implementing it | `Access_proofs` |
| `Accounts` | accounts, passwords, refresh tokens, and requests that write the row they read | `accounts`, `accounts_admin` | `Access_proofs` |
| `MC*` | the small instances: symmetry sets and the bookings' windows; every other constant gets its value in the `.cfg` | | |

A definition whose comment begins "Mutant:" is not part of any specification. It
states what the definition after it would be with a plausible bug; used in its
place, it makes TLC find the property violated that is meant to catch that bug.

State and actions follow the code like this.

**PaymentAttempts.** `payment` and `paidRef` are the payment's status and
reference, `status`, `kind`, `past` the columns of each `payment_charges` row.
`remote` is Paystack's state of each reference, which the code sees only in
replies. What is under way outside a transaction is state of its own:
`starting` (an attempt whose Paystack call has not been made), `replies` (an
answer received, not yet written) and `asks` (a verification answered, its
release not yet written). `Claim` is the locked transaction of `claim`,
`Settle` the one of `applyChargeSuccess`, `ApplyReply` and `Release` the
conditional updates after a call; `Crash` loses everything that is not a row.

**DuplicateRefund.** `refund`, `tries`, `due` are the columns `refundStatus`,
`refundAttempts`, `refundNextAttemptAt` (set and passed); `calls` are the calls
under way, which keep what they will write; `outcome` is what Paystack did;
`told` counts the notifications. `Lease` is the first transaction of `process`,
`WriteAnswer` the conditional update after the call (whose guard is
`AwaitsAnswer`), the `Webhook...` actions the three branches of
`onRefundWebhook`. `bounced` are references for which a `refund.failed` may
still be delivered again, after a later refund went through.

**PaymentMoney.** A step is one of the attempts, together with
`BecomesDuplicate` when it marks a reference duplicate, or one of the refunds.
`delivered` is a history variable: the references of which a success reached
`applyChargeSuccess`, by webhook, by verification or by reconciliation.

**Payouts.** A transaction under the row lock is one action; the name check
before it is another (`Precheck`), so details may change in between. Webhooks
and the fraud flag are `Read` and `Save`, and `Save` writes what TypeORM's
`save` writes: the whole stale row, or only the new status where its reload
came before the concurrent change.

**Jobs.** `req` holds for each request what it is about to do and the row it
read. `acceptApplication` has four commits, hence `accept`, `accept2`,
`accept3`, `accept4`; `cancelJob` reads, settles the payment, and checks again
under the lock (`ReadCancel`, `CancelPayment`, `Cancel`). `Complete` is the
locked transaction of confirmation and auto-completion; the capture after it is
another commit. The payment is reduced to what jobs read and write of it. A job
begins OPEN, or with its artisan if a booking made it, with the payment
`BookingsService.confirm` holds or, in old data, without one. A booked job is
also written by its booking, which reads it and saves it later
(`ReadBookingCancel` to `BookingCancel`, `ReadBookingComplete` and
`BookingComplete`), and its payment is released by a ruling on a dispute
(`Release`), whatever the job's status. `ruled` remembers that; `Disputed` says
whether there are such rulings.

**IdempotencyKeys.** `row` is the key's row; `req` is where each request stands:
the round of `begin` it is in, the row it saw, the run it makes or the answer it
got. A read and the write that follows it are separate, as in the code. A round
of `begin` is assumed to be shorter than `IDEMPOTENCY_STALE_MS` (two minutes):
a request does not sleep that long between its read and its conditional update.

**Bookings.** `booking`, `job` and `bill` are the three rows of each booking;
`req` holds what a request has read. `Create` and `Confirm` are the transactions
under a row lock, `Create` after the unlocked computation of the free windows
(`ReadCreate`). `decline`, `cancel`, `complete`, `flagNoShow` and the reminder
read, decide, and save the entity without a lock, hence two actions each, and
four for `cancel` (booking, job, payment, both rows). `Save` writes the handler's
status over whatever the row has become. An expiry run lists (`overdue`) and then
claims each row by a conditional update; a reminder run lists the bookings
(`reminding`) and saves each as it was listed. The handlers of the job are
requests too: `startJob` and `requestCompletion` read the job and save the whole
row later (`SaveRunning`), `confirmCompletion` is its locked transaction and
then the capture, `cancelJob` a check, the refund, and the check again under the
lock. `syncLinkedBooking` is `Sync`. `revived` remembers bookings that a reminder
put back to CONFIRMED, `reopened` those whose ended job a late save put back to
work. `Followed` bounds the model: only these bookings are paid, worked on,
completed, flagged and reminded of; every booking can be requested, confirmed,
declined, cancelled and expire.

**Disputes.** `row` is each dispute, `work` each admin's ruling: what it read
(`was`, `hadVerdict`), what it will do (`money`, `units`) and where it stands.
`Plan` is `resolve` up to its first write, `Claim` the conditional update that
takes the dispute and the payment in one statement, `ClaimDenied` its unique
violation, `MoveRefund` and `CaptureForRuling` the calls of the payments
service, `SeeRelease` the read of what came of a release, `Rollback` and
`Record` the last writes. `pay` and `out` are the payment and the transfer as
rulings see them, moved by `OthersPay`, `OthersCapture` and the transfer webhooks
too. `moves` counts what rulings moved, `confirmed` what they learned of.

**AuthCodes.** Every SQL statement is an action. `code` numbers the rows as they
are inserted; `call` is the stage of each caller's request; `reserveSend` is the upsert with cooldown and cap; `IssueDelete`
and `IssueCommit` are the two statements of `issue`, since a second transaction
does not see the first one's insert; `ReadCode` reads and compares; `Accept`
and `AcceptLost` are the outcomes of the update that spends, `CountWrong` and
`CountGone` those of the one that counts. `verify` takes the time once and gives
it to both of its statements, so the update that spends tests the expiry as of
the read: `Spendable` does not look at `expired`, `ReadCode` does. `CountGone` is
the update that returns no row, which `verify` takes for the last try. A request
whose try locked the code goes on to record that (`locked`, `recordBestEffort`),
which may fail or never be reached. `uses`, `told` (codes whose lock was recorded)
and `lost` (those whose record failed) are ghosts.

**Accounts.** `req` is the stage of each request: `write` holds the whole row it
read (admin writes, a password change, a reset by link, an avatar), `hash` a
reset by code, `revoke` the deletion of sessions after a new password or a ban,
`session` an insert of a refresh token to come, `redeem` a refresh token found
and not deleted yet, `leave` and `softDelete` a deletion past its check,
`restore` a restore past its lookup. `owes` are the users with a live booking,
job, payment or dispute; others than the user may bring one about at any time, on
a deleted account too (`Owe`), so it is an environment that the deletion's check
reads. Passwords are numbered, and a token carries the number its session goes
back to. `doomed` is what a purge run has listed; its log-only mode changes
nothing and so is no step. `ordered`, `stale`, `cut` and `heirs` are ghosts that
the properties speak of.

Faults and stale saves are counted or remembered (`faults`, `lost`, `crashes`,
`clobbers`, `excuses`, `revived`, `reopened`, `stale`, `cut`, a token's `late`) so
that a property can say what holds without them and what one of them may do: the
code itself relies on the fault not happening, and nothing it does after such a
fault could restore the property.

## 3. The runs

Runs that must pass:

| Run | Instance | Distinct states | Shows |
|---|---|---|---|
| `attempts` | three references, one of them the payment's own; one saved kind; refused verifications | 4.6 million | `OneActiveAttempt`, `MoneyAccounted`, `HolderNeverReplaced`, `SettledStays` |
| `refunds` | one reference, cap of 3, at most 3 faults | 45 thousand | `HolderNeverRefunded`, `ToldAtMostOnce`, `CallsBounded`, `NeverReopened`, and under fairness `RefundEnds` |
| `money` | two references, cap of 1, no faults | 55 thousand | `RefundsAreDuplicates`, the refinement `ImplementsRefunds`, and under fairness `MoneyEnds`: a success that reached the server once is not dropped |
| `payouts` | two captures and one unlocked handler at once, amount 2, two checks, two transfers, two payout methods, one fault | 4.2 million | `SentOnlyIfMatched`, `MoneyClaimsTrue`, `AtMostOneLive` |
| `jobs` | two artisans, three requests at once, two payments, one stale save, with rulings | 0.9 million | `PayeeIsEngaged`, `CompletedOnce`, `StartedWasPaid`, `SentForCompleted` |
| `keys` | three requests, two fingerprints, three runs of the handler | 4.3 million | `OneRuns`, `RunsExcused`, `ReplayIsOwn` |
| `bookings` | two bookings, two customers, two windows that touch, two requests at once, a cap of 1; one of the bookings followed beyond its confirmation | 4.2 million | `TypeOK`, `NoDoubleBooking`, `PendingCapped`, `ExpiredUnbilled`, `CompletedTogether`, `CancelledUnbilled` |
| `disputes` | two disputes, two admins, amount 2, one fault | 1.2 million | `OneMovement`, `NoPhantomVerdict`, `ClosedStands`, the refinement `ImplementsClaim` |
| `codes` | two purposes, two requests, two tries, one send an hour, two codes | 1.4 million | `TriesBounded`, `LockToldOnce`, the refinement `ImplementsOneTimeCode` |
| `accounts` | one user, three refresh tokens, two requests, one new password | 0.9 million | `RedeemedOnce`, `OldSessionsEnd`, `SanctionsStand`, `PurgedForGood` |

Why the bounds are enough. Three references are the smallest number at which
one attempt is held, one settles late and one is claimed at the same time. The
refunds of different references touch only their own columns and `holder`, so
one reference with overlapping calls, every webhook and three faults shows each
order of two calls and a sweep; `money` adds a second reference. A second live
transfer needs two; a change of details between check and transfer needs two
methods; a partial refund needs an amount of two; one stale save or lost answer
is what the properties speak of. In `jobs` three requests let two acceptances
race while a third request cancels, expires or starts. With three requests on a
key one runs, one takes over and one replays. A double booking is about two
bookings, of the same window or of windows that touch; a race of two handlers on
one booking, with expiry, job and payment beside them, is what every property of
`bookings` is about. The other booking need only be there to take a window or a
place under the cap: it is declined, cancelled or expires, or stays confirmed. Two disputes, one per party, are all a booking has, and two
admins are the smallest race for them. Two tries and two requests are the least
with which the tries can be exceeded; a second code replaces the first. The
properties of `accounts` are each about one account; three tokens let one be
redeemed twice and still issue another, and administrators, which need a second
account, have a run of their own. Counters the code does not bound are cut: runs
under a key (`MaxRuns`), checks past the cap (`MaxChecks + 1`, which people's own
retries could go on raising), codes (`MaxCodes`), new passwords (`MaxPasswords`).
The proofs hold for every value of these bounds.

Deadlock is checked for `keys`, where a request may always begin or end. The
other models stop by right: a payment that is paid out or refunded, a job that
is cancelled, a refund that ended, or a bound that is used up (the bookings,
codes, tokens and passwords there may be) leaves nothing to do.

Fairness. `Lease` and `FallDue` are weakly fair since the scheduler
(`scheduler/payouts-scheduler.service.ts:38-57`) runs for ever, and a refund call
that is not lost is answered and its answer written. `Settle` is not fair:
`charge.success` may never arrive (`payments.service.ts:1063-1065`), and one for
an unknown reference or of another amount is acknowledged and settles nothing
(`1606-1611`, `1707-1713`). So `MoneyEnds` speaks of successes that did reach
`applyChargeSuccess`, and the models say nothing of when the others do. Nothing a
person does is fair: the customer may never come back. The other modules state no
fairness and promise no progress: what they wait for is a person, Paystack, or a process that
may have died.

Runs in which the code disagrees with a comment (the trace is the argument):

| Run | Comment | What happens |
|---|---|---|
| `jobs_refund` | a timing edge "can't result in both a refund and a transfer for the same payment" (`jobs.service.ts:978-981`) | a cancellation that read the job before completion was requested refunds a payment whose transfer is out |
| `accounts_admin` | "What is refused is the deletion that leaves nobody" (`account-commitments.service.ts:153-154`) | two administrators who delete their accounts at once are each other's cover, and both go |

Behaviours the models also show, which are stated here because no property of a
passing run forbids them:

- The customer may pay between a verification and the release it causes, so a
  success is released despite "Never releases a success"
  (`payment-attempts.service.ts:384`). The money is safe: the webhook settles an
  expired attempt too (`MoneyAccounted`).
- If `refund.processed` comes before the answer of the refund call, the customer
  is never told (`duplicate-refund.service.ts:50-51`); `ToldAtMostOnce` is the
  other half.
- A repeated `transfer.failed` moves a payout that waited for a name check to
  TRANSFER_FAILED, which the scheduler does not select (`payments.service.ts:489`).
- Two acceptances at once each create a payment row; `PayeeIsEngaged` holds all
  the same.
- A handler that was taken over stores its response over its successor's, or
  deletes the key.
- A decline that was read before a confirmation saves DECLINED over it, and leaves
  a live job (`bookings.service.ts:555`); `DeclinesUnbilled` shows that nothing
  else leads to one. A reminder saves CONFIRMED over a
  booking that ended meanwhile (`bookings.service.ts:909`), and its window may
  have been given away: the one exception in `NoDoubleBooking`.
- A whole-row write undoes a ban or a suspension that came after its read
  (`users.service.ts:1046`): the exception in `SanctionsStand`.
- A sign-in with the old password that is under way inserts its session after the
  new password revoked the others: the exception in `OldSessionsEnd`.
- A start of a booked job, or the request to complete it, that was read before the
  booking or the job was completed saves the job as running over its end
  (`jobs.service.ts:768-790`, `818-836`): a COMPLETED booking with a running job,
  despite "The two
  now finish together" (`bookings.service.ts:667-668`). It is the
  exception in `CompletedTogether`.
- A ruling on a dispute sends a payment that is held whatever became of its job
  (`payments.service.ts:1319-1346`): the exception in `SentForCompleted`.
- A deleted account may owe again, at any time: by what was made between the check
  and the deletion, which share no lock (`users.service.ts:457`), by a reminder's
  late save (`bookings.service.ts:909`), or by a transfer that fails after its
  release (`payments.service.ts:1813-1832`). No line promises that it does not, so
  no property does.
- A code that expires between the read of a check and its update is accepted
  (`auth-code.service.ts:241`, `281-285`), for as long as that check takes.
- The lock of a code goes unrecorded when the insert fails or the process dies
  first (`code-auth.service.ts:198-206`): `lost`, beside `told`, in `LockToldOnce`.
- Wrong codes checked at once exceed the limit by as many as there are requests,
  less one (`TriesBounded`).
- A wrong code whose row was spent or replaced meanwhile is answered, and logged,
  as the last try of a locked code.

## 4. The proofs

The eight `*_proofs` modules prove, for every set of references, artisans,
requests, disputes, bookings or users and every bound, that an inductive
invariant holds and that it implies the safety properties the runs check. They
assume what the modules' named `ASSUME`s say of the constants, nothing else. Each
has a theorem `Invariant` (the inductive invariant) and `TypeCorrect`.
`PaymentMoney_proofs` is about the attempts and their composition with the
refunds, `Access_proofs` about accounts and codes.

- **Attempts** (`Invariant`). `IInv` is `TypeOK`, `OneActiveAttempt`,
  `MoneyAccounted` and two strengthenings. `PaidNamesHolder`: a paid payment
  names the reference that paid it and a pending one names none, so a success
  that finds the payment pending displaces nobody. `StartingUnseen`: Paystack
  has not seen an attempt whose call is still to be made, so that call cannot
  undo a success. `HolderStays` and `SettledForGood` are action properties that
  follow from `IInv` step by step: every write after a call is conditional on a
  status that may still change.
- **Refunds** (`Invariant`). Besides the properties, `IInv` says that a reference
  with no refund has no call and no outcome (`NoneMeansNothing`), that an answer
  waiting to be written is true of Paystack (`AnswersTrue`), and that of a refund
  still due nobody was told (`DueUntold`). The last is why a second answer cannot
  tell twice: telling and leaving the due statuses are one update.
  `Capped` needs a second invariant beside `IInv`. `Overlap`: a row that is due
  has only calls that a fault put beside it. `Budget`: tries, plus the lease a row
  is ready for, never exceed one, plus the failures below the cap, plus faults.
  The failures are counted as tries below the cap less calls still under way, so
  that a lease, its call and its failed answer leave the balance as it was.
- **Attempts and refunds together** (`MoneyInvariant`, `Marked`, `Refinement`).
  The attempts' `IInv` is kept, and a reference has a refund exactly if it is a
  duplicate. Then a settlement that makes a holder makes it of a reference with no
  refund where there was none, which is `BecomesHolder`; one that marks a
  duplicate is `BecomesDuplicate`; every other attempt step is a stutter of the
  refund service.
- **Keys** (`Invariant`). Runs are numbered as they start and no two running
  requests share a number (`Numbered`); a row that a round saw stale is stale as
  long as nobody touched it (`SeenStays`); while no handler outlives its window
  the one that runs owns the key, and the row is neither stale, expired nor
  answered (`RunnerOwns`). `OneRuns` follows, since two owners would be one.
  `RunsExcused` needs the sum `Credit`: runs, and an expiry that a later
  take-over may still use, never exceed the excuses given, plus one while the
  row or its owner covers a run. `ReplayIsOwn` needs `SameRequest`: ids are never
  used again, so who runs on a row, or is about to take it over, was checked
  against that row's request.
- **Payouts** (`Invariant`). What makes stale saves harmless is that each part of
  the invariant is said of every row that a handler holds and not only of the
  table's: `ClaimsTrue` (RELEASED, REFUNDED and the refunded amount are true of
  Paystack, and stay so since Paystack's outcomes are final) and `CapsKept` (the
  scheduler's column follows the number of checks). `MatchesTrue` ties a check
  under way to a confirmed method, from which `SentOnlyIfMatched` follows since
  the capture compares the method on file with the checked one. `LiveIsNamed`,
  without faults: the only live transfer is the one the row names, the status
  keeps captures away from it, and a webhook about to make the payment
  capturable again speaks of a transfer that is gone.
- **Jobs** (`Invariant`). `ReadStatus` says what status a request's row has by
  what it is doing; `Accepting` that an acceptance has its payment and its
  application; `PayeesNamed` that every row, stale ones included, names its
  payment's artisan. A job is for ever booked (`BookedJob`: no application, never
  open in any row) or posted (`PostedJob`: every row that has a payment names an
  accepted applicant), which gives `PayeeIsEngaged` even after stale saves.
  `Counted` charges each further completion, of the job or by its booking, to a
  save over the last one, and `Clean` holds what is true without such saves:
  `UnpaidIsBooked`, `StartedPaid`, and `CapturedDone`, which leaves out what a
  ruling released.

- **Bookings** (`Invariant`). `Unconfirmed`: a booking nobody confirmed has no job
  and no bill, so an expiry, which is conditional on PENDING, bills nobody.
  `ConfirmedHasJob` and `ReadsHold` say what a request's old reads are still good
  for: a job that was there is there, a payment that was voided is, a job that had
  ended has. They carry `CompletedTogether` and `CancelledUnbilled` through saves
  of stale rows; where a save of the job undoes an end, `reopened` says so.
  `RemindedExist`: what a reminder run has listed was confirmed, so the CONFIRMED
  it writes has its job. `WaitingCounted` is the cap, with the finiteness that counting
  needs.
- **Disputes** (`Invariant`, `Refinement`). `Holding`: a ruling past its claim
  still finds its money action in the row, closed or not, since only its own
  rollback reopens the dispute; `Apart`: so no second ruling is past its claim on
  the same dispute; `OneClaim` is the unique index. `ConfirmedHeld` and
  `SentShows` say that a ruling which learned of its money cannot come to fail: a
  transfer it sent is what `SeeRelease` sees. `Accounted` is `OneMovement` as an
  equation. `CleanPlan` makes the rollback restore a row without a verdict. From
  `OneClaim` and `ConfirmedHeld` each step maps to a claim, a movement, a
  reversal, a claim given up without movement, or a stutter of `MoneyClaim`.
- **Accounts** (`Invariant`). `HeirsFollow`: a session is continued from a token
  only by the request whose delete removed the token's row. `WritesLive` and
  `OldIsQuiet` keep whole-row writes and restores away from an account past its
  recovery window, which gives `PurgedForGood`.
- **Codes** (`CodesInvariant`, `CodesTypeCorrect`, `CodesRefinement`).
  `TriesCovered` is `TriesBounded` made inductive: the wrong tries a row counts,
  together with the requests that compared a wrong code with it and have not
  counted it yet, stay below the limit plus the number of requests, since a
  request compares only with a row below the limit and is one of those it adds
  to. It is the one proof here that counts requests, and so needs them to be
  finitely many. `LockToldOnce` is kept as it stands: tries only grow by one, so
  one update alone takes them to the limit, and who made it is about to tell or has
  told. `SentInOrder` (the rows are numbered without gaps) makes the next
  number an unsent one; `CallsSent`: requests hold only codes that were sent;
  `UsesTrue`: a row says whether its code was used, so an update that finds the
  row unspent is the first. For the refinement each code's `Fate` is read off its
  row; every statement then is a use, a sending that replaces others, a death of
  several, or a stutter of `OneTimeCode`.

Liveness under fairness and ENABLED are out of this prover's reach, so
`RefundEnds` and `MoneyEnds` are only model-checked. No module needs a RECURSIVE
operator or an induction over data.

Seven results go beyond what the runs state: one on the way of the money, and
six that say under which condition something holds that the code alone does not
ensure.

- `RefundsOnlyDuplicates` speaks of the whole way of a customer's money, in
  `PaymentMoney`: whatever is being refunded automatically, or has been, is a
  settled duplicate that Paystack took and that the payment does not hold.
  `HolderKeepsItsMoney` says the same of the holder. Both rest on
  `NoneMeansNothing`, which is kept in the composition too. (`Refinement` gives
  them at the level of the refund service's specification, but the prover does not
  carry theorems through an INSTANCE, so they are proved where they are used.)
- `NotRefundedAndSent` and `LastAdminStaysInTurn` say what the two comments that
  the code violates would need to be true. The claim of `jobs.service.ts:978-981`
  holds in every behaviour in which `cancelJob`'s check is still true at the moment
  it, or the cancellation of the booking, settles the money (`ChecksWhereItRefunds`), no save landed over a change, and no
  ruling released the payment: the comment speaks of the race with completion, and
  the run `jobs_refund` has no rulings.
  The claim of `account-commitments.service.ts:153-154` holds in every behaviour
  in which requests that may end an administrator's powers (a deletion past its
  check, a write of his row) do not overlap (`OneAtATime`); the invariant is that
  somebody else can act from the check until the deletion (`LeavingCovered`).
  Administrators do leave in such behaviours. The conditions are hypotheses of
  these two theorems alone: the code does not ensure them, which is what the two
  violation runs show.
- Four theorems say of a behaviour in section 3 or 5 that it is the only way to
  its outcome. Each holds of the behaviours of `Spec` whose steps meet the named
  condition; TLC finds states that violate the conclusion when the condition is
  dropped, and when any one of the three in `CarefulRefunds` is.
  `CompletionIsCaptured` (`Jobs`): if no capture that could still be made is lost
  (`CapturesRun`) and no save lands over a change, the money of a completed job
  that is in escrow, untouched, has its capture on the way; so a payment stays HELD
  after a completion for no other reason. `NotRefundedAndPaid` (`Payouts`): without
  faults no payment is refunded, in part or in full, and paid out, if refunds are
  made of all that is left, while no transfer is alive, and no webhook is saved over
  REFUNDED (`CarefulRefunds`); the invariant is that a refund leaves the status
  REFUNDED, which no capture accepts. `DeclinesUnbilled` (`Bookings`): a declined
  request has no job and no bill if `decline` saves only what is still PENDING
  (`DeclinesWaiting`), as the expiry's conditional update does.
  `NeverDoubleBooked` (`Bookings`): if no reminder's save changes a booking
  (`RemindersKeep`), nothing is revived and `NoDoubleBooking` has no exception.

## 5. What is left out

- Amounts in minor units, currency, commission and fee arithmetic: no property
  here depends on more than "all", "part" and "none" of an amount.
- Notification, mail and push: best effort after the commit. `told` in
  `DuplicateRefund` counts the event; a crash between the update and its
  notification is left out.
- Guards, throttling and webhook signatures: every action assumes a caller the
  controllers let through, except where `Accounts` models the check of a live and
  unsanctioned account.
- The text of Paystack's answers: `mapChargeReply` is modelled by the status it
  chooses. A malformed answer counts as a lost one.
- Whether a partial refund of a payment may be followed by a capture in full
  (`Payouts` lets it happen; the repository does not say what is right, so no run
  forbids it). `NotRefundedAndPaid` says what rules it out.
- Whether a payment that stays HELD since the process died between completion and
  capture is ever sent: nothing retries it by itself, and nothing says something
  should. `CompletionIsCaptured` says that only a lost capture leads there.
- Hours of work and their exceptions: `Bookings` takes the windows that an artisan
  may be booked for as a constant. Clocks are choices: any window may pass, any
  reminder be due, any code expire.
- Listings, searches, metrics and exports, which change nothing.
- The status `cancelled` of an attempt: only `cancelForAccountDeletion`
  (`payment-attempts.service.ts:585-604`) writes it, which nothing but its test calls.
- Pending sign-ups, sign-up by code, the OAuth exchange and the counter of failed
  sign-ins.
- The components marked `not_modelled` in `PROJECT.json`, each with its reason:
  they write single rows that no protocol reads, or read only.

## 6. Plan

1. One model for `Bookings` and `Jobs`, which now each carry the part of the other
   that writes their rows, and the composition of `Disputes` with `Payouts`.
2. Pending sign-ups and the OAuth exchange, beside `Accounts`.
3. Reviews, verification and messages, if they come to be more than single rows.
