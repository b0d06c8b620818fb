--------------------------- MODULE IdempotencyKeys ---------------------------
(***************************************************************************)
(* One Idempotency-Key of one user on one payment route, and the requests  *)
(* sent with it (common/idempotency).  IdempotencyService.begin runs a     *)
(* loop of separate SQL statements, so other requests, the hourly purge,   *)
(* the passing of time and a crash fall between any two of them; the       *)
(* response is stored, or the key released, by the key row's id.           *)
(*                                                                         *)
(* The clock is two marks on the row: stale, when updatedAt is more than   *)
(* IDEMPOTENCY_STALE_MS ago, and expired, when expiresAt has passed.  A    *)
(* round takes the time once, at its insert: what is stale or expired for  *)
(* it was so then.  A round is taken to be shorter than                    *)
(* IDEMPOTENCY_STALE_MS, so a claim that another round has refreshed since *)
(* it was read is not stale yet.                                           *)
(***************************************************************************)
EXTENDS Naturals

CONSTANTS Requests,      \* requests in flight at once
          Fingerprints,  \* the method, path and body of a request, hashed
          MaxRuns,       \* bound: times a handler is started
          NoResponse

Runs == 1..MaxRuns
Responses == [run : Runs, f : Fingerprints]     \* who produced it, for what

ASSUME BoundAssumption == MaxRuns \in Nat
ASSUME ResponseAssumption == NoResponse \notin Responses

Rounds == 1..3     \* begin gives up after three rounds

\* A key row: its id is the number of the run that inserted it, run that of
\* the run that claimed it last.
Rows == [id : Runs, run : Runs, f : Fingerprints,
         stored : Responses \cup {NoResponse},
         stale : BOOLEAN, expired : BOOLEAN]
NoRow == [id |-> 0]

VARIABLES row,        \* the row of this key, or NoRow
          req,        \* of each request: where it is and what it has read
          runs,       \* handlers started so far
          outlived,   \* a handler was under way when its key went stale or
                      \* expired, or began on an expired key
          excuses     \* reasons so far for the handler to run once more

vars == <<row, req, runs, outlived, excuses>>

\* The marks a round has seen on the row that kept it from inserting.
Sights == [id : Runs, run : Runs, stale : BOOLEAN, expired : BOOLEAN]
Sight(k) == [id |-> k.id, run |-> k.run, stale |-> k.stale,
             expired |-> k.expired]

Idle == [at |-> "idle"]
Beginning == [at : {"insert", "read", "drop", "take"}, f : Fingerprints,
              round : Rounds, seen : Sights \cup {NoRow}]
Running == [at : {"run"}, f : Fingerprints, id : Runs, run : Runs]
Replayed == [at : {"replayed"}, f : Fingerprints, got : Responses]

(***************************************************************************)
(* Types: the key row, the requests, and the ghosts that count.            *)
(***************************************************************************)
TypeOK ==
    /\ row \in Rows \cup {NoRow}
    /\ req \in [Requests -> {Idle} \cup Beginning \cup Running \cup Replayed]
    /\ runs \in 0..MaxRuns
    /\ outlived \in BOOLEAN
    /\ excuses \in Nat

Init ==
    /\ row = NoRow
    /\ req = [r \in Requests |-> Idle]
    /\ runs = 0
    /\ outlived = FALSE
    /\ excuses = 0

-----------------------------------------------------------------------------
(* IdempotencyService.begin *)

At(r, where) == req[r].at = where
Goto(r, state) == req' = [req EXCEPT ![r] = state]

\* The request is answered: by its own handler, or with 409 or 422.
Answer(r) == Goto(r, Idle)

\* The handler is started by run runs + 1, on the row of this id.
StartRun(r, id) ==
    /\ runs < MaxRuns
    /\ runs' = runs + 1
    /\ Goto(r, [at |-> "run", f |-> req[r].f, id |-> id, run |-> runs + 1])

NextRound(r) ==
    IF req[r].round + 1 \in Rounds
    THEN Goto(r, [req[r] EXCEPT !.at = "insert", !.round = @ + 1])
    ELSE Answer(r)

\* A client sends the key with a request: the first time, or as a retry.
Begin(r, f) ==
    /\ req[r].at \in {"idle", "replayed"}
    /\ Goto(r, [at |-> "insert", f |-> f, round |-> 1,
               seen |-> NoRow])
    /\ UNCHANGED <<row, runs, outlived, excuses>>

\* INSERT ... ON CONFLICT DO NOTHING: whoever inserts the row runs.
Insert(r) ==
    /\ At(r, "insert")
    /\ IF row = NoRow
       THEN /\ StartRun(r, runs + 1)
            /\ row' = [id |-> runs + 1, run |-> runs + 1, f |-> req[r].f,
                       stored |-> NoResponse, stale |-> FALSE,
                       expired |-> FALSE]
       ELSE /\ Goto(r, [req[r] EXCEPT !.at = "read", !.seen = Sight(row)])
            /\ UNCHANGED <<row, runs>>
    /\ UNCHANGED <<outlived, excuses>>

SameRow(r) == row # NoRow /\ row.id = req[r].seen.id
ExpiredThen(r) == SameRow(r) /\ req[r].seen.expired
StaleThen(r) == SameRow(r) /\ row.run = req[r].seen.run /\ req[r].seen.stale

\* Mutant: a stale key is taken over before it is asked whose request it was.
VerdictStaleFirst(r) ==
    CASE ExpiredThen(r) -> "drop"
      [] ~ExpiredThen(r) /\ row.stored = NoResponse /\ StaleThen(r) -> "take"
      [] OTHER -> IF row.f # req[r].f THEN "reused"
                  ELSE IF row.stored # NoResponse THEN "replay" ELSE "busy"

\* What the row that was found means for the request: the checks in order.
Verdict(r) ==
    IF ExpiredThen(r) THEN "drop"
    ELSE IF row.f # req[r].f THEN "reused"
    ELSE IF row.stored # NoResponse THEN "replay"
    ELSE IF StaleThen(r) THEN "take"
    ELSE "busy"

\* findOne, and what follows from the row found.
Read(r) ==
    /\ At(r, "read")
    /\ IF row = NoRow THEN NextRound(r)
       ELSE IF Verdict(r) \in {"drop", "take"}
       THEN Goto(r, [req[r] EXCEPT !.at = Verdict(r)])
       ELSE IF Verdict(r) = "replay"
       THEN Goto(r, [at |-> "replayed", f |-> req[r].f, got |-> row.stored])
       ELSE Answer(r)
    /\ UNCHANGED <<row, runs, outlived, excuses>>

\* DELETE of the expired row that was read, then another round.
DropExpired(r) ==
    /\ At(r, "drop")
    /\ row' = IF SameRow(r) /\ row.expired THEN NoRow ELSE row
    /\ NextRound(r)
    /\ UNCHANGED <<runs, outlived, excuses>>

\* Mutant: whoever has read a stale key takes it over.
ClaimableIfRead(r) == SameRow(r) /\ row.stored = NoResponse

\* The UPDATE's own condition: in progress and not touched since it was read.
Claimable(r) ==
    SameRow(r) /\ row.stored = NoResponse /\ row.run = req[r].seen.run

TakeOver(r) ==
    /\ At(r, "take")
    /\ IF Claimable(r)
       THEN /\ StartRun(r, row.id)
            /\ row' = [row EXCEPT !.run = runs + 1, !.stale = FALSE]
            /\ outlived' = (outlived \/ row.expired)
       ELSE Answer(r) /\ UNCHANGED <<row, runs, outlived>>
    /\ UNCHANGED excuses

-----------------------------------------------------------------------------
(* The end of a handler: IdempotencyInterceptor, complete and fail *)

\* Mutant: a finished handler's response is not stored.
StoredNever(r) == row

\* UPDATE by id: whatever the row holds, if it is still there.
Stored(r) ==
    IF row # NoRow /\ row.id = req[r].id
    THEN [row EXCEPT !.stored = [run |-> req[r].run, f |-> req[r].f],
                     !.stale = FALSE]
    ELSE row

\* A success, or a client error that a retry would meet again.
Complete(r) ==
    /\ At(r, "run")
    /\ row' = Stored(r)
    /\ Answer(r)
    /\ UNCHANGED <<runs, outlived, excuses>>

\* Storing, or releasing, fails: that is logged, and the answer sent.
LoseResponse(r) ==
    /\ At(r, "run")
    /\ Answer(r)
    /\ excuses' = excuses + 1
    /\ UNCHANGED <<row, runs, outlived>>

\* Any other error deletes the key by id: a retry runs again.
Release(r) ==
    /\ At(r, "run")
    /\ row' = IF row # NoRow /\ row.id = req[r].id THEN NoRow ELSE row
    /\ Answer(r)
    /\ excuses' = excuses + 1
    /\ UNCHANGED <<runs, outlived>>

Crash(r) ==
    /\ req[r].at \notin {"idle", "replayed"}
    /\ Goto(r, Idle)
    /\ excuses' = IF At(r, "run") THEN excuses + 1 ELSE excuses
    /\ UNCHANGED <<row, runs, outlived>>

-----------------------------------------------------------------------------
(* Time *)

OnRow(r) == At(r, "run") /\ row # NoRow /\ req[r].id = row.id
Owner(r) == OnRow(r) /\ req[r].run = row.run

GoStale ==
    /\ row # NoRow /\ row.stored = NoResponse /\ ~row.stale
    /\ row' = [row EXCEPT !.stale = TRUE]
    /\ IF \E r \in Requests : Owner(r)
       THEN outlived' = TRUE /\ excuses' = excuses + 1
       ELSE UNCHANGED <<outlived, excuses>>
    /\ UNCHANGED <<req, runs>>

Expire ==
    /\ row # NoRow /\ ~row.expired
    /\ row' = [row EXCEPT !.expired = TRUE]
    /\ outlived' = (outlived \/ \E r \in Requests : OnRow(r))
    /\ excuses' = excuses + 1
    /\ UNCHANGED <<req, runs>>

\* purgeExpired, every hour.
PurgeExpired ==
    /\ row # NoRow /\ row.expired
    /\ row' = NoRow
    /\ UNCHANGED <<req, runs, outlived, excuses>>

Next ==
    \/ \E r \in Requests :
         \/ \E f \in Fingerprints : Begin(r, f)
         \/ Insert(r) \/ Read(r) \/ DropExpired(r) \/ TakeOver(r)
         \/ Complete(r) \/ LoseResponse(r) \/ Release(r) \/ Crash(r)
    \/ GoStale \/ Expire \/ PurgeExpired

Spec == Init /\ [][Next]_vars

-----------------------------------------------------------------------------
(* Properties *)

\* Unless a handler outlived its key's window, the key lets one request at a
\* time through: the insert, the takeover of a dead request's key and the
\* removal of an expired one never admit two.
OneRuns ==
    ~outlived =>
        \A p, q \in Requests : At(p, "run") /\ At(q, "run") => p = q

\* Every run after the first has a reason of its own: a request that died, a
\* response that could not be stored, a key that was released or expired, or
\* a handler that outlived its window.  A payment POST is not repeated else.
RunsExcused == runs <= 1 + excuses

\* A replayed response is one that a handler gave to the same request, also
\* when the key was dropped, taken over or stored in between.
ReplayIsOwn ==
    \A r \in Requests : At(r, "replayed") => req[r].got.f = req[r].f
=============================================================================
