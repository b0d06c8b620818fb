------------------------ MODULE IdempotencyKeys_proofs ------------------------
(***************************************************************************)
(* Proofs about IdempotencyKeys, for any requests, fingerprints and bound: *)
(* the key lets one request at a time through unless a handler outlives    *)
(* its window, and each run but the first has its excuse.                  *)
(***************************************************************************)
EXTENDS IdempotencyKeys, TLAPS

\* Runs are numbered as they start, so none is the number of a later one.
Numbered ==
    /\ row # NoRow => row.id <= runs /\ row.run <= runs
    /\ \A r \in Requests : At(r, "run") => req[r].run <= runs /\ req[r].id <= runs
    /\ \A p, q \in Requests :
         At(p, "run") /\ At(q, "run") /\ req[p].run = req[q].run => p = q

\* What a round saw stale is stale as long as nobody touched the row since.
SeenStays ==
    \A r \in Requests : req[r].at \in {"read", "drop", "take"} =>
        /\ req[r].seen \in Sights
        /\ req[r].seen.id <= runs /\ req[r].seen.run <= runs
        /\ (/\ SameRow(r) /\ row.run = req[r].seen.run
            /\ req[r].seen.stale /\ row.stored = NoResponse)
               => row.stale
        /\ At(r, "take") => req[r].seen.stale

\* While no handler outlives its window, the one that runs owns the key.
RunnerOwns ==
    ~outlived => \A r \in Requests : At(r, "run") =>
        /\ Owner(r)
        /\ ~row.stale /\ ~row.expired /\ row.stored = NoResponse

\* An expiry paid for a row that may still be taken over.
Used == IF row # NoRow /\ row.stored = NoResponse /\ row.expired
        THEN 1 ELSE 0

\* A run that needs no excuse yet: its response is kept or will be.
Covered == /\ row # NoRow
           /\ IF row.stored # NoResponse THEN ~row.expired
              ELSE ~row.stale /\ \E r \in Requests : Owner(r)

Credit == runs + Used <= excuses + IF Covered THEN 1 ELSE 0

\* Who runs on a row, or is about to take it over, has the row's request: ids
\* are never used again, so the row is still the one it was checked against.
SameRequest ==
    /\ row # NoRow /\ row.stored # NoResponse => row.stored.f = row.f
    /\ \A r \in Requests :
         /\ OnRow(r) => req[r].f = row.f
         /\ At(r, "take") /\ SameRow(r) => req[r].f = row.f

IInv == /\ TypeOK /\ Numbered /\ SeenStays /\ RunnerOwns /\ Credit
        /\ SameRequest /\ ReplayIsOwn

-----------------------------------------------------------------------------
(* Types *)

\* Where a request is tells which record it is.
LEMMA Shapes ==
    ASSUME TypeOK, NEW r \in Requests
    PROVE  /\ req[r].at \in {"insert", "read", "drop", "take"}
                => req[r] \in Beginning
           /\ At(r, "run") => req[r] \in Running
  BY DEF TypeOK, At, Idle, Beginning, Running, Replayed

\* The row is NoRow or a row, and rows differ from NoRow.
LEMMA RowShape == TypeOK /\ row # NoRow => row \in Rows
  BY DEF TypeOK

\* Every step keeps the types.
LEMMA TypeStep == TypeOK /\ [Next]_vars => TypeOK'
<1> SUFFICES ASSUME TypeOK, [Next]_vars PROVE TypeOK'
  OBVIOUS
<1> USE BoundAssumption DEF Runs
<1> DEFINE States == {Idle} \cup Beginning \cup Running \cup Replayed
<1>a. ASSUME NEW r \in Requests, NEW x \in States, Goto(r, x)
      PROVE  req' \in [Requests -> States]
  BY <1>a DEF Goto, TypeOK
<1>b. ASSUME NEW r \in Requests, Answer(r)
      PROVE  req' \in [Requests -> States]
  BY <1>a, <1>b DEF Answer
<1>c. ASSUME NEW r \in Requests, NextRound(r), req[r] \in Beginning
      PROVE  req' \in [Requests -> States]
  <2>1. CASE req[r].round + 1 \in Rounds
    <3>1. [req[r] EXCEPT !.at = "insert", !.round = @ + 1] \in Beginning
      BY <1>c, <2>1 DEF Beginning, Rounds
    <3> QED BY <1>a, <1>c, <2>1, <3>1 DEF NextRound
  <2>2. CASE req[r].round + 1 \notin Rounds
    BY <1>b, <1>c, <2>2 DEF NextRound
  <2> QED BY <2>1, <2>2
<1>d. ASSUME NEW r \in Requests, NEW k \in Runs, StartRun(r, k),
             req[r] \in Beginning
      PROVE  req' \in [Requests -> States] /\ runs' \in Runs
                /\ runs' = runs + 1
  <2>1. runs + 1 \in Runs
    BY <1>d DEF StartRun, TypeOK
  <2>2. [at |-> "run", f |-> req[r].f, id |-> k, run |-> runs + 1] \in Running
    BY <1>d, <2>1 DEF Running, Beginning
  <2> QED BY <1>a, <1>d, <2>1, <2>2 DEF StartRun
<1>1. ASSUME NEW r \in Requests, NEW f \in Fingerprints, Begin(r, f)
      PROVE TypeOK'
  <2>1. [at |-> "insert", f |-> f, round |-> 1, seen |-> NoRow] \in Beginning
    BY DEF Beginning, Rounds
  <2> QED BY <1>a, <1>1, <2>1 DEF Begin, TypeOK
<1>2. ASSUME NEW r \in Requests, Insert(r) PROVE TypeOK'
  <2>1. req[r] \in Beginning
    BY <1>2, Shapes DEF Insert, At
  <2>2. CASE row = NoRow
    <3>1. runs + 1 \in Runs
      BY <1>2, <2>2 DEF Insert, StartRun, TypeOK
    <3>2. req[r].f \in Fingerprints
      BY <2>1 DEF Beginning
    <3>3. row' = [id |-> runs + 1, run |-> runs + 1, f |-> req[r].f,
                  stored |-> NoResponse, stale |-> FALSE, expired |-> FALSE]
      BY <1>2, <2>2 DEF Insert
    <3>4. row' \in Rows
      <4> DEFINE k == runs + 1
      <4> HIDE DEF k
      <4>1. k \in Runs
        BY <3>1 DEF k
      <4>2. [id |-> k, run |-> k, f |-> req[r].f, stored |-> NoResponse,
             stale |-> FALSE, expired |-> FALSE] \in Rows
        BY <3>2, <4>1 DEF Rows
      <4> QED BY <3>3, <4>2 DEF k
    <3> QED BY <1>d, <1>2, <2>1, <2>2, <3>1, <3>4 DEF Insert, TypeOK
  <2>3. CASE row # NoRow
    <3>1. Sight(row) \in Sights
      BY <2>3, RowShape DEF Sight, Sights, Rows
    <3>2. [req[r] EXCEPT !.at = "read", !.seen = Sight(row)] \in Beginning
      BY <2>1, <3>1 DEF Beginning
    <3> QED BY <1>a, <1>2, <2>3, <3>2 DEF Insert, TypeOK
  <2> QED BY <2>2, <2>3
<1>3. ASSUME NEW r \in Requests, Read(r) PROVE TypeOK'
  <2>1. req[r] \in Beginning
    BY <1>3, Shapes DEF Read, At
  <2>2. req' \in [Requests -> States]
    <3>1. CASE row = NoRow
      BY <1>c, <1>3, <2>1, <3>1 DEF Read
    <3>2. CASE row # NoRow /\ Verdict(r) \in {"drop", "take"}
      <4>1. [req[r] EXCEPT !.at = Verdict(r)] \in Beginning
        BY <2>1, <3>2 DEF Beginning
      <4> QED BY <1>a, <1>3, <3>2, <4>1 DEF Read
    <3>3. CASE row # NoRow /\ Verdict(r) = "replay"
      <4>1. row.stored \in Responses
        <5>1. row.stored # NoResponse
          BY <3>3 DEF Verdict
        <5> QED BY <3>3, <5>1, RowShape DEF Rows
      <4>2. [at |-> "replayed", f |-> req[r].f, got |-> row.stored] \in Replayed
        BY <2>1, <4>1 DEF Replayed, Beginning
      <4> QED BY <1>a, <1>3, <3>3, <4>2 DEF Read
    <3>4. CASE row # NoRow /\ Verdict(r) \notin {"drop", "take", "replay"}
      BY <1>b, <1>3, <3>4 DEF Read
    <3> QED BY <3>1, <3>2, <3>3, <3>4
  <2> QED BY <1>3, <2>2 DEF Read, TypeOK
<1>4. ASSUME NEW r \in Requests, DropExpired(r) PROVE TypeOK'
  <2>1. req[r] \in Beginning
    BY <1>4, Shapes DEF DropExpired, At
  <2> QED BY <1>c, <1>4, <2>1 DEF DropExpired, TypeOK
<1>5. ASSUME NEW r \in Requests, TakeOver(r) PROVE TypeOK'
  <2>1. req[r] \in Beginning
    BY <1>5, Shapes DEF TakeOver, At
  <2>2. CASE Claimable(r)
    <3>1. row \in Rows
      BY <2>2, RowShape DEF Claimable, SameRow
    <3>2. row.id \in Runs
      BY <3>1 DEF Rows
    <3>3. req' \in [Requests -> States] /\ runs' \in Runs /\ runs' = runs + 1
      BY <1>d, <1>5, <2>1, <2>2, <3>2 DEF TakeOver
    <3>4. row' \in Rows
      BY <1>5, <2>2, <3>1, <3>3 DEF TakeOver, Rows
    <3>5. row.expired \in BOOLEAN
      BY <3>1 DEF Rows
    <3> QED BY <1>5, <2>2, <3>3, <3>4, <3>5 DEF TakeOver, TypeOK
  <2>3. CASE ~Claimable(r)
    BY <1>b, <1>5, <2>3 DEF TakeOver, TypeOK
  <2> QED BY <2>2, <2>3
<1>6. ASSUME NEW r \in Requests, Complete(r) PROVE TypeOK'
  <2>1. req[r] \in Running
    BY <1>6, Shapes DEF Complete
  <2>2. [run |-> req[r].run, f |-> req[r].f] \in Responses
    BY <2>1 DEF Running, Responses
  <2>3. row' \in Rows \cup {NoRow}
    BY <1>6, <2>2 DEF Complete, Stored, TypeOK, Rows
  <2> QED BY <1>b, <1>6, <2>3 DEF Complete, TypeOK
<1>7. ASSUME NEW r \in Requests, LoseResponse(r) PROVE TypeOK'
  BY <1>b, <1>7 DEF LoseResponse, TypeOK
<1>8. ASSUME NEW r \in Requests, Release(r) PROVE TypeOK'
  BY <1>b, <1>8 DEF Release, TypeOK
<1>9. ASSUME NEW r \in Requests, Crash(r) PROVE TypeOK'
  BY <1>a, <1>9 DEF Crash, TypeOK
<1>10. ASSUME GoStale PROVE TypeOK'
  <2>1. row' \in Rows
    BY <1>10, RowShape DEF GoStale, Rows
  <2>2. outlived' \in BOOLEAN /\ excuses' \in Nat
    <3>1. \/ outlived' = TRUE /\ excuses' = excuses + 1
          \/ outlived' = outlived /\ excuses' = excuses
      BY <1>10, Zenon DEF GoStale
    <3>2. excuses' \in Nat
      BY <3>1 DEF TypeOK
    <3>3. outlived' \in BOOLEAN
      BY <3>1, Zenon DEF TypeOK
    <3> QED BY <3>2, <3>3
  <2> QED BY <1>10, <2>1, <2>2 DEF GoStale, TypeOK
<1>11. ASSUME Expire PROVE TypeOK'
  <2>1. row' \in Rows
    BY <1>11, RowShape DEF Expire, Rows
  <2>2. outlived' \in BOOLEAN
    BY <1>11 DEF Expire
  <2> QED BY <1>11, <2>1, <2>2 DEF Expire, TypeOK
<1>12. ASSUME PurgeExpired PROVE TypeOK'
  BY <1>12 DEF PurgeExpired, TypeOK
<1>13. CASE UNCHANGED vars
  BY <1>13 DEF vars, TypeOK
<1> QED BY <1>1, <1>2, <1>3, <1>4, <1>5, <1>6, <1>7, <1>8, <1>9, <1>10,
           <1>11, <1>12, <1>13 DEF Next

-----------------------------------------------------------------------------
(* What each step does to the requests *)

\* A request that moves leaves the others where they are.
LEMMA Moves ==
    ASSUME TypeOK, NEW r \in Requests, NEW x, Goto(r, x)
    PROVE  /\ req'[r] = x
           /\ \A q \in Requests : q # r => req'[q] = req[q]
  BY DEF TypeOK, Goto

\* No request other than r moves, and r does not run before or after.
Quiet(r) ==
    /\ ~At(r, "run") /\ ~At(r, "run")'
    /\ \A q \in Requests : q # r => req'[q] = req[q]

\* The request r is over, its handler having run.
Stops(r) ==
    /\ req'[r].at \notin {"run", "read", "drop", "take"}
    /\ \A q \in Requests : q # r => req'[q] = req[q]

\* An answer ends a request.
LEMMA Answers ==
    ASSUME TypeOK, NEW r \in Requests, Answer(r)
    PROVE  Stops(r) /\ (~At(r, "run") => Quiet(r))
  BY Moves DEF Answer, Idle, Stops, Quiet, At

\* Another round starts over, or there is none left.
LEMMA NextRounds ==
    ASSUME TypeOK, NEW r \in Requests, NextRound(r), At(r, "read") \/ At(r, "drop")
    PROVE  Stops(r) /\ Quiet(r)
<1>1. CASE req[r].round + 1 \in Rounds
  <2>1. [req[r] EXCEPT !.at = "insert", !.round = @ + 1].at = "insert"
    <3>1. req[r] \in Beginning
      BY Shapes DEF At
    <3> QED BY <3>1 DEF Beginning
  <2> QED BY <1>1, <2>1, Moves DEF NextRound, Stops, Quiet, At
<1>2. CASE req[r].round + 1 \notin Rounds
  BY <1>2, Answers DEF NextRound, At
<1> QED BY <1>1, <1>2

\* A handler that is started has the next number and a row.
LEMMA Starts ==
    ASSUME TypeOK, NEW r \in Requests, NEW k, StartRun(r, k)
    PROVE  /\ runs' = runs + 1
           /\ req'[r].at = "run" /\ req'[r].id = k /\ req'[r].run = runs + 1
           /\ \A q \in Requests : q # r => req'[q] = req[q]
  BY Moves DEF StartRun

\* A read that does not answer remembers what it saw.
LEMMA Reads ==
    ASSUME TypeOK, NEW r \in Requests, Read(r)
    PROVE  /\ Quiet(r)
           /\ \/ Stops(r)
              \/ /\ row # NoRow
                 /\ req'[r].at = Verdict(r) /\ req'[r].seen = req[r].seen
                 /\ Verdict(r) \in {"drop", "take"}
<1>0. At(r, "read") /\ req[r] \in Beginning
  BY Shapes DEF Read, At
<1>1. CASE row = NoRow
  BY <1>0, <1>1, NextRounds DEF Read
<1>2. CASE row # NoRow /\ Verdict(r) \in {"drop", "take"}
  <2>1. Goto(r, [req[r] EXCEPT !.at = Verdict(r)])
    BY <1>2 DEF Read
  <2>2. /\ [req[r] EXCEPT !.at = Verdict(r)].at = Verdict(r)
        /\ [req[r] EXCEPT !.at = Verdict(r)].seen = req[r].seen
    BY <1>0 DEF Beginning
  <2> QED BY <1>0, <1>2, <2>1, <2>2, Moves DEF Quiet, At
<1>3. CASE row # NoRow /\ Verdict(r) = "replay"
  <2>1. Goto(r, [at |-> "replayed", f |-> req[r].f, got |-> row.stored])
    BY <1>3 DEF Read
  <2> QED BY <1>0, <2>1, Moves DEF Quiet, Stops, At
<1>4. CASE row # NoRow /\ Verdict(r) \notin {"drop", "take", "replay"}
  BY <1>0, <1>4, Answers DEF Read, At
<1> QED BY <1>1, <1>2, <1>3, <1>4

\* An insert that meets a row leaves the request reading it.
LEMMA Meets ==
    ASSUME TypeOK, NEW r \in Requests, Insert(r), row # NoRow
    PROVE  /\ Quiet(r)
           /\ req'[r].at = "read" /\ req'[r].seen = Sight(row)
           /\ UNCHANGED <<row, runs, outlived, excuses>>
<1>1. Goto(r, [req[r] EXCEPT !.at = "read", !.seen = Sight(row)])
  BY DEF Insert
<1>2. req[r] \in Beginning /\ At(r, "insert")
  BY Shapes DEF Insert, At
<1>3. /\ [req[r] EXCEPT !.at = "read", !.seen = Sight(row)].at = "read"
      /\ [req[r] EXCEPT !.at = "read", !.seen = Sight(row)].seen = Sight(row)
  BY <1>2 DEF Beginning
<1> QED BY <1>1, <1>2, <1>3, Moves DEF Insert, Quiet, At

\* Whoever begins anew has nothing to answer for.
LEMMA Begins ==
    ASSUME TypeOK, NEW r \in Requests, NEW f \in Fingerprints, Begin(r, f)
    PROVE  Quiet(r) /\ Stops(r)
  BY Moves DEF Begin, Quiet, Stops, At

-----------------------------------------------------------------------------
(* The inductive invariant *)

\* Before the first request nothing is to be shown.
LEMMA InitIInv == Init => IInv
<1> SUFFICES ASSUME Init PROVE IInv
  OBVIOUS
<1> USE BoundAssumption DEF Init
<1>1. TypeOK
  <2>1. req \in [Requests -> {Idle} \cup Beginning \cup Running \cup Replayed]
    OBVIOUS
  <2>2. runs \in 0..MaxRuns /\ excuses \in Nat
    OBVIOUS
  <2> QED BY <2>1, <2>2 DEF TypeOK
<1>2. \A r \in Requests : req[r].at = "idle"
  BY DEF Idle
<1>3. Numbered /\ SeenStays /\ RunnerOwns
  BY <1>2 DEF Numbered, SeenStays, RunnerOwns, At
<1>4. Credit
  BY DEF Credit, Used, Covered
<1>5. SameRequest /\ ReplayIsOwn
  BY <1>2 DEF SameRequest, ReplayIsOwn, At, OnRow
<1> QED BY <1>1, <1>3, <1>4, <1>5 DEF IInv

\* A number is given once: a new run's is higher than any that is in use.
LEMMA NumberedStep == TypeOK /\ Numbered /\ [Next]_vars => Numbered'
<1> SUFFICES ASSUME TypeOK, Numbered, [Next]_vars PROVE Numbered'
  OBVIOUS
<1> USE DEF Numbered, At
<1>0. /\ runs \in Nat
      /\ \A r \in Requests : At(r, "run") => req[r].run \in Nat
                                              /\ req[r].id \in Nat
  BY BoundAssumption, Shapes DEF TypeOK, Running, Runs
<1>k. ASSUME NEW r \in Requests, NEW k \in Nat, StartRun(r, k), k <= runs + 1,
             row'.id = k, row'.run = runs + 1
      PROVE  Numbered'
  <2>1. /\ runs' = runs + 1
        /\ req'[r].at = "run" /\ req'[r].id = k /\ req'[r].run = runs + 1
        /\ \A q \in Requests : q # r => req'[q] = req[q]
    BY <1>k, Starts
  <2>2. \A q \in Requests : q # r /\ req[q].at = "run" =>
           req[q].run # runs + 1
    BY <1>0
  <2>3. \A q \in Requests : req'[q].at = "run" =>
           req'[q].run <= runs' /\ req'[q].id <= runs'
    BY <1>k, <1>0, <2>1
  <2>4. \A p, q \in Requests : req'[p].at = "run" /\ req'[q].at = "run"
                                 /\ req'[p].run = req'[q].run => p = q
    BY <2>1, <2>2
  <2>5. row'.id <= runs' /\ row'.run <= runs'
    BY <1>k, <1>0, <2>1
  <2> QED BY <2>3, <2>4, <2>5
<1>a. ASSUME NEW r \in Requests, Quiet(r) \/ Stops(r), runs' = runs,
             \/ row' = NoRow
             \/ row # NoRow /\ row'.id = row.id /\ row'.run = row.run
      PROVE  Numbered'
  BY <1>a DEF Quiet, Stops
<1>b. ASSUME UNCHANGED <<req, runs>>,
             row' = NoRow \/ (row # NoRow /\ row'.id = row.id
                                          /\ row'.run = row.run)
      PROVE  Numbered'
  BY <1>b
<1>1. ASSUME NEW r \in Requests, NEW f \in Fingerprints, Begin(r, f)
      PROVE Numbered'
  BY <1>1, <1>a, Begins DEF Begin
<1>2. ASSUME NEW r \in Requests, Insert(r) PROVE Numbered'
  <2>1. CASE row = NoRow
    <3>1. StartRun(r, runs + 1)
      BY <1>2, <2>1 DEF Insert
    <3>2. row'.id = runs + 1 /\ row'.run = runs + 1
      BY <1>2, <2>1 DEF Insert
    <3> QED BY <1>0, <1>k, <3>1, <3>2
  <2>2. CASE row # NoRow
    BY <1>2, <1>a, <2>2, Meets
  <2> QED BY <2>1, <2>2
<1>3. ASSUME NEW r \in Requests, Read(r) PROVE Numbered'
  BY <1>3, <1>a, Reads DEF Read
<1>4. ASSUME NEW r \in Requests, DropExpired(r) PROVE Numbered'
  BY <1>4, <1>a, NextRounds DEF DropExpired
<1>5. ASSUME NEW r \in Requests, TakeOver(r) PROVE Numbered'
  <2>1. CASE Claimable(r)
    <3>1. row \in Rows
      BY <2>1, RowShape DEF Claimable, SameRow
    <3>2. StartRun(r, row.id)
      BY <1>5, <2>1 DEF TakeOver
    <3>3. row'.id = row.id /\ row'.run = runs + 1
      BY <1>5, <2>1, <3>1 DEF TakeOver, Rows
    <3>4. row # NoRow
      BY <2>1 DEF Claimable, SameRow
    <3>5. row.id \in Nat /\ row.id <= runs + 1
      BY <1>0, <3>1, <3>4 DEF Rows, Runs
    <3> QED BY <1>k, <3>2, <3>3, <3>5
  <2>2. CASE ~Claimable(r)
    BY <1>5, <1>a, <2>2, Answers DEF TakeOver
  <2> QED BY <2>1, <2>2
<1>6. ASSUME NEW r \in Requests, Complete(r) PROVE Numbered'
  <2>1. \/ row' = NoRow
        \/ row # NoRow /\ row'.id = row.id /\ row'.run = row.run
    BY <1>6, RowShape DEF Complete, Stored, Rows
  <2> QED BY <1>6, <1>a, <2>1, Answers DEF Complete
<1>7. ASSUME NEW r \in Requests, LoseResponse(r) PROVE Numbered'
  BY <1>7, <1>a, Answers DEF LoseResponse
<1>8. ASSUME NEW r \in Requests, Release(r) PROVE Numbered'
  BY <1>8, <1>a, Answers DEF Release
<1>9. ASSUME NEW r \in Requests, Crash(r) PROVE Numbered'
  BY <1>9, <1>a, Answers DEF Crash, Answer
<1>10. ASSUME GoStale PROVE Numbered'
  BY <1>10, <1>b, RowShape DEF GoStale, Rows
<1>11. ASSUME Expire PROVE Numbered'
  BY <1>11, <1>b, RowShape DEF Expire, Rows
<1>12. ASSUME PurgeExpired PROVE Numbered'
  BY <1>12, <1>b DEF PurgeExpired
<1>13. CASE UNCHANGED vars
  BY <1>13 DEF vars
<1> QED BY <1>1, <1>2, <1>3, <1>4, <1>5, <1>6, <1>7, <1>8, <1>9, <1>10,
           <1>11, <1>12, <1>13 DEF Next

\* What was seen stale and is still the same claim has stayed stale: each
\* claim has its own number, and a row is never made fresh but by a claim or
\* by its response.
LEMMA SeenStep ==
    TypeOK /\ Numbered /\ SeenStays /\ [Next]_vars => SeenStays'
<1> SUFFICES ASSUME TypeOK, Numbered, SeenStays, [Next]_vars PROVE SeenStays'
  OBVIOUS
<1> USE DEF SeenStays, SameRow, At
<1>0. runs \in Nat
  BY BoundAssumption DEF TypeOK
<1>a. ASSUME NEW r \in Requests, Stops(r), runs' = runs,
             \/ row' = NoRow
             \/ row # NoRow /\ row'.id = row.id /\ row'.run = row.run
                /\ (row'.stored = NoResponse =>
                       row.stored = NoResponse /\ (row.stale => row'.stale))
      PROVE  SeenStays'
  BY <1>a DEF Stops
<1>b. ASSUME UNCHANGED <<req, runs>>,
             \/ row' = NoRow
             \/ row # NoRow /\ row'.id = row.id /\ row'.run = row.run
                /\ row'.stored = row.stored /\ (row.stale => row'.stale)
      PROVE  SeenStays'
  BY <1>b
<1>c. ASSUME NEW r \in Requests, NEW k, StartRun(r, k), row'.run = runs + 1
      PROVE  SeenStays'
  <2>1. \A q \in Requests : q # r => req'[q] = req[q]
    BY <1>c, Starts
  <2>2. req'[r].at = "run" /\ runs' = runs + 1
    BY <1>c, Starts
  <2>3. \A q \in Requests : q # r /\ req[q].at \in {"read", "drop", "take"} =>
           req[q].seen.run \in Nat /\ req[q].seen.id \in Nat
    BY BoundAssumption DEF Sights, Runs
  <2> QED BY <1>0, <1>c, <2>1, <2>2, <2>3
<1>1. ASSUME NEW r \in Requests, NEW f \in Fingerprints, Begin(r, f)
      PROVE SeenStays'
  BY <1>1, <1>a, Begins DEF Begin
<1>2. ASSUME NEW r \in Requests, Insert(r) PROVE SeenStays'
  <2>1. CASE row = NoRow
    BY <1>2, <1>c, <2>1 DEF Insert
  <2>2. CASE row # NoRow
    <3>1. row \in Rows
      BY <2>2, RowShape
    <3>2. /\ Sight(row) \in Sights /\ Sight(row).id = row.id
          /\ Sight(row).run = row.run /\ Sight(row).stale = row.stale
      BY <3>1 DEF Sight, Sights, Rows
    <3>3. /\ \A q \in Requests : q # r => req'[q] = req[q]
          /\ req'[r].at = "read" /\ req'[r].seen = Sight(row)
          /\ UNCHANGED <<row, runs>>
      BY <1>2, <2>2, Meets DEF Quiet
    <3> QED BY <2>2, <3>2, <3>3 DEF Numbered
  <2> QED BY <2>1, <2>2
<1>3. ASSUME NEW r \in Requests, Read(r) PROVE SeenStays'
  <2>1. UNCHANGED <<row, runs>> /\ req[r].at = "read"
    BY <1>3 DEF Read
  <2>2. \A q \in Requests : q # r => req'[q] = req[q]
    BY <1>3, Reads DEF Quiet
  <2>3. CASE Stops(r)
    BY <1>a, <2>1, <2>3
  <2>4. CASE /\ row # NoRow /\ req'[r].at = Verdict(r)
             /\ req'[r].seen = req[r].seen
             /\ Verdict(r) \in {"drop", "take"}
    <3>1. Verdict(r) = "take" => req[r].seen.stale
      BY DEF Verdict, StaleThen
    <3> QED BY <2>1, <2>2, <2>4, <3>1
  <2> QED BY <1>3, <2>3, <2>4, Reads
<1>4. ASSUME NEW r \in Requests, DropExpired(r) PROVE SeenStays'
  BY <1>4, <1>a, NextRounds DEF DropExpired
<1>5. ASSUME NEW r \in Requests, TakeOver(r) PROVE SeenStays'
  <2>1. CASE Claimable(r)
    <3>1. row \in Rows
      BY <2>1, RowShape DEF Claimable
    <3>2. StartRun(r, row.id) /\ row'.run = runs + 1
      BY <1>5, <2>1, <3>1 DEF TakeOver, Rows
    <3> QED BY <1>c, <3>2
  <2>2. CASE ~Claimable(r)
    BY <1>5, <1>a, <2>2, Answers DEF TakeOver
  <2> QED BY <2>1, <2>2
<1>6. ASSUME NEW r \in Requests, Complete(r) PROVE SeenStays'
  <2>1. CASE row # NoRow /\ row.id = req[r].id
    <3>1. [run |-> req[r].run, f |-> req[r].f] \in Responses
      BY <1>6, Shapes DEF Complete, Running, Responses
    <3>2. /\ row'.id = row.id /\ row'.run = row.run
          /\ row'.stored # NoResponse
      BY <1>6, <2>1, <3>1, RowShape, ResponseAssumption
         DEF Complete, Stored, Rows
    <3> QED BY <1>6, <1>a, <2>1, <3>2, Answers DEF Complete
  <2>2. CASE row = NoRow \/ row.id # req[r].id
    BY <1>6, <1>a, <2>2, Answers DEF Complete, Stored
  <2> QED BY <2>1, <2>2
<1>7. ASSUME NEW r \in Requests, LoseResponse(r) PROVE SeenStays'
  BY <1>7, <1>a, Answers DEF LoseResponse
<1>8. ASSUME NEW r \in Requests, Release(r) PROVE SeenStays'
  BY <1>8, <1>a, Answers DEF Release
<1>9. ASSUME NEW r \in Requests, Crash(r) PROVE SeenStays'
  BY <1>9, <1>a, Answers DEF Crash, Answer
<1>10. ASSUME GoStale PROVE SeenStays'
  BY <1>10, <1>b, RowShape DEF GoStale, Rows
<1>11. ASSUME Expire PROVE SeenStays'
  BY <1>11, <1>b, RowShape DEF Expire, Rows
<1>12. ASSUME PurgeExpired PROVE SeenStays'
  BY <1>12, <1>b DEF PurgeExpired
<1>13. CASE UNCHANGED vars
  BY <1>13 DEF vars
<1> QED BY <1>1, <1>2, <1>3, <1>4, <1>5, <1>6, <1>7, <1>8, <1>9, <1>10,
           <1>11, <1>12, <1>13 DEF Next

\* A claim of the key meets no running handler, so the one it starts is the
\* only one; nothing but the passing of time takes the key from it.
LEMMA OwnsStep == IInv /\ [Next]_vars => RunnerOwns'
<1> SUFFICES ASSUME IInv, [Next]_vars, ~outlived' PROVE
      \A q \in Requests : At(q, "run")' =>
        /\ Owner(q)'
        /\ ~row'.stale /\ ~row'.expired /\ row'.stored = NoResponse
  BY DEF RunnerOwns
<1> USE DEF At, OnRow, Owner
<1>0. TypeOK /\ Numbered /\ SeenStays /\ RunnerOwns
  BY DEF IInv
<1> DEFINE Claim == \A q \in Requests : At(q, "run")' =>
                       /\ Owner(q)'
                       /\ ~row'.stale /\ ~row'.expired
                       /\ row'.stored = NoResponse
<1>a. ASSUME NEW r \in Requests, Quiet(r) \/ Stops(r), row' = row,
             outlived' = outlived
      PROVE  Claim
  BY <1>0, <1>a DEF Quiet, Stops, RunnerOwns
<1>b. ASSUME NEW r \in Requests, NEW k, StartRun(r, k),
             \A q \in Requests : ~At(q, "run"),
             row' # NoRow, row'.id = k, row'.run = runs + 1,
             ~row'.stale, ~row'.expired, row'.stored = NoResponse
      PROVE  Claim
  BY <1>0, <1>b, Starts
<1>c. ASSUME NEW r \in Requests, req[r].at = "run", Stops(r),
             outlived' = outlived,
             row' # row => row # NoRow /\ row.id = req[r].id
      PROVE  Claim
  <2>1. \A q \in Requests : At(q, "run") => q = r
    BY <1>0, <1>c DEF RunnerOwns, Numbered
  <2> QED BY <1>c, <2>1 DEF Stops
<1>1. ASSUME NEW r \in Requests, NEW f \in Fingerprints, Begin(r, f)
      PROVE Claim
  BY <1>0, <1>1, <1>a, Begins DEF Begin
<1>2. ASSUME NEW r \in Requests, Insert(r) PROVE Claim
  <2>1. CASE row = NoRow
    <3>1. \A q \in Requests : ~At(q, "run")
      BY <1>0, <1>2, <2>1 DEF Insert, RunnerOwns
    <3>2. /\ row'.id = runs + 1 /\ row'.run = runs + 1
          /\ ~row'.stale /\ ~row'.expired /\ row'.stored = NoResponse
      BY <1>2, <2>1 DEF Insert
    <3>3. row' # NoRow
      <4>1. runs + 1 # 0
        BY <1>0, BoundAssumption DEF TypeOK
      <4> QED BY <3>2, <4>1 DEF NoRow
    <3> QED BY <1>2, <1>b, <2>1, <3>1, <3>2, <3>3 DEF Insert
  <2>2. CASE row # NoRow
    BY <1>0, <1>2, <1>a, <2>2, Meets
  <2> QED BY <2>1, <2>2
<1>3. ASSUME NEW r \in Requests, Read(r) PROVE Claim
  BY <1>0, <1>3, <1>a, Reads DEF Read
<1>4. ASSUME NEW r \in Requests, DropExpired(r) PROVE Claim
  <2>1. Quiet(r)
    BY <1>0, <1>4, NextRounds DEF DropExpired
  <2>2. CASE row' = row
    BY <1>4, <1>a, <2>1, <2>2 DEF DropExpired
  <2>3. CASE row.expired
    <3>1. \A q \in Requests : ~At(q, "run")
      BY <1>0, <1>4, <2>3 DEF DropExpired, RunnerOwns
    <3> QED BY <2>1, <3>1 DEF Quiet
  <2> QED BY <1>4, <2>2, <2>3 DEF DropExpired
<1>5. ASSUME NEW r \in Requests, TakeOver(r) PROVE Claim
  <2>1. CASE Claimable(r)
    <3>1. row \in Rows /\ row.stored = NoResponse
      BY <1>0, <2>1, RowShape DEF Claimable, SameRow
    <3>2. outlived' = (outlived \/ row.expired)
      BY <1>5, <2>1 DEF TakeOver
    <3>3. ~outlived /\ ~row.expired
      BY <3>2
    <3>4. row.stale
      BY <1>0, <1>5, <2>1 DEF TakeOver, Claimable, SeenStays
    <3>5. \A q \in Requests : ~At(q, "run")
      BY <1>0, <3>3, <3>4 DEF RunnerOwns
    <3>6. /\ row' \in Rows /\ row'.id = row.id /\ row'.run = runs + 1
          /\ ~row'.stale /\ row'.expired = row.expired
          /\ row'.stored = NoResponse
      <4>1. runs + 1 \in Runs
        BY <1>0, <1>5, <2>1, BoundAssumption DEF TakeOver, StartRun, TypeOK, Runs
      <4> QED BY <1>5, <2>1, <3>1, <4>1 DEF TakeOver, Rows
    <3>7. row' # NoRow
      <4>1. row'.id # 0
        BY <3>6 DEF Rows, Runs
      <4> QED BY <4>1 DEF NoRow
    <3> QED BY <1>5, <1>b, <2>1, <3>3, <3>5, <3>6, <3>7 DEF TakeOver
  <2>2. CASE ~Claimable(r)
    BY <1>0, <1>5, <1>a, <2>2, Answers DEF TakeOver
  <2> QED BY <2>1, <2>2
<1>6. ASSUME NEW r \in Requests, Complete(r) PROVE Claim
  BY <1>0, <1>6, <1>c, Answers DEF Complete, Stored
<1>7. ASSUME NEW r \in Requests, LoseResponse(r) PROVE Claim
  BY <1>0, <1>7, <1>c, Answers DEF LoseResponse
<1>8. ASSUME NEW r \in Requests, Release(r) PROVE Claim
  BY <1>0, <1>8, <1>c, Answers DEF Release
<1>9. ASSUME NEW r \in Requests, Crash(r) PROVE Claim
  BY <1>0, <1>9, <1>a, Answers DEF Crash, Answer
<1>10. ASSUME GoStale PROVE Claim
  <2>1. ~\E q \in Requests : Owner(q)
    BY <1>10 DEF GoStale
  <2>2. ~outlived
    BY <1>10, <2>1 DEF GoStale
  <2> QED BY <1>0, <1>10, <2>1, <2>2 DEF GoStale, RunnerOwns
<1>11. ASSUME Expire PROVE Claim
  <2>1. ~outlived /\ ~\E q \in Requests : OnRow(q)
    BY <1>11 DEF Expire
  <2> QED BY <1>0, <1>11, <2>1 DEF Expire, RunnerOwns
<1>12. ASSUME PurgeExpired PROVE Claim
  BY <1>0, <1>12 DEF PurgeExpired, RunnerOwns
<1>13. CASE UNCHANGED vars
  BY <1>0, <1>13 DEF vars, RunnerOwns
<1> QED BY <1>1, <1>2, <1>3, <1>4, <1>5, <1>6, <1>7, <1>8, <1>9, <1>10,
           <1>11, <1>12, <1>13 DEF Next

\* The balance of runs and excuses: a run is paid for by what made it
\* necessary, at the latest when the row of the run before can be taken.
LEMMA CreditStep == IInv /\ [Next]_vars => Credit'
<1> SUFFICES ASSUME IInv, [Next]_vars PROVE Credit'
  OBVIOUS
<1> USE DEF At, OnRow, Owner
<1>0. TypeOK /\ Numbered /\ SeenStays /\ Credit
  BY DEF IInv
<1>n. runs \in Nat /\ excuses \in Nat
  BY <1>0, BoundAssumption DEF TypeOK
<1> DEFINE Owned == \E q \in Requests : Owner(q)
<1>1. ASSUME NEW r \in Requests, Quiet(r), UNCHANGED <<row, runs, excuses>>
      PROVE  Credit'
  <2>1. Owned' <=> Owned
    BY <1>1 DEF Quiet
  <2> QED BY <1>0, <1>1, <2>1 DEF Credit, Used, Covered
<1>2. ASSUME runs' = runs, excuses' = excuses, row # NoRow, row.expired,
             row' = NoRow
      PROVE  Credit'
  BY <1>0, <1>n, <1>2 DEF Credit, Used, Covered
<1>3. ASSUME runs' = runs, excuses' = excuses + 1, row' = row \/ row' = NoRow
      PROVE  Credit'
  BY <1>0, <1>n, <1>3 DEF Credit, Used, Covered
<1>4. ASSUME NEW r \in Requests, NEW f \in Fingerprints, Begin(r, f)
      PROVE Credit'
  BY <1>0, <1>1, <1>4, Begins DEF Begin
<1>5. ASSUME NEW r \in Requests, Insert(r) PROVE Credit'
  <2>1. CASE row = NoRow
    <3>1. /\ row'.id = runs + 1 /\ row'.run = runs + 1
          /\ ~row'.stale /\ ~row'.expired /\ row'.stored = NoResponse
          /\ excuses' = excuses
      BY <1>5, <2>1 DEF Insert
    <3>2. row' # NoRow
      <4>1. runs + 1 # 0
        BY <1>n
      <4> QED BY <3>1, <4>1 DEF NoRow
    <3>3. runs' = runs + 1 /\ Owned'
      BY <1>0, <1>5, <2>1, <3>1, <3>2, Starts DEF Insert
    <3> QED BY <1>0, <1>n, <2>1, <3>1, <3>2, <3>3 DEF Credit, Used, Covered
  <2>2. CASE row # NoRow
    BY <1>0, <1>1, <1>5, <2>2, Meets
  <2> QED BY <2>1, <2>2
<1>6. ASSUME NEW r \in Requests, Read(r) PROVE Credit'
  BY <1>0, <1>1, <1>6, Reads DEF Read
<1>7. ASSUME NEW r \in Requests, DropExpired(r) PROVE Credit'
  BY <1>0, <1>1, <1>2, <1>7, NextRounds DEF DropExpired, SameRow
<1>8. ASSUME NEW r \in Requests, TakeOver(r) PROVE Credit'
  <2>1. CASE Claimable(r)
    <3>1. row # NoRow /\ row \in Rows /\ row.stored = NoResponse
      BY <1>0, <2>1, RowShape DEF Claimable, SameRow
    <3>2. row.stale
      BY <1>0, <1>8, <2>1 DEF TakeOver, Claimable, SeenStays
    <3>3. /\ row'.id = row.id /\ row'.run = runs + 1
          /\ ~row'.stale /\ row'.expired = row.expired
          /\ row'.stored = NoResponse
      BY <1>8, <2>1, <3>1 DEF TakeOver, Rows
    <3>4. row' # NoRow
      <4>1. row.id # 0
        BY <3>1 DEF Rows, Runs
      <4> QED BY <3>3, <4>1 DEF NoRow
    <3>5. runs' = runs + 1 /\ Owned'
      BY <1>0, <1>8, <2>1, <3>3, <3>4, Starts DEF TakeOver
    <3>6. excuses' = excuses
      BY <1>8 DEF TakeOver
    <3> QED BY <1>0, <1>n, <3>1, <3>2, <3>3, <3>4, <3>5, <3>6
            DEF Credit, Used, Covered
  <2>2. CASE ~Claimable(r)
    BY <1>0, <1>1, <1>8, <2>2, Answers DEF TakeOver
  <2> QED BY <2>1, <2>2
<1>9. ASSUME NEW r \in Requests, Complete(r) PROVE Credit'
  <2>1. runs' = runs /\ excuses' = excuses /\ Stops(r)
    BY <1>0, <1>9, Answers DEF Complete
  <2>2. CASE row # NoRow /\ row.id = req[r].id
    <3>1. [run |-> req[r].run, f |-> req[r].f] \in Responses
      BY <1>0, <1>9, Shapes DEF Complete, Running, Responses
    <3>2. /\ row'.expired = row.expired /\ row'.stored # NoResponse
          /\ row'.id = row.id
      BY <1>0, <1>9, <2>2, <3>1, RowShape, ResponseAssumption
         DEF Complete, Stored, Rows
    <3>3. row' # NoRow
      <4>1. row.id # 0
        BY <1>0, <2>2, RowShape DEF Rows, Runs
      <4> QED BY <3>2, <4>1 DEF NoRow
    <3> QED BY <1>0, <1>n, <2>1, <2>2, <3>2, <3>3 DEF Credit, Used, Covered
  <2>3. CASE row = NoRow \/ row.id # req[r].id
    <3>1. row' = row
      BY <1>9, <2>3 DEF Complete, Stored
    <3>2. Owned' <=> Owned
      BY <2>1, <2>3, <3>1 DEF Stops
    <3> QED BY <1>0, <2>1, <3>1, <3>2 DEF Credit, Used, Covered
  <2> QED BY <2>2, <2>3
<1>10. ASSUME NEW r \in Requests, LoseResponse(r) PROVE Credit'
  BY <1>3, <1>10 DEF LoseResponse
<1>11. ASSUME NEW r \in Requests, Release(r) PROVE Credit'
  BY <1>3, <1>11 DEF Release
<1>12. ASSUME NEW r \in Requests, Crash(r) PROVE Credit'
  <2>1. CASE At(r, "run")
    BY <1>3, <1>12, <2>1 DEF Crash
  <2>2. CASE ~At(r, "run")
    BY <1>0, <1>1, <1>12, <2>2, Answers DEF Crash, Answer
  <2> QED BY <2>1, <2>2
<1>13. ASSUME GoStale PROVE Credit'
  <2>1. /\ row # NoRow /\ row \in Rows /\ row.stored = NoResponse /\ ~row.stale
        /\ runs' = runs
    BY <1>0, <1>13, RowShape DEF GoStale
  <2>2. /\ row'.stale /\ row'.expired = row.expired /\ row'.stored = NoResponse
    BY <1>13, <2>1 DEF GoStale, Rows
  <2>3. CASE Owned
    BY <1>0, <1>n, <1>13, <2>1, <2>2, <2>3 DEF GoStale, Credit, Used, Covered
  <2>4. CASE ~Owned
    BY <1>0, <1>n, <1>13, <2>1, <2>2, <2>4 DEF GoStale, Credit, Used, Covered
  <2> QED BY <2>3, <2>4
<1>14. ASSUME Expire PROVE Credit'
  <2>1. /\ row # NoRow /\ row \in Rows /\ ~row.expired
        /\ runs' = runs /\ excuses' = excuses + 1 /\ req' = req
    BY <1>0, <1>14, RowShape DEF Expire
  <2>2. /\ row'.expired /\ row'.stored = row.stored
        /\ row'.id = row.id /\ row'.run = row.run /\ row'.stale = row.stale
    BY <1>14, <2>1 DEF Expire, Rows
  <2>3. row' # NoRow
    <3>1. row.id # 0
      BY <2>1 DEF Rows, Runs
    <3> QED BY <2>2, <3>1 DEF NoRow
  <2>4. Owned' <=> Owned
    BY <2>1, <2>2, <2>3
  <2> QED BY <1>0, <1>n, <2>1, <2>2, <2>3, <2>4 DEF Credit, Used, Covered
<1>15. ASSUME PurgeExpired PROVE Credit'
  BY <1>2, <1>15 DEF PurgeExpired
<1>16. CASE UNCHANGED vars
  <2>1. Owned' <=> Owned
    BY <1>16 DEF vars
  <2> QED BY <1>0, <1>16, <2>1 DEF vars, Credit, Used, Covered
<1> QED BY <1>4, <1>5, <1>6, <1>7, <1>8, <1>9, <1>10, <1>11, <1>12, <1>13,
           <1>14, <1>15, <1>16 DEF Next

\* A response stays with the request it was given for: what is stored on a row
\* comes from a run on that row, and a run is on a row with its own request.
LEMMA OwnStep == IInv /\ [Next]_vars => SameRequest' /\ ReplayIsOwn'
<1> SUFFICES ASSUME IInv, [Next]_vars PROVE SameRequest' /\ ReplayIsOwn'
  OBVIOUS
<1> DEFINE Goal == SameRequest' /\ ReplayIsOwn'
<1> USE DEF SameRequest, ReplayIsOwn, At, OnRow, SameRow
<1>0. /\ TypeOK /\ Numbered /\ SeenStays /\ SameRequest /\ ReplayIsOwn
      /\ runs \in Nat
  BY BoundAssumption DEF IInv, TypeOK
<1>a. ASSUME NEW r \in Requests, Stops(r), ~At(r, "replayed")',
             \/ row' = NoRow
             \/ row' = row
      PROVE  Goal
  BY <1>0, <1>a DEF Stops
<1>b. ASSUME req' = req,
             \/ row' = NoRow
             \/ /\ row # NoRow /\ row'.id = row.id /\ row'.f = row.f
                /\ row'.stored = row.stored
      PROVE  Goal
  BY <1>0, <1>b
<1>c. ASSUME NEW r \in Requests, NEW k, StartRun(r, k), row'.id = k,
             row'.f = req[r].f, row'.stored = NoResponse,
             \/ k = runs + 1
             \/ row # NoRow /\ row.id = k /\ row.f = row'.f
      PROVE  Goal
  <2>1. /\ req'[r].at = "run" /\ req'[r].id = k /\ req'[r].f = req[r].f
        /\ \A q \in Requests : q # r => req'[q] = req[q]
    BY <1>0, <1>c, Moves DEF StartRun
  <2>2. \A q \in Requests : q # r =>
          /\ req[q].at = "run" => req[q].id # runs + 1
          /\ req[q].at = "take" => req[q].seen.id # runs + 1
    <3>1. \A q \in Requests :
            /\ req[q].at = "run" => req[q].id <= runs /\ req[q].id \in Nat
            /\ req[q].at = "take" => req[q].seen.id <= runs
                                     /\ req[q].seen.id \in Nat
      BY <1>0, Shapes, BoundAssumption
         DEF Numbered, SeenStays, Sights, Runs, Running
    <3> QED BY <1>0, <3>1
  <2> QED BY <1>0, <1>c, <2>1, <2>2
<1>d. ASSUME NEW r \in Requests, Answer(r) PROVE Stops(r) /\ ~At(r, "replayed")'
  BY <1>0, <1>d, Moves, Answers DEF Answer, Idle
<1>e. ASSUME NEW r \in Requests, NextRound(r), At(r, "read") \/ At(r, "drop")
      PROVE  Stops(r) /\ ~At(r, "replayed")'
  <2>1. CASE req[r].round + 1 \in Rounds
    <3>1. req[r] \in Beginning
      BY <1>0, <1>e, Shapes
    <3>2. [req[r] EXCEPT !.at = "insert", !.round = @ + 1].at = "insert"
      BY <3>1 DEF Beginning
    <3> QED BY <1>0, <1>e, <2>1, <3>2, Moves, NextRounds DEF NextRound
  <2>2. CASE req[r].round + 1 \notin Rounds
    BY <1>d, <1>e, <2>2 DEF NextRound
  <2> QED BY <2>1, <2>2
<1>1. ASSUME NEW r \in Requests, NEW f \in Fingerprints, Begin(r, f)
      PROVE  Goal
  <2>1. Stops(r) /\ ~At(r, "replayed")'
    BY <1>0, <1>1, Moves, Begins DEF Begin
  <2> QED BY <1>1, <1>a, <2>1 DEF Begin
<1>2. ASSUME NEW r \in Requests, Insert(r) PROVE Goal
  <2>1. CASE row = NoRow
    BY <1>2, <1>c, <2>1 DEF Insert
  <2>2. CASE row # NoRow
    BY <1>0, <1>2, <2>2, Meets DEF Quiet
  <2> QED BY <2>1, <2>2
<1>3. ASSUME NEW r \in Requests, Read(r) PROVE Goal
  <2>0. req[r] \in Beginning /\ row' = row /\ req[r].at = "read"
    BY <1>0, <1>3, Shapes DEF Read
  <2>1. CASE row = NoRow
    BY <1>3, <1>a, <1>e, <2>0, <2>1 DEF Read
  <2>2. CASE row # NoRow /\ Verdict(r) \in {"drop", "take"}
    <3>1. /\ req'[r] = [req[r] EXCEPT !.at = Verdict(r)]
          /\ \A q \in Requests : q # r => req'[q] = req[q]
      BY <1>0, <1>3, <2>2, Moves DEF Read
    <3>2. /\ req'[r].at = Verdict(r) /\ req'[r].f = req[r].f
          /\ req'[r].seen = req[r].seen
      BY <2>0, <3>1 DEF Beginning
    <3>3. Verdict(r) = "take" => row.f = req[r].f
      BY DEF Verdict
    <3> QED BY <1>0, <2>0, <2>2, <3>1, <3>2, <3>3
  <2>3. CASE row # NoRow /\ Verdict(r) = "replay"
    <3>1. row.f = req[r].f /\ row.stored # NoResponse
      BY <2>3 DEF Verdict
    <3>2. /\ req'[r] = [at |-> "replayed", f |-> req[r].f, got |-> row.stored]
          /\ \A q \in Requests : q # r => req'[q] = req[q]
      BY <1>0, <1>3, <2>3, Moves DEF Read
    <3> QED BY <1>0, <2>0, <2>3, <3>1, <3>2
  <2>4. CASE row # NoRow /\ Verdict(r) \notin {"drop", "take", "replay"}
    BY <1>3, <1>a, <1>d, <2>0, <2>4 DEF Read
  <2> QED BY <2>1, <2>2, <2>3, <2>4
<1>4. ASSUME NEW r \in Requests, DropExpired(r) PROVE Goal
  BY <1>4, <1>a, <1>e DEF DropExpired
<1>5. ASSUME NEW r \in Requests, TakeOver(r) PROVE Goal
  <2>1. CASE Claimable(r)
    <3>1. row # NoRow /\ row \in Rows /\ row.stored = NoResponse
      BY <1>0, <2>1, RowShape DEF Claimable
    <3>2. req[r].f = row.f
      BY <1>0, <1>5, <2>1 DEF TakeOver, Claimable
    <3>3. /\ row'.id = row.id /\ row'.f = row.f
          /\ row'.stored = NoResponse /\ StartRun(r, row.id)
      BY <1>5, <2>1, <3>1 DEF TakeOver, Rows
    <3> QED BY <1>c, <3>1, <3>2, <3>3
  <2>2. CASE ~Claimable(r)
    BY <1>5, <1>a, <1>d, <2>2 DEF TakeOver
  <2> QED BY <2>1, <2>2
<1>6. ASSUME NEW r \in Requests, Complete(r) PROVE Goal
  <2>1. CASE row # NoRow /\ row.id = req[r].id
    <3>1. req[r].f = row.f
      BY <1>0, <1>6, <2>1 DEF Complete
    <3>2. row \in Rows
      BY <1>0, <2>1, RowShape
    <3>3. row' = [row EXCEPT !.stored = [run |-> req[r].run, f |-> req[r].f],
                             !.stale = FALSE]
      BY <1>6, <2>1 DEF Complete, Stored
    <3>4. row'.id = row.id /\ row'.f = row.f /\ row'.stored.f = row'.f
      BY <3>1, <3>2, <3>3 DEF Rows
    <3>5. Stops(r) /\ ~At(r, "replayed")'
      BY <1>6, <1>d DEF Complete
    <3> QED BY <1>0, <2>1, <3>4, <3>5 DEF Stops
  <2>2. CASE row = NoRow \/ row.id # req[r].id
    BY <1>6, <1>a, <1>d, <2>2 DEF Complete, Stored
  <2> QED BY <2>1, <2>2
<1>7. ASSUME NEW r \in Requests, LoseResponse(r) PROVE Goal
  BY <1>7, <1>a, <1>d DEF LoseResponse
<1>8. ASSUME NEW r \in Requests, Release(r) PROVE Goal
  BY <1>8, <1>a, <1>d DEF Release
<1>9. ASSUME NEW r \in Requests, Crash(r) PROVE Goal
  BY <1>9, <1>a, <1>d DEF Crash, Answer
<1>10. ASSUME GoStale PROVE Goal
  BY <1>0, <1>10, <1>b, RowShape DEF GoStale, Rows
<1>11. ASSUME Expire PROVE Goal
  BY <1>0, <1>11, <1>b, RowShape DEF Expire, Rows
<1>12. ASSUME PurgeExpired PROVE Goal
  BY <1>12, <1>b DEF PurgeExpired
<1>13. CASE UNCHANGED vars
  BY <1>0, <1>13 DEF vars
<1> QED BY <1>1, <1>2, <1>3, <1>4, <1>5, <1>6, <1>7, <1>8, <1>9, <1>10,
           <1>11, <1>12, <1>13 DEF Next

\* The inductive invariant holds in every reachable state.
THEOREM Invariant == Spec => []IInv
<1>1. IInv /\ [Next]_vars => IInv'
  BY TypeStep, NumberedStep, SeenStep, OwnsStep, CreditStep, OwnStep DEF IInv
<1> QED BY InitIInv, <1>1, PTL DEF Spec

-----------------------------------------------------------------------------
(* What a reader should know *)

\* The types hold for any number of requests.
THEOREM TypeCorrect == Spec => []TypeOK
<1>1. IInv => TypeOK
  BY DEF IInv
<1> QED BY Invariant, <1>1, PTL

\* begin lets one request at a time through, unless a handler outlives its
\* window: insert, takeover and the removal of an expired key exclude.
THEOREM Exclusive == Spec => []OneRuns
<1>1. IInv => OneRuns
  BY DEF IInv, RunnerOwns, Numbered, OneRuns, Owner
<1> QED BY Invariant, <1>1, PTL

\* However many requests carry the key, the handler runs once, and once more
\* for each reason to.
THEOREM Excused == Spec => []RunsExcused
<1>1. IInv => RunsExcused
  BY BoundAssumption DEF IInv, TypeOK, Credit, Used, RunsExcused
<1> QED BY Invariant, <1>1, PTL

\* A replayed response was given to the same request, also when the key was
\* dropped, taken over or stored in between.
THEOREM Own == Spec => []ReplayIsOwn
<1>1. IInv => ReplayIsOwn
  BY DEF IInv
<1> QED BY Invariant, <1>1, PTL
=============================================================================
