---------------------------- MODULE Access_proofs ----------------------------
(***************************************************************************)
(* Proofs about who gets in: about Accounts, for any users, administrators,*)
(* refresh tokens and requests, and any number of new passwords, and then  *)
(* about AuthCodes, for any purposes and requests and any limits.          *)
(***************************************************************************)
EXTENDS Accounts, AuthCodes, FiniteSetTheorems, TLAPS

Stages == {Idle} \cup Writing \cup Hashing \cup Revoking \cup Starting
          \cup Redeeming \cup ForUser

\* A request that is about to insert the session that continues a token's.
Continues(q, t) == AtStage(q, "session") /\ req[q].from = t

\* A request takes a token's session over only by removing the token's row,
\* which one request does, and inserts one session for it.
HeirsFollow ==
    \A t \in Tokens :
        /\ heirs[t] <= 1
        /\ token[t].state # "gone" => heirs[t] = 0
        /\ \A q \in Requests : Continues(q, t) =>
              /\ heirs[t] = 0 /\ token[t].state = "gone"
              /\ \A p \in Requests : Continues(p, t) => p = q

\* A row is read for a write only while the account is there.
WritesLive ==
    \A q \in Requests : AtStage(q, "write") =>
        req[q].row.deleted = "no" /\ req[q].row.purged = FALSE

\* Past the recovery window an account is only asked for in vain.
OldIsQuiet ==
    \A q \in Requests :
        req[q] # Idle /\ row[req[q].user].deleted = "old" =>
            AtStage(q, "restore") \/ (AtStage(q, "redeem") /\ req[q].ok = FALSE)

IInv ==
    /\ TypeOK
    /\ HeirsFollow
    /\ WritesLive
    /\ OldIsQuiet
    /\ OldSessionsEnd
    /\ SanctionsStand
    /\ PurgedForGood

-----------------------------------------------------------------------------
\* What a request carries follows from its stage.
LEMMA StageForm ==
    ASSUME TypeOK, NEW q \in Requests
    PROVE  /\ req[q] \in Stages
           /\ AtStage(q, "idle") <=> req[q] = Idle
           /\ AtStage(q, "write") => req[q] \in Writing
           /\ AtStage(q, "hash") => req[q] \in Hashing
           /\ AtStage(q, "revoke") => req[q] \in Revoking
           /\ AtStage(q, "session") => req[q] \in Starting
           /\ AtStage(q, "redeem") => req[q] \in Redeeming
           /\ req[q].at \in {"leave", "softDelete", "restore"} => req[q] \in ForUser
           /\ req[q] # Idle => req[q].user \in Users
<1>1. req[q] \in Stages
  BY DEF TypeOK, Stages
<1> USE <1>1 DEF AtStage, Stages, Idle, Writing, Hashing, Revoking, Starting, Redeeming, ForUser
<1>2. AtStage(q, "idle") <=> req[q] = Idle
  OBVIOUS
<1>3. /\ AtStage(q, "write") => req[q] \in Writing
      /\ AtStage(q, "hash") => req[q] \in Hashing
      /\ AtStage(q, "revoke") => req[q] \in Revoking
  OBVIOUS
<1>4. /\ AtStage(q, "session") => req[q] \in Starting
      /\ AtStage(q, "redeem") => req[q] \in Redeeming
      /\ req[q].at \in {"leave", "softDelete", "restore"} => req[q] \in ForUser
  OBVIOUS
<1>5. req[q] # Idle => req[q].user \in Users
  OBVIOUS
<1> QED BY <1>1, <1>2, <1>3, <1>4, <1>5

\* One request goes on; the others do not.
LEMMA GoesStep ==
    ASSUME TypeOK, NEW q \in Requests, NEW n \in Stages, Goes(q, n)
    PROVE  /\ req' \in [Requests -> Stages]
           /\ req'[q] = n
           /\ \A p \in Requests \ {q} : req'[p] = req[p]
BY DEF TypeOK, Stages, Goes

\* No account, no token and no request at first.
LEMMA InitIInv == Init => IInv
<1> SUFFICES ASSUME Init PROVE IInv
  OBVIOUS
<1> USE DEF Init, Idle, Fresh, Unissued, AtStage, Live
<1>1. TypeOK
  BY BoundsAssumption DEF TypeOK, Rows
<1>2. HeirsFollow /\ WritesLive /\ OldIsQuiet
  BY DEF HeirsFollow, WritesLive, OldIsQuiet, Continues
<1>3. OldSessionsEnd /\ SanctionsStand /\ PurgedForGood
  BY DEF OldSessionsEnd, SanctionsStand, PurgedForGood
<1> QED BY <1>1, <1>2, <1>3 DEF IInv

-----------------------------------------------------------------------------
(* Steps of the requests *)

\* Nothing but the request changes: it ends, or begins, or turns to a stage of
\* which no token and no revocation depends.
LEMMA ReqStep ==
    ASSUME IInv, NEW q \in Requests, NEW n \in Stages, Goes(q, n),
           UNCHANGED <<row, password, token, heirs, lifeVars, ordered, stale>>,
           cut' = IF AtStage(q, "revoke") THEN cut \cup {req[q].user} ELSE cut,
           n.at = "session" => n.from = NoToken,
           n.at = "write" => n.row.deleted = "no" /\ n.row.purged = FALSE,
           \/ n = Idle \/ n.at = "restore" \/ (n.at = "redeem" /\ n.ok = FALSE)
           \/ row[n.user].deleted # "old"
    PROVE  IInv'
<1> USE DEF IInv, lifeVars
<1>1. /\ req' \in [Requests -> Stages]
      /\ req'[q] = n /\ \A p \in Requests \ {q} : req'[p] = req[p]
  BY GoesStep
<1>2. \A p \in Requests \ {q} : \A at : AtStage(p, at)' <=> AtStage(p, at)
  BY <1>1 DEF AtStage
<1>3. TypeOK'
  <2>1. AtStage(q, "revoke") => req[q].user \in Users
    BY StageForm DEF Revoking
  <2> QED BY <1>1, <2>1 DEF TypeOK, Stages
<1>4. HeirsFollow'
  <2>1. \A t \in Tokens : ~Continues(q, t)'
    BY <1>1, NoTokenAssumption DEF Continues, AtStage
  <2>2. \A p \in Requests, t \in Tokens : Continues(p, t)' => Continues(p, t)
    BY <1>1, <2>1 DEF Continues, AtStage
  <2> QED BY <2>2 DEF HeirsFollow
<1>5. WritesLive'
  BY <1>1 DEF WritesLive, AtStage
<1>6. OldIsQuiet'
  BY <1>1 DEF OldIsQuiet, AtStage
<1>7. OldSessionsEnd'
  BY <1>1 DEF OldSessionsEnd, AtStage
<1>8. SanctionsStand'
  BY DEF SanctionsStand
<1>9. PurgedForGood'
  BY DEF PurgedForGood
<1> QED BY <1>3, <1>4, <1>5, <1>6, <1>7, <1>8, <1>9
\* A request begins: nothing of it was under way.
LEMMA BeginSteps ==
    ASSUME IInv, NEW q \in Requests, NEW u \in Users,
           \/ SignIn(q, u) \/ ResetByCode(q, u)
           \/ deleteMe(q, u) \/ restoreAccount(q, u)
           \/ \E does \in AdminWrites \cup OwnWrites : Read(q, u, does)
    PROVE  IInv'
<1> USE DEF IInv, Begins, sessionVars, Authenticated, Live
<1>1. password[u] \in 0..MaxPasswords /\ row[u] \in Rows
  BY DEF TypeOK
<1>2. req[q] = Idle => ~AtStage(q, "revoke")
  BY DEF AtStage, Idle
<1>3. CASE SignIn(q, u)
  <2> DEFINE n == [at |-> "session", user |-> u, proved |-> password[u], from |-> NoToken]
  <2>1. n \in Stages /\ n.at = "session" /\ n.from = NoToken /\ n.user = u
    BY <1>1 DEF Stages, Starting
  <2>2. row[n.user].deleted # "old"
    BY <1>3 DEF SignIn
  <2>3. Goes(q, n)
    BY <1>3 DEF SignIn
  <2> HIDE DEF n
  <2> QED BY <1>2, <1>3, <2>1, <2>2, <2>3, ReqStep DEF SignIn
<1>4. CASE ResetByCode(q, u)
  <2> DEFINE n == [at |-> "hash", user |-> u]
  <2>1. n \in Stages /\ n.at = "hash" /\ n.user = u
    BY DEF Stages, Hashing
  <2>2. Goes(q, n) /\ row[n.user].deleted # "old"
    BY <1>4 DEF ResetByCode
  <2> HIDE DEF n
  <2> QED BY <1>2, <1>4, <2>1, <2>2, ReqStep DEF ResetByCode
<1>5. CASE deleteMe(q, u)
  <2> DEFINE n == [at |-> "leave", user |-> u]
  <2>1. n \in Stages /\ n.at = "leave" /\ n.user = u
    BY DEF Stages, ForUser
  <2>2. Goes(q, n) /\ row[n.user].deleted # "old"
    BY <1>5 DEF deleteMe
  <2> HIDE DEF n
  <2> QED BY <1>2, <1>5, <2>1, <2>2, ReqStep DEF deleteMe
<1>6. CASE restoreAccount(q, u)
  <2> DEFINE n == [at |-> "restore", user |-> u]
  <2>1. n \in Stages /\ n.at = "restore" /\ n.user = u
    BY DEF Stages, ForUser
  <2>2. Goes(q, n)
    BY <1>6 DEF restoreAccount
  <2> HIDE DEF n
  <2> QED BY <1>2, <1>6, <2>1, <2>2, ReqStep DEF restoreAccount
<1>7. ASSUME NEW does \in AdminWrites \cup OwnWrites, Read(q, u, does) PROVE IInv'
  <2> DEFINE n == [at |-> "write", user |-> u, does |-> does, row |-> row[u]]
  <2>1. n \in Stages /\ n.at = "write" /\ n.user = u /\ n.row = row[u]
    BY <1>1 DEF Stages, Writing
  <2>2. Goes(q, n) /\ row[u].deleted = "no"
    BY <1>7 DEF Read
  <2>3. row[u].purged = FALSE
    BY <1>1, <2>2 DEF PurgedForGood, Rows
  <2> HIDE DEF n
  <2> QED BY <1>2, <1>7, <2>1, <2>2, <2>3, ReqStep DEF Read
<1> QED BY <1>3, <1>4, <1>5, <1>6, <1>7

\* A refresh token is looked up, or was removed by another request; a request
\* dies.
LEMMA IdleSteps ==
    ASSUME IInv, NEW q \in Requests,
           (\E t \in Tokens : FindToken(q, t)) \/ RedeemLost(q) \/ Crash(q)
    PROVE  IInv'
<1> USE DEF IInv, sessionVars, AtStage
<1>1. Idle \in Stages /\ Idle.at = "idle"
  BY DEF Stages, Idle
<1>2. ASSUME NEW t \in Tokens, FindToken(q, t) PROVE IInv'
  <2> DEFINE u == token[t].user
             n == [at |-> "redeem", token |-> t, user |-> u, ok |-> Authenticated(u)]
  <2>1. token[t] \in LiveTokens
    BY <1>2 DEF FindToken, TypeOK, Unissued, Gone
  <2>2. n \in Stages /\ n.at = "redeem" /\ n.user = u /\ n.ok = Authenticated(u)
    BY <2>1 DEF Stages, Redeeming, LiveTokens, Authenticated, Live
  <2>3. row[u].deleted = "old" => Authenticated(u) = FALSE
    BY DEF Authenticated, Live
  <2>4. Goes(q, n) /\ ~AtStage(q, "revoke")
    BY <1>2 DEF FindToken, Begins, Idle
  <2> HIDE DEF n
  <2> QED BY <1>2, <2>2, <2>3, <2>4, ReqStep DEF FindToken
<1>3. CASE RedeemLost(q)
  BY <1>1, <1>3, ReqStep DEF RedeemLost, Done
<1>4. CASE Crash(q)
  BY <1>1, <1>4, ReqStep DEF Crash, Done
<1> QED BY <1>2, <1>3, <1>4
-----------------------------------------------------------------------------
(* Steps of the sessions *)

\* The session that continues a token's is inserted once: the request that was
\* about to was the only one, and ends.
LEMMA StartSessionStep ==
    ASSUME IInv, NEW q \in Requests, StartSession(q)
    PROVE  IInv'
<1> USE DEF IInv, lifeVars
<1> DEFINE u == req[q].user
           new == [state |-> "live", user |-> u, proved |-> req[q].proved,
                   late |-> req[q].proved < password[u]]
<1>1. PICK s \in Tokens : token[s] = Unissued /\ token' = [token EXCEPT ![s] = new]
  BY DEF StartSession
<1>2. /\ req[q] \in Starting /\ AtStage(q, "session")
      /\ u \in Users /\ password[u] \in Nat /\ req[q].proved \in 0..MaxPasswords
  BY StageForm, BoundsAssumption DEF StartSession, Starting, TypeOK
<1>3. new \in LiveTokens /\ new.state = "live" /\ new.user = u
      /\ new.proved = req[q].proved /\ new.late = (req[q].proved < password[u])
  BY <1>2 DEF LiveTokens
<1> HIDE DEF new
<1>4. Goes(q, Idle) /\ Idle \in Stages /\ Idle.at = "idle"
  BY DEF StartSession, Done, Stages, Idle
<1>5. /\ req' \in [Requests -> Stages]
      /\ req'[q] = Idle /\ \A p \in Requests \ {q} : req'[p] = req[p]
  BY <1>4, GoesStep
<1>6. \A t \in Tokens : /\ heirs[t] \in Nat
                        /\ heirs'[t] = IF t = req[q].from THEN heirs[t] + 1 ELSE heirs[t]
  BY DEF StartSession, TypeOK
<1>7. UNCHANGED <<row, password, cut, lifeVars, ordered, stale>>
  BY DEF StartSession
<1>8. \A t \in Tokens : Continues(q, t) <=> t = req[q].from
  BY <1>2 DEF Continues
<1>9. \A p \in Requests, t \in Tokens : Continues(p, t)' => p # q /\ Continues(p, t)
  BY <1>4, <1>5 DEF Continues, AtStage
<1>10. TypeOK'
  <2>1. token' \in [Tokens -> LiveTokens \cup {Unissued, Gone}]
    BY <1>1, <1>3 DEF TypeOK
  <2>2. heirs' \in [Tokens -> Nat]
    BY <1>6 DEF StartSession
  <2> QED BY <1>5, <1>7, <2>1, <2>2 DEF TypeOK, Stages
<1>11. HeirsFollow'
  <2> SUFFICES ASSUME NEW t \in Tokens
               PROVE  /\ heirs'[t] <= 1
                      /\ token'[t].state # "gone" => heirs'[t] = 0
                      /\ \A p \in Requests : Continues(p, t)' =>
                            /\ heirs'[t] = 0 /\ token'[t].state = "gone"
                            /\ \A o \in Requests : Continues(o, t)' => o = p
    BY DEF HeirsFollow
  <2>1. CASE t = req[q].from
    <3>1. heirs[t] = 0 /\ token[t].state = "gone" /\ \A p \in Requests : Continues(p, t) => p = q
      BY <1>8, <2>1 DEF HeirsFollow
    <3>2. heirs'[t] = 1 /\ token'[t].state = "gone"
      BY <1>1, <1>6, <2>1, <3>1 DEF Unissued, TypeOK
    <3> QED BY <1>9, <3>1, <3>2
  <2>2. CASE t # req[q].from
    <3>1. heirs'[t] = heirs[t]
      BY <1>6, <2>2
    <3>2. CASE t = s
      BY <1>1, <1>9, <3>1, <3>2 DEF HeirsFollow, Unissued
    <3>3. CASE t # s
      <4>1. token'[t] = token[t]
        BY <1>1, <3>3 DEF TypeOK
      <4> QED BY <1>9, <3>1, <4>1 DEF HeirsFollow
    <3> QED BY <3>2, <3>3
  <2> QED BY <2>1, <2>2
<1>12. WritesLive' /\ OldIsQuiet'
  BY <1>4, <1>5, <1>7 DEF WritesLive, OldIsQuiet, AtStage
<1>13. OldSessionsEnd'
  <2> SUFFICES ASSUME NEW t \in Tokens,
                      token'[t].state = "live", token'[t].proved < password[token'[t].user]
               PROVE  \/ token'[t].late \/ token'[t].user \in cut
                      \/ \E p \in Requests : AtStage(p, "revoke")' /\ req'[p].user = token'[t].user
    BY <1>7 DEF OldSessionsEnd
  <2>1. CASE t = s
    BY <1>1, <1>3, <2>1 DEF TypeOK
  <2>2. CASE t # s
    <3>1. token'[t] = token[t]
      BY <1>1, <2>2 DEF TypeOK
    <3>2. \A p \in Requests : AtStage(p, "revoke") => p # q /\ req'[p] = req[p]
      BY <1>2, <1>5 DEF AtStage
    <3> QED BY <3>1, <3>2 DEF OldSessionsEnd, AtStage
  <2> QED BY <2>1, <2>2
<1>14. SanctionsStand'
  BY <1>7 DEF SanctionsStand
<1>15. PurgedForGood'
  <2>1. row[u].purged = FALSE
    <3>1. req[q] # Idle /\ ~AtStage(q, "restore") /\ ~AtStage(q, "redeem")
      BY <1>2 DEF AtStage, Idle
    <3>2. row[u].deleted # "old"
      BY <3>1 DEF OldIsQuiet
    <3> QED BY <1>2, <3>2 DEF PurgedForGood, TypeOK, Rows
  <2> QED BY <1>1, <1>3, <1>7, <2>1 DEF PurgedForGood, TypeOK
<1> QED BY <1>10, <1>11, <1>12, <1>13, <1>14, <1>15
\* Refresh tokens are removed, and the request that removes them goes on: it may
\* continue the session of the one that it removed itself, and it has not revoked
\* before the account's are gone.
LEMMA RemovalStep ==
    ASSUME IInv, NEW q \in Requests, NEW n \in Stages, Goes(q, n),
           token' = [t \in Tokens |-> token'[t]],
           \A t \in Tokens : token'[t] = token[t] \/ token'[t] = Gone,
           UNCHANGED <<row, password, cut, heirs, lifeVars, ordered, stale>>,
           n.at = "session" =>
              \/ n.from = NoToken
              \/ n.from \in Tokens /\ token[n.from].state = "live" /\ token'[n.from] = Gone,
           AtStage(q, "revoke") =>
              \A t \in Tokens : token'[t].state = "live" => token'[t].user # req[q].user,
           n.at # "write",
           n = Idle \/ row[n.user].deleted # "old"
    PROVE  IInv'
<1> USE DEF IInv, lifeVars
<1>1. /\ req' \in [Requests -> Stages]
      /\ req'[q] = n /\ \A p \in Requests \ {q} : req'[p] = req[p]
  BY GoesStep
<1>2. Gone.state = "gone" /\ \A t \in Tokens : token'[t].state = "live" => token'[t] = token[t]
  BY DEF Gone
<1>3. TypeOK'
  <2>1. token' \in [Tokens -> LiveTokens \cup {Unissued, Gone}]
    BY DEF TypeOK
  <2> QED BY <1>1, <2>1 DEF TypeOK, Stages
<1>4. HeirsFollow'
  <2> SUFFICES ASSUME NEW t \in Tokens
               PROVE  /\ heirs[t] <= 1
                      /\ token'[t].state # "gone" => heirs[t] = 0
                      /\ \A p \in Requests : Continues(p, t)' =>
                            /\ heirs[t] = 0 /\ token'[t].state = "gone"
                            /\ \A o \in Requests : Continues(o, t)' => o = p
    BY DEF HeirsFollow
  <2>1. heirs[t] <= 1 /\ (token'[t].state # "gone" => heirs[t] = 0)
    BY <1>2 DEF HeirsFollow
  <2>2. CASE Continues(q, t)'
    <3>1. token[t].state = "live" /\ token'[t] = Gone
      BY <1>1, <2>2, NoTokenAssumption DEF Continues, AtStage
    <3>2. heirs[t] = 0 /\ \A p \in Requests : ~Continues(p, t)
      BY <3>1 DEF HeirsFollow
    <3>3. \A p \in Requests : Continues(p, t)' => p = q
      BY <1>1, <3>2 DEF Continues, AtStage
    <3> QED BY <1>2, <2>1, <3>1, <3>2, <3>3
  <2>3. CASE ~Continues(q, t)'
    <3>1. \A p \in Requests : Continues(p, t)' => Continues(p, t)
      BY <1>1, <2>3 DEF Continues, AtStage
    <3> QED BY <1>2, <2>1, <3>1 DEF HeirsFollow
  <2> QED BY <2>2, <2>3
<1>5. WritesLive'
  BY <1>1 DEF WritesLive, AtStage
<1>6. OldIsQuiet'
  BY <1>1 DEF OldIsQuiet, AtStage
<1>7. OldSessionsEnd'
  <2> SUFFICES ASSUME NEW t \in Tokens,
                      token'[t].state = "live", token'[t].proved < password[token'[t].user]
               PROVE  \/ token'[t].late \/ token'[t].user \in cut
                      \/ \E p \in Requests : AtStage(p, "revoke")' /\ req'[p].user = token'[t].user
    BY DEF OldSessionsEnd
  <2>1. token'[t] = token[t]
    BY <1>2
  <2>2. CASE token[t].late \/ token[t].user \in cut
    BY <2>1, <2>2
  <2>3. CASE ~token[t].late /\ token[t].user \notin cut
    <3>1. PICK p \in Requests : AtStage(p, "revoke") /\ req[p].user = token[t].user
      BY <2>1, <2>3 DEF OldSessionsEnd
    <3>2. p # q
      BY <2>1, <3>1
    <3> QED BY <1>1, <2>1, <3>1, <3>2 DEF AtStage
  <2> QED BY <2>2, <2>3
<1>8. SanctionsStand'
  BY DEF SanctionsStand
<1>9. PurgedForGood'
  BY <1>2 DEF PurgedForGood
<1> QED BY <1>3, <1>4, <1>5, <1>6, <1>7, <1>8, <1>9

\* One request removes the token that several were about to redeem.
LEMMA RedeemStep ==
    ASSUME IInv, NEW q \in Requests, Redeem(q)
    PROVE  IInv'
<1> USE DEF IInv
<1> DEFINE t == req[q].token
           n == IF req[q].ok
                THEN [at |-> "session", user |-> req[q].user, from |-> t,
                      proved |-> IF token[t].state = "live" THEN token[t].proved ELSE 0]
                ELSE Idle
<1>1. /\ req[q] \in Redeeming /\ t \in Tokens /\ AtStage(q, "redeem")
      /\ token[t] \in LiveTokens /\ token[t].state = "live"
  BY StageForm DEF Redeem, Redeemable, Redeeming, TypeOK, Unissued, Gone
<1>2. token' = [token EXCEPT ![t] = Gone] /\ Goes(q, n)
  BY DEF Redeem
<1>3. Idle \in Stages /\ Idle.at = "idle"
  BY DEF Stages, Idle
<1>4. CASE req[q].ok
  <2>1. n \in Stages /\ n.at = "session" /\ n.from = t /\ n.user = req[q].user
    BY <1>1, <1>4 DEF Stages, Starting, Redeeming, LiveTokens
  <2>2. row[n.user].deleted # "old"
    BY <1>1, <1>4, <2>1 DEF OldIsQuiet, AtStage, Idle
  <2>3. token'[t] = Gone
    BY <1>1, <1>2 DEF TypeOK
  <2> HIDE DEF n
  <2> QED BY <1>1, <1>2, <2>1, <2>2, <2>3, RemovalStep DEF TypeOK, Redeem, AtStage
<1>5. CASE ~req[q].ok
  <2>1. n = Idle
    BY <1>5
  <2> HIDE DEF n
  <2> QED BY <1>1, <1>2, <1>3, <2>1, RemovalStep DEF TypeOK, Redeem, AtStage
<1> QED BY <1>4, <1>5

\* The tokens of an account are all removed.
LEMMA Removed ==
    ASSUME TypeOK, NEW u \in Users
    PROVE  LET left == WithoutTokensOf(u) IN
           /\ left \in [Tokens -> LiveTokens \cup {Unissued, Gone}]
           /\ left = [t \in Tokens |-> left[t]]
           /\ \A t \in Tokens : left[t] = token[t] \/ left[t] = Gone
           /\ \A t \in Tokens : left[t].state = "live" => left[t].user # u
BY DEF TypeOK, WithoutTokensOf, Gone

\* A new password's request revokes, and may sign in; one who leaves is signed out.
LEMMA RevokeSteps ==
    ASSUME IInv, NEW q \in Requests, Revoke(q) \/ LeaveRevoke(q)
    PROVE  IInv'
<1> USE DEF IInv
<1> DEFINE u == req[q].user
<1>1. /\ u \in Users /\ token' = WithoutTokensOf(u) /\ req[q] # Idle
      /\ UNCHANGED <<row, password, cut, heirs, lifeVars, ordered, stale>>
  BY StageForm DEF Revoke, LeaveRevoke, Revoking, ForUser, AtStage, Idle
<1>2. /\ token' = [t \in Tokens |-> token'[t]]
      /\ \A t \in Tokens : token'[t] = token[t] \/ token'[t] = Gone
      /\ \A t \in Tokens : token'[t].state = "live" => token'[t].user # u
  BY <1>1, Removed
<1>3. row[u].deleted # "old"
  BY <1>1 DEF OldIsQuiet, AtStage, Revoke, LeaveRevoke
<1>4. CASE Revoke(q)
  <2> DEFINE n == IF req[q].does \in SignsIn
                  THEN [at |-> "session", user |-> u, proved |-> password[u], from |-> NoToken]
                  ELSE Idle
  <2>1. /\ n \in Stages /\ n.at \in {"idle", "session"}
        /\ n.at = "session" => n.from = NoToken
        /\ n = Idle \/ n.user = u
    BY <1>1 DEF Stages, Starting, Idle, TypeOK
  <2>2. Goes(q, n)
    BY <1>4 DEF Revoke
  <2> HIDE DEF n
  <2> QED BY <1>1, <1>2, <1>3, <2>1, <2>2, RemovalStep
<1>5. CASE LeaveRevoke(q)
  <2> DEFINE n == [at |-> "softDelete", user |-> u]
  <2>1. n \in Stages /\ n.at = "softDelete" /\ n.user = u
    BY <1>1 DEF Stages, ForUser
  <2>2. Goes(q, n)
    BY <1>5 DEF LeaveRevoke
  <2> HIDE DEF n
  <2> QED BY <1>1, <1>2, <1>3, <2>1, <2>2, RemovalStep
<1> QED BY <1>4, <1>5

\* A token is signed out, or expires.
LEMMA LogoutStep ==
    ASSUME IInv, NEW s \in Tokens, logout(s)
    PROVE  IInv'
<1> USE DEF IInv, logout, lifeVars
<1>1. Gone.state = "gone" /\ token' \in [Tokens -> LiveTokens \cup {Unissued, Gone}]
  BY DEF TypeOK, Gone
<1>2. \A t \in Tokens : token'[t] = token[t] \/ token'[t] = Gone
  BY DEF TypeOK
<1>3. TypeOK'
  BY <1>1 DEF TypeOK
<1>4. HeirsFollow' /\ WritesLive' /\ OldIsQuiet'
  BY <1>1, <1>2 DEF HeirsFollow, WritesLive, OldIsQuiet, Continues, AtStage
<1>5. OldSessionsEnd' /\ PurgedForGood'
  BY <1>1, <1>2 DEF OldSessionsEnd, PurgedForGood, AtStage
<1>6. SanctionsStand'
  BY DEF SanctionsStand
<1> QED BY <1>3, <1>4, <1>5, <1>6
-----------------------------------------------------------------------------
(* Steps that write the account *)

\* A whole row is written as it was read but for one column: a sanction stands
\* with its order unless the row had changed, and a new password leaves the
\* revocation to the same request.
LEMMA WriteStep ==
    ASSUME IInv, NEW q \in Requests, Write(q)
    PROVE  IInv'
<1> USE DEF IInv, lifeVars
<1> DEFINE u == req[q].user
           does == req[q].does
           r == Changed(req[q].row, does)
           n == IF does \in Revokes THEN [at |-> "revoke", user |-> u, does |-> does] ELSE Idle
<1>1. /\ req[q] \in Writing /\ AtStage(q, "write") /\ u \in Users
      /\ does \in AdminWrites \cup OwnWrites
      /\ req[q].row \in Rows /\ req[q].row.deleted = "no" /\ req[q].row.purged = FALSE
  BY StageForm DEF Write, Writing, WritesLive
<1>2. r \in Rows /\ r.deleted = "no" /\ r.purged = FALSE
  BY <1>1 DEF Changed, Rows
<1>3. row' = [row EXCEPT ![u] = r] /\ row'[u] = r /\ \A v \in Users \ {u} : row'[v] = row[v]
  BY <1>1 DEF Write, TypeOK
<1>4. /\ n \in Stages /\ Goes(q, n)
      /\ n = Idle \/ (n.at = "revoke" /\ n.user = u)
      /\ does \in NewPassword => n.at = "revoke" /\ n.user = u
  <2>1. Goes(q, n)
    BY DEF Write
  <2>2. CASE does \in Revokes
    BY <1>1, <2>1, <2>2 DEF Stages, Revoking
  <2>3. CASE does \notin Revokes
    BY <2>1, <2>3 DEF Stages, Revokes
  <2> QED BY <2>2, <2>3
<1>5. /\ \A v \in Users \ {u} : password'[v] = password[v]
      /\ does \notin NewPassword => password' = password
      /\ password' \in [Users -> 0..MaxPasswords]
  <2>1. CASE does \in NewPassword
    <3>1. password' = [password EXCEPT ![u] = @ + 1] /\ password[u] < MaxPasswords
      BY <2>1 DEF Write
    <3>2. password[u] + 1 \in 0..MaxPasswords
      BY <1>1, <3>1, BoundsAssumption DEF TypeOK
    <3> QED BY <2>1, <3>1, <3>2 DEF TypeOK
  <2>2. CASE does \notin NewPassword
    BY <2>2 DEF Write, TypeOK
  <2> QED BY <2>1, <2>2
<1>6. UNCHANGED <<token, cut, heirs, lifeVars>>
  BY DEF Write
<1>7. Idle.at = "idle"
  BY DEF Idle
<1>8. SanctionsStand'
  <2> SUFFICES ASSUME NEW v \in Users, v \notin stale'
               PROVE  /\ row'[v].banned <=> "ban" \in ordered'[v]
                      /\ row'[v].suspended <=> "suspend" \in ordered'[v]
    BY DEF SanctionsStand
  <2>1. v \notin stale /\ (v = u => row[u] = req[q].row)
    BY DEF Write
  <2>2. CASE v # u
    BY <1>3, <2>1, <2>2 DEF Write, SanctionsStand, TypeOK
  <2>3. CASE v = u
    <3>1. ordered'[u] = Order(ordered[u], does)
      BY <1>1 DEF Write, TypeOK
    <3>2. /\ req[q].row.banned <=> "ban" \in ordered[u]
          /\ req[q].row.suspended <=> "suspend" \in ordered[u]
      BY <1>1, <2>1, <2>3 DEF SanctionsStand
    <3>3. /\ r.banned <=> "ban" \in Order(ordered[u], does)
          /\ r.suspended <=> "suspend" \in Order(ordered[u], does)
      BY <1>1, <3>2 DEF Changed, Order, Rows
    <3> QED BY <1>3, <2>3, <3>1, <3>3
  <2> QED BY <2>2, <2>3
<1>9. ordered' \in [Users -> SUBSET {"ban", "suspend"}] /\ stale' \subseteq Users
  <2>1. Order(ordered[u], does) \in SUBSET {"ban", "suspend"}
    BY <1>1 DEF Order, TypeOK
  <2> QED BY <1>1, <2>1 DEF Write, TypeOK
<1> HIDE DEF r, n
<1>10. /\ req' \in [Requests -> Stages]
       /\ req'[q] = n /\ \A p \in Requests \ {q} : req'[p] = req[p]
  BY <1>4, GoesStep
<1>11. TypeOK'
  BY <1>2, <1>3, <1>5, <1>6, <1>9, <1>10 DEF TypeOK, Stages
<1>12. HeirsFollow' /\ WritesLive'
  <2>1. \A p \in Requests, t \in Tokens : Continues(p, t)' => Continues(p, t)
    BY <1>4, <1>7, <1>10 DEF Continues, AtStage
  <2> QED BY <1>4, <1>6, <1>7, <1>10, <2>1 DEF HeirsFollow, WritesLive, AtStage
<1>13. row[u].deleted # "old"
  BY <1>1 DEF OldIsQuiet, AtStage, Idle
<1>14. OldIsQuiet'
  <2> SUFFICES ASSUME NEW p \in Requests, req'[p] # Idle, row'[req'[p].user].deleted = "old"
               PROVE  AtStage(p, "restore")' \/ (AtStage(p, "redeem")' /\ req'[p].ok = FALSE)
    BY DEF OldIsQuiet
  <2>1. p # q
    BY <1>2, <1>3, <1>4, <1>10
  <2>2. req'[p] = req[p] /\ req[p].user \in Users
    BY <1>10, <2>1, StageForm
  <2>3. row[req[p].user].deleted = "old"
    BY <1>2, <1>3, <2>2
  <2> QED BY <2>2, <2>3 DEF OldIsQuiet, AtStage
<1>15. OldSessionsEnd'
  <2> SUFFICES ASSUME NEW t \in Tokens,
                      token[t].state = "live", token[t].proved < password'[token[t].user]
               PROVE  \/ token[t].late \/ token[t].user \in cut
                      \/ \E p \in Requests : AtStage(p, "revoke")' /\ req'[p].user = token[t].user
    BY <1>6 DEF OldSessionsEnd
  <2>1. token[t].user \in Users
    BY DEF TypeOK, LiveTokens, Unissued, Gone
  <2>2. CASE does \in NewPassword /\ token[t].user = u
    BY <1>4, <1>10, <2>2 DEF AtStage
  <2>3. CASE does \notin NewPassword \/ token[t].user # u
    <3>1. token[t].proved < password[token[t].user]
      BY <1>5, <2>1, <2>3
    <3>2. \A p \in Requests : AtStage(p, "revoke") => p # q
      BY <1>1 DEF AtStage
    <3> QED BY <1>10, <3>1, <3>2 DEF OldSessionsEnd, AtStage
  <2> QED BY <2>2, <2>3
<1>16. PurgedForGood'
  BY <1>2, <1>3, <1>6 DEF PurgedForGood
<1> QED BY <1>8, <1>11, <1>12, <1>14, <1>15, <1>16
\* A password that is reset by code is written in its own column, and the request
\* goes on to revoke.
LEMMA WritePasswordStep ==
    ASSUME IInv, NEW q \in Requests, WritePassword(q)
    PROVE  IInv'
<1> USE DEF IInv, lifeVars
<1> DEFINE u == req[q].user
           n == [at |-> "revoke", user |-> u, does |-> "resetByCode"]
<1>1. req[q] \in Hashing /\ u \in Users /\ AtStage(q, "hash") /\ req[q] # Idle
  BY StageForm DEF WritePassword, Hashing, AtStage, Idle
<1>2. n \in Stages /\ n.at = "revoke" /\ n.user = u /\ Goes(q, n)
  BY <1>1 DEF Stages, Revoking, Revokes, NewPassword, WritePassword
<1> HIDE DEF n
<1>3. /\ req' \in [Requests -> Stages]
      /\ req'[q] = n /\ \A p \in Requests \ {q} : req'[p] = req[p]
  BY <1>2, GoesStep
<1>4. UNCHANGED <<row, token, cut, heirs, lifeVars, ordered, stale>>
  BY DEF WritePassword
<1>5. /\ password' \in [Users -> 0..MaxPasswords]
      /\ \A v \in Users \ {u} : password'[v] = password[v]
  <2>1. password[u] + 1 \in 0..MaxPasswords
    BY <1>1, BoundsAssumption DEF WritePassword, TypeOK
  <2> QED BY <1>1, <2>1 DEF WritePassword, TypeOK
<1>6. TypeOK'
  BY <1>3, <1>4, <1>5 DEF TypeOK, Stages
<1>7. HeirsFollow' /\ WritesLive'
  <2>1. \A p \in Requests, t \in Tokens : Continues(p, t)' => Continues(p, t)
    BY <1>2, <1>3 DEF Continues, AtStage
  <2> QED BY <1>2, <1>3, <1>4, <2>1 DEF HeirsFollow, WritesLive, AtStage
<1>8. OldIsQuiet'
  BY <1>1, <1>2, <1>3, <1>4 DEF OldIsQuiet, AtStage
<1>9. OldSessionsEnd'
  <2> SUFFICES ASSUME NEW t \in Tokens,
                      token[t].state = "live", token[t].proved < password'[token[t].user]
               PROVE  \/ token[t].late \/ token[t].user \in cut
                      \/ \E p \in Requests : AtStage(p, "revoke")' /\ req'[p].user = token[t].user
    BY <1>4 DEF OldSessionsEnd
  <2>1. CASE token[t].user = u
    BY <1>2, <1>3, <2>1 DEF AtStage
  <2>2. CASE token[t].user # u
    <3>1. token[t].user \in Users
      BY DEF TypeOK, LiveTokens, Unissued, Gone
    <3>2. token[t].proved < password[token[t].user]
      BY <1>5, <2>2, <3>1
    <3>3. \A p \in Requests : AtStage(p, "revoke") => p # q
      BY <1>1 DEF AtStage
    <3> QED BY <1>3, <3>2, <3>3 DEF OldSessionsEnd, AtStage
  <2> QED BY <2>1, <2>2
<1>10. SanctionsStand' /\ PurgedForGood'
  BY <1>4 DEF SanctionsStand, PurgedForGood
<1> QED BY <1>6, <1>7, <1>8, <1>9, <1>10

\* A request that ends takes no revocation with it.
LEMMA DoneStep ==
    ASSUME IInv, NEW q \in Requests, Done(q), ~AtStage(q, "revoke"),
           UNCHANGED <<token, password, cut, heirs>>
    PROVE  /\ req' \in [Requests -> Stages]
           /\ req'[q] = Idle /\ \A p \in Requests \ {q} : req'[p] = req[p]
           /\ HeirsFollow' /\ WritesLive' /\ OldSessionsEnd'
<1> USE DEF IInv
<1>1. Idle \in Stages /\ Idle.at = "idle"
  BY DEF Stages, Idle
<1>2. /\ req' \in [Requests -> Stages]
      /\ req'[q] = Idle /\ \A p \in Requests \ {q} : req'[p] = req[p]
  BY <1>1, GoesStep DEF Done
<1>3. \A p \in Requests, t \in Tokens : Continues(p, t)' => Continues(p, t)
  BY <1>1, <1>2 DEF Continues, AtStage
<1>4. HeirsFollow' /\ WritesLive' /\ OldSessionsEnd'
  BY <1>1, <1>2, <1>3 DEF HeirsFollow, WritesLive, OldSessionsEnd, AtStage
<1> QED BY <1>2, <1>4

\* The deletion itself: he was leaving, within the recovery window from now on.
LEMMA SoftDeleteStep ==
    ASSUME IInv, NEW q \in Requests, SoftDelete(q)
    PROVE  IInv'
<1> USE DEF IInv, sessionVars, lifeVars
<1> DEFINE u == req[q].user
           r == [row[u] EXCEPT !.deleted = "recent"]
<1>1. u \in Users /\ row[u] \in Rows /\ Done(q) /\ AtStage(q, "softDelete") /\ req[q] # Idle
  BY StageForm DEF SoftDelete, AtStage, ForUser, Idle, TypeOK
<1>2. UNCHANGED <<password, token, cut, heirs, lifeVars, ordered, stale>>
  BY DEF SoftDelete
<1>3. /\ req' \in [Requests -> Stages]
      /\ req'[q] = Idle /\ \A p \in Requests \ {q} : req'[p] = req[p]
      /\ HeirsFollow' /\ WritesLive' /\ OldSessionsEnd'
  BY <1>1, <1>2, DoneStep DEF AtStage
<1>4. row[u].deleted # "old" /\ row[u].purged = FALSE
  <2>1. row[u].deleted # "old"
    BY <1>1 DEF OldIsQuiet, AtStage
  <2> QED BY <1>1, <2>1 DEF PurgedForGood, Rows
<1>5. /\ r \in Rows /\ r.deleted = "recent" /\ r.purged = FALSE
      /\ r.banned = row[u].banned /\ r.suspended = row[u].suspended
  BY <1>1, <1>4 DEF Rows
<1>6. row' = [row EXCEPT ![u] = r]
  BY DEF SoftDelete
<1> HIDE DEF r
<1>7. row'[u] = r /\ \A v \in Users \ {u} : row'[v] = row[v]
  BY <1>1, <1>6 DEF TypeOK
<1>8. TypeOK'
  BY <1>2, <1>3, <1>5, <1>6 DEF TypeOK, Stages
<1>9. OldIsQuiet'
  <2> SUFFICES ASSUME NEW p \in Requests, req'[p] # Idle, row'[req'[p].user].deleted = "old"
               PROVE  AtStage(p, "restore")' \/ (AtStage(p, "redeem")' /\ req'[p].ok = FALSE)
    BY DEF OldIsQuiet
  <2>1. p # q /\ req'[p] = req[p] /\ req[p].user \in Users
    BY <1>3, StageForm
  <2> QED BY <1>5, <1>7, <2>1 DEF OldIsQuiet, AtStage
<1>10. SanctionsStand' /\ PurgedForGood'
  BY <1>2, <1>5, <1>7 DEF SanctionsStand, PurgedForGood
<1> QED BY <1>3, <1>8, <1>9, <1>10

\* An account is restored unless its window is over.
LEMMA RestoreStep ==
    ASSUME IInv, NEW q \in Requests, restoreAccountById(q)
    PROVE  IInv'
<1> USE DEF IInv, sessionVars, lifeVars
<1> DEFINE u == req[q].user
<1>1. /\ u \in Users /\ row[u] \in Rows /\ password[u] \in 0..MaxPasswords
      /\ AtStage(q, "restore")
      /\ UNCHANGED <<password, token, cut, heirs, lifeVars, ordered, stale>>
  BY StageForm DEF restoreAccountById, AtStage, ForUser, TypeOK
<1>2. CASE ~Restorable(u)
  <2>1. Goes(q, Idle) /\ Idle \in Stages /\ Idle.at = "idle" /\ UNCHANGED row
    BY <1>2 DEF restoreAccountById, Done, Stages, Idle
  <2> QED BY <1>1, <2>1, ReqStep DEF AtStage
<1>3. CASE Restorable(u)
  <2> DEFINE n == [at |-> "session", user |-> u, proved |-> password[u], from |-> NoToken]
             r == [row[u] EXCEPT !.deleted = "no"]
  <2>1. n \in Stages /\ n.at = "session" /\ n.from = NoToken /\ n.user = u
    BY <1>1 DEF Stages, Starting
  <2>2. /\ r \in Rows /\ r.deleted = "no" /\ r.purged = FALSE /\ row[u].purged = FALSE
        /\ r.banned = row[u].banned /\ r.suspended = row[u].suspended
    BY <1>1, <1>3 DEF Restorable, Rows
  <2>3. row' = [row EXCEPT ![u] = r] /\ Goes(q, n)
    BY <1>3 DEF restoreAccountById
  <2> HIDE DEF n, r
  <2>4. row'[u] = r /\ \A v \in Users \ {u} : row'[v] = row[v]
    BY <1>1, <2>3 DEF TypeOK
  <2>5. /\ req' \in [Requests -> Stages]
        /\ req'[q] = n /\ \A p \in Requests \ {q} : req'[p] = req[p]
    BY <2>1, <2>3, GoesStep
  <2>6. TypeOK'
    BY <1>1, <2>2, <2>3, <2>5 DEF TypeOK, Stages
  <2>7. HeirsFollow' /\ WritesLive' /\ OldSessionsEnd'
    <3>1. \A p \in Requests, t \in Tokens : Continues(p, t)' => Continues(p, t)
      BY <2>1, <2>5, NoTokenAssumption DEF Continues, AtStage
    <3>2. HeirsFollow' /\ WritesLive'
      BY <1>1, <2>1, <2>5, <3>1 DEF HeirsFollow, WritesLive, AtStage
    <3>3. \A p \in Requests : AtStage(p, "revoke") => p # q /\ req'[p] = req[p]
      BY <1>1, <2>5 DEF AtStage
    <3>4. OldSessionsEnd'
      BY <1>1, <3>3 DEF OldSessionsEnd, AtStage
    <3> QED BY <3>2, <3>4
  <2>8. OldIsQuiet'
    <3> SUFFICES ASSUME NEW p \in Requests, req'[p] # Idle, row'[req'[p].user].deleted = "old"
                 PROVE  AtStage(p, "restore")' \/ (AtStage(p, "redeem")' /\ req'[p].ok = FALSE)
      BY DEF OldIsQuiet
    <3>1. p # q /\ req'[p] = req[p] /\ req[p].user \in Users
      BY <2>1, <2>2, <2>4, <2>5, StageForm
    <3> QED BY <2>2, <2>4, <3>1 DEF OldIsQuiet, AtStage
  <2>9. SanctionsStand' /\ PurgedForGood'
    BY <1>1, <2>2, <2>4 DEF SanctionsStand, PurgedForGood
  <2> QED BY <2>6, <2>7, <2>8, <2>9
<1> QED BY <1>2, <1>3

-----------------------------------------------------------------------------
(* Time, the purge, and what is settled *)

\* A user owes something, or no longer does, or a purge run lists its candidates.
LEMMA LifeSteps ==
    ASSUME IInv, (\E u \in Users : Owe(u) \/ Settle(u)) \/ findPurgeCandidateIds
    PROVE  IInv'
<1> USE DEF IInv, sessionVars, Owe, Settle, findPurgeCandidateIds
<1>1. TypeOK'
  BY DEF TypeOK
<1>2. HeirsFollow' /\ WritesLive' /\ OldIsQuiet'
  BY DEF HeirsFollow, WritesLive, OldIsQuiet, Continues, AtStage
<1>3. OldSessionsEnd' /\ SanctionsStand' /\ PurgedForGood'
  BY DEF OldSessionsEnd, SanctionsStand, PurgedForGood, AtStage
<1> QED BY <1>1, <1>2, <1>3

\* The window ends when no request works on the account as it was.
LEMMA MonthStep ==
    ASSUME IInv, NEW u \in Users, MonthPasses(u)
    PROVE  IInv'
<1> USE DEF IInv, sessionVars, lifeVars
<1> DEFINE r == [row[u] EXCEPT !.deleted = "old"]
<1>1. row[u] \in Rows /\ row[u].deleted = "recent"
  BY DEF TypeOK, MonthPasses
<1>2. /\ r \in Rows /\ r.deleted = "old" /\ r.purged = FALSE
      /\ r.banned = row[u].banned /\ r.suspended = row[u].suspended
  BY <1>1 DEF Rows, PurgedForGood
<1>3. /\ row' = [row EXCEPT ![u] = r]
      /\ UNCHANGED <<password, token, cut, heirs, req, lifeVars, ordered, stale>>
  BY DEF MonthPasses
<1> HIDE DEF r
<1>4. row'[u] = r /\ \A v \in Users \ {u} : row'[v] = row[v]
  BY <1>3 DEF TypeOK
<1>5. TypeOK'
  BY <1>2, <1>3 DEF TypeOK
<1>6. HeirsFollow' /\ WritesLive' /\ OldSessionsEnd'
  BY <1>3 DEF HeirsFollow, WritesLive, OldSessionsEnd, Continues, AtStage
<1>7. OldIsQuiet'
  <2> SUFFICES ASSUME NEW p \in Requests, req[p] # Idle, row'[req[p].user].deleted = "old"
               PROVE  AtStage(p, "restore") \/ (AtStage(p, "redeem") /\ req[p].ok = FALSE)
    BY <1>3 DEF OldIsQuiet, AtStage
  <2>1. req[p].user \in Users
    BY StageForm
  <2>2. CASE req[p].user = u
    BY <2>2 DEF MonthPasses
  <2>3. CASE req[p].user # u
    BY <1>4, <2>1, <2>3 DEF OldIsQuiet
  <2> QED BY <2>2, <2>3
<1>8. SanctionsStand' /\ PurgedForGood'
  BY <1>2, <1>3, <1>4 DEF SanctionsStand, PurgedForGood
<1> QED BY <1>5, <1>6, <1>7, <1>8

\* The purge looks again under the lock; nobody works on the account by then.
LEMMA PurgeStep ==
    ASSUME IInv, NEW u \in Users, purgeAccount(u)
    PROVE  IInv'
<1> USE DEF IInv, lifeVars
<1>1. /\ row[u] \in Rows
      /\ UNCHANGED <<password, cut, heirs, req, owes, ordered, stale>>
      /\ doomed' \subseteq Users
  BY DEF TypeOK, purgeAccount
<1>2. CASE ~Purgeable(u)
  <2>1. UNCHANGED <<row, token>>
    BY <1>2 DEF purgeAccount
  <2>2. TypeOK'
    BY <1>1, <2>1 DEF TypeOK
  <2>3. HeirsFollow' /\ WritesLive' /\ OldIsQuiet'
    BY <1>1, <2>1 DEF HeirsFollow, WritesLive, OldIsQuiet, Continues, AtStage
  <2>4. OldSessionsEnd' /\ SanctionsStand' /\ PurgedForGood'
    BY <1>1, <2>1 DEF OldSessionsEnd, SanctionsStand, PurgedForGood, AtStage
  <2> QED BY <2>2, <2>3, <2>4
<1>3. CASE Purgeable(u)
  <2> DEFINE r == [row[u] EXCEPT !.purged = TRUE]
  <2>1. /\ r \in Rows /\ r.deleted = "old" /\ row[u].deleted = "old"
        /\ r.banned = row[u].banned /\ r.suspended = row[u].suspended
    BY <1>1, <1>3 DEF Purgeable, Rows
  <2>2. row' = [row EXCEPT ![u] = r] /\ token' = WithoutTokensOf(u)
    BY <1>3 DEF purgeAccount
  <2> HIDE DEF r
  <2>3. row'[u] = r /\ \A v \in Users \ {u} : row'[v] = row[v]
    BY <2>2 DEF TypeOK
  <2>4. /\ token' \in [Tokens -> LiveTokens \cup {Unissued, Gone}]
        /\ \A t \in Tokens : token'[t] = token[t] \/ token'[t] = Gone
        /\ \A t \in Tokens : token'[t].state = "live" => token'[t].user # u
    BY <2>2, Removed
  <2>5. Gone.state = "gone"
    BY DEF Gone
  <2>6. TypeOK'
    BY <1>1, <2>1, <2>2, <2>4 DEF TypeOK
  <2>7. HeirsFollow' /\ WritesLive' /\ OldSessionsEnd'
    BY <1>1, <2>4, <2>5 DEF HeirsFollow, WritesLive, OldSessionsEnd, Continues, AtStage
  <2>8. OldIsQuiet'
    <3>1. \A p \in Requests : req[p] # Idle => row'[req[p].user].deleted = row[req[p].user].deleted
      BY <2>1, <2>3, StageForm
    <3> QED BY <1>1, <3>1 DEF OldIsQuiet, AtStage
  <2>9. SanctionsStand' /\ PurgedForGood'
    BY <1>1, <2>1, <2>3, <2>4, <2>5 DEF SanctionsStand, PurgedForGood
  <2> QED BY <2>6, <2>7, <2>8, <2>9
<1> QED BY <1>2, <1>3

\* Every step keeps the invariant.
LEMMA StepIInv == IInv /\ [Next]_vars => IInv'
<1> SUFFICES ASSUME IInv, [Next]_vars PROVE IInv'
  OBVIOUS
<1>1. ASSUME NEW q \in Requests,
             \/ StartSession(q) \/ Redeem(q) \/ RedeemLost(q) \/ Write(q) \/ WritePassword(q)
             \/ Revoke(q) \/ LeaveRevoke(q) \/ SoftDelete(q)
             \/ restoreAccountById(q) \/ Crash(q)
             \/ \E t \in Tokens : FindToken(q, t)
      PROVE  IInv'
  BY <1>1, StartSessionStep, RedeemStep, IdleSteps, WriteStep, WritePasswordStep,
     RevokeSteps, SoftDeleteStep, RestoreStep
<1>2. ASSUME NEW q \in Requests, NEW u \in Users,
             \/ SignIn(q, u) \/ ResetByCode(q, u)
             \/ deleteMe(q, u) \/ restoreAccount(q, u)
             \/ \E does \in AdminWrites \cup OwnWrites : Read(q, u, does)
      PROVE  IInv'
  BY <1>2, BeginSteps
<1>3. ASSUME NEW t \in Tokens, logout(t) PROVE IInv'
  BY <1>3, LogoutStep
<1>4. ASSUME NEW u \in Users, Owe(u) \/ Settle(u) \/ purgeAccount(u) \/ MonthPasses(u) PROVE IInv'
  BY <1>4, LifeSteps, PurgeStep, MonthStep
<1>5. CASE findPurgeCandidateIds
  BY <1>5, LifeSteps
<1>6. CASE UNCHANGED vars
  <2> USE <1>6 DEF IInv, vars
  <2>1. TypeOK' /\ HeirsFollow' /\ WritesLive' /\ OldIsQuiet'
    BY DEF TypeOK, HeirsFollow, WritesLive, OldIsQuiet, Continues, AtStage
  <2>2. OldSessionsEnd' /\ SanctionsStand' /\ PurgedForGood'
    BY DEF OldSessionsEnd, SanctionsStand, PurgedForGood, AtStage
  <2> QED BY <2>1, <2>2
<1> QED BY <1>1, <1>2, <1>3, <1>4, <1>5, <1>6 DEF Next

-----------------------------------------------------------------------------
\* The inductive invariant holds throughout.
THEOREM Invariant == Spec => []IInv
  BY InitIInv, StepIInv, PTL DEF Spec

\* Accounts, refresh tokens and what requests carry keep their types.
THEOREM TypeCorrect == Spec => []TypeOK
<1>1. IInv => TypeOK
  BY DEF IInv
<1> QED BY Invariant, <1>1, PTL

\* However many requests present a refresh token, at most one session follows it.
THEOREM OneHeir == Spec => []RedeemedOnce
<1>1. IInv => RedeemedOnce
  BY DEF IInv, HeirsFollow, RedeemedOnce
<1> QED BY Invariant, <1>1, PTL

\* A new password ends the sessions of the old ones, but for those that a request
\* was just about to insert, and for a process that died.
THEOREM SessionsEnd == Spec => []OldSessionsEnd
<1>1. IInv => OldSessionsEnd
  BY DEF IInv
<1> QED BY Invariant, <1>1, PTL

\* Bans and suspensions stand as admins ordered them, where no row was written
\* over a change.
THEOREM Sanctioned == Spec => []SanctionsStand
<1>1. IInv => SanctionsStand
  BY DEF IInv
<1> QED BY Invariant, <1>1, PTL

\* A purged account stays purged and without a session.
THEOREM Purged == Spec => []PurgedForGood
<1>1. IInv => PurgedForGood
  BY DEF IInv
<1> QED BY Invariant, <1>1, PTL

-----------------------------------------------------------------------------
(* The last administrator: what the deletion's check takes for granted *)

\* A request that may take an administrator's powers away with its next writes.
ActsOnAdmin(q) ==
    req[q].at \in {"leave", "softDelete", "write"} /\ req[q].user \in Administrators

\* No two of them are under way at once.
OneAtATime == \A p, q \in Requests : ActsOnAdmin(p) /\ ActsOnAdmin(q) => p = q

\* From the check to the deletion somebody else can act.
LeavingCovered ==
    \A q \in Requests :
        req[q].at \in {"leave", "softDelete"} => CoveredWithout(req[q].user)

\* An administrator loses his powers by a write or a deletion of his row alone.
LEMMA PowersEnd ==
    ASSUME IInv, [Next]_vars, NEW v \in Users, UsableAdmin(v), ~UsableAdmin(v)'
    PROVE  \E p \in Requests : req[p].at \in {"write", "softDelete"} /\ req[p].user = v
<1> USE DEF IInv, UsableAdmin, Live
<1>1. row' # row /\ row \in [Users -> Rows]
  BY DEF TypeOK
<1>2. ASSUME NEW p \in Requests, Write(p) \/ SoftDelete(p)
      PROVE  req[p].at \in {"write", "softDelete"} /\ req[p].user = v
  <2>1. req[p].at \in {"write", "softDelete"}
    BY <1>2 DEF Write, SoftDelete, AtStage
  <2>2. \A w \in Users : w # req[p].user => row'[w] = row[w]
    BY <1>1, <1>2 DEF Write, SoftDelete
  <2> QED BY <2>1, <2>2
<1>3. ASSUME NEW p \in Requests, restoreAccountById(p) PROVE FALSE
  <2>1. row' = [row EXCEPT ![req[p].user].deleted = "no"]
    BY <1>1, <1>3 DEF restoreAccountById
  <2>2. /\ row'[v].banned = row[v].banned /\ row'[v].suspended = row[v].suspended
        /\ row[v].deleted = "no" => row'[v].deleted = "no"
    BY <1>1, <2>1 DEF Rows
  <2> QED BY <2>2
<1>4. ASSUME NEW u \in Users, purgeAccount(u) \/ MonthPasses(u) PROVE FALSE
  <2>1. u # v
    BY <1>1, <1>4 DEF purgeAccount, Purgeable, MonthPasses
  <2>2. row'[v] = row[v]
    BY <1>1, <1>4, <2>1 DEF purgeAccount, MonthPasses
  <2> QED BY <2>2
<1> QED
  BY <1>1, <1>2, <1>3, <1>4
  DEF Next, StartSession, Redeem, RedeemLost, WritePassword, Revoke,
      LeaveRevoke, Crash, FindToken, SignIn, ResetByCode, deleteMe,
      restoreAccount, Read, logout, Owe, Settle, findPurgeCandidateIds, vars

\* An account goes by a deletion that was checked before.
LEMMA GoesByDeletion ==
    ASSUME IInv, [Next]_vars, NEW u \in Users, Live(u), ~Live(u)'
    PROVE  \E p \in Requests : AtStage(p, "softDelete") /\ req[p].user = u
<1> USE DEF IInv, Live
<1>1. row' # row /\ row \in [Users -> Rows]
  BY DEF TypeOK
<1>2. ASSUME NEW p \in Requests, SoftDelete(p)
      PROVE  AtStage(p, "softDelete") /\ req[p].user = u
  BY <1>1, <1>2 DEF SoftDelete
<1>3. ASSUME NEW p \in Requests, Write(p) PROVE FALSE
  <2>1. /\ req[p].row.deleted = "no" /\ req[p] \in Writing
        /\ row' = [row EXCEPT ![req[p].user] = Changed(req[p].row, req[p].does)]
    BY <1>3, StageForm DEF Write, WritesLive
  <2>2. req[p].row \in Rows
    BY <2>1 DEF Writing
  <2>3. Changed(req[p].row, req[p].does).deleted = "no"
    BY <2>1, <2>2 DEF Changed, Rows, Writing, AdminWrites, OwnWrites
  <2> QED BY <1>1, <2>1, <2>3
<1>4. ASSUME NEW p \in Requests, restoreAccountById(p) PROVE FALSE
  <2>1. row' = [row EXCEPT ![req[p].user].deleted = "no"]
    BY <1>1, <1>4 DEF restoreAccountById
  <2>2. row[u].deleted = "no" => row'[u].deleted = "no"
    BY <1>1, <2>1 DEF Rows
  <2> QED BY <2>2
<1>5. ASSUME NEW w \in Users, purgeAccount(w) \/ MonthPasses(w) PROVE FALSE
  <2>1. w # u
    BY <1>1, <1>5 DEF purgeAccount, Purgeable, MonthPasses
  <2>2. row'[u] = row[u]
    BY <1>1, <1>5, <2>1 DEF purgeAccount, MonthPasses
  <2> QED BY <2>2
<1> QED
  BY <1>1, <1>2, <1>3, <1>4, <1>5
  DEF Next, StartSession, Redeem, RedeemLost, WritePassword, Revoke,
      LeaveRevoke, Crash, FindToken, SignIn, ResetByCode, deleteMe,
      restoreAccount, Read, logout, Owe, Settle, findPurgeCandidateIds, vars

\* Who is leaving was leaving before, or has just been checked.
LEMMA LeavingBegins ==
    ASSUME IInv, [Next]_vars, NEW q \in Requests,
           req'[q].at \in {"leave", "softDelete"}
    PROVE  \/ /\ req[q].at \in {"leave", "softDelete"}
              /\ req'[q].user = req[q].user
           \/ CoveredWithout(req'[q].user) /\ UNCHANGED row
<1> USE DEF IInv, AtStage
<1>0. req \in [Requests -> Stages]
  BY DEF TypeOK, Stages
<1>1. CASE req'[q] = req[q]
  BY <1>1
<1>2. ASSUME NEW u \in Users, deleteMe(q, u)
      PROVE  CoveredWithout(req'[q].user) /\ UNCHANGED row
  BY <1>0, <1>2 DEF deleteMe, Begins, Goes, Deletable
<1>3. CASE LeaveRevoke(q)
  BY <1>0, <1>3 DEF LeaveRevoke, Goes
<1>4. ASSUME NEW n, Goes(q, n), n.at \notin {"leave", "softDelete"} PROVE FALSE
  BY <1>0, <1>4 DEF Goes
<1>5. ASSUME NEW p \in Requests, NEW n, p # q, Goes(p, n) PROVE req'[q] = req[q]
  BY <1>0, <1>5 DEF Goes
<1>6. Idle.at = "idle"
  BY DEF Idle
<1>7. ASSUME NEW p \in Requests, Done(p) PROVE req'[q] = req[q]
  BY <1>4, <1>5, <1>6, <1>7 DEF Done
<1>8. ASSUME NEW p \in Requests,
             \/ StartSession(p) \/ Redeem(p) \/ RedeemLost(p) \/ Write(p)
             \/ WritePassword(p) \/ Revoke(p) \/ SoftDelete(p)
             \/ restoreAccountById(p) \/ Crash(p)
             \/ \E t \in Tokens : FindToken(p, t)
      PROVE  req'[q] = req[q]
  <2>1. CASE \/ StartSession(p) \/ RedeemLost(p) \/ SoftDelete(p)
             \/ Crash(p)
    BY <1>7, <2>1 DEF StartSession, RedeemLost, SoftDelete, Crash
  <2>2. CASE Redeem(p)
    BY <1>4, <1>5, <1>6, <2>2 DEF Redeem
  <2>3. CASE Write(p) \/ WritePassword(p) \/ Revoke(p)
    BY <1>4, <1>5, <1>6, <2>3 DEF Write, WritePassword, Revoke
  <2>4. CASE restoreAccountById(p)
    BY <1>4, <1>5, <1>7, <2>4 DEF restoreAccountById
  <2>5. ASSUME NEW t \in Tokens, FindToken(p, t) PROVE req'[q] = req[q]
    BY <1>4, <1>5, <2>5 DEF FindToken, Begins
  <2> QED BY <1>8, <2>1, <2>2, <2>3, <2>4, <2>5
<1>9. ASSUME NEW p \in Requests, NEW u \in Users,
             \/ SignIn(p, u) \/ ResetByCode(p, u) \/ restoreAccount(p, u)
             \/ \E does \in AdminWrites \cup OwnWrites : Read(p, u, does)
      PROVE  req'[q] = req[q]
  <2>1. PICK n : Goes(p, n) /\ n.at \notin {"leave", "softDelete"}
    <3>1. CASE SignIn(p, u)
      BY <3>1 DEF SignIn, Begins
    <3>2. CASE ResetByCode(p, u)
      BY <3>2 DEF ResetByCode, Begins
    <3>3. CASE restoreAccount(p, u)
      BY <3>3 DEF restoreAccount, Begins
    <3>4. ASSUME NEW does \in AdminWrites \cup OwnWrites, Read(p, u, does)
          PROVE  \E n : Goes(p, n) /\ n.at \notin {"leave", "softDelete"}
      BY <3>4 DEF Read, Begins
    <3> QED BY <1>9, <3>1, <3>2, <3>3, <3>4
  <2> QED BY <1>4, <1>5, <2>1
<1>10. ASSUME NEW p \in Requests, p # q,
              LeaveRevoke(p) \/ \E u \in Users : deleteMe(p, u)
       PROVE  req'[q] = req[q]
  BY <1>5, <1>10 DEF LeaveRevoke, deleteMe, Begins
<1>11. CASE \/ \E t \in Tokens : logout(t)
            \/ \E u \in Users : Owe(u) \/ Settle(u) \/ purgeAccount(u) \/ MonthPasses(u)
            \/ findPurgeCandidateIds
            \/ UNCHANGED vars
  BY <1>11 DEF logout, Owe, Settle, purgeAccount, MonthPasses, findPurgeCandidateIds, vars
<1> QED BY <1>1, <1>2, <1>3, <1>8, <1>9, <1>10, <1>11 DEF Next

\* While requests on administrators take turns, whoever else can act when one of
\* them is let go still can when he goes.
LEMMA CoveredStep ==
    ASSUME IInv, OneAtATime, LeavingCovered, [Next]_vars PROVE LeavingCovered'
<1> SUFFICES ASSUME NEW q \in Requests, req'[q].at \in {"leave", "softDelete"},
                    req'[q].user \in Administrators
             PROVE  \E v \in Administrators \ {req'[q].user} : UsableAdmin(v)'
  BY DEF LeavingCovered, CoveredWithout
<1>1. CASE /\ req[q].at \in {"leave", "softDelete"}
           /\ req'[q].user = req[q].user
  <2>1. PICK v \in Administrators \ {req[q].user} : UsableAdmin(v)
    BY <1>1 DEF LeavingCovered, CoveredWithout
  <2>2. CASE ~UsableAdmin(v)'
    <3>1. PICK p \in Requests :
            req[p].at \in {"write", "softDelete"} /\ req[p].user = v
      BY <2>1, <2>2, PowersEnd, AdministratorsAssumption
    <3>2. ActsOnAdmin(p) /\ ActsOnAdmin(q)
      BY <1>1, <2>1, <3>1 DEF ActsOnAdmin
    <3> QED BY <2>1, <3>1, <3>2 DEF OneAtATime
  <2> QED BY <1>1, <2>1, <2>2
<1>2. CASE CoveredWithout(req'[q].user) /\ UNCHANGED row
  BY <1>2 DEF CoveredWithout, UsableAdmin, Live
<1> QED BY <1>1, <1>2, LeavingBegins

\* The check that an administrator may go is good for as long as requests on
\* administrators take turns: of all the ways in which sign-ins, restores,
\* purges, crashes and writes interleave, only two deletions, or a deletion
\* and a ban, suspension or stale write, at once leave no administrator
\* (account-commitments.service.ts).
THEOREM LastAdminStaysInTurn == Spec /\ []OneAtATime => LastAdminStays
<1> DEFINE Stays == \A u \in Administrators :
                       Live(u) /\ ~Live(u)'
                         => \E v \in Administrators \ {u} : UsableAdmin(v)
<1>1. Init => LeavingCovered
  BY DEF Init, LeavingCovered, Idle
<1>2. IInv /\ OneAtATime /\ LeavingCovered /\ [Next]_vars => LeavingCovered'
  BY CoveredStep
<1>3. IInv /\ LeavingCovered /\ [Next]_vars => [Stays]_vars
  <2> SUFFICES ASSUME IInv, LeavingCovered, [Next]_vars,
                      NEW u \in Administrators, Live(u), ~Live(u)'
               PROVE  \E v \in Administrators \ {u} : UsableAdmin(v)
    OBVIOUS
  <2>1. PICK p \in Requests : AtStage(p, "softDelete") /\ req[p].user = u
    BY GoesByDeletion, AdministratorsAssumption
  <2> QED BY <2>1 DEF LeavingCovered, CoveredWithout, AtStage
<1> QED BY Invariant, <1>1, <1>2, <1>3, PTL DEF Spec, LastAdminStays

-----------------------------------------------------------------------------
(* The codes that sign-in and password reset ask for *)

CallStages == {NoCall} \cup AtPurpose \cup AtIssue \cup AtCode \cup AtRevoke
              \cup AtLocked

\* The requests that compared a wrong code with this row and have not counted it.
WrongOn(c) == {r \in Callers : call[r].at = "wrong" /\ call[r].code = c}

\* Each wrong try that a row counts, or will, was one of a request of its own.
TriesCovered ==
    \A c \in Codes : Sent(c) =>
        code[c].attempts + Cardinality(WrongOn(c)) < MaxAttempts + Cardinality(Callers)

\* Codes are numbered as they are inserted.
SentInOrder == \E n \in 0..MaxCodes : \A c \in Codes : Sent(c) <=> c <= n

\* Requests hold on to codes that were sent.
CallsSent ==
    \A r \in Callers :
        /\ call[r].at \in {"match", "wrong"} => Sent(call[r].code)
        /\ call[r].at = "deleted" => \A c \in call[r].old : Sent(c)

\* A row says whether its code was used, and it was used once at most.
UsesTrue ==
    \A c \in Codes : uses[c] = IF Sent(c) /\ code[c].consumed THEN 1 ELSE 0

CodesIInv ==
    /\ CodesTypeOK
    /\ TriesCovered
    /\ SentInOrder
    /\ CallsSent
    /\ UsesTrue
    /\ LockToldOnce

-----------------------------------------------------------------------------
\* A row differs from the mark of a code that was never sent, and what a
\* request carries follows from its stage.
LEMMA CodeForm ==
    ASSUME CodesTypeOK
    PROVE  /\ \A x \in CodeRows : x # Unsent
           /\ \A c \in Codes : Sent(c) => code[c] \in CodeRows
           /\ \A r \in Callers :
                 /\ call[r] \in CallStages
                 /\ call[r] = NoCall => call[r].at = "idle"
                 /\ call[r].at = "reserved" => call[r] \in AtPurpose
                 /\ call[r].at = "deleted" => call[r] \in AtIssue
                 /\ call[r].at \in {"match", "wrong"} => call[r] \in AtCode
                 /\ call[r].at = "revoke" => call[r] \in AtRevoke
                 /\ call[r].at = "locked" => call[r] \in AtLocked
  <1>1. \A x \in CodeRows : x # Unsent
    BY DEF CodeRows, Unsent
  <1>2. \A c \in Codes : Sent(c) => code[c] \in CodeRows
    BY DEF CodesTypeOK, Sent
  <1>3. ASSUME NEW r \in Callers
        PROVE  /\ call[r] \in CallStages
               /\ call[r] = NoCall => call[r].at = "idle"
               /\ call[r].at = "reserved" => call[r] \in AtPurpose
               /\ call[r].at = "deleted" => call[r] \in AtIssue
               /\ call[r].at \in {"match", "wrong"} => call[r] \in AtCode
               /\ call[r].at = "revoke" => call[r] \in AtRevoke
               /\ call[r].at = "locked" => call[r] \in AtLocked
    <2>1. call[r] \in CallStages
      BY DEF CodesTypeOK, CallStages
    <2> QED
      BY <2>1 DEF CallStages, NoCall, AtPurpose, AtIssue, AtCode, AtRevoke, AtLocked
  <1> QED
    BY <1>1, <1>2, <1>3

\* A request that moves to a stage of its own leaves the others where they are.
LEMMA Moved ==
    ASSUME CodesTypeOK, NEW r \in Callers, NEW next \in CallStages, Moves(r, next)
    PROVE  /\ call' \in [Callers -> CallStages]
           /\ call'[r] = next
           /\ \A s \in Callers : s # r => call'[s] = call[s]
  BY DEF CodesTypeOK, Moves, CallStages

\* The number that the next row gets is no row's yet.
LEMMA NextIsUnsent ==
    ASSUME CodesTypeOK, SentInOrder, NextCode \in Codes
    PROVE  \A c \in Codes : Sent(c) <=> c < NextCode
  <1>1. PICK n \in 0..MaxCodes : \A c \in Codes : Sent(c) <=> c <= n
    BY DEF SentInOrder
  <1>2. {c \in Codes : Sent(c)} = 1..n
    BY <1>1, CodesBoundsAssumption DEF Codes
  <1>3. Cardinality(1..n) = n
    BY <1>1, FS_Interval, CodesBoundsAssumption
  <1>4. NextCode = n + 1
    BY <1>2, <1>3 DEF NextCode
  <1> QED
    BY <1>1, <1>4, CodesBoundsAssumption DEF Codes

\* There are never more requests with a wrong code than requests.
LEMMA WrongFew ==
    ASSUME NEW c
    PROVE  /\ IsFiniteSet(WrongOn(c)) /\ IsFiniteSet(Callers)
           /\ Cardinality(WrongOn(c)) \in Nat /\ Cardinality(Callers) \in Nat
           /\ Cardinality(WrongOn(c)) <= Cardinality(Callers)
  <1>1. WrongOn(c) \subseteq Callers
    BY DEF WrongOn
  <1> QED
    BY <1>1, CallersAssumption, FS_Subset, FS_CardinalityType

LEMMA WrongFewNext ==
    ASSUME NEW c
    PROVE  /\ Cardinality(WrongOn(c)') \in Nat
           /\ Cardinality(WrongOn(c)') <= Cardinality(Callers)
  <1>1. WrongOn(c)' \subseteq Callers
    BY DEF WrongOn
  <1> QED
    BY <1>1, CallersAssumption, FS_Subset, FS_CardinalityType

\* A step that gives no request a wrong code adds none to a row.
LEMMA NoneWronger ==
    ASSUME NEW c,
           \A r \in Callers : call'[r].at = "wrong" => call'[r] = call[r]
    PROVE  Cardinality(WrongOn(c)') <= Cardinality(WrongOn(c))
  <1>1. WrongOn(c)' \subseteq WrongOn(c)
    BY DEF WrongOn
  <1> QED
    BY <1>1, WrongFew, FS_Subset

-----------------------------------------------------------------------------
\* Initially no code was sent.
LEMMA CodesInitInv == CodesInit => CodesIInv
  <1> SUFFICES ASSUME CodesInit PROVE CodesIInv
    OBVIOUS
  <1>1. CodesTypeOK
    BY CodesBoundsAssumption DEF CodesInit, CodesTypeOK, Counters
  <1>2. \A c \in Codes : ~Sent(c)
    BY DEF CodesInit, Sent
  <1>3. TriesCovered /\ UsesTrue
    BY <1>2 DEF CodesInit, TriesCovered, UsesTrue
  <1>6. LockToldOnce
    <2>1. \A r \in Callers, c \in Codes : ~Telling(r, c)
      BY DEF CodesInit, NoCall, Telling, Tell
    <2> QED
      BY <1>2, <2>1 DEF CodesInit, LockToldOnce, Exhausted, Reported
  <1>4. SentInOrder
    <2>1. \A c \in Codes : Sent(c) <=> c <= 0
      BY <1>2, CodesBoundsAssumption DEF Codes
    <2>2. 0 \in 0..MaxCodes
      BY CodesBoundsAssumption
    <2> QED
      BY <2>1, <2>2 DEF SentInOrder
  <1>5. CallsSent
    BY DEF CodesInit, CallsSent, NoCall
  <1> QED
    BY <1>1, <1>3, <1>4, <1>5, <1>6 DEF CodesIInv

SentAfter(c) == code'[c] # Unsent

\* A row keeps its tries and its use.
SameTries(c) ==
    /\ SentAfter(c) <=> Sent(c)
    /\ Sent(c) => /\ code'[c].attempts = code[c].attempts
                  /\ code'[c].consumed = code[c].consumed

\* A step leaves those that are about to report a lock where they are.
TellersSame ==
    \A r \in Callers, c \in Codes : Telling(r, c)' <=> Telling(r, c)

\* A request that neither comes to report a lock nor was about to.
LEMMA TellersStay ==
    ASSUME CodesTypeOK, NEW r \in Callers, NEW next \in CallStages, Moves(r, next),
           call[r].at # "locked", next.at # "locked"
    PROVE  TellersSame
  <1> SUFFICES ASSUME NEW s \in Callers, NEW c \in Codes
               PROVE  Telling(s, c)' <=> Telling(s, c)
    BY DEF TellersSame
  <1>1. Tell(c).at = "locked"
    BY DEF Tell
  <1>2. CASE s = r
    BY <1>1, <1>2, Moved DEF Telling, Tell
  <1>3. CASE s # r
    BY <1>3, Moved DEF Telling, Tell
  <1> QED
    BY <1>2, <1>3

\* Locks are answered for as long as no try is counted and no report is made.
LEMMA LockKept ==
    ASSUME CodesIInv, \A c \in Codes : SameTries(c), TellersSame, UNCHANGED <<told, lost>>
    PROVE  LockToldOnce'
  <1> SUFFICES ASSUME NEW c \in Codes
               PROVE  /\ Exhausted(c)' <=> Reported(c)' \/ \E r \in Callers : Telling(r, c)'
                      /\ \A r, s \in Callers : Telling(r, c)' /\ Telling(s, c)' => r = s
                      /\ Reported(c)' => \A r \in Callers : ~Telling(r, c)'
                      /\ c \notin told' \cap lost'
    BY DEF LockToldOnce
  <1>1. Exhausted(c)' <=> Exhausted(c)
    BY DEF Exhausted, SameTries, Sent, SentAfter
  <1>2. Reported(c)' <=> Reported(c)
    BY DEF Reported
  <1>3. \A r \in Callers : Telling(r, c)' <=> Telling(r, c)
    BY DEF TellersSame
  <1> QED
    BY <1>1, <1>2, <1>3 DEF CodesIInv, LockToldOnce

\* A step that counts no try and spends no code keeps what the rows say.
LEMMA RowsKept ==
    ASSUME CodesIInv, CodesTypeOK', CallsSent', LockToldOnce',
           \A c \in Codes : SameTries(c),
           UNCHANGED uses,
           \A r \in Callers : call'[r].at = "wrong" => call'[r] = call[r]
    PROVE  CodesIInv'
  <1>1. TriesCovered'
    <2> SUFFICES ASSUME NEW c \in Codes, Sent(c)
                 PROVE  code'[c].attempts + Cardinality(WrongOn(c)')
                          < MaxAttempts + Cardinality(Callers)
      BY DEF TriesCovered, SameTries, SentAfter, Sent
    <2>1. code[c].attempts \in Nat /\ code'[c].attempts = code[c].attempts
      BY CodeForm DEF CodesIInv, CodeRows, SameTries
    <2>2. Cardinality(WrongOn(c)') <= Cardinality(WrongOn(c))
      BY NoneWronger
    <2> QED
      BY <2>1, <2>2, WrongFew, WrongFewNext, CodesBoundsAssumption DEF CodesIInv, TriesCovered
  <1>2. SentInOrder'
    BY DEF CodesIInv, SentInOrder, SameTries, SentAfter, Sent
  <1>3. UsesTrue'
    BY DEF CodesIInv, UsesTrue, SameTries, SentAfter, Sent
  <1> QED
    BY <1>1, <1>2, <1>3 DEF CodesIInv

\* What requests hold on to stays sent when one of them moves on and every code
\* that was sent stays so.
LEMMA CallsKept ==
    ASSUME CodesIInv, NEW r \in Callers, NEW next \in CallStages, Moves(r, next),
           \A c \in Codes : Sent(c) => SentAfter(c),
           next.at \in {"match", "wrong"} => Sent(next.code),
           next.at = "deleted" => \A c \in next.old : Sent(c)
    PROVE  CallsSent'
  <1> SUFFICES ASSUME NEW s \in Callers
               PROVE  /\ call'[s].at \in {"match", "wrong"} => SentAfter(call'[s].code)
                      /\ call'[s].at = "deleted" => \A c \in call'[s].old : SentAfter(c)
    BY DEF CallsSent, Sent, SentAfter
  <1>1. CASE s = r
    <2>1. call'[s] = next
      BY <1>1, Moved DEF CodesIInv
    <2>2. next.at \in {"match", "wrong"} => next.code \in Codes
      BY DEF CallStages, NoCall, AtPurpose, AtIssue, AtCode, AtRevoke, AtLocked
    <2>3. next.at = "deleted" => next.old \subseteq Codes
      BY DEF CallStages, NoCall, AtPurpose, AtIssue, AtCode, AtRevoke, AtLocked
    <2>4. next.at \in {"match", "wrong"} => SentAfter(next.code)
      BY <2>2
    <2> QED
      BY <2>1, <2>3, <2>4
  <1>2. CASE s # r
    <2>1. call'[s] = call[s]
      BY <1>2, Moved DEF CodesIInv
    <2>2. call[s].at \in {"match", "wrong"} => call[s].code \in Codes
      BY CodeForm DEF CodesIInv, AtCode
    <2>3. call[s].at = "deleted" => call[s].old \subseteq Codes
      BY CodeForm DEF CodesIInv, AtIssue
    <2> QED
      BY <2>1, <2>2, <2>3 DEF CodesIInv, CallsSent
  <1> QED
    BY <1>1, <1>2

-----------------------------------------------------------------------------
\* A step of a request that leaves the rows alone: it reserves a send, gives
\* up, dies, finds its code gone, or deletes the codes that the next replaces.
LEMMA MoveInv ==
    ASSUME CodesIInv, NEW r \in Callers, NEW next \in CallStages, Moves(r, next),
           UNCHANGED <<code, uses, told, lost>>, counter' \in [Purposes -> Counters],
           call[r].at # "locked", next.at \notin {"wrong", "locked"}, next.at = "match" => Sent(next.code),
           next.at = "deleted" => \A c \in next.old : Sent(c)
    PROVE  CodesIInv'
  <1>1. CodesTypeOK'
    BY Moved DEF CodesIInv, CodesTypeOK, CallStages
  <1>2. \A c \in Codes : SameTries(c)
    BY DEF SameTries, Sent, SentAfter
  <1>3. CallsSent'
    BY <1>2, CallsKept DEF SameTries
  <1>4. \A s \in Callers : call'[s].at = "wrong" => call'[s] = call[s]
    BY Moved DEF CodesIInv
  <1>5. LockToldOnce'
    <2>1. TellersSame
      BY TellersStay DEF CodesIInv
    <2> QED
      BY <1>2, <2>1, LockKept
  <1> QED
    BY <1>1, <1>2, <1>3, <1>4, <1>5, RowsKept

LEMMA StagesFit ==
    /\ NoCall \in CallStages /\ NoCall.at = "idle"
    /\ [at |-> "revoke"] \in CallStages
    /\ \A p \in Purposes : [at |-> "reserved", purpose |-> p] \in CallStages
    /\ \A c \in Codes, a \in {"match", "wrong"} : [at |-> a, code |-> c] \in CallStages
    /\ \A p \in Purposes, C \in SUBSET Codes :
          [at |-> "deleted", purpose |-> p, old |-> C] \in CallStages
    /\ \A c \in Codes : Tell(c) \in CallStages /\ Tell(c).at = "locked"
  BY DEF CallStages, NoCall, AtPurpose, AtIssue, AtCode, AtRevoke, AtLocked, Tell

LEMMA SendInv ==
    ASSUME CodesIInv, NEW r \in Callers, NEW p \in Purposes, reserveSend(r, p)
    PROVE  CodesIInv'
  <1>1. counter' \in [Purposes -> Counters]
    <2>1. counter[p] \in Counters /\ counter[p].sent < MaxPerHour
      BY DEF reserveSend, CodesIInv, CodesTypeOK
    <2>2. counter[p].sent + 1 \in 0..MaxPerHour
      BY <2>1, CodesBoundsAssumption DEF Counters
    <2> QED
      BY <2>2 DEF reserveSend, CodesIInv, CodesTypeOK, Counters
  <1>2. [at |-> "reserved", purpose |-> p] \in CallStages
    BY StagesFit
  <1> QED
    BY <1>1, <1>2, CodeForm, MoveInv DEF reserveSend, CodesIInv, CodesTypeOK

LEMMA EndInv ==
    ASSUME CodesIInv, NEW r \in Callers, call[r].at # "locked",
           IssueNothing(r) \/ AcceptLost(r) \/ CallerDies(r) \/ CountGone(r)
    PROVE  CodesIInv'
  <1>1. Moves(r, NoCall) /\ UNCHANGED <<code, counter, uses, told, lost>>
    BY DEF IssueNothing, AcceptLost, CallerDies, CountGone, Ends
  <1> QED
    BY <1>1, StagesFit, MoveInv DEF CodesIInv, CodesTypeOK

\* The one that answers for a lock records it, or its record is lost.
LEMMA RecordInv ==
    ASSUME CodesIInv, NEW r \in Callers, call[r].at = "locked",
           recordBestEffort(r) \/ CallerDies(r)
    PROVE  CodesIInv'
  <1>1. PICK c \in Codes : call[r] = Tell(c) /\ call[r].code = c
    BY CodeForm DEF CodesIInv, AtLocked, Tell
  <1>2. /\ Moves(r, NoCall) /\ UNCHANGED <<code, counter, uses>>
        /\ \/ told' = told \cup {c} /\ UNCHANGED lost
           \/ lost' = lost \cup {c} /\ UNCHANGED told
    BY <1>1 DEF recordBestEffort, CallerDies, Ends
  <1>3. \A d \in Codes : SameTries(d)
    BY <1>2 DEF SameTries, Sent, SentAfter
  <1>4. CodesTypeOK'
    BY <1>2, Moved, StagesFit DEF CodesIInv, CodesTypeOK, CallStages
  <1>5. CallsSent'
    BY <1>2, <1>3, StagesFit, CallsKept DEF SameTries
  <1>6. \A s \in Callers : call'[s].at = "wrong" => call'[s] = call[s]
    BY <1>2, Moved, StagesFit DEF CodesIInv
  <1>7. \A s \in Callers, d \in Codes : Telling(s, d)' <=> Telling(s, d) /\ s # r
    BY <1>2, Moved, StagesFit DEF CodesIInv, Telling, Tell
  <1>8. \A d \in Codes : /\ Exhausted(d)' <=> Exhausted(d)
                        /\ Reported(d)' <=> (Reported(d) \/ d = c)
    BY <1>2 DEF Exhausted, Sent, Reported
  <1>9. \A d \in Codes : Telling(r, d) <=> d = c
    BY <1>1 DEF Telling, Tell
  <1>10. LockToldOnce'
    <2> SUFFICES ASSUME NEW d \in Codes
                 PROVE  /\ Exhausted(d)' <=> Reported(d)' \/ \E s \in Callers : Telling(s, d)'
                        /\ \A s, t \in Callers : Telling(s, d)' /\ Telling(t, d)' => s = t
                        /\ Reported(d)' => \A s \in Callers : ~Telling(s, d)'
                        /\ d \notin told' \cap lost'
      BY DEF LockToldOnce
    <2>1. CASE d = c
      <3>1. /\ Exhausted(c) /\ ~Reported(c)
            /\ \A s \in Callers : Telling(s, c) => s = r
        BY <1>9 DEF CodesIInv, LockToldOnce
      <3>2. c \notin told' \cap lost'
        BY <1>2, <3>1 DEF Reported
      <3> QED
        BY <2>1, <1>7, <1>8, <3>1, <3>2
    <2>2. CASE d # c
      <3>1. d \notin told' \cap lost'
        BY <2>2, <1>2 DEF CodesIInv, LockToldOnce
      <3>2. \A s \in Callers : Telling(s, d)' <=> Telling(s, d)
        BY <2>2, <1>7, <1>9
      <3>3. /\ Exhausted(d)' <=> Exhausted(d)
            /\ Reported(d)' <=> Reported(d)
        BY <2>2, <1>2 DEF Exhausted, Sent, Reported
      <3>4. /\ Exhausted(d) <=> Reported(d) \/ \E s \in Callers : Telling(s, d)
            /\ \A s, t \in Callers : Telling(s, d) /\ Telling(t, d) => s = t
            /\ Reported(d) => \A s \in Callers : ~Telling(s, d)
        BY DEF CodesIInv, LockToldOnce
      <3> QED
        BY <3>1, <3>2, <3>3, <3>4
    <2> QED
      BY <2>1, <2>2
  <1> QED
    BY <1>2, <1>3, <1>4, <1>5, <1>6, <1>10, RowsKept

LEMMA DeleteInv ==
    ASSUME CodesIInv, NEW r \in Callers, IssueDelete(r)
    PROVE  CodesIInv'
  <1> DEFINE p == call[r].purpose
             C == {c \in Codes : Sent(c) /\ code[c].stored /\ code[c].purpose = p}
  <1>1. p \in Purposes
    BY CodeForm DEF CodesIInv, IssueDelete, AtPurpose
  <1>2. [at |-> "deleted", purpose |-> p, old |-> C] \in CallStages
    BY <1>1, StagesFit
  <1>3. Moves(r, [at |-> "deleted", purpose |-> p, old |-> C])
    BY DEF IssueDelete
  <1> QED
    BY <1>2, <1>3, MoveInv DEF IssueDelete, CodesIInv, CodesTypeOK

\* The new row counts no tries, and the rows it replaces keep theirs.
LEMMA CommitInv ==
    ASSUME CodesIInv, NEW r \in Callers, IssueCommit(r)
    PROVE  CodesIInv'
  <1> DEFINE fresh == [stored |-> TRUE, purpose |-> call[r].purpose, attempts |-> 0,
                       consumed |-> FALSE, expired |-> FALSE]
  <1>1. fresh \in CodeRows
    BY CodeForm DEF CodesIInv, IssueCommit, AtIssue, CodeRows
  <1>2. \A c \in Codes : Sent(c) <=> c < NextCode
    BY NextIsUnsent DEF CodesIInv, IssueCommit
  <1>3. /\ call[r].old \subseteq Codes
        /\ \A c \in call[r].old : Sent(c) /\ code[c] \in CodeRows /\ c # NextCode
    <2>1. call[r].old \subseteq Codes /\ \A c \in call[r].old : Sent(c)
      BY CodeForm DEF CodesIInv, CallsSent, IssueCommit, AtIssue
    <2> QED
      BY <2>1, <1>2, CodeForm DEF CodesIInv, IssueCommit, Codes
  <1>4. /\ code'[NextCode] = fresh
        /\ \A c \in Codes \ {NextCode} :
              code'[c] = IF c \in call[r].old THEN [code[c] EXCEPT !.stored = FALSE] ELSE code[c]
    BY <1>3 DEF IssueCommit
  <1>5. \A c \in Codes \ {NextCode} :
            /\ SameTries(c)
            /\ code'[c] \in CodeRows \cup {Unsent}
    <2> SUFFICES ASSUME NEW c \in Codes \ {NextCode}
                 PROVE  SameTries(c) /\ code'[c] \in CodeRows \cup {Unsent}
      OBVIOUS
    <2>1. CASE c \in call[r].old
      <3>1. code[c] \in CodeRows /\ code'[c] = [code[c] EXCEPT !.stored = FALSE]
        BY <2>1, <1>3, <1>4
      <3>2. /\ code'[c] \in CodeRows /\ code'[c].attempts = code[c].attempts
            /\ code'[c].consumed = code[c].consumed
        BY <3>1 DEF CodeRows
      <3> QED
        BY <3>1, <3>2, CodeForm DEF CodesIInv, SameTries, Sent, SentAfter
    <2>2. CASE c \notin call[r].old
      BY <2>2, <1>4 DEF CodesIInv, CodesTypeOK, SameTries, Sent, SentAfter
    <2> QED
      BY <2>1, <2>2
  <1>6. SentAfter(NextCode) /\ ~Sent(NextCode)
    <2>1. SentAfter(NextCode)
      BY <1>1, <1>4, CodeForm DEF SentAfter, CodesIInv
    <2>2. NextCode \in Codes /\ NextCode \in Nat
      BY CodesBoundsAssumption DEF IssueCommit, Codes
    <2> QED
      BY <2>1, <2>2, <1>2
  <1>7. Moves(r, NoCall)
    BY DEF IssueCommit, Ends
  <1>8. CodesTypeOK'
    <2>1. code' \in [Codes -> CodeRows \cup {Unsent}]
      BY <1>1, <1>4, <1>5 DEF IssueCommit
    <2> QED
      BY <2>1, <1>7, Moved, StagesFit DEF IssueCommit, CodesIInv, CodesTypeOK, CallStages
  <1>9. CallsSent'
    BY <1>5, <1>6, <1>7, StagesFit, CallsKept DEF SameTries
  <1>10. TriesCovered'
    <2> SUFFICES ASSUME NEW c \in Codes, SentAfter(c)
                 PROVE  code'[c].attempts + Cardinality(WrongOn(c)')
                          < MaxAttempts + Cardinality(Callers)
      BY DEF TriesCovered, Sent, SentAfter
    <2>1. CASE c = NextCode
      BY <2>1, <1>4, WrongFew, WrongFewNext, CodesBoundsAssumption
    <2>2. CASE c # NextCode
      <3>1. Sent(c) /\ code'[c].attempts = code[c].attempts /\ code[c].attempts \in Nat
        BY <2>2, <1>5, CodeForm DEF SameTries, CodesIInv, CodeRows
      <3>2. Cardinality(WrongOn(c)') <= Cardinality(WrongOn(c))
        BY <1>7, Moved, StagesFit, NoneWronger DEF CodesIInv
      <3> QED
        BY <3>1, <3>2, WrongFew, WrongFewNext, CodesBoundsAssumption
           DEF CodesIInv, TriesCovered
    <2> QED
      BY <2>1, <2>2
  <1>11. SentInOrder'
    <2>1. NextCode \in 0..MaxCodes
      BY CodesBoundsAssumption DEF IssueCommit, Codes
    <2>2. \A c \in Codes : SentAfter(c) <=> c <= NextCode
      BY <2>1, <1>2, <1>5, <1>6, CodesBoundsAssumption DEF SameTries, Codes
    <2>3. \E n \in 0..MaxCodes : \A c \in Codes : SentAfter(c) <=> c <= n
      BY <2>1, <2>2
    <2> QED
      BY <2>3 DEF SentInOrder, Sent, SentAfter
  <1>12. UsesTrue'
    <2> SUFFICES ASSUME NEW c \in Codes
                 PROVE  uses[c] = IF SentAfter(c) /\ code'[c].consumed THEN 1 ELSE 0
      BY DEF UsesTrue, Sent, SentAfter, IssueCommit
    <2>1. CASE c = NextCode
      BY <2>1, <1>4, <1>6 DEF CodesIInv, UsesTrue
    <2>2. CASE c # NextCode
      BY <2>2, <1>5 DEF CodesIInv, UsesTrue, SameTries
    <2> QED
      BY <2>1, <2>2
  <1>13. LockToldOnce'
    <2>1. \A c \in Codes : Exhausted(c)' <=> Exhausted(c)
      <3> SUFFICES ASSUME NEW c \in Codes PROVE Exhausted(c)' <=> Exhausted(c)
        OBVIOUS
      <3>1. CASE c = NextCode
        <4>1. code'[c].attempts = 0 /\ ~(0 >= MaxAttempts)
          BY <3>1, <1>4, CodesBoundsAssumption
        <4> QED
          BY <3>1, <4>1, <1>6 DEF Exhausted
      <3>2. CASE c # NextCode
        BY <3>2, <1>5 DEF Exhausted, SameTries, Sent, SentAfter
      <3> QED
        BY <3>1, <3>2
    <2>2. TellersSame
      BY <1>7, StagesFit, TellersStay DEF CodesIInv, IssueCommit
    <2> QED
      BY <2>1, <2>2 DEF IssueCommit, CodesIInv, LockToldOnce, Reported, TellersSame
  <1> QED
    BY <1>8, <1>9, <1>10, <1>11, <1>12, <1>13 DEF CodesIInv

LEMMA ReadInv ==
    ASSUME CodesIInv, NEW r \in Callers, NEW p \in Purposes, NEW right \in BOOLEAN,
           ReadCode(r, p, right)
    PROVE  CodesIInv'
  <1>1. PICK c \in Codes : /\ Newest(c, p) /\ Comparable(c)
                           /\ Moves(r, [at |-> IF right THEN "match" ELSE "wrong", code |-> c])
    BY DEF ReadCode
  <1>2. Sent(c) /\ code[c] \in CodeRows
    BY <1>1, CodeForm DEF Newest, Checkable, CodesIInv
  <1>3. UNCHANGED <<code, counter, uses, told, lost>>
    BY DEF ReadCode
  <1>6. call[r].at = "idle"
    BY CodeForm DEF CodesIInv, ReadCode
  <1>4. CASE right
    <2>1. Moves(r, [at |-> "match", code |-> c])
      BY <1>1, <1>4
    <2>2. [at |-> "match", code |-> c] \in CallStages
      BY StagesFit
    <2>3. /\ [at |-> "match", code |-> c].at = "match"
          /\ [at |-> "match", code |-> c].code = c
      OBVIOUS
    <2> QED
      BY <2>1, <2>2, <2>3, <1>2, <1>3, <1>6, MoveInv DEF CodesIInv, CodesTypeOK
  <1>5. CASE ~right
    <2> DEFINE next == [at |-> "wrong", code |-> c]
    <2>1. Moves(r, next) /\ next \in CallStages
      BY <1>1, <1>5, StagesFit
    <2>2. \A d \in Codes : SameTries(d)
      BY <1>3 DEF SameTries, Sent, SentAfter
    <2>3. CodesTypeOK'
      BY <2>1, <1>3, Moved DEF CodesIInv, CodesTypeOK, CallStages
    <2>4. CallsSent'
      BY <2>1, <2>2, <1>2, CallsKept DEF SameTries
    <2>5. TriesCovered'
      <3> SUFFICES ASSUME NEW d \in Codes, Sent(d)
                   PROVE  code[d].attempts + Cardinality(WrongOn(d)')
                            < MaxAttempts + Cardinality(Callers)
        BY <1>3 DEF TriesCovered, Sent
      <3>1. code[d].attempts \in Nat
        BY CodeForm DEF CodesIInv, CodeRows
      <3>2. CASE d = c
        <4>1. code[d].attempts < MaxAttempts
          BY <3>2, <1>1 DEF Comparable
        <4>2. /\ Cardinality(WrongOn(d)') \in Nat /\ Cardinality(Callers) \in Nat
              /\ Cardinality(WrongOn(d)') <= Cardinality(Callers)
          BY WrongFew, WrongFewNext
        <4> QED
          BY <3>1, <4>1, <4>2, CodesBoundsAssumption
      <3>3. CASE d # c
        <4>1. WrongOn(d)' \subseteq WrongOn(d)
          BY <3>3, <2>1, Moved DEF WrongOn, CodesIInv
        <4>2. Cardinality(WrongOn(d)') <= Cardinality(WrongOn(d))
          BY <4>1, WrongFew, FS_Subset
        <4> QED
          BY <3>1, <4>2, WrongFew, WrongFewNext, CodesBoundsAssumption
             DEF CodesIInv, TriesCovered
      <3> QED
        BY <3>2, <3>3
    <2>6. SentInOrder' /\ UsesTrue'
      BY <1>3 DEF CodesIInv, SentInOrder, UsesTrue, Sent
    <2>7. LockToldOnce'
      <3>1. TellersSame
        BY <2>1, <1>6, TellersStay DEF CodesIInv
      <3> QED
        BY <3>1, <2>2, <1>3, LockKept
    <2> QED
      BY <2>3, <2>4, <2>5, <2>6, <2>7 DEF CodesIInv
  <1> QED
    BY <1>4, <1>5

\* The row that a request holds on to, and one of its columns that is written.
LEMMA RowWritten ==
    ASSUME CodesIInv, NEW r \in Callers, call[r].at \in {"match", "wrong"},
           NEW x \in CodeRows, code' = [code EXCEPT ![call[r].code] = x]
    PROVE  LET c == call[r].code
           IN  /\ c \in Codes /\ Sent(c) /\ code[c] \in CodeRows
               /\ code' \in [Codes -> CodeRows \cup {Unsent}]
               /\ code'[c] = x /\ SentAfter(c)
               /\ \A d \in Codes : d # c => code'[d] = code[d] /\ SameTries(d)
               /\ \A d \in Codes : Sent(d) <=> SentAfter(d)
  <1>1. call[r].code \in Codes /\ Sent(call[r].code) /\ code[call[r].code] \in CodeRows
    BY CodeForm DEF CodesIInv, CallsSent, AtCode
  <1>2. x # Unsent
    BY CodeForm DEF CodesIInv
  <1> QED
    BY <1>1, <1>2 DEF CodesIInv, CodesTypeOK, SameTries, Sent, SentAfter

LEMMA AcceptInv ==
    ASSUME CodesIInv, NEW r \in Callers, Accept(r)
    PROVE  CodesIInv'
  <1> DEFINE c == call[r].code
             x == [code[c] EXCEPT !.consumed = TRUE]
             next == IF code[c].purpose = "password_reset" THEN [at |-> "revoke"] ELSE NoCall
  <1>1. /\ call[r].at = "match" /\ Spendable(c)
        /\ code' = [code EXCEPT ![c] = x]
        /\ uses' = [uses EXCEPT ![c] = @ + 1]
        /\ Moves(r, next) /\ UNCHANGED <<counter, told, lost>>
    BY DEF Accept
  <1>2. c \in Codes /\ code[c] \in CodeRows /\ Sent(c)
    BY <1>1, CodeForm DEF CodesIInv, CallsSent, AtCode
  <1>3. x \in CodeRows /\ x.attempts = code[c].attempts /\ x.consumed = TRUE
    BY <1>2 DEF CodeRows
  <1>4. next \in CallStages /\ next.at \notin {"match", "wrong", "deleted", "locked"}
    BY StagesFit
  <1>5. /\ code' \in [Codes -> CodeRows \cup {Unsent}]
        /\ code'[c] = x /\ SentAfter(c)
        /\ \A d \in Codes : d # c => code'[d] = code[d] /\ SameTries(d)
        /\ \A d \in Codes : Sent(d) <=> SentAfter(d)
    BY <1>1, <1>3, RowWritten
  <1>6. CodesTypeOK'
    <2>1. uses \in [Codes -> Nat]
      BY DEF CodesIInv, CodesTypeOK
    <2>2. uses[c] + 1 \in Nat
      BY <2>1, <1>2
    <2>3. uses' \in [Codes -> Nat]
      BY <2>1, <2>2, <1>1
    <2> QED
      BY <2>3, <1>1, <1>4, <1>5, Moved DEF CodesIInv, CodesTypeOK, CallStages
  <1>7. CallsSent'
    BY <1>1, <1>4, <1>5, CallsKept
  <1>8. TriesCovered'
    <2> SUFFICES ASSUME NEW d \in Codes, Sent(d)
                 PROVE  code'[d].attempts + Cardinality(WrongOn(d)')
                          < MaxAttempts + Cardinality(Callers)
      BY <1>5 DEF TriesCovered, Sent, SentAfter
    <2>1. code'[d].attempts = code[d].attempts /\ code[d].attempts \in Nat
      BY <1>3, <1>5, CodeForm DEF CodesIInv, CodeRows
    <2>2. Cardinality(WrongOn(d)') <= Cardinality(WrongOn(d))
      BY <1>1, <1>4, Moved, NoneWronger DEF CodesIInv
    <2> QED
      BY <2>1, <2>2, WrongFew, WrongFewNext, CodesBoundsAssumption
         DEF CodesIInv, TriesCovered
  <1>9. SentInOrder'
    BY <1>5 DEF CodesIInv, SentInOrder, Sent, SentAfter
  <1>10. UsesTrue'
    <2> SUFFICES ASSUME NEW d \in Codes
                 PROVE  uses'[d] = IF SentAfter(d) /\ code'[d].consumed THEN 1 ELSE 0
      BY DEF UsesTrue, Sent, SentAfter
    <2>1. CASE d = c
      <3>1. uses[c] = 0
        BY <1>1, <1>2 DEF CodesIInv, UsesTrue, Spendable
      <3> QED
        <4>1. uses'[c] = uses[c] + 1
          BY <1>1, <1>2 DEF CodesIInv, CodesTypeOK
        <4> QED
          BY <2>1, <3>1, <4>1, <1>3, <1>5
    <2>2. CASE d # c
      BY <2>2, <1>1, <1>5 DEF CodesIInv, CodesTypeOK, UsesTrue, SameTries
    <2> QED
      BY <2>1, <2>2
  <1>11. LockToldOnce'
    <2>1. \A d \in Codes : Exhausted(d)' <=> Exhausted(d)
      BY <1>3, <1>5 DEF Exhausted, Sent, SentAfter
    <2>2. TellersSame
      BY <1>1, <1>4, TellersStay DEF CodesIInv
    <2> QED
      BY <2>1, <2>2, <1>1 DEF CodesIInv, LockToldOnce, Reported, TellersSame
  <1> QED
    BY <1>6, <1>7, <1>8, <1>9, <1>10, <1>11 DEF CodesIInv

\* A try moves from those to be counted to those counted.
LEMMA CountInv ==
    ASSUME CodesIInv, NEW r \in Callers, CountWrong(r)
    PROVE  CodesIInv'
  <1>0. PICK c \in Codes : c = call[r].code
    BY CodeForm DEF CodesIInv, CountWrong, AtCode
  <1> DEFINE x == [code[c] EXCEPT !.attempts = Counted(c)]
             next == IF JustLocked(c) THEN Tell(c) ELSE NoCall
  <1>1. /\ call[r].at = "wrong"
        /\ code' = [code EXCEPT ![c] = x]
        /\ Moves(r, next) /\ UNCHANGED <<counter, uses, told, lost>>
    BY <1>0 DEF CountWrong
  <1>2. c \in Codes /\ code[c] \in CodeRows /\ Sent(c)
    BY <1>0, <1>1, CodeForm DEF CodesIInv, CallsSent, AtCode
  <1>3. /\ code[c].attempts \in Nat /\ Counted(c) = code[c].attempts + 1
        /\ x \in CodeRows /\ x.attempts = code[c].attempts + 1
        /\ x.consumed = code[c].consumed
    BY <1>2 DEF CodeRows, Counted
  <1>11. /\ next \in CallStages /\ next.at \notin {"match", "wrong", "deleted"}
         /\ JustLocked(c) => next = Tell(c)
         /\ ~JustLocked(c) => next.at # "locked"
    BY <1>2, StagesFit
  <1> HIDE DEF x, next
  <1>4. /\ code' \in [Codes -> CodeRows \cup {Unsent}]
        /\ code'[c] = x /\ SentAfter(c)
        /\ \A d \in Codes : d # c => code'[d] = code[d] /\ SameTries(d)
        /\ \A d \in Codes : Sent(d) <=> SentAfter(d)
    BY <1>0, <1>1, <1>3, RowWritten
  <1>5. CodesTypeOK'
    BY <1>1, <1>4, <1>11, Moved DEF CodesIInv, CodesTypeOK, CallStages
  <1>6. CallsSent'
    BY <1>1, <1>4, <1>11, CallsKept
  <1>7. TriesCovered'
    <2> SUFFICES ASSUME NEW d \in Codes, Sent(d)
                 PROVE  code'[d].attempts + Cardinality(WrongOn(d)')
                          < MaxAttempts + Cardinality(Callers)
      BY <1>4 DEF TriesCovered, Sent, SentAfter
    <2>1. CASE d = c
      <3>1. r \in WrongOn(d)
        BY <2>1, <1>0, <1>1 DEF WrongOn
      <3>2. WrongOn(d)' = WrongOn(d) \ {r}
        BY <1>1, <1>11, Moved DEF CodesIInv, WrongOn
      <3>3. Cardinality(WrongOn(d)') = Cardinality(WrongOn(d)) - 1
        BY <3>1, <3>2, WrongFew, FS_RemoveElement
      <3>4. code[d].attempts \in Nat /\ code'[d].attempts = code[d].attempts + 1
        BY <2>1, <1>3, <1>4
      <3> QED
        BY <3>3, <3>4, WrongFew, CodesBoundsAssumption DEF CodesIInv, TriesCovered
    <2>2. CASE d # c
      <3>1. code'[d].attempts = code[d].attempts /\ code[d].attempts \in Nat
        BY <2>2, <1>4, CodeForm DEF CodesIInv, CodeRows
      <3>2. Cardinality(WrongOn(d)') <= Cardinality(WrongOn(d))
        BY <1>1, <1>11, Moved, NoneWronger DEF CodesIInv
      <3> QED
        BY <3>1, <3>2, WrongFew, WrongFewNext, CodesBoundsAssumption
           DEF CodesIInv, TriesCovered
    <2> QED
      BY <2>1, <2>2
  <1>8. SentInOrder'
    BY <1>4 DEF CodesIInv, SentInOrder, Sent, SentAfter
  <1>9. UsesTrue'
    <2> SUFFICES ASSUME NEW d \in Codes
                 PROVE  uses[d] = IF SentAfter(d) /\ code'[d].consumed THEN 1 ELSE 0
      BY <1>1 DEF UsesTrue, Sent, SentAfter
    <2>1. code'[d].consumed = code[d].consumed
      BY <1>3, <1>4
    <2> QED
      BY <2>1, <1>4 DEF CodesIInv, UsesTrue
  <1>12. \A s \in Callers, d \in Codes :
            Telling(s, d)' <=> \/ s # r /\ Telling(s, d)
                               \/ s = r /\ d = c /\ JustLocked(c)
    <2> SUFFICES ASSUME NEW s \in Callers, NEW d \in Codes
                 PROVE  Telling(s, d)' <=> \/ s # r /\ Telling(s, d)
                                           \/ s = r /\ d = c /\ JustLocked(c)
      OBVIOUS
    <2>1. CASE s # r
      BY <2>1, <1>1, <1>11, Moved DEF CodesIInv, Telling, Tell
    <2>2. CASE s = r
      <3>1. Telling(s, d)' <=> next = Tell(d)
        BY <2>2, <1>1, <1>11, Moved DEF CodesIInv, Telling, Tell
      <3>2. next = Tell(d) <=> d = c /\ JustLocked(c)
        BY <1>11 DEF Tell
      <3> QED
        BY <2>2, <3>1, <3>2
    <2> QED
      BY <2>1, <2>2
  <1>13. \A d \in Codes : ~Telling(r, d)
    BY <1>1 DEF Telling, Tell
  <1>14. \A d \in Codes : d # c => (Exhausted(d)' <=> Exhausted(d))
    BY <1>4 DEF Exhausted, SameTries, Sent, SentAfter
  <1>15. JustLocked(c) <=> Exhausted(c)' /\ ~Exhausted(c)
    BY <1>2, <1>3, <1>4, CodesBoundsAssumption DEF JustLocked, Exhausted, Sent, SentAfter
  <1>16. Exhausted(c) => Exhausted(c)'
    BY <1>2, <1>3, <1>4, CodesBoundsAssumption DEF Exhausted, Sent, SentAfter
  <1>10. LockToldOnce'
    <2> SUFFICES ASSUME NEW d \in Codes
                 PROVE  /\ Exhausted(d)' <=> Reported(d)' \/ \E s \in Callers : Telling(s, d)'
                        /\ \A s, t \in Callers : Telling(s, d)' /\ Telling(t, d)' => s = t
                        /\ Reported(d)' => \A s \in Callers : ~Telling(s, d)'
                        /\ d \notin told' \cap lost'
      BY DEF LockToldOnce
    <2>1. /\ Exhausted(d) <=> Reported(d) \/ \E s \in Callers : Telling(s, d)
          /\ \A s, t \in Callers : Telling(s, d) /\ Telling(t, d) => s = t
          /\ Reported(d) => \A s \in Callers : ~Telling(s, d)
          /\ d \notin told' \cap lost'
          /\ Reported(d)' <=> Reported(d)
      BY <1>1 DEF CodesIInv, LockToldOnce, Reported
    <2>2. CASE d # c
      <3>1. \A s \in Callers : Telling(s, d)' <=> Telling(s, d)
        BY <2>2, <1>12, <1>13
      <3>2. Exhausted(d)' <=> Exhausted(d)
        BY <2>2, <1>14
      <3> QED
        BY <2>1, <3>1, <3>2
    <2>3. CASE d = c /\ JustLocked(c)
      <3>1. \A s \in Callers : Telling(s, d)' <=> Telling(s, d) \/ s = r
        BY <2>3, <1>12, <1>13
      <3>2. Exhausted(d)' /\ ~Exhausted(d)
        BY <2>3, <1>15
      <3> QED
        BY <2>1, <3>1, <3>2
    <2>4. CASE d = c /\ ~JustLocked(c)
      <3>1. \A s \in Callers : Telling(s, d)' <=> Telling(s, d)
        BY <2>4, <1>12, <1>13
      <3>2. Exhausted(d)' <=> Exhausted(d)
        BY <2>4, <1>15, <1>16
      <3> QED
        BY <2>1, <3>1, <3>2
    <2> QED
      BY <2>2, <2>3, <2>4
  <1> QED
    BY <1>5, <1>6, <1>7, <1>8, <1>9, <1>10 DEF CodesIInv

\* A step that takes rows away or lets them expire.
LEMMA DropInv ==
    ASSUME CodesIInv,
           code' \in [Codes -> CodeRows \cup {Unsent}], \A c \in Codes : SameTries(c),
           UNCHANGED <<counter, uses, told, lost>>,
           UNCHANGED call \/ \E r \in Callers : call[r].at # "locked" /\ Moves(r, NoCall)
    PROVE  CodesIInv'
  <1>1. /\ call' \in [Callers -> CallStages]
        /\ \A r \in Callers : call'[r].at = "wrong" => call'[r] = call[r]
    <2>1. CASE UNCHANGED call
      BY <2>1 DEF CodesIInv, CodesTypeOK, CallStages
    <2>2. CASE \E r \in Callers : Moves(r, NoCall)
      BY <2>2, Moved, StagesFit DEF CodesIInv
    <2> QED
      BY <2>1, <2>2
  <1>4. TellersSame
    <2>1. CASE UNCHANGED call
      BY <2>1 DEF TellersSame, Telling
    <2>2. CASE \E r \in Callers : call[r].at # "locked" /\ Moves(r, NoCall)
      BY <2>2, TellersStay, StagesFit DEF CodesIInv
    <2> QED
      BY <2>1, <2>2
  <1>5. LockToldOnce'
    BY <1>4, LockKept
  <1>2. CodesTypeOK'
    BY <1>1 DEF CodesIInv, CodesTypeOK, CallStages
  <1>3. CallsSent'
    <2>1. CASE UNCHANGED call
      <3> SUFFICES ASSUME NEW s \in Callers
                   PROVE  /\ call[s].at \in {"match", "wrong"} => SentAfter(call[s].code)
                          /\ call[s].at = "deleted" => \A c \in call[s].old : SentAfter(c)
        BY <2>1 DEF CallsSent, Sent, SentAfter
      <3>1. /\ call[s].at \in {"match", "wrong"} => call[s].code \in Codes
            /\ call[s].at = "deleted" => call[s].old \subseteq Codes
        BY CodeForm DEF CodesIInv, AtCode, AtIssue
      <3> QED
        BY <3>1 DEF CodesIInv, CallsSent, SameTries
    <2>2. CASE \E r \in Callers : Moves(r, NoCall)
      BY <2>2, StagesFit, CallsKept DEF SameTries
    <2> QED
      BY <2>1, <2>2
  <1> QED
    BY <1>1, <1>2, <1>3, <1>5, RowsKept

LEMMA Dropped ==
    ASSUME CodesIInv, NEW c \in Codes,
           \/ code'[c] = code[c]
           \/ Sent(c) /\ code'[c] = [code[c] EXCEPT !.stored = FALSE]
           \/ Sent(c) /\ code'[c] = [code[c] EXCEPT !.expired = TRUE]
    PROVE  SameTries(c) /\ code'[c] \in CodeRows \cup {Unsent}
  <1>1. CASE code'[c] = code[c]
    BY <1>1 DEF CodesIInv, CodesTypeOK, SameTries, Sent, SentAfter
  <1>2. CASE Sent(c) /\ code'[c] # code[c]
    <2>1. code[c] \in CodeRows
      BY <1>2, CodeForm DEF CodesIInv
    <2>2. /\ code'[c] \in CodeRows /\ code'[c].attempts = code[c].attempts
          /\ code'[c].consumed = code[c].consumed
      BY <2>1, <1>2 DEF CodeRows
    <2> QED
      BY <2>2, <1>2, CodeForm DEF CodesIInv, SameTries, SentAfter
  <1> QED
    BY <1>1, <1>2

LEMMA RevokeInv ==
    ASSUME CodesIInv, NEW r \in Callers, revokeAllForUser(r)
    PROVE  CodesIInv'
  <1>1. \A c \in Codes : SameTries(c) /\ code'[c] \in CodeRows \cup {Unsent}
    BY Dropped DEF revokeAllForUser
  <1>2. code' \in [Codes -> CodeRows \cup {Unsent}]
    BY <1>1 DEF revokeAllForUser
  <1> QED
    BY <1>1, <1>2, DropInv DEF revokeAllForUser, Ends

LEMMA ExpireInv ==
    ASSUME CodesIInv, NEW c \in Codes, Expire(c)
    PROVE  CodesIInv'
  <1>1. \A d \in Codes : SameTries(d) /\ code'[d] \in CodeRows \cup {Unsent}
    BY Dropped DEF Expire, CodesIInv, CodesTypeOK
  <1>2. code' \in [Codes -> CodeRows \cup {Unsent}]
    BY <1>1 DEF Expire, CodesIInv, CodesTypeOK
  <1> QED
    BY <1>1, <1>2, DropInv DEF Expire

LEMMA PurgeInv ==
    ASSUME CodesIInv, NEW C \in SUBSET Codes, purgeExpired(C)
    PROVE  CodesIInv'
  <1>1. \A c \in Codes : SameTries(c) /\ code'[c] \in CodeRows \cup {Unsent}
    BY Dropped DEF purgeExpired
  <1>2. code' \in [Codes -> CodeRows \cup {Unsent}]
    BY <1>1 DEF purgeExpired
  <1> QED
    BY <1>1, <1>2, DropInv DEF purgeExpired

\* Steps of the counters, and those that change nothing.
LEMMA CounterInv ==
    ASSUME CodesIInv, counter' \in [Purposes -> Counters],
           UNCHANGED <<code, call, uses, told, lost>>
    PROVE  CodesIInv'
  <1>1. CodesTypeOK'
    BY DEF CodesIInv, CodesTypeOK
  <1>2. TriesCovered'
    BY DEF CodesIInv, TriesCovered, WrongOn, Sent
  <1>3. SentInOrder' /\ CallsSent' /\ UsesTrue'
    BY DEF CodesIInv, SentInOrder, CallsSent, UsesTrue, Sent
  <1>4. LockToldOnce'
    BY DEF CodesIInv, LockToldOnce, Exhausted, Reported, Telling, Sent
  <1> QED
    BY <1>1, <1>2, <1>3, <1>4 DEF CodesIInv

LEMMA TimeInv ==
    ASSUME CodesIInv, NEW p \in Purposes, CooldownPasses(p) \/ HourPasses(p)
    PROVE  CodesIInv'
  <1>1. counter \in [Purposes -> Counters] /\ counter[p] \in Counters
    BY DEF CodesIInv, CodesTypeOK
  <1>2. /\ [counter[p] EXCEPT !.cooling = FALSE] \in Counters
        /\ [counter[p] EXCEPT !.sent = 0] \in Counters
    <2>1. 0 \in 0..MaxPerHour
      BY CodesBoundsAssumption
    <2> QED
      BY <2>1, <1>1 DEF Counters
  <1>3. counter' \in [Purposes -> Counters]
    BY <1>1, <1>2 DEF CooldownPasses, HourPasses
  <1> QED
    BY <1>3, CounterInv DEF CooldownPasses, HourPasses

LEMMA CodesNextInv == CodesIInv /\ [CodesNext]_codesVars => CodesIInv'
  <1> SUFFICES ASSUME CodesIInv, [CodesNext]_codesVars PROVE CodesIInv'
    OBVIOUS
  <1>1. ASSUME NEW r \in Callers, \/ IssueNothing(r) \/ AcceptLost(r) \/ CallerDies(r)
                                  \/ CountGone(r) \/ recordBestEffort(r)
        PROVE  CodesIInv'
    <2>1. CASE call[r].at = "locked"
      BY <1>1, <2>1, RecordInv DEF IssueNothing, AcceptLost, CountGone
    <2>2. CASE call[r].at # "locked"
      BY <1>1, <2>2, EndInv DEF recordBestEffort
    <2> QED
      BY <2>1, <2>2
  <1>2. ASSUME NEW r \in Callers, IssueDelete(r) PROVE CodesIInv'
    BY <1>2, DeleteInv
  <1>3. ASSUME NEW r \in Callers, IssueCommit(r) PROVE CodesIInv'
    BY <1>3, CommitInv
  <1>4. ASSUME NEW r \in Callers, Accept(r) PROVE CodesIInv'
    BY <1>4, AcceptInv
  <1>5. ASSUME NEW r \in Callers, CountWrong(r) PROVE CodesIInv'
    BY <1>5, CountInv
  <1>6. ASSUME NEW r \in Callers, revokeAllForUser(r) PROVE CodesIInv'
    BY <1>6, RevokeInv
  <1>7. ASSUME NEW r \in Callers, NEW p \in Purposes, reserveSend(r, p) PROVE CodesIInv'
    BY <1>7, SendInv
  <1>8. ASSUME NEW r \in Callers, NEW p \in Purposes, NEW right \in BOOLEAN,
               ReadCode(r, p, right)
        PROVE  CodesIInv'
    BY <1>8, ReadInv
  <1>9. ASSUME NEW p \in Purposes, CooldownPasses(p) \/ HourPasses(p) PROVE CodesIInv'
    BY <1>9, TimeInv
  <1>10. ASSUME NEW c \in Codes, Expire(c) PROVE CodesIInv'
    BY <1>10, ExpireInv
  <1>11. ASSUME NEW C \in SUBSET Codes, purgeExpired(C) PROVE CodesIInv'
    BY <1>11, PurgeInv
  <1>12. CASE UNCHANGED codesVars
    BY <1>12, CounterInv DEF codesVars, CodesIInv, CodesTypeOK
  <1> QED
    BY <1>1, <1>2, <1>3, <1>4, <1>5, <1>6, <1>7, <1>8, <1>9, <1>10, <1>11, <1>12
       DEF CodesNext

\* The inductive invariant of the codes holds of every run.
THEOREM CodesInvariant == CodesSpec => []CodesIInv
  <1> QED
    BY CodesInitInv, CodesNextInv, PTL DEF CodesSpec

\* The rows of the codes, the counters of sends and the requests under way have
\* the values that the tables and the handlers give them.
THEOREM CodesTypeCorrect == CodesSpec => []CodesTypeOK
  <1>1. CodesIInv => CodesTypeOK
    BY DEF CodesIInv
  <1> QED
    BY <1>1, CodesInvariant, PTL

\* However many wrong codes are checked at once, a row never counts more tries
\* than the limit and the requests, less one.
THEOREM TriesStayBounded == CodesSpec => []TriesBounded
  <1>1. CodesIInv => TriesBounded
    <2> SUFFICES ASSUME CodesIInv, NEW c \in Codes, Sent(c)
                 PROVE  code[c].attempts < MaxAttempts + Cardinality(Callers)
      BY DEF TriesBounded
    <2>1. code[c].attempts \in Nat
      BY CodeForm DEF CodesIInv, CodeRows
    <2> QED
      BY <2>1, WrongFew, CodesBoundsAssumption DEF CodesIInv, TriesCovered
  <1> QED
    BY <1>1, CodesInvariant, PTL

\* A code that its wrong tries locked has exactly one of them answer for it: it
\* will record the lock, has recorded it, or its record was lost.
THEOREM LocksAreTold == CodesSpec => []LockToldOnce
  <1>1. CodesIInv => LockToldOnce
    BY DEF CodesIInv
  <1> QED
    BY <1>1, CodesInvariant, PTL

-----------------------------------------------------------------------------
\* What became of a code is told by its row and the checks of it under way.
FateRow(c) ==
    Fate(c) = IF ~Sent(c) THEN "unsent"
              ELSE IF code[c].consumed THEN "used"
              ELSE IF Usable(c) THEN "usable" ELSE "dead"

LEMMA FateForm ==
    ASSUME CodesIInv, NEW c \in Codes
    PROVE  FateRow(c)
  <1>1. uses[c] = IF Sent(c) /\ code[c].consumed THEN 1 ELSE 0
    BY DEF CodesIInv, UsesTrue
  <1>2. CASE Sent(c) /\ code[c].consumed
    BY <1>1, <1>2 DEF FateRow, Fate
  <1>3. CASE ~(Sent(c) /\ code[c].consumed)
    BY <1>1, <1>3 DEF FateRow, Fate
  <1> QED
    BY <1>2, <1>3

LEMMA FateFormNext ==
    ASSUME CodesIInv', NEW c \in Codes
    PROVE  FateRow(c)'
  <1>1. uses'[c] = IF SentAfter(c) /\ code'[c].consumed THEN 1 ELSE 0
    BY DEF CodesIInv, UsesTrue, Sent, SentAfter
  <1>2. CASE SentAfter(c) /\ code'[c].consumed
    BY <1>1, <1>2 DEF FateRow, Fate, Sent, SentAfter
  <1>3. CASE ~(SentAfter(c) /\ code'[c].consumed)
    BY <1>1, <1>3 DEF FateRow, Fate, Sent, SentAfter
  <1> QED
    BY <1>2, <1>3

fates == [c \in Codes |-> Fate(c)]

\* A step that leaves the rows and the requests alone is a stutter of the promise.
LEMMA FateStays ==
    ASSUME UNCHANGED <<code, uses, call>>
    PROVE  fates' = fates
  BY DEF fates, Fate, Sent, Usable, UnderCheck

\* A request that moves on, to no check, leaves the checks of the others.
LEMMA ChecksOfOthers ==
    ASSUME CodesTypeOK, NEW r \in Callers, NEW next \in CallStages, Moves(r, next),
           next.at # "match", NEW c \in Codes
    PROVE  /\ UnderCheck(c)' => UnderCheck(c)
           /\ ~(call[r].at = "match" /\ call[r].code = c) =>
                 (UnderCheck(c)' <=> UnderCheck(c))
  <1>1. call'[r] = next /\ \A s \in Callers : s # r => call'[s] = call[s]
    BY Moved
  <1>2. ASSUME NEW s \in Callers, call'[s].at = "match" /\ call'[s].code = c
        PROVE  call[s].at = "match" /\ call[s].code = c
    BY <1>1, <1>2
  <1>3. ASSUME NEW s \in Callers, call[s].at = "match" /\ call[s].code = c,
               ~(call[r].at = "match" /\ call[r].code = c)
        PROVE  call'[s].at = "match" /\ call'[s].code = c
    BY <1>1, <1>3
  <1> QED
    BY <1>2, <1>3 DEF UnderCheck

\* A step that only takes usable codes away lets them die.
LEMMA FateDies ==
    ASSUME CodesIInv, CodesIInv',
           \A c \in Codes :
              /\ Sent(c) <=> SentAfter(c)
              /\ Sent(c) => code'[c].consumed = code[c].consumed
              /\ Sent(c) /\ Usable(c)' => Usable(c)
    PROVE  Promise!Next
  <1> DEFINE C == {c \in Codes : Fate(c) = "usable" /\ Fate(c)' = "dead"}
  <1>1. \A c \in Codes : c \notin C => Fate(c)' = Fate(c)
    <2> SUFFICES ASSUME NEW c \in Codes PROVE c \in C \/ Fate(c)' = Fate(c)
      OBVIOUS
    <2>1. FateRow(c) /\ FateRow(c)'
      BY FateForm, FateFormNext
    <2> QED
      BY <2>1 DEF FateRow, Sent, SentAfter
  <1>2. /\ \A c \in C : fates[c] = "usable"
        /\ fates' = [c \in Codes |-> IF c \in C THEN "dead" ELSE fates[c]]
    BY <1>1 DEF fates
  <1>3. Promise!Die(C)
    BY <1>2 DEF Promise!Die, Promise!Become, fates
  <1>4. C \in SUBSET Codes
    OBVIOUS
  <1> QED
    BY <1>3, <1>4 DEF Promise!Next

\* A step of a request that leaves the rows alone and finds no expired code: a
\* code that expired dies when the last check of it ends.
LEMMA MoveDies ==
    ASSUME CodesIInv, CodesIInv', NEW r \in Callers, NEW next \in CallStages, Moves(r, next),
           UNCHANGED code,
           next.at = "match" => ~code[next.code].expired
    PROVE  Promise!Next
  <1> SUFFICES ASSUME NEW c \in Codes, Sent(c), Usable(c)' PROVE Usable(c)
    BY FateDies DEF Sent, SentAfter
  <1>1. CASE next.at # "match"
    BY <1>1, ChecksOfOthers DEF CodesIInv, Usable
  <1>2. CASE next.at = "match" /\ ~code[c].expired
    BY <1>2 DEF Usable
  <1>3. CASE next.at = "match" /\ code[c].expired
    <2>1. PICK s \in Callers : call'[s].at = "match" /\ call'[s].code = c
      BY <1>3 DEF Usable, UnderCheck
    <2>2. s # r /\ call'[s] = call[s]
      BY <1>3, <2>1, Moved DEF CodesIInv
    <2>3. UnderCheck(c)
      BY <2>1, <2>2 DEF UnderCheck
    <2> QED
      BY <2>3 DEF Usable
  <1> QED
    BY <1>1, <1>2, <1>3

LEMMA PromiseInit == CodesInit => Promise!Init
  <1> SUFFICES ASSUME CodesInit PROVE fates = [c \in Codes |-> "unsent"]
    BY DEF Promise!Init, fates
  <1> QED
    BY DEF CodesInit, fates, Fate, Sent

\* Spending a code is its one use.
LEMMA AcceptUses ==
    ASSUME CodesIInv, CodesIInv', NEW r \in Callers, Accept(r)
    PROVE  Promise!Next
  <1>1. PICK c \in Codes : c = call[r].code
    BY CodeForm DEF CodesIInv, Accept, AtCode
  <1>2. /\ call[r].at = "match" /\ Spendable(c)
        /\ code' = [code EXCEPT ![c].consumed = TRUE]
    BY <1>1 DEF Accept
  <1>3. Sent(c) /\ code[c] \in CodeRows
    BY <1>1, <1>2, CodeForm DEF CodesIInv, CallsSent
  <1>4. [code[c] EXCEPT !.consumed = TRUE] \in CodeRows
    BY <1>3 DEF CodeRows
  <1>5. SentAfter(c) /\ code'[c].consumed = TRUE
    BY <1>2, <1>3, <1>4, CodeForm DEF CodesIInv, CodesTypeOK, SentAfter, CodeRows
  <1>6. Fate(c) = "usable" /\ Fate(c)' = "used"
    <2>1. FateRow(c) /\ FateRow(c)'
      BY FateForm, FateFormNext
    <2>2. UnderCheck(c)
      BY <1>1, <1>2 DEF UnderCheck
    <2> QED
      BY <2>1, <2>2, <1>2, <1>3, <1>5 DEF FateRow, Spendable, Usable, Sent, SentAfter
  <1>7. \A d \in Codes : d # c => Fate(d)' = Fate(d)
    <2> SUFFICES ASSUME NEW d \in Codes, d # c PROVE Fate(d)' = Fate(d)
      OBVIOUS
    <2>1. code'[d] = code[d]
      BY <1>2 DEF CodesIInv, CodesTypeOK
    <2>2. FateRow(d) /\ FateRow(d)'
      BY FateForm, FateFormNext
    <2>3. UnderCheck(d)' <=> UnderCheck(d)
      <3>1. PICK next \in CallStages : Moves(r, next) /\ next.at # "match"
        BY StagesFit DEF Accept
      <3> QED
        BY <3>1, <1>1, ChecksOfOthers DEF CodesIInv
    <2> QED
      BY <2>1, <2>2, <2>3 DEF FateRow, Sent, Usable
  <1>8. Promise!Use(c)
    BY <1>6, <1>7 DEF Promise!Use, Promise!Become
  <1> QED
    BY <1>8 DEF Promise!Next

\* Sending a code lets those die that it replaces.
LEMMA CommitSends ==
    ASSUME CodesIInv, CodesIInv', NEW r \in Callers, IssueCommit(r)
    PROVE  Promise!Next
  <1>1. PICK n \in Codes : n = NextCode
    BY DEF IssueCommit
  <1>2. \A c \in Codes : Sent(c) <=> c < n
    BY <1>1, NextIsUnsent DEF CodesIInv, IssueCommit
  <1>3. call[r].old \subseteq Codes /\ \A c \in call[r].old : Sent(c)
    BY CodeForm DEF CodesIInv, CallsSent, IssueCommit, AtIssue
  <1>4. ~Sent(n) /\ n \notin call[r].old
    BY <1>2, <1>3 DEF Codes
  <1>5. code'[n] = [stored |-> TRUE, purpose |-> call[r].purpose, attempts |-> 0,
                    consumed |-> FALSE, expired |-> FALSE]
    BY <1>1, <1>4 DEF IssueCommit
  <1>6. \A c \in Codes \ {n} :
            code'[c] = IF c \in call[r].old THEN [code[c] EXCEPT !.stored = FALSE] ELSE code[c]
    BY <1>1 DEF IssueCommit
  <1>7. Fate(n) = "unsent" /\ Fate(n)' = "usable"
    <2>1. FateRow(n) /\ FateRow(n)'
      BY FateForm, FateFormNext
    <2>2. code'[n] \in CodeRows
      <3>1. call[r].purpose \in Purposes
        BY CodeForm DEF CodesIInv, IssueCommit, AtIssue
      <3> QED
        BY <3>1, <1>5 DEF CodeRows
    <2>3. SentAfter(n)
      BY <2>2, CodeForm DEF CodesIInv, SentAfter
    <2>4. Usable(n)'
      BY <1>5, CodesBoundsAssumption DEF Usable
    <2> QED
      BY <2>1, <2>3, <2>4, <1>4, <1>5 DEF FateRow, Sent, SentAfter
  <1> DEFINE C == {c \in Codes \ {n} : Fate(c) = "usable" /\ Fate(c)' = "dead"}
  <1>8. \A c \in Codes \ {n} : c \notin C => Fate(c)' = Fate(c)
    <2> SUFFICES ASSUME NEW c \in Codes \ {n} PROVE c \in C \/ Fate(c)' = Fate(c)
      OBVIOUS
    <2>1. FateRow(c) /\ FateRow(c)'
      BY FateForm, FateFormNext
    <2>2. CASE c \in call[r].old
      <3>1. code[c] \in CodeRows /\ code'[c] = [code[c] EXCEPT !.stored = FALSE]
        BY <2>2, <1>3, <1>6, CodeForm DEF CodesIInv
      <3>2. /\ code'[c] \in CodeRows /\ code'[c].consumed = code[c].consumed
            /\ ~code'[c].stored
        BY <3>1 DEF CodeRows
      <3>3. SentAfter(c) /\ Sent(c)
        BY <3>1, <3>2, CodeForm DEF CodesIInv, Sent, SentAfter
      <3> QED
        BY <2>1, <3>2, <3>3 DEF FateRow, Sent, SentAfter, Usable
    <2>3. CASE c \notin call[r].old
      <3>1. UnderCheck(c)' <=> UnderCheck(c)
        BY ChecksOfOthers, StagesFit DEF CodesIInv, IssueCommit, Ends
      <3> QED
        BY <2>1, <2>3, <3>1, <1>6 DEF FateRow, Sent, Usable
    <2> QED
      BY <2>2, <2>3
  <1>9. Promise!Send(n, C)
    <2>1. n \notin C /\ fates[n] = "unsent" /\ \A b \in C : fates[b] = "usable"
      BY <1>7 DEF fates
    <2>2. fates' = [b \in Codes |-> CASE b = n -> "usable" [] b \in C -> "dead"
                                      [] OTHER -> fates[b]]
      BY <1>7, <1>8 DEF fates
    <2> QED
      BY <2>1, <2>2 DEF Promise!Send, fates
  <1>10. C \in SUBSET Codes
    OBVIOUS
  <1> QED
    BY <1>9, <1>10 DEF Promise!Next

\* Tries, expiry, revocation and the purge only take codes away.
LEMMA OthersDie ==
    ASSUME CodesIInv, CodesIInv',
           \/ \E r \in Callers : CountWrong(r) \/ revokeAllForUser(r)
           \/ \E c \in Codes : Expire(c)
           \/ \E C \in SUBSET Codes : purgeExpired(C)
    PROVE  Promise!Next
  <1> DEFINE Less(c) == /\ Sent(c) <=> SentAfter(c)
                        /\ Sent(c) => code'[c].consumed = code[c].consumed
                        /\ Sent(c) /\ Usable(c)' => Usable(c)
  <1>7. \A c \in Codes : UnderCheck(c)' => UnderCheck(c)
    <2>1. CASE UNCHANGED call
      BY <2>1 DEF UnderCheck
    <2>2. ASSUME NEW r \in Callers, CountWrong(r) \/ revokeAllForUser(r)
          PROVE  \A c \in Codes : UnderCheck(c)' => UnderCheck(c)
      <3>1. PICK next \in CallStages : Moves(r, next) /\ next.at # "match"
        <4>1. CASE revokeAllForUser(r)
          BY <4>1, StagesFit DEF revokeAllForUser, Ends
        <4>2. CASE CountWrong(r)
          <5>1. call[r].code \in Codes
            BY <4>2, CodeForm DEF CodesIInv, CountWrong, AtCode
          <5> QED
            BY <4>2, <5>1, StagesFit DEF CountWrong
        <4> QED
          BY <2>2, <4>1, <4>2
      <3> QED
        BY <3>1, ChecksOfOthers DEF CodesIInv
    <2> QED
      BY <2>1, <2>2 DEF Expire, purgeExpired
  <1>1. ASSUME NEW c \in Codes,
               \/ code'[c] = code[c]
               \/ Sent(c) /\ code'[c] = [code[c] EXCEPT !.stored = FALSE]
               \/ Sent(c) /\ code'[c] = [code[c] EXCEPT !.expired = TRUE]
        PROVE  Less(c)
    <2>1. SameTries(c)
      BY <1>1, Dropped
    <2>2. Sent(c) => code[c] \in CodeRows
      BY CodeForm DEF CodesIInv
    <2> QED
      BY <1>1, <1>7, <2>1, <2>2 DEF SameTries, Usable, CodeRows
  <1>2. ASSUME NEW r \in Callers, revokeAllForUser(r) PROVE \A c \in Codes : Less(c)
    BY <1>1, <1>2 DEF revokeAllForUser
  <1>3. ASSUME NEW d \in Codes, Expire(d) PROVE \A c \in Codes : Less(c)
    BY <1>1, <1>3 DEF Expire, CodesIInv, CodesTypeOK
  <1>4. ASSUME NEW C \in SUBSET Codes, purgeExpired(C) PROVE \A c \in Codes : Less(c)
    BY <1>1, <1>4 DEF purgeExpired
  <1>5. ASSUME NEW r \in Callers, CountWrong(r) PROVE \A c \in Codes : Less(c)
    <2>1. PICK d \in Codes : d = call[r].code
      BY <1>5, CodeForm DEF CodesIInv, CountWrong, AtCode
    <2>2. Sent(d) /\ code[d] \in CodeRows
      BY <1>5, <2>1, CodeForm DEF CodesIInv, CallsSent, CountWrong
    <2>3. code' = [code EXCEPT ![d].attempts = Counted(d)] /\ code[d].attempts \in Nat
      BY <1>5, <2>1, <2>2 DEF CountWrong, CodeRows
    <2>4. \A c \in Codes : c # d => code'[c] = code[c]
      BY <2>3 DEF CodesIInv, CodesTypeOK
    <2>5. /\ code'[d].attempts = code[d].attempts + 1 /\ code'[d] \in CodeRows
          /\ code'[d].consumed = code[d].consumed /\ code'[d].stored = code[d].stored
          /\ code'[d].expired = code[d].expired
      <3>1. Counted(d) \in Nat /\ Counted(d) = code[d].attempts + 1
        BY <2>3 DEF Counted
      <3>2. code'[d] = [code[d] EXCEPT !.attempts = Counted(d)]
        BY <2>3 DEF CodesIInv, CodesTypeOK
      <3> QED
        BY <3>1, <3>2, <2>2 DEF CodeRows
    <2>6. Less(d)
      BY <1>7, <2>2, <2>3, <2>5, CodeForm, CodesBoundsAssumption
         DEF CodesIInv, SentAfter, Usable
    <2> QED
      BY <2>4, <2>6, <1>1
  <1>6. \A c \in Codes : Less(c)
    BY <1>2, <1>3, <1>4, <1>5
  <1> QED
    BY <1>6, FateDies

\* Each step of the codes is a step of the promise or none.
LEMMA PromiseStep ==
    CodesIInv /\ CodesIInv' /\ [CodesNext]_codesVars => [Promise!Next]_fates
  <1> SUFFICES ASSUME CodesIInv, CodesIInv', [CodesNext]_codesVars
               PROVE  Promise!Next \/ fates' = fates
    OBVIOUS
  <1>1. CASE UNCHANGED <<code, uses, call>>
    BY <1>1, FateStays
  <1>2. CASE \E r \in Callers : Accept(r)
    BY <1>2, AcceptUses
  <1>3. CASE \E r \in Callers : IssueCommit(r)
    BY <1>3, CommitSends
  <1>4. CASE \/ \E r \in Callers : CountWrong(r) \/ revokeAllForUser(r)
             \/ \E c \in Codes : Expire(c)
             \/ \E C \in SUBSET Codes : purgeExpired(C)
    BY <1>4, OthersDie
  <1>5. ASSUME NEW r \in Callers,
               \/ IssueNothing(r) \/ AcceptLost(r) \/ CountGone(r)
               \/ recordBestEffort(r) \/ CallerDies(r)
        PROVE  Promise!Next
    BY <1>5, StagesFit, MoveDies
       DEF IssueNothing, AcceptLost, CountGone, recordBestEffort, CallerDies, Ends
  <1>8. ASSUME NEW r \in Callers, IssueDelete(r) PROVE Promise!Next
    <2>1. call[r].purpose \in Purposes
      BY <1>8, CodeForm DEF CodesIInv, IssueDelete, AtPurpose
    <2>2. PICK next \in CallStages : Moves(r, next) /\ next.at = "deleted"
      BY <1>8, <2>1, StagesFit DEF IssueDelete
    <2> QED
      BY <1>8, <2>2, MoveDies DEF IssueDelete
  <1>9. ASSUME NEW r \in Callers, NEW p \in Purposes, reserveSend(r, p) PROVE Promise!Next
    <2>1. PICK next \in CallStages : Moves(r, next) /\ next.at = "reserved"
      BY <1>9, StagesFit DEF reserveSend
    <2> QED
      BY <1>9, <2>1, MoveDies DEF reserveSend
  <1>10. ASSUME NEW r \in Callers, NEW p \in Purposes, NEW right \in BOOLEAN,
                ReadCode(r, p, right)
         PROVE  Promise!Next
    <2>1. PICK c \in Codes : /\ Newest(c, p)
                             /\ Moves(r, [at |-> IF right THEN "match" ELSE "wrong", code |-> c])
      BY <1>10 DEF ReadCode
    <2>2. PICK a \in {"match", "wrong"} : a = IF right THEN "match" ELSE "wrong"
      OBVIOUS
    <2>3. PICK next \in CallStages : Moves(r, next) /\ next.code = c
      BY <2>1, <2>2, StagesFit
    <2> QED
      BY <1>10, <2>1, <2>3, MoveDies DEF ReadCode, Newest, Checkable
  <1>6. ASSUME NEW p \in Purposes, CooldownPasses(p) \/ HourPasses(p)
        PROVE  UNCHANGED <<code, uses, call>>
    BY <1>6 DEF CooldownPasses, HourPasses
  <1>7. CASE UNCHANGED codesVars
    BY <1>7, FateStays DEF codesVars
  <1> QED
    BY <1>1, <1>2, <1>3, <1>4, <1>5, <1>6, <1>7, <1>8, <1>9, <1>10 DEF CodesNext

\* Codes are single use, and a dead one is never accepted: the requests, in any
\* order, implement the promise of the service.  An expired code is dead when no
\* check that found it live is under way.
THEOREM CodesRefinement == CodesSpec => ImplementsOneTimeCode
  <1>1. CodesInit => Promise!Init
    BY PromiseInit
  <1>2. CodesIInv /\ CodesIInv' /\ [CodesNext]_codesVars => [Promise!Next]_fates
    BY PromiseStep
  <1> QED
    BY <1>1, <1>2, CodesInvariant, PTL
       DEF CodesSpec, ImplementsOneTimeCode, Promise!Spec, fates
====
