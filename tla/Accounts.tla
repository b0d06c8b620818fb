------------------------------- MODULE Accounts --------------------------------
(***************************************************************************)
(* User accounts and their sessions: sign-in, refresh and sign-out         *)
(* (auth/auth.service.ts, auth/auth-session.service.ts,                    *)
(* users/token.service.ts), new passwords, bans and suspensions            *)
(* (admin/admin.service.ts), deletion, restore and purge                   *)
(* (users/users.service.ts, users/account-commitments.service.ts,          *)
(* users/account-purge.service.ts).                                        *)
(*                                                                         *)
(* A request reads the row, computes (a bcrypt hash takes a good part of a *)
(* second) and writes; other requests come in between.  Several of them    *)
(* write the whole row as they read it.  Passwords are numbered, and a     *)
(* refresh token is known by the password that its session goes back to.   *)
(***************************************************************************)
EXTENDS Naturals, FiniteSets

CONSTANTS Users,
          Administrators,  \* users with role ADMIN
          Tokens,          \* refresh tokens that may be issued
          NoToken,
          Requests,        \* each may be one request at a time
          MaxPasswords     \* bound: new passwords per account

ASSUME AdministratorsAssumption == Administrators \subseteq Users
ASSUME NoTokenAssumption == NoToken \notin Tokens
ASSUME BoundsAssumption == MaxPasswords \in Nat

\* deletedAt: null, within the 30 days of recovery, or past them.
Rows == [banned : BOOLEAN, suspended : BOOLEAN,
         deleted : {"no", "recent", "old"}, purged : BOOLEAN]
Fresh == [banned |-> FALSE, suspended |-> FALSE, deleted |-> "no", purged |-> FALSE]

\* A row of user_tokens of type REFRESH; "late": its request began with a
\* password that was replaced before the row was inserted.
LiveTokens == [state : {"live"}, user : Users, proved : 0..MaxPasswords, late : BOOLEAN]
Unissued == [state |-> "unissued"]
Gone == [state |-> "gone"]

\* What a request does with the row it has read.
AdminWrites == {"ban", "unban", "suspend", "activate"}
OwnWrites == {"changePassword", "resetByLink", "avatar"}
NewPassword == {"changePassword", "resetByLink", "resetByCode"}
SignsIn == {"changePassword", "resetByCode"}
\* Mutant: changePassword leaves the other sessions.
RevokesResets == {"ban", "resetByLink", "resetByCode"}
Revokes == {"ban"} \cup NewPassword

Idle == [at |-> "idle"]
Writing == [at : {"write"}, user : Users, does : AdminWrites \cup OwnWrites, row : Rows]
Hashing == [at : {"hash"}, user : Users]
Revoking == [at : {"revoke"}, user : Users, does : Revokes]
Starting == [at : {"session"}, user : Users, proved : 0..MaxPasswords,
             from : Tokens \cup {NoToken}]
Redeeming == [at : {"redeem"}, token : Tokens, user : Users, ok : BOOLEAN]
ForUser == [at : {"leave", "softDelete", "restore"}, user : Users]

VARIABLES row,       \* the users
          password,  \* how often each has set one
          token,     \* the refresh tokens
          req,       \* the requests under way
          owes,      \* users with a live booking, job, payment or dispute
          doomed,    \* the candidates that a purge run has listed
          ordered,   \* the sanctions that admins have put on each user
          stale,     \* users whose row was written over as it had been before
          cut,       \* users whose sessions were not revoked: the process died
          heirs      \* how many sessions were continued from each token

vars == <<row, password, token, req, owes, doomed, ordered, stale, cut, heirs>>
sessionVars == <<password, token, cut, heirs>>
lifeVars == <<owes, doomed>>

TypeOK ==
    /\ row \in [Users -> Rows]
    /\ password \in [Users -> 0..MaxPasswords]
    /\ token \in [Tokens -> LiveTokens \cup {Unissued, Gone}]
    /\ req \in [Requests -> {Idle} \cup Writing \cup Hashing \cup Revoking \cup Starting
                              \cup Redeeming \cup ForUser]
    /\ owes \subseteq Users /\ doomed \subseteq Users
    /\ ordered \in [Users -> SUBSET {"ban", "suspend"}]
    /\ stale \subseteq Users /\ cut \subseteq Users
    /\ heirs \in [Tokens -> Nat]

Init ==
    /\ row = [u \in Users |-> Fresh]
    /\ password = [u \in Users |-> 0]
    /\ token = [t \in Tokens |-> Unissued]
    /\ req = [q \in Requests |-> Idle]
    /\ owes = {} /\ doomed = {}
    /\ ordered = [u \in Users |-> {}]
    /\ stale = {} /\ cut = {}
    /\ heirs = [t \in Tokens |-> 0]

Goes(q, next) == req' = [req EXCEPT ![q] = next]
Done(q) == Goes(q, Idle)
Begins(q, next) == req[q] = Idle /\ Goes(q, next)
AtStage(q, at) == req[q].at = at

\* An ordinary lookup does not see a deleted row.
Live(u) == row[u].deleted = "no"
\* JwtStrategy.validate
Authenticated(u) == Live(u) /\ ~row[u].banned

\* The rows that a delete of the account's refresh tokens leaves.
WithoutTokensOf(u) ==
    [t \in Tokens |-> IF token[t].state = "live" /\ token[t].user = u THEN Gone ELSE token[t]]

-----------------------------------------------------------------------------
(* Sessions *)

\* loginUser, verifyCode, handleOAuthCallback: the credential is checked and the
\* account is not banned.
SignIn(q, u) ==
    /\ Authenticated(u)
    /\ Begins(q, [at |-> "session", user |-> u, proved |-> password[u], from |-> NoToken])
    /\ UNCHANGED <<row, sessionVars, lifeVars, ordered, stale>>

\* createJWTTokens: the new refresh token is inserted.
StartSession(q) ==
    /\ AtStage(q, "session")
    /\ \E t \in Tokens :
          /\ token[t] = Unissued
          /\ token' = [token EXCEPT ![t] =
                [state |-> "live", user |-> req[q].user, proved |-> req[q].proved,
                 late |-> req[q].proved < password[req[q].user]]]
    /\ heirs' = [t \in Tokens |-> IF t = req[q].from THEN heirs[t] + 1 ELSE heirs[t]]
    /\ Done(q)
    /\ UNCHANGED <<row, password, cut, lifeVars, ordered, stale>>

\* consumeRefreshToken: the lookup, with the token's user...
FindToken(q, t) ==
    /\ token[t].state = "live"
    /\ Begins(q, [at |-> "redeem", token |-> t, user |-> token[t].user,
                  ok |-> Authenticated(token[t].user)])
    /\ UNCHANGED <<row, sessionVars, lifeVars, ordered, stale>>

\* Mutant: the delete's affected rows are not looked at.
RedeemableFound(t) == token[t] # Unissued

\* ...and the delete, which one of several requests wins.
Redeemable(t) == token[t].state = "live"

Redeem(q) ==
    LET t == req[q].token
    IN /\ AtStage(q, "redeem") /\ Redeemable(t)
       /\ token' = [token EXCEPT ![t] = Gone]
       /\ Goes(q, IF req[q].ok
                  THEN [at |-> "session", user |-> req[q].user, from |-> t,
                        proved |-> IF token[t].state = "live" THEN token[t].proved ELSE 0]
                  ELSE Idle)
       /\ UNCHANGED <<row, password, cut, heirs, lifeVars, ordered, stale>>

RedeemLost(q) ==
    /\ AtStage(q, "redeem") /\ ~Redeemable(req[q].token)
    /\ Done(q)
    /\ UNCHANGED <<row, sessionVars, lifeVars, ordered, stale>>

\* revokeToken, and the token's own expiry.
logout(t) ==
    /\ token[t].state = "live" /\ token' = [token EXCEPT ![t] = Gone]
    /\ UNCHANGED <<row, password, cut, heirs, req, lifeVars, ordered, stale>>

-----------------------------------------------------------------------------
(* Requests that write the row as they read it *)

Lawful(u, does) ==
    CASE does = "ban"      -> ~row[u].banned
      [] does = "unban"    -> row[u].banned
      [] does = "suspend"  -> ~row[u].suspended /\ ~row[u].banned
      [] does = "activate" -> row[u].suspended
      [] does \in {"changePassword", "avatar"} -> ~row[u].banned
      [] OTHER -> TRUE  \* resetByLink: a token sent by mail is all it takes

Read(q, u, does) ==
    /\ Live(u) /\ Lawful(u, does)
    /\ does \in NewPassword => password[u] < MaxPasswords
    /\ Begins(q, [at |-> "write", user |-> u, does |-> does, row |-> row[u]])
    /\ UNCHANGED <<row, sessionVars, lifeVars, ordered, stale>>

\* Mutant: reactivation lifts a ban as well.
ChangedToActive(read, does) ==
    CASE does = "ban"      -> [read EXCEPT !.banned = TRUE]
      [] does = "unban"    -> [read EXCEPT !.banned = FALSE]
      [] does = "suspend"  -> [read EXCEPT !.suspended = TRUE]
      [] does = "activate" -> [read EXCEPT !.suspended = FALSE, !.banned = FALSE]
      [] OTHER -> read

Changed(read, does) ==
    CASE does = "ban"      -> [read EXCEPT !.banned = TRUE]
      [] does = "unban"    -> [read EXCEPT !.banned = FALSE]
      [] does = "suspend"  -> [read EXCEPT !.suspended = TRUE]
      [] does = "activate" -> [read EXCEPT !.suspended = FALSE]
      [] OTHER -> read

Order(old, does) ==
    CASE does = "ban"      -> old \cup {"ban"}
      [] does = "unban"    -> old \ {"ban"}
      [] does = "suspend"  -> old \cup {"suspend"}
      [] does = "activate" -> old \ {"suspend"}
      [] OTHER -> old

\* save(user) or update(id, user): every column but the password, which the row
\* was read without and which only a new one replaces.
Write(q) ==
    LET u == req[q].user  does == req[q].does
    IN /\ AtStage(q, "write")
       /\ does \in NewPassword => password[u] < MaxPasswords
       /\ row' = [row EXCEPT ![u] = Changed(req[q].row, does)]
       /\ password' = IF does \in NewPassword
                      THEN [password EXCEPT ![u] = @ + 1] ELSE password
       /\ ordered' = [ordered EXCEPT ![u] = Order(@, does)]
       /\ stale' = IF row[u] = req[q].row THEN stale ELSE stale \cup {u}
       /\ Goes(q, IF does \in Revokes
                  THEN [at |-> "revoke", user |-> u, does |-> does] ELSE Idle)
       /\ UNCHANGED <<token, cut, heirs, lifeVars>>

\* resetPassword by code: the code is spent, and the password is hashed...
ResetByCode(q, u) ==
    /\ Authenticated(u) /\ password[u] < MaxPasswords
    /\ Begins(q, [at |-> "hash", user |-> u])
    /\ UNCHANGED <<row, sessionVars, lifeVars, ordered, stale>>

\* ...and written, in a column of its own.
WritePassword(q) ==
    LET u == req[q].user
    IN /\ AtStage(q, "hash") /\ password[u] < MaxPasswords
       /\ password' = [password EXCEPT ![u] = @ + 1]
       /\ Goes(q, [at |-> "revoke", user |-> u, does |-> "resetByCode"])
       /\ UNCHANGED <<row, token, cut, heirs, lifeVars, ordered, stale>>

\* The refresh tokens go; a password changed, or reset by code, starts a session.
Revoke(q) ==
    LET u == req[q].user
    IN /\ AtStage(q, "revoke")
       /\ token' = WithoutTokensOf(u)
       /\ Goes(q, IF req[q].does \in SignsIn
                  THEN [at |-> "session", user |-> u, proved |-> password[u], from |-> NoToken]
                  ELSE Idle)
       /\ UNCHANGED <<row, password, cut, heirs, lifeVars, ordered, stale>>

-----------------------------------------------------------------------------
(* Deletion, restore and purge *)

\* A booking, job, payment or dispute of the user comes to life, at any time and
\* whether or not the account is still there: the other party, an admin, a
\* scheduled run and Paystack (a transfer.failed after the release) do it too...
Owe(u) ==
    /\ u \notin owes /\ owes' = owes \cup {u}
    /\ UNCHANGED <<row, sessionVars, req, doomed, ordered, stale>>

\* ...and the last one is over.
Settle(u) ==
    /\ u \in owes /\ owes' = owes \ {u}
    /\ UNCHANGED <<row, sessionVars, req, doomed, ordered, stale>>

\* hasAnotherUsableAdmin
UsableAdmin(u) == u \in Administrators /\ Live(u) /\ ~row[u].banned /\ ~row[u].suspended
CoveredWithout(u) == u \in Administrators => \E v \in Administrators \ {u} : UsableAdmin(v)

\* assertDeletable
Deletable(u) == CoveredWithout(u) /\ u \notin owes

deleteMe(q, u) ==
    /\ Authenticated(u) /\ Deletable(u)
    /\ Begins(q, [at |-> "leave", user |-> u])
    /\ UNCHANGED <<row, sessionVars, lifeVars, ordered, stale>>

LeaveRevoke(q) ==
    /\ AtStage(q, "leave")
    /\ token' = WithoutTokensOf(req[q].user)
    /\ Goes(q, [at |-> "softDelete", user |-> req[q].user])
    /\ UNCHANGED <<row, password, cut, heirs, lifeVars, ordered, stale>>

SoftDelete(q) ==
    /\ AtStage(q, "softDelete")
    /\ row' = [row EXCEPT ![req[q].user].deleted = "recent"]
    /\ Done(q)
    /\ UNCHANGED <<sessionVars, lifeVars, ordered, stale>>

\* restoreAccount, or Google for an account without a password: the owner is
\* known by the deleted row's credential...
restoreAccount(q, u) ==
    /\ ~Live(u) /\ ~row[u].purged
    /\ Begins(q, [at |-> "restore", user |-> u])
    /\ UNCHANGED <<row, sessionVars, lifeVars, ordered, stale>>

\* Mutant: the lookup is trusted.
RestorableAsFound(u) == TRUE

\* ...and under the row's lock the row is read again.
Restorable(u) == ~row[u].purged /\ row[u].deleted # "old"

restoreAccountById(q) ==
    LET u == req[q].user
    IN /\ AtStage(q, "restore")
       /\ IF Restorable(u)
          THEN /\ row' = [row EXCEPT ![u].deleted = "no"]
               /\ Goes(q, [at |-> "session", user |-> u, proved |-> password[u],
                           from |-> NoToken])
          ELSE UNCHANGED row /\ Done(q)
       /\ UNCHANGED <<sessionVars, lifeVars, ordered, stale>>

findPurgeCandidateIds ==
    /\ doomed = {}
    /\ doomed' = {u \in Users : row[u].deleted = "old" /\ ~row[u].purged} /\ doomed' # {}
    /\ UNCHANGED <<row, sessionVars, req, owes, ordered, stale>>

\* Under the row's lock the row is read again.
Purgeable(u) == row[u].deleted = "old" /\ ~row[u].purged

purgeAccount(u) ==
    /\ u \in doomed /\ doomed' = doomed \ {u}
    /\ IF Purgeable(u)
       THEN row' = [row EXCEPT ![u].purged = TRUE] /\ token' = WithoutTokensOf(u)
       ELSE UNCHANGED <<row, token>>
    /\ UNCHANGED <<password, cut, heirs, req, owes, ordered, stale>>

\* 30 days; no request that works on the live row lasts as long.
MonthPasses(u) ==
    /\ row[u].deleted = "recent"
    /\ {q \in Requests : req[q] # Idle /\ ~AtStage(q, "restore") /\ req[q].user = u} = {}
    /\ row' = [row EXCEPT ![u].deleted = "old"]
    /\ UNCHANGED <<sessionVars, req, lifeVars, ordered, stale>>

\* The process dies.
Crash(q) ==
    /\ req[q] # Idle /\ Done(q)
    /\ cut' = IF AtStage(q, "revoke") THEN cut \cup {req[q].user} ELSE cut
    /\ UNCHANGED <<row, password, token, heirs, lifeVars, ordered, stale>>

Next ==
    \/ \E q \in Requests :
          \/ StartSession(q) \/ Redeem(q) \/ RedeemLost(q) \/ Write(q) \/ WritePassword(q)
          \/ Revoke(q) \/ LeaveRevoke(q) \/ SoftDelete(q)
          \/ restoreAccountById(q) \/ Crash(q)
          \/ \E t \in Tokens : FindToken(q, t)
          \/ \E u \in Users :
                \/ SignIn(q, u) \/ ResetByCode(q, u)
                \/ deleteMe(q, u) \/ restoreAccount(q, u)
                \/ \E does \in AdminWrites \cup OwnWrites : Read(q, u, does)
    \/ \E t \in Tokens : logout(t)
    \/ \E u \in Users : Owe(u) \/ Settle(u) \/ purgeAccount(u) \/ MonthPasses(u)
    \/ findPurgeCandidateIds

Spec == Init /\ [][Next]_vars

-----------------------------------------------------------------------------
(* Properties *)

\* A refresh token continues at most one session, however often and however
\* concurrently it is presented.
RedeemedOnce == \A t \in Tokens : heirs[t] <= 1

\* Once a new password is set and the other sessions are revoked, a session that
\* goes back to an older password was inserted afterwards, by a request that had
\* begun before; or the process died before it could revoke.
OldSessionsEnd ==
    \A t \in Tokens :
        LET u == token[t].user
        IN token[t].state = "live" /\ token[t].proved < password[u]
             => \/ token[t].late \/ u \in cut
                \/ \E q \in Requests : AtStage(q, "revoke") /\ req[q].user = u

\* A sanction stands until an admin lifts it, except on a row that a request
\* wrote over as it had read it before.
SanctionsStand ==
    \A u \in Users \ stale :
        /\ row[u].banned <=> "ban" \in ordered[u]
        /\ row[u].suspended <=> "suspend" \in ordered[u]

\* A purged account is never brought back, and keeps no session.
PurgedForGood ==
    \A u \in Users : row[u].purged =>
        /\ row[u].deleted = "old"
        /\ \A t \in Tokens : token[t].state = "live" => token[t].user # u

\* account-commitments.service.ts: what is refused is the deletion that leaves no
\* administrator who can sign in and act.
LastAdminStays ==
    [][\A u \in Administrators :
          Live(u) /\ ~Live(u)' => \E v \in Administrators \ {u} : UsableAdmin(v)]_vars
=============================================================================
