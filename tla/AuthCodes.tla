------------------------------ MODULE AuthCodes -------------------------------
(***************************************************************************)
(* The 6-digit codes of one address (auth/codes/auth-code.service.ts) and  *)
(* the requests that send and check them (auth/code-auth.service.ts).      *)
(*                                                                         *)
(* Every statement on the database is one step, so that requests interleave*)
(* between reading a code and counting a try or spending it.  A code is    *)
(* the row that holds its hash; rows are numbered as they are inserted.    *)
(* A check-only call with the right code changes nothing and is left out.  *)
(* Nor is failed_checks modelled, the tries of an address with no live     *)
(* code: it decides the wording of that answer and nothing else.           *)
(***************************************************************************)
EXTENDS Naturals, FiniteSets

CONSTANTS Purposes,     \* those in use, of AUTH_CODE_PURPOSES
          Callers,      \* each may be one request at a time
          MaxAttempts,  \* AUTH_CODE_MAX_ATTEMPTS
          MaxPerHour,   \* AUTH_CODE_MAX_PER_HOUR
          MaxCodes      \* bound: codes ever stored

ASSUME PurposesAssumption == Purposes \subseteq {"signup", "login", "password_reset"}
ASSUME CallersAssumption == IsFiniteSet(Callers)
ASSUME CodesBoundsAssumption ==
    /\ MaxAttempts \in Nat \ {0} /\ MaxPerHour \in Nat \ {0} /\ MaxCodes \in Nat

Codes == 1..MaxCodes

CodeRows == [stored : BOOLEAN,     \* FALSE: not inserted yet, or deleted
             purpose : Purposes,
             attempts : Nat,
             consumed : BOOLEAN,
             expired : BOOLEAN]
Unsent == [stored |-> FALSE]

\* A row of auth_code_requests: is the last send within the cooldown, and the
\* sends of this hour.
Counters == [cooling : BOOLEAN, sent : 0..MaxPerHour]

NoCall == [at |-> "idle"]
AtPurpose == [at : {"reserved"}, purpose : Purposes]
AtIssue == [at : {"deleted"}, purpose : Purposes, old : SUBSET Codes]
AtCode == [at : {"match", "wrong"}, code : Codes]
AtRevoke == [at : {"revoke"}]
AtLocked == [at : {"locked"}, code : Codes]

VARIABLES code,     \* the rows of auth_codes
          counter,  \* the address's rows of auth_code_requests
          call,     \* the requests under way
          uses,     \* how often each code was accepted
          told,     \* codes whose last try was recorded as auth.code_locked
          lost      \* history: those whose record failed, or died with its request

codesVars == <<code, counter, call, uses, told, lost>>

Sent(c) == code[c] # Unsent

\* What a check looks for.
Checkable(c, p) ==
    /\ Sent(c) /\ code[c].stored /\ code[c].purpose = p
    /\ ~code[c].consumed /\ ~code[c].expired

Newest(c, p) == Checkable(c, p) /\ \A d \in Codes : Checkable(d, p) => d <= c

NextCode == Cardinality({c \in Codes : Sent(c)}) + 1

CodesTypeOK ==
    /\ code \in [Codes -> CodeRows \cup {Unsent}]
    /\ counter \in [Purposes -> Counters]
    /\ call \in [Callers -> {NoCall} \cup AtPurpose \cup AtIssue \cup AtCode
                               \cup AtRevoke \cup AtLocked]
    /\ uses \in [Codes -> Nat]
    /\ told \subseteq Codes /\ lost \subseteq Codes

CodesInit ==
    /\ code = [c \in Codes |-> Unsent]
    /\ counter = [p \in Purposes |-> [cooling |-> FALSE, sent |-> 0]]
    /\ call = [r \in Callers |-> NoCall]
    /\ uses = [c \in Codes |-> 0]
    /\ told = {} /\ lost = {}

Moves(r, next) == call' = [call EXCEPT ![r] = next]
Ends(r) == Moves(r, NoCall)

-----------------------------------------------------------------------------
(* Sending a code *)

\* One upsert, so that two requests cannot both pass the cooldown and the cap.
reserveSend(r, p) ==
    /\ call[r] = NoCall
    /\ ~counter[p].cooling /\ counter[p].sent < MaxPerHour
    /\ counter' = [counter EXCEPT ![p] = [cooling |-> TRUE, sent |-> @.sent + 1]]
    /\ Moves(r, [at |-> "reserved", purpose |-> p])
    /\ UNCHANGED <<code, uses, told, lost>>

\* No account, a banned one, or one that needs no code of this purpose: the
\* code is made and thrown away.
IssueNothing(r) ==
    /\ call[r].at = "reserved" /\ Ends(r)
    /\ UNCHANGED <<code, counter, uses, told, lost>>

\* issue: the DELETE of its transaction, which sees the rows committed so far.
IssueDelete(r) ==
    /\ call[r].at = "reserved" /\ NextCode \in Codes
    /\ LET p == call[r].purpose
       IN Moves(r, [at |-> "deleted", purpose |-> p,
                    old |-> {c \in Codes : Sent(c) /\ code[c].stored /\ code[c].purpose = p}])
    /\ UNCHANGED <<code, counter, uses, told, lost>>

\* ...its INSERT and COMMIT.
IssueCommit(r) ==
    /\ call[r].at = "deleted" /\ NextCode \in Codes
    /\ code' = [c \in Codes |->
          CASE c = NextCode -> [stored |-> TRUE, purpose |-> call[r].purpose, attempts |-> 0,
                                consumed |-> FALSE, expired |-> FALSE]
            [] c \in call[r].old -> [code[c] EXCEPT !.stored = FALSE]
            [] OTHER -> code[c]]
    /\ Ends(r)
    /\ UNCHANGED <<counter, uses, told, lost>>

-----------------------------------------------------------------------------
(* Checking a code *)

\* Mutant: a locked code is compared all the same.
ComparableAlways(c) == TRUE

\* The tries that a check reads before it compares: a locked code is not compared.
Comparable(c) == code[c].attempts < MaxAttempts

\* The newest live code is read and compared with the submitted one, whose
\* purpose and address its hash binds.  verify takes the time once, before this:
\* what it finds live now passes for live when it is spent.
ReadCode(r, p, right) ==
    /\ call[r] = NoCall
    /\ \E c \in Codes : /\ Newest(c, p) /\ Comparable(c)
                        /\ Moves(r, [at |-> IF right THEN "match" ELSE "wrong", code |-> c])
    /\ UNCHANGED <<code, counter, uses, told, lost>>

\* Mutant: the UPDATE does not look at the tries.
SpendableLocked(c) == code[c].stored /\ ~code[c].consumed

\* The WHERE of the UPDATE that spends a code.  Its test of expires_at against
\* the time of the read is the one that the read made.
Spendable(c) == code[c].stored /\ ~code[c].consumed /\ code[c].attempts < MaxAttempts

Accept(r) ==
    LET c == call[r].code
    IN /\ call[r].at = "match" /\ Spendable(c)
       /\ code' = [code EXCEPT ![c].consumed = TRUE]
       /\ uses' = [uses EXCEPT ![c] = @ + 1]
       /\ Moves(r, IF code[c].purpose = "password_reset" THEN [at |-> "revoke"] ELSE NoCall)
       /\ UNCHANGED <<counter, told, lost>>

\* Another request spent, killed or replaced it first.
AcceptLost(r) ==
    /\ call[r].at = "match" /\ ~Spendable(call[r].code)
    /\ Ends(r)
    /\ UNCHANGED <<code, counter, uses, told, lost>>

\* The tries that the UPDATE of a wrong code leaves in the row.
Counted(c) == code[c].attempts + 1

\* Mutant: every try that leaves the code locked passes for the one that did it.
JustLockedAlready(c) == Counted(c) >= MaxAttempts

JustLocked(c) == Counted(c) = MaxAttempts

\* What the request goes on with when verify says that its try locked the code.
Tell(c) == [at |-> "locked", code |-> c]

CountWrong(r) ==
    LET c == call[r].code
    IN /\ call[r].at = "wrong" /\ code[c].stored /\ ~code[c].consumed
       /\ code' = [code EXCEPT ![c].attempts = Counted(c)]
       /\ Moves(r, IF JustLocked(c) THEN Tell(c) ELSE NoCall)
       /\ UNCHANGED <<counter, uses, told, lost>>

\* The UPDATE returns no row, which verify takes for the last try as well; the
\* record of that lock, which is none, is left out.
CountGone(r) ==
    LET c == call[r].code
    IN /\ call[r].at = "wrong" /\ (~code[c].stored \/ code[c].consumed)
       /\ Ends(r)
       /\ UNCHANGED <<code, counter, uses, told, lost>>

\* auth.code_locked is recorded once verify has returned; if the insert fails,
\* nobody is told.
recordBestEffort(r) ==
    /\ call[r].at = "locked"
    /\ \/ told' = told \cup {call[r].code} /\ UNCHANGED lost
       \/ lost' = lost \cup {call[r].code} /\ UNCHANGED told
    /\ Ends(r)
    /\ UNCHANGED <<code, counter, uses>>

\* resetPassword, once the password is written: every code of the account goes.
revokeAllForUser(r) ==
    /\ call[r].at = "revoke"
    /\ code' = [c \in Codes |-> IF Sent(c) THEN [code[c] EXCEPT !.stored = FALSE] ELSE code[c]]
    /\ Ends(r)
    /\ UNCHANGED <<counter, uses, told, lost>>

-----------------------------------------------------------------------------
(* Time, the hourly purge, and the process dying *)

CooldownPasses(p) ==
    /\ counter[p].cooling /\ counter' = [counter EXCEPT ![p].cooling = FALSE]
    /\ UNCHANGED <<code, call, uses, told, lost>>

HourPasses(p) ==
    /\ counter[p].sent > 0 /\ counter' = [counter EXCEPT ![p].sent = 0]
    /\ UNCHANGED <<code, call, uses, told, lost>>

Expire(c) ==
    /\ Sent(c) /\ code[c].stored /\ ~code[c].expired
    /\ code' = [code EXCEPT ![c].expired = TRUE]
    /\ UNCHANGED <<counter, call, uses, told, lost>>

\* Rows whose code was used, or expired, more than an hour ago.
purgeExpired(C) ==
    /\ C # {}
    /\ \A c \in C : Sent(c) /\ code[c].stored /\ (code[c].consumed \/ code[c].expired)
    /\ code' = [c \in Codes |-> IF c \in C THEN [code[c] EXCEPT !.stored = FALSE] ELSE code[c]]
    /\ UNCHANGED <<counter, call, uses, told, lost>>

CallerDies(r) ==
    /\ call[r] # NoCall /\ Ends(r)
    /\ lost' = IF call[r].at = "locked" THEN lost \cup {call[r].code} ELSE lost
    /\ UNCHANGED <<code, counter, uses, told>>

CodesNext ==
    \/ \E r \in Callers :
          \/ IssueNothing(r) \/ IssueDelete(r) \/ IssueCommit(r)
          \/ Accept(r) \/ AcceptLost(r) \/ CountWrong(r) \/ CountGone(r)
          \/ recordBestEffort(r) \/ revokeAllForUser(r) \/ CallerDies(r)
          \/ \E p \in Purposes : \/ reserveSend(r, p)
                                 \/ \E right \in BOOLEAN : ReadCode(r, p, right)
    \/ \E p \in Purposes : CooldownPasses(p) \/ HourPasses(p)
    \/ \E c \in Codes : Expire(c)
    \/ \E C \in SUBSET Codes : purgeExpired(C)

CodesSpec == CodesInit /\ [][CodesNext]_codesVars

-----------------------------------------------------------------------------
(* Properties *)

\* Wrong codes checked at once each read the tries before the others were
\* counted; they exceed the limit by no more than the requests there are.
TriesBounded ==
    \A c \in Codes : Sent(c) => code[c].attempts < MaxAttempts + Cardinality(Callers)

Exhausted(c) == Sent(c) /\ code[c].attempts >= MaxAttempts
Telling(r, c) == call[r] = Tell(c)
Reported(c) == c \in told \cup lost

\* A code that its wrong tries killed has exactly one of them answer for it,
\* however they overlapped and whatever became of the row: that request is about
\* to record the lock, has recorded it, or failed to; and none does before.
LockToldOnce ==
    \A c \in Codes :
        /\ Exhausted(c) <=> Reported(c) \/ \E r \in Callers : Telling(r, c)
        /\ \A r, s \in Callers : Telling(r, c) /\ Telling(s, c) => r = s
        /\ Reported(c) => \A r \in Callers : ~Telling(r, c)
        /\ c \notin told \cap lost

\* A check found the code live and right, and has not spent it yet.
UnderCheck(c) == \E r \in Callers : call[r].at = "match" /\ call[r].code = c

\* A row that a check would take, or one under way still may.
Usable(c) ==
    /\ code[c].stored /\ code[c].attempts < MaxAttempts
    /\ ~code[c].expired \/ UnderCheck(c)

\* What a code amounts to, for the promise that codes are single use.
Fate(c) ==
    IF ~Sent(c) THEN "unsent"
    ELSE CASE uses[c] > 1 -> "used again"
           [] uses[c] = 1 -> "used"
           [] uses[c] = 0 -> IF Usable(c) THEN "usable" ELSE "dead"

Promise == INSTANCE OneTimeCode WITH fate <- [c \in Codes |-> Fate(c)]

\* A code is accepted at most once, and never after it was replaced or revoked
\* or took too many wrong tries, however requests overlap; once it expired, only
\* by a check that had found it live before.
ImplementsOneTimeCode == Promise!Spec
=============================================================================
