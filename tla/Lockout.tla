------------------------------- MODULE Lockout -------------------------------
(***************************************************************************)
(* Failed-login counting and the temporary lock of one account: the login  *)
(* handler, AccountLockoutService and the login_attempts table.            *)
(*                                                                         *)
(* A login asks for the lock and verifies the password.  An unknown user   *)
(* or a wrong password makes it count the recent failures and insert one   *)
(* more, a right one makes it delete them all; each in two steps, with the *)
(* commit, since several requests with the same email may be in between.   *)
(* Statements see what was committed when they started (READ COMMITTED).   *)
(* No login asks for a second factor: get_by_email does not load           *)
(* user.security.                                                          *)
(***************************************************************************)
EXTENDS Integers, FiniteSets

CONSTANTS
    Request,    \* logins in flight at once
    Attempt,    \* ids of rows of login_attempts (a bound on how many exist)
    Max,        \* ACCOUNT_LOCKOUT_MAX_ATTEMPTS
    Window,     \* ACCOUNT_LOCKOUT_WINDOW_MINUTES
    Duration,   \* ACCOUNT_LOCKOUT_DURATION_MINUTES
    MaxTime,    \* bound on the clock
    AuditStores,  \* the database takes the audit row (see AuditRaises)
    Faults      \* whether a login may fail for reasons outside the code

ASSUME LockoutAssumption ==
    /\ IsFiniteSet(Request) /\ Request # {}
    /\ Attempt \subseteq Nat
    /\ Max \in Nat \ {0} /\ Window \in Nat /\ Duration \in Nat \ {0}
    /\ MaxTime \in Nat
    /\ AuditStores \in BOOLEAN /\ Faults \in BOOLEAN

VARIABLES
    now,     \* the clock
    row,     \* login_attempts, committed
    pc,      \* where each login is
    draft,   \* the row a failed login is about to insert
    doomed   \* the rows a successful login has deleted, not yet committed

vars == <<now, row, pc, draft, doomed>>

Draft == [at : Nat, until : Nat]      \* until = 0: locked_until is NULL
NoDraft == [at |-> 0, until |-> 0]
Row == [id : Attempt, at : Nat, until : Nat]

TypeOK ==
    /\ now \in Nat
    /\ row \subseteq Row
    /\ pc \in [Request -> {"idle", "checked", "counted", "cleared"}]
    /\ draft \in [Request -> Draft]
    /\ doomed \in [Request -> SUBSET Row]

Init ==
    /\ now = 0
    /\ row = {}
    /\ pc = [r \in Request |-> "idle"]
    /\ draft = [r \in Request |-> NoDraft]
    /\ doomed = [r \in Request |-> {}]

-----------------------------------------------------------------------------
\* get_locked_until: the latest. Mutant: the earliest.
EarliestLock ==
    LET locks == {x.until : x \in {y \in row : y.until > 0}}
    IN  IF locks = {} THEN 0 ELSE CHOOSE t \in locks : \A s \in locks : t <= s

LockedUntil ==
    LET locks == {x.until : x \in {y \in row : y.until > 0}}
    IN  IF locks = {} THEN 0 ELSE CHOOSE t \in locks : \A s \in locks : t >= s

Locked == LockedUntil > now

\* count_failures_since(now - window)
Recent == {x \in row : x.at >= now - Window}

Move(r, from, to) ==
    /\ pc[r] = from
    /\ pc' = [pc EXCEPT ![r] = to]

End(r) ==
    /\ pc' = [pc EXCEPT ![r] = "idle"]
    /\ draft' = [draft EXCEPT ![r] = NoDraft]
    /\ doomed' = [doomed EXCEPT ![r] = {}]

\* Ids no row has, nor had when a deletion still under way began.
Unused == {i \in Attempt : \A x \in row \cup UNION {doomed[r] : r \in Request} : x.id # i}

-----------------------------------------------------------------------------
\* ensure_login_allowed; a locked account ends the login here.
EnsureAllowed(r) ==
    /\ ~Locked
    /\ Move(r, "idle", "checked")
    /\ UNCHANGED <<now, row, draft, doomed>>

\* Mutant: "recent_failures + 1 > MAX_ATTEMPTS".
RecordFailedLoginLate(r) ==
    /\ Move(r, "checked", "counted")
    /\ draft' = [draft EXCEPT ![r] =
           [at |-> now, until |-> IF Cardinality(Recent) + 1 > Max
                                  THEN now + Duration ELSE 0]]
    /\ UNCHANGED <<now, row, doomed>>

\* Mutant: locked_until lies in the past.
RecordFailedLoginMinus(r) ==
    /\ Move(r, "checked", "counted")
    /\ draft' = [draft EXCEPT ![r] =
           [at |-> now, until |-> IF Cardinality(Recent) + 1 >= Max
                                  THEN now - Duration ELSE 0]]
    /\ UNCHANGED <<now, row, doomed>>

\* record_failed_login: one reading of the clock, the count, the row to be.
RecordFailedLogin(r) ==
    /\ Move(r, "checked", "counted")
    /\ draft' = [draft EXCEPT ![r] =
           [at |-> now, until |-> IF Cardinality(Recent) + 1 >= Max
                                  THEN now + Duration ELSE 0]]
    /\ UNCHANGED <<now, row, doomed>>

\* Every outcome of a login puts an audit row into the same transaction, with
\* a uuid for its integer key.  asyncpg refuses such an argument (AuditStores =
\* FALSE): the flush raises, and the attempts are rolled back with it.
AuditRaises(r) == ~AuditStores /\ pc[r] \in {"counted", "cleared"}

\* The INSERT is flushed by the commit.
CommitFailure(r) ==
    /\ pc[r] = "counted" /\ ~AuditRaises(r)
    /\ \E i \in Unused :
        /\ \A j \in Unused : i <= j
        /\ row' = row \cup {[id |-> i, at |-> draft[r].at, until |-> draft[r].until]}
    /\ End(r)
    /\ UNCHANGED now

\* record_successful_login: DELETE, of the rows committed by now.
RecordSuccessfulLogin(r) ==
    /\ Move(r, "checked", "cleared")
    /\ doomed' = [doomed EXCEPT ![r] = row]
    /\ UNCHANGED <<now, row, draft>>

CommitSuccess(r) ==
    /\ pc[r] = "cleared" /\ ~AuditRaises(r)
    /\ row' = row \ doomed[r]
    /\ End(r)
    /\ UNCHANGED now

\* A statement raises or the connection is lost: nothing was committed.
Abort(r) ==
    /\ pc[r] # "idle" /\ (Faults \/ AuditRaises(r))
    /\ End(r)
    /\ UNCHANGED <<now, row>>

Tick ==
    /\ now < MaxTime
    /\ now' = now + 1
    /\ UNCHANGED <<row, pc, draft, doomed>>

Next ==
    \/ \E r \in Request :
        \/ EnsureAllowed(r)
        \/ RecordFailedLogin(r)
        \/ CommitFailure(r)
        \/ RecordSuccessfulLogin(r)
        \/ CommitSuccess(r)
        \/ Abort(r)
    \/ Tick

Spec == Init /\ [][Next]_vars

-----------------------------------------------------------------------------
(* Properties.                                                              *)

\* Failures that did not lock, within the window that ends now.
Unlocking == {x \in Recent : x.until = 0}

\* Counting without a lock lets failures slip through, but only those that
\* were under way together: never more in a window than the threshold less
\* one, and one for every other request in flight (record_failed_login).
OvershootBounded ==
    Cardinality(Unlocking) <= Max - 1 + (Cardinality(Request) - 1)

\* Once an account is locked and no login is under way, the lock stands until
\* it expires: none gets past the check, and so none deletes it.
Quiet == \A r \in Request : pc[r] = "idle"

LockHolds ==
    [][\A x \in row : Quiet /\ x.until > now' => x \in row' /\ Quiet']_vars

\* README.md:754, "Tracks failed logins": a login that was refused for its
\* password leaves a row.
FailuresTracked ==
    [][\A r \in Request : pc[r] = "counted" /\ pc'[r] = "idle" =>
        \E x \in row' \ row : x.at = draft[r].at]_vars

\* README.md:754, "temporarily locks accounts after configured thresholds":
\* that many failures within the window leave the account locked, or to have
\* been, for the latest of them.
ThresholdLocks ==
    Cardinality(Recent) >= Max => \E x \in Recent : x.until > 0
=============================================================================
