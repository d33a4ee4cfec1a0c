------------------------------ MODULE Sessions ------------------------------
(***************************************************************************)
(* Sessions of the user module: login, refresh-token rotation, logout and  *)
(* the authentication of a request by its access token.                    *)
(*                                                                         *)
(* Handlers are coroutines of one or several server processes.  Each       *)
(* action below is one stretch of a handler between two awaits that reach  *)
(* PostgreSQL or Redis, so requests interleave at these points and may     *)
(* fail at each of them.  PostgreSQL runs READ COMMITTED: a statement sees *)
(* what was committed when it started, an UPDATE waits for the transaction *)
(* that holds the row, and a failed request loses all it had written.      *)
(* Redis is outside the transaction.                                       *)
(*                                                                         *)
(* A login or a refresh makes one access and one refresh token together,   *)
(* so a member of Token stands for the pair.                               *)
(***************************************************************************)
EXTENDS Integers, FiniteSets

CONSTANTS
    User,
    Request,      \* request slots: how many requests are in flight at once
    Token,        \* ids of token pairs (a bound on how many are ever issued)
    None,
    Ticks,        \* clock ticks per second
    AccessLife,   \* ACCESS_TOKEN_EXPIRE_MINUTES, in seconds
    RefreshLife,  \* REFRESH_TOKEN_EXPIRE_MINUTES, in seconds
    MaxTime,      \* bound on the clock, in ticks
    StrBinds,     \* the driver takes a str for an integer column (see LogoutScan)
    AuditStores,  \* the database takes the audit row of a login (see AuditRaises)
    Faults        \* whether a request may fail for reasons outside the code

ASSUME SessionsAssumption ==
    /\ Token \subseteq Nat
    /\ None \notin Token \cup User
    /\ Ticks \in Nat \ {0}
    /\ AccessLife \in Nat \ {0}
    /\ RefreshLife \in Nat \ {0}
    /\ MaxTime \in Nat
    /\ StrBinds \in BOOLEAN /\ AuditStores \in BOOLEAN
    /\ Faults \in BOOLEAN

VARIABLES
    now,        \* the clock, in ticks
    row,        \* user_sessions: what is committed of each refresh token
    owner,      \* "sub" of a pair, and user_id of its row
    born,       \* "iat" of a pair
    parent,     \* history: the refresh token a pair was rotated from
    denied,     \* Redis: when the denylist key of an access token expires
    pc,         \* where each request is
    tok,        \* the token a request presents
    user,       \* the user it acts for
    issued,     \* when it signed the pair it issues
    scan,       \* rows a logout's UPDATE selected
    wrote,      \* rows a request's open transaction has updated
    loggedOut,  \* history: access tokens whose logout was answered 204
    swept       \* history: rows selected by a logout that committed

db == <<row, owner, born, parent>>
request == <<pc, tok, user, issued, scan, wrote>>
history == <<loggedOut, swept>>
vars == <<now, db, denied, request, history>>

Phase == {"idle", "login_commit", "refresh_write", "refresh_commit",
          "auth_check", "authorised", "logout_scan", "logout_update",
          "logout_denylist", "logout_commit"}

TypeOK ==
    /\ now \in Nat
    /\ row \in [Token -> {"absent", "live", "revoked"}]
    /\ owner \in [Token -> User \cup {None}]
    /\ born \in [Token -> Nat]
    /\ parent \in [Token -> Token \cup {None}]
    /\ denied \in [Token -> Nat]
    /\ pc \in [Request -> Phase]
    /\ tok \in [Request -> Token \cup {None}]
    /\ user \in [Request -> User \cup {None}]
    /\ issued \in [Request -> Nat]
    /\ scan \in [Request -> SUBSET Token]
    /\ wrote \in [Request -> SUBSET Token]
    /\ loggedOut \in SUBSET Token
    /\ swept \in SUBSET Token
    /\ \A k \in Token : row[k] # "absent" => owner[k] \in User

Init ==
    /\ now = 0
    /\ row = [k \in Token |-> "absent"]
    /\ owner = [k \in Token |-> None]
    /\ born = [k \in Token |-> 0]
    /\ parent = [k \in Token |-> None]
    /\ denied = [k \in Token |-> 0]
    /\ pc = [r \in Request |-> "idle"]
    /\ tok = [r \in Request |-> None]
    /\ user = [r \in Request |-> None]
    /\ issued = [r \in Request |-> 0]
    /\ scan = [r \in Request |-> {}]
    /\ wrote = [r \in Request |-> {}]
    /\ loggedOut = {}
    /\ swept = {}

-----------------------------------------------------------------------------
(* Times.  A JWT carries whole seconds; the database keeps full precision.  *)

Second(t) == t \div Ticks

\* The exp claim of the access token of pair k, in seconds.
AccessExp(k) == Second(born[k]) + AccessLife

\* jose raises only when exp is below the current second.
Decodes(exp) == Second(now) <= exp

\* The same for its refresh token, and the expires_at column, in ticks.
RefreshExp(k) == Second(born[k]) + RefreshLife
ExpiresAt(k) == born[k] + RefreshLife * Ticks

\* ttl = int(exp - now), in seconds.
Ttl(k) == (AccessExp(k) * Ticks - now) \div Ticks

-----------------------------------------------------------------------------
(* The database and the request slots.                                      *)

Live == {k \in Token : row[k] = "live"}

\* A row lock lasts from the UPDATE to the end of the transaction.
LockedByOther(r, k) == \E q \in Request \ {r} : k \in wrote[q]

\* A handler's steps, by the phase they lead to.
Begin(r, phase, k, u) ==
    /\ pc[r] = "idle"
    /\ pc' = [pc EXCEPT ![r] = phase]
    /\ tok' = [tok EXCEPT ![r] = k]
    /\ user' = [user EXCEPT ![r] = u]

Advance(r, from, to) ==
    /\ pc[r] = from
    /\ pc' = [pc EXCEPT ![r] = to]

End(r) ==
    /\ pc' = [pc EXCEPT ![r] = "idle"]
    /\ tok' = [tok EXCEPT ![r] = None]
    /\ user' = [user EXCEPT ![r] = None]
    /\ issued' = [issued EXCEPT ![r] = 0]
    /\ scan' = [scan EXCEPT ![r] = {}]
    /\ wrote' = [wrote EXCEPT ![r] = {}]

Unused == {k \in Token : row[k] = "absent"}

\* Serial ids: the smallest that no row has.
NewId == {k \in Unused : \A j \in Unused : k <= j}

\* Bound: as many requests issue tokens at once as pairs are left.
Room ==
    Cardinality({r \in Request :
                    pc[r] \in {"login_commit", "refresh_write", "refresh_commit"}})
        < Cardinality(Unused)

\* Sign an access and a refresh token.
Sign(r) == issued' = [issued EXCEPT ![r] = now]

\* The row of the refresh token becomes visible: sub, iat and row of pair k.
Persist(r, k, from) ==
    /\ owner' = [owner EXCEPT ![k] = user[r]]
    /\ born' = [born EXCEPT ![k] = issued[r]]
    /\ parent' = [parent EXCEPT ![k] = from]

-----------------------------------------------------------------------------
(* Login, once the password has been accepted.                              *)

LoginIssue(r, u) ==
    /\ Room
    /\ Begin(r, "login_commit", None, u)
    /\ Sign(r)
    /\ UNCHANGED <<now, db, denied, scan, wrote, history>>

\* The transaction also holds an audit row with a uuid for its integer key,
\* which asyncpg refuses (AuditStores = FALSE): the login ends there.
AuditRaises(r) == ~AuditStores /\ pc[r] = "login_commit"

LoginCommit(r) ==
    /\ pc[r] = "login_commit" /\ ~AuditRaises(r)
    /\ \E k \in NewId :
        /\ row' = [row EXCEPT ![k] = "live"]
        /\ Persist(r, k, None)
    /\ End(r)
    /\ UNCHANGED <<now, denied, history>>

-----------------------------------------------------------------------------
(* Refresh.  The row is read, without a lock, before the unit of work.      *)

\* Mutant: without "if stored_token.is_revoked".
RefreshableRevoked(k) ==
    /\ row[k] # "absent"
    /\ ~(ExpiresAt(k) < now)
    /\ Decodes(RefreshExp(k))

\* Mutant: without "if not stored_token".
RefreshableUnknown(k) ==
    /\ row[k] # "revoked"
    /\ ~(ExpiresAt(k) < now)
    /\ Decodes(RefreshExp(k))

Refreshable(k) ==
    /\ row[k] = "live"
    /\ ~(ExpiresAt(k) < now)
    /\ Decodes(RefreshExp(k))

RefreshRead(r, k) ==
    /\ Room
    /\ Refreshable(k)
    /\ Begin(r, "refresh_write", k, owner[k])
    /\ UNCHANGED <<now, db, denied, issued, scan, wrote, history>>

\* merge() re-reads the row and updates it when it is not revoked yet.
RefreshWrite(r) ==
    /\ Advance(r, "refresh_write", "refresh_commit")
    /\ tok[r] \in Live => ~LockedByOther(r, tok[r])
    /\ wrote' = [wrote EXCEPT ![r] = {tok[r]} \cap Live]
    /\ Sign(r)
    /\ UNCHANGED <<now, db, denied, tok, user, scan, history>>

\* Mutant: the old token is not saved.
RefreshCommitNewOnly(r) ==
    /\ pc[r] = "refresh_commit"
    /\ \E k \in NewId :
        /\ row' = [row EXCEPT ![k] = "live"]
        /\ Persist(r, k, tok[r])
    /\ End(r)
    /\ UNCHANGED <<now, denied, history>>

\* Mutant: the old token is saved as it was read, revoke() forgotten.
RefreshCommitStale(r) ==
    /\ pc[r] = "refresh_commit"
    /\ \E k \in NewId :
        /\ row' = [row EXCEPT ![tok[r]] = "live", ![k] = "live"]
        /\ Persist(r, k, tok[r])
    /\ End(r)
    /\ UNCHANGED <<now, denied, history>>

RefreshCommit(r) ==
    /\ pc[r] = "refresh_commit"
    /\ \E k \in NewId :
        /\ row' = [row EXCEPT ![tok[r]] = "revoked", ![k] = "live"]
        /\ Persist(r, k, tok[r])
    /\ End(r)
    /\ UNCHANGED <<now, denied, history>>

-----------------------------------------------------------------------------
(* Authentication by the middleware: decode the JWT, then ask Redis.        *)

AuthDecode(r, k) ==
    /\ row[k] # "absent"
    /\ Decodes(AccessExp(k))
    /\ Begin(r, "auth_check", k, owner[k])
    /\ UNCHANGED <<now, db, denied, issued, scan, wrote, history>>

Denylisted(k) == now < denied[k]

AuthCheck(r) ==
    /\ pc[r] = "auth_check"
    /\ \/ /\ Denylisted(tok[r])
          /\ End(r)
       \/ /\ ~Denylisted(tok[r])
          /\ pc' = [pc EXCEPT ![r] = "authorised"]
          /\ UNCHANGED <<tok, user, issued, scan, wrote>>
    /\ UNCHANGED <<now, db, denied, history>>

\* Any endpoint but logout.
Serve(r) ==
    /\ pc[r] = "authorised"
    /\ End(r)
    /\ UNCHANGED <<now, db, denied, history>>

-----------------------------------------------------------------------------
(* Logout.  The UPDATE selects what is committed when it starts, waits for  *)
(* rows in other transactions, and skips those found revoked after that.    *)

Selected(u) == {k \in Live : owner[k] = u}

LogoutBegin(r) ==
    /\ Advance(r, "authorised", "logout_scan")
    /\ UNCHANGED <<now, db, denied, tok, user, issued, scan, wrote, history>>

\* The command carries str(id) and the UPDATE compares it with an integer
\* column.  asyncpg refuses such an argument (StrBinds = FALSE) and the request
\* ends there; a driver that sends text takes it.
LogoutScan(r) ==
    /\ pc[r] = "logout_scan"
    /\ IF StrBinds
       THEN /\ Advance(r, "logout_scan", "logout_update")
            /\ scan' = [scan EXCEPT ![r] = Selected(user[r])]
            /\ UNCHANGED <<tok, user, issued, wrote>>
       ELSE End(r)
    /\ UNCHANGED <<now, db, denied, history>>

\* Mutant: UPDATE ... SKIP LOCKED.
LogoutUpdateSkipLocked(r) ==
    /\ Advance(r, "logout_update", "logout_denylist")
    /\ wrote' = [wrote EXCEPT ![r] = {k \in scan[r] \cap Live : ~LockedByOther(r, k)}]
    /\ UNCHANGED <<now, db, denied, tok, user, issued, scan, history>>

LogoutUpdate(r) ==
    /\ Advance(r, "logout_update", "logout_denylist")
    /\ \A k \in scan[r] \cap Live : ~LockedByOther(r, k)
    /\ wrote' = [wrote EXCEPT ![r] = scan[r] \cap Live]
    /\ UNCHANGED <<now, db, denied, tok, user, issued, scan, history>>

\* Mutant: an error of Redis is swallowed.
LogoutDenylistBestEffort(r) ==
    /\ Advance(r, "logout_denylist", "logout_commit")
    /\ denied' \in {denied, [denied EXCEPT ![tok[r]] = now + Ttl(tok[r]) * Ticks]}
    /\ UNCHANGED <<now, db, tok, user, issued, scan, wrote, history>>

\* revoke_access_token: SETEX unless the token no longer decodes or ttl <= 0.
LogoutDenylist(r) ==
    /\ Advance(r, "logout_denylist", "logout_commit")
    /\ denied' = IF Decodes(AccessExp(tok[r])) /\ Ttl(tok[r]) > 0
                 THEN [denied EXCEPT ![tok[r]] = now + Ttl(tok[r]) * Ticks]
                 ELSE denied
    /\ UNCHANGED <<now, db, tok, user, issued, scan, wrote, history>>

LogoutCommit(r) ==
    /\ pc[r] = "logout_commit"
    /\ row' = [k \in Token |-> IF k \in wrote[r] THEN "revoked" ELSE row[k]]
    /\ loggedOut' = loggedOut \cup {tok[r]}
    /\ swept' = swept \cup scan[r]
    /\ End(r)
    /\ UNCHANGED <<now, owner, born, parent, denied>>

-----------------------------------------------------------------------------
\* Mutant: the transaction is left open.
FailOpen(r) ==
    /\ Faults
    /\ pc[r] # "idle"
    /\ pc' = [pc EXCEPT ![r] = "idle"]
    /\ UNCHANGED <<now, db, denied, tok, user, issued, scan, wrote, history>>

\* A statement raises, Redis is unreachable, the client disconnects or the
\* process dies: __aexit__ or the closing connection rolls back.
Fail(r) ==
    /\ Faults \/ AuditRaises(r)
    /\ pc[r] # "idle"
    /\ End(r)
    /\ UNCHANGED <<now, db, denied, history>>

Tick ==
    /\ now < MaxTime
    /\ now' = now + 1
    /\ UNCHANGED <<db, denied, request, history>>

\* A request that has begun takes its next step.
Proceed(r) ==
    \/ LoginCommit(r)
    \/ RefreshWrite(r)
    \/ RefreshCommit(r)
    \/ AuthCheck(r)
    \/ Serve(r)
    \/ LogoutBegin(r)
    \/ LogoutScan(r)
    \/ LogoutUpdate(r)
    \/ LogoutDenylist(r)
    \/ LogoutCommit(r)

Arrive(r) ==
    \/ \E u \in User : LoginIssue(r, u)
    \/ \E k \in Token : RefreshRead(r, k)
    \/ \E k \in Token : AuthDecode(r, k)

Next ==
    \/ \E r \in Request : Arrive(r) \/ Proceed(r) \/ Fail(r)
    \/ Tick

Spec == Init /\ [][Next]_vars

\* The event loop resumes every coroutine whose await is over, and PostgreSQL
\* serves the waiters of a row lock in turn.
Fairness ==
    \A r \in Request :
        /\ WF_vars(Proceed(r))
        /\ SF_vars(RefreshWrite(r))
        /\ SF_vars(LogoutUpdate(r))

FairSpec == Spec /\ Fairness
-----------------------------------------------------------------------------
(* Properties.                                                              *)

\* A rotation commits as a whole: whatever fails or overlaps, no token that
\* came from a refresh exists while the token it replaced can be used
\* (refresh_token handler: revoke, save, save, one commit).
RotationAtomic ==
    \A k \in Token :
        row[k] # "absent" /\ parent[k] # None => row[parent[k]] = "revoked"

\* Every row that a committed logout selected stays revoked, also when a
\* refresh held it, or had read it, while the logout ran.
SweptRevoked == \A k \in swept : row[k] = "revoked"

\* A refresh that begins after a logout was answered never redeems a token
\* that logout covered; only refreshes already under way can.
LogoutStopsLaterRefresh ==
    [][\A r \in Request :
        pc[r] = "idle" /\ pc'[r] = "refresh_write" => tok'[r] \notin swept]_vars

\* From the 204 of a logout on, its access token is refused until the last
\* second of its life, whatever else expires, fails or is logged out again.
DeniedUntilLastSecond ==
    \A k \in loggedOut :
        now <= (AccessExp(k) - 1) * Ticks => Denylisted(k)

\* No step makes a revoked refresh token usable again: the handlers save
\* whole rows from entities read before their transaction.
RevokedForever ==
    [][\A k \in Token : row[k] = "revoked" => row'[k] = "revoked"]_row

\* Every request ends: none waits forever for the row lock of another, also
\* when the other fails.
RequestsEnd == \A r \in Request : pc[r] # "idle" ~> pc[r] = "idle"

\* README.md:755, "Refresh tokens are revoked on rotation/logout": a logout
\* leaves no usable token that was rotated from one it revoked.
LogoutEndsSessions ==
    \A k \in Live : parent[k] \notin swept

\* The same line of the README, without faults: a logout that the middleware
\* let through revokes the refresh token it came with.
LogoutRevokes ==
    \A k \in Token :
        (\E r \in Request : pc[r] = "logout_scan" /\ tok[r] = k)
            ~> row[k] = "revoked"

\* README.md:755, "access tokens are denylisted in Redis until expiry".
DenylistedUntilExpiry ==
    \A k \in loggedOut : now < AccessExp(k) * Ticks => Denylisted(k)
=============================================================================
