--------------------------- MODULE SessionsProofs ---------------------------
(***************************************************************************)
(* Safety of Sessions for every number of users, requests and token pairs, *)
(* every clock granularity and every token lifetime.                       *)
(***************************************************************************)
EXTENDS Sessions, TLAPS

\* TTLs are a whole number of seconds: rounding loses less than one.
LEMMA DivBound ==
    ASSUME NEW a \in Int, NEW b \in Int, b > 0
    PROVE  /\ (a \div b) \in Int
           /\ (a \div b) * b <= a
           /\ a < (a \div b) * b + b
    BY SMT

\* The end of the key that SETEX leaves lies less than a second before exp.
LEMMA TtlBound ==
    ASSUME TypeOK, NEW k \in Token
    PROVE  /\ AccessExp(k) \in Int
           /\ Ttl(k) \in Int
           /\ (AccessExp(k) - 1) * Ticks < now + Ttl(k) * Ticks
<1> DEFINE left == AccessExp(k) * Ticks - now
<1>1. AccessExp(k) \in Int
  <2>1. born[k] \in Int /\ Ticks \in Int /\ Ticks > 0 /\ AccessLife \in Int
    BY SessionsAssumption DEF TypeOK
  <2>2. Second(born[k]) \in Int
    BY <2>1, DivBound DEF Second
  <2> QED
    BY <2>1, <2>2 DEF AccessExp
<1>2. left \in Int /\ Ticks \in Int /\ Ticks > 0 /\ now \in Int
    BY <1>1, SessionsAssumption DEF TypeOK
<1>3. Ttl(k) = left \div Ticks
    BY DEF Ttl
<1> HIDE DEF left
<1>4. Ttl(k) \in Int /\ left < Ttl(k) * Ticks + Ticks
    BY <1>2, <1>3, DivBound
<1>5. (AccessExp(k) - 1) * Ticks = left + now - Ticks
    BY <1>1, <1>2, SMT DEF left
<1>6. Ttl(k) * Ticks \in Int
    BY <1>2, <1>4
<1> QED
    BY <1>1, <1>2, <1>4, <1>5, <1>6

-----------------------------------------------------------------------------
(* The inductive invariant.                                                 *)

Exists(k) == k \in Token /\ row[k] # "absent"

\* What a request holds in each of its phases.
RequestOK(r) ==
    /\ pc[r] # "idle" => user[r] \in User
    /\ pc[r] \notin {"idle", "login_commit"} => Exists(tok[r])
    /\ \A k \in scan[r] \cup wrote[r] : Exists(k)

\* Once a logout has its locks, all it selected is revoked or about to be.
ScanCovered(r) ==
    pc[r] \in {"logout_denylist", "logout_commit"} =>
        \A k \in scan[r] : row[k] = "revoked" \/ k \in wrote[r]

\* The denylist key of k outlives the last second but one of k's life, or
\* that second is already over.
DenyCovered(k) ==
    \/ (AccessExp(k) - 1) * Ticks < denied[k]
    \/ (AccessExp(k) - 1) * Ticks < now

\* Pairs whose logout is past its SETEX, answered or not.
Denying == loggedOut \cup {tok[r] : r \in {q \in Request : pc[q] = "logout_commit"}}

Requests == \A r \in Request : RequestOK(r)
Scans == \A r \in Request : ScanCovered(r)
Denials == \A k \in Denying : Exists(k) /\ DenyCovered(k)

IInv == TypeOK /\ Requests /\ RotationAtomic /\ Scans /\ SweptRevoked /\ Denials

-----------------------------------------------------------------------------
(* Type correctness.                                                        *)

LEMMA InitTypeOK == Init => TypeOK
    BY SessionsAssumption DEF Init, TypeOK, Phase

LEMMA NextTypeOK ==
    ASSUME TypeOK, Requests, [Next]_vars
    PROVE  TypeOK'
<1> USE DEF TypeOK, Phase, Requests
<1>1. ASSUME NEW r \in Request, NEW u \in User, LoginIssue(r, u)
      PROVE  TypeOK'
    BY <1>1 DEF LoginIssue, Begin, Sign, db, history
<1>2. ASSUME NEW r \in Request, LoginCommit(r)
      PROVE  TypeOK'
    BY <1>2 DEF LoginCommit, NewId, Unused, Persist, End, history, RequestOK
<1>3. ASSUME NEW r \in Request, NEW k \in Token, RefreshRead(r, k)
      PROVE  TypeOK'
    BY <1>3 DEF RefreshRead, Refreshable, Begin, db, history
<1>4. ASSUME NEW r \in Request, RefreshWrite(r)
      PROVE  TypeOK'
    BY <1>4 DEF RefreshWrite, Advance, Sign, Live, db, history
<1>5. ASSUME NEW r \in Request, RefreshCommit(r)
      PROVE  TypeOK'
    BY <1>5 DEF RefreshCommit, NewId, Unused, Persist, End, history, RequestOK, Exists
<1>6. ASSUME NEW r \in Request, NEW k \in Token, AuthDecode(r, k)
      PROVE  TypeOK'
    BY <1>6 DEF AuthDecode, Begin, db, history
<1>7. ASSUME NEW r \in Request, AuthCheck(r)
      PROVE  TypeOK'
    BY <1>7 DEF AuthCheck, End, db, history
<1>8. ASSUME NEW r \in Request, Serve(r)
      PROVE  TypeOK'
    BY <1>8 DEF Serve, End, db, history
<1>9. ASSUME NEW r \in Request, LogoutBegin(r)
      PROVE  TypeOK'
    BY <1>9 DEF LogoutBegin, Advance, db, history
<1>10. ASSUME NEW r \in Request, LogoutScan(r)
       PROVE  TypeOK'
  <2>1. CASE StrBinds
    <3>1. Selected(user[r]) \subseteq Token
      BY DEF Selected, Live
    <3> QED
      BY <1>10, <2>1, <3>1 DEF LogoutScan, Advance, db, history
  <2>2. CASE ~StrBinds
    BY <1>10, <2>2 DEF LogoutScan, End, db, history
  <2> QED
    BY <2>1, <2>2
<1>11. ASSUME NEW r \in Request, LogoutUpdate(r)
       PROVE  TypeOK'
    BY <1>11 DEF LogoutUpdate, Advance, Live, db, history
<1>12. ASSUME NEW r \in Request, LogoutDenylist(r)
       PROVE  TypeOK'
  <2>1. Exists(tok[r])
    BY <1>12 DEF RequestOK, LogoutDenylist, Advance
  <2>2. Ttl(tok[r]) > 0 => now + Ttl(tok[r]) * Ticks \in Nat
    <3>1. Ttl(tok[r]) \in Int /\ Ticks \in Nat
        BY <2>1, TtlBound, SessionsAssumption DEF Exists
    <3>2. Ttl(tok[r]) > 0 => Ttl(tok[r]) * Ticks \in Nat
        BY <3>1
    <3> QED
        BY <3>2
  <2> QED
    BY <1>12, <2>2 DEF LogoutDenylist, Advance, db, history
<1>13. ASSUME NEW r \in Request, LogoutCommit(r)
       PROVE  TypeOK'
    BY <1>13 DEF LogoutCommit, End, RequestOK, Exists
<1>14. ASSUME NEW r \in Request, Fail(r)
       PROVE  TypeOK'
    BY <1>14 DEF Fail, End, db, history
<1>15. CASE Tick
    BY <1>15 DEF Tick, db, request, history
<1>16. CASE UNCHANGED vars
    BY <1>16 DEF vars, db, request, history
<1> QED
    BY <1>1, <1>2, <1>3, <1>4, <1>5, <1>6, <1>7, <1>8, <1>9, <1>10, <1>11,
       <1>12, <1>13, <1>14, <1>15, <1>16 DEF Next, Arrive, Proceed

-----------------------------------------------------------------------------
(* What one step may do to the rows.                                        *)

\* A row that exists stays, with its user and times; a revoked one stays
\* revoked.
LEMMA RowsForward ==
    ASSUME TypeOK, Requests, [Next]_vars, NEW k \in Token, row[k] # "absent"
    PROVE  /\ row'[k] \in {row[k], "revoked"}
           /\ owner'[k] = owner[k] /\ born'[k] = born[k] /\ parent'[k] = parent[k]
<1> USE DEF TypeOK
<1>1. ASSUME NEW r \in Request, LoginCommit(r)
      PROVE  /\ row'[k] = row[k]
             /\ owner'[k] = owner[k] /\ born'[k] = born[k] /\ parent'[k] = parent[k]
    BY <1>1 DEF LoginCommit, NewId, Unused, Persist
<1>2. ASSUME NEW r \in Request, RefreshCommit(r)
      PROVE  /\ row'[k] \in {row[k], "revoked"}
             /\ owner'[k] = owner[k] /\ born'[k] = born[k] /\ parent'[k] = parent[k]
    BY <1>2 DEF RefreshCommit, NewId, Unused, Persist
<1>3. ASSUME NEW r \in Request, LogoutCommit(r)
      PROVE  /\ row'[k] \in {row[k], "revoked"}
             /\ owner'[k] = owner[k] /\ born'[k] = born[k] /\ parent'[k] = parent[k]
    BY <1>3 DEF LogoutCommit
<1>4. CASE UNCHANGED db
    BY <1>4 DEF db
<1> QED
    BY <1>1, <1>2, <1>3, <1>4
    DEF Next, Arrive, Proceed, LoginIssue, RefreshRead, RefreshWrite, AuthDecode,
        AuthCheck, Serve, LogoutBegin, LogoutScan, LogoutUpdate, LogoutDenylist,
        Fail, Tick, vars

\* RevokedForever, as a fact about one step.
LEMMA StepKeepsRevoked ==
    ASSUME TypeOK, Requests, [Next]_vars
    PROVE  [\A k \in Token : row[k] = "revoked" => row'[k] = "revoked"]_row
    BY RowsForward

-----------------------------------------------------------------------------
(* The rest of the invariant, one lemma for each part.                      *)

LEMMA NextRequests ==
    ASSUME TypeOK, Requests, [Next]_vars
    PROVE  Requests'
<1> SUFFICES ASSUME NEW q \in Request
             PROVE  RequestOK(q)'
    BY DEF Requests
<1> USE DEF TypeOK, Requests, RequestOK
<1>0. \A k : Exists(k) => Exists(k)'
    BY RowsForward DEF Exists
<1>1. ASSUME NEW r \in Request, NEW u \in User, LoginIssue(r, u)
      PROVE  RequestOK(q)'
    BY <1>0, <1>1 DEF LoginIssue, Begin
<1>2. ASSUME NEW r \in Request, NEW k \in Token, RefreshRead(r, k)
      PROVE  RequestOK(q)'
    BY <1>0, <1>2 DEF RefreshRead, Refreshable, Begin, Exists
<1>3. ASSUME NEW r \in Request, NEW k \in Token, AuthDecode(r, k)
      PROVE  RequestOK(q)'
    BY <1>0, <1>3 DEF AuthDecode, Begin, Exists
<1>4. ASSUME NEW r \in Request, End(r)
      PROVE  RequestOK(q)'
    BY <1>0, <1>4 DEF End
<1>5. ASSUME NEW r \in Request, RefreshWrite(r)
      PROVE  RequestOK(q)'
    BY <1>0, <1>5 DEF RefreshWrite, Advance, Live, Exists
<1>6. ASSUME NEW r \in Request, AuthCheck(r)
      PROVE  RequestOK(q)'
    BY <1>0, <1>4, <1>6 DEF AuthCheck
<1>7. ASSUME NEW r \in Request, LogoutBegin(r)
      PROVE  RequestOK(q)'
    BY <1>0, <1>7 DEF LogoutBegin, Advance
<1>8. ASSUME NEW r \in Request, LogoutScan(r)
      PROVE  RequestOK(q)'
  <2>1. CASE StrBinds
    BY <1>0, <1>8, <2>1 DEF LogoutScan, Advance, Selected, Live, Exists
  <2>2. CASE ~StrBinds
    BY <1>4, <1>8, <2>2 DEF LogoutScan
  <2> QED
    BY <2>1, <2>2
<1>9. ASSUME NEW r \in Request, LogoutUpdate(r)
      PROVE  RequestOK(q)'
    BY <1>0, <1>9 DEF LogoutUpdate, Advance, Live, Exists
<1>10. ASSUME NEW r \in Request, LogoutDenylist(r)
       PROVE  RequestOK(q)'
    BY <1>0, <1>10 DEF LogoutDenylist, Advance
<1>11. CASE UNCHANGED request
    BY <1>0, <1>11 DEF request
<1> QED
    BY <1>1, <1>2, <1>3, <1>4, <1>5, <1>6, <1>7, <1>8, <1>9, <1>10, <1>11
    DEF Next, Arrive, Proceed, LoginCommit, RefreshCommit, Serve, LogoutCommit,
        Fail, Tick, vars

LEMMA NextRotationAtomic ==
    ASSUME TypeOK, Requests, RotationAtomic, [Next]_vars
    PROVE  RotationAtomic'
<1> SUFFICES ASSUME NEW k \in Token, row'[k] # "absent", parent'[k] # None
             PROVE  row'[parent'[k]] = "revoked"
    BY DEF RotationAtomic
<1> USE DEF TypeOK
<1>1. CASE row[k] # "absent"
  <2>1. parent'[k] = parent[k] /\ parent[k] \in Token
    BY <1>1, RowsForward
  <2>2. row[parent[k]] = "revoked"
    BY <1>1, <2>1 DEF RotationAtomic
  <2> QED
    BY <2>1, <2>2, RowsForward
<1>2. CASE row[k] = "absent"
  <2>1. ASSUME NEW r \in Request, LoginCommit(r)
        PROVE  FALSE
    BY <1>2, <2>1 DEF LoginCommit, NewId, Unused, Persist
  <2>2. ASSUME NEW r \in Request, RefreshCommit(r)
        PROVE  row'[parent'[k]] = "revoked"
    BY <1>2, <2>2 DEF RefreshCommit, NewId, Unused, Persist, Requests, RequestOK, Exists
  <2>3. ASSUME NEW r \in Request, LogoutCommit(r)
        PROVE  FALSE
    BY <1>2, <2>3 DEF LogoutCommit, Requests, RequestOK, Exists
  <2>4. CASE UNCHANGED db
    BY <1>2, <2>4 DEF db
  <2> QED
    BY <2>1, <2>2, <2>3, <2>4
    DEF Next, Arrive, Proceed, LoginIssue, RefreshRead, RefreshWrite, AuthDecode,
        AuthCheck, Serve, LogoutBegin, LogoutScan, LogoutUpdate, LogoutDenylist,
        Fail, Tick, vars
<1> QED
    BY <1>1, <1>2

LEMMA NextScans ==
    ASSUME TypeOK, Requests, Scans, [Next]_vars
    PROVE  Scans'
<1> SUFFICES ASSUME NEW q \in Request,
                    pc'[q] \in {"logout_denylist", "logout_commit"},
                    NEW k \in scan'[q]
             PROVE  row'[k] = "revoked" \/ k \in wrote'[q]
    BY DEF Scans, ScanCovered
<1> USE DEF TypeOK
\* Every step but q's own LogoutUpdate leaves q's scan and locks as they are.
<1>1. CASE LogoutUpdate(q)
  <2>1. k \in scan[q] /\ Exists(k)
    BY <1>1 DEF LogoutUpdate, Requests, RequestOK
  <2> QED
    BY <1>1, <2>1 DEF LogoutUpdate, Live, db, Exists
<1>2. CASE ~LogoutUpdate(q)
  <2>1. /\ pc[q] \in {"logout_denylist", "logout_commit"}
        /\ scan'[q] = scan[q] /\ wrote'[q] = wrote[q]
    BY <1>2
    DEF Next, Arrive, Proceed, LoginIssue, LoginCommit, RefreshRead, RefreshWrite,
        RefreshCommit, AuthDecode, AuthCheck, Serve, LogoutBegin, LogoutScan,
        LogoutUpdate, LogoutDenylist, LogoutCommit, Fail, Tick, Begin, Advance,
        End, vars, request
  <2>2. Exists(k) /\ (row[k] = "revoked" \/ k \in wrote[q])
    BY <2>1 DEF Scans, ScanCovered, Requests, RequestOK
  <2> QED
    BY <2>1, <2>2, RowsForward DEF Exists
<1> QED
    BY <1>1, <1>2

LEMMA NextSweptRevoked ==
    ASSUME TypeOK, Requests, Scans, SweptRevoked, [Next]_vars
    PROVE  SweptRevoked'
<1> SUFFICES ASSUME NEW k \in swept'
             PROVE  row'[k] = "revoked"
    BY DEF SweptRevoked
<1> USE DEF TypeOK
<1>1. CASE k \in swept
    BY <1>1, RowsForward DEF SweptRevoked
<1>2. CASE k \notin swept
  <2>1. PICK r \in Request : LogoutCommit(r) /\ k \in scan[r]
    BY <1>2
    DEF Next, Arrive, Proceed, LoginIssue, LoginCommit, RefreshRead, RefreshWrite,
        RefreshCommit, AuthDecode, AuthCheck, Serve, LogoutBegin, LogoutScan,
        LogoutUpdate, LogoutDenylist, LogoutCommit, Fail, Tick, vars, history
  <2>2. row[k] = "revoked" \/ k \in wrote[r]
    BY <2>1 DEF LogoutCommit, Scans, ScanCovered
  <2> QED
    BY <2>1, <2>2 DEF LogoutCommit
<1> QED
    BY <1>1, <1>2

LEMMA NextDenials ==
    ASSUME TypeOK, Requests, Denials, [Next]_vars
    PROVE  Denials'
<1> SUFFICES ASSUME NEW k \in Denying'
             PROVE  Exists(k)' /\ DenyCovered(k)'
    BY DEF Denials
<1> USE DEF TypeOK
<1>1. ASSUME Exists(k)
      PROVE  Exists(k)' /\ AccessExp(k)' = AccessExp(k) /\ AccessExp(k) \in Int
    BY <1>1, RowsForward, TtlBound DEF Exists, AccessExp, Second
<1>2. Ticks \in Nat \ {0}
    BY SessionsAssumption
\* A SETEX on k.
<1>3. ASSUME NEW r \in Request, LogoutDenylist(r), k = tok[r]
      PROVE  Exists(k)' /\ DenyCovered(k)'
  <2>1. Exists(k)
    BY <1>3 DEF LogoutDenylist, Advance, Requests, RequestOK
  <2>2. /\ Ttl(k) \in Int
        /\ (AccessExp(k) - 1) * Ticks < now + Ttl(k) * Ticks
    BY <2>1, TtlBound DEF Exists
  <2>3. CASE Decodes(AccessExp(k)) /\ Ttl(k) > 0
    BY <1>1, <1>3, <2>1, <2>2, <2>3 DEF LogoutDenylist, DenyCovered, Exists
  <2>4. CASE Ttl(k) <= 0
    <3>1. Ttl(k) * Ticks <= 0
        BY <1>2, <2>2, <2>4
    <3>2. now' = now
        BY <1>3 DEF LogoutDenylist
    <3> QED
        BY <1>1, <1>2, <2>1, <2>2, <3>1, <3>2 DEF DenyCovered
  <2>5. CASE ~Decodes(AccessExp(k))
    <3>1. now \in Int /\ Second(now) \in Int /\ Second(now) * Ticks <= now
        BY <1>2, DivBound DEF Second
    <3>2. AccessExp(k) + 1 <= Second(now)
        BY <1>1, <2>1, <2>5, <3>1 DEF Decodes
    <3>3. (AccessExp(k) + 1) * Ticks <= Second(now) * Ticks
        BY <1>1, <1>2, <2>1, <3>1, <3>2
    <3>4. (AccessExp(k) - 1) * Ticks < (AccessExp(k) + 1) * Ticks
        BY <1>1, <1>2, <2>1
    <3>5. now' = now
        BY <1>3 DEF LogoutDenylist
    <3> QED
        BY <1>1, <1>2, <2>1, <3>1, <3>3, <3>4, <3>5 DEF DenyCovered
  <2> QED
    BY <2>2, <2>3, <2>4, <2>5
\* Any other step.
<1>4. ASSUME \A r \in Request : ~(LogoutDenylist(r) /\ k = tok[r])
      PROVE  Exists(k)' /\ DenyCovered(k)'
  <2>1. k \in Denying
    BY <1>4
    DEF Denying, Next, Arrive, Proceed, LoginIssue, LoginCommit, RefreshRead,
        RefreshWrite, RefreshCommit, AuthDecode, AuthCheck, Serve, LogoutBegin,
        LogoutScan, LogoutUpdate, LogoutDenylist, LogoutCommit, Fail, Tick, Begin,
        Advance, End, vars, request, history
  <2>2. Exists(k) /\ DenyCovered(k)
    BY <2>1 DEF Denials
  <2>3. now' >= now
    BY DEF Next, Arrive, Proceed, LoginIssue, LoginCommit, RefreshRead, RefreshWrite,
        RefreshCommit, AuthDecode, AuthCheck, Serve, LogoutBegin, LogoutScan,
        LogoutUpdate, LogoutDenylist, LogoutCommit, Fail, Tick, vars
  <2>4. denied'[k] = denied[k]
    BY <1>4, <2>2
    DEF Next, Arrive, Proceed, LoginIssue, LoginCommit, RefreshRead, RefreshWrite,
        RefreshCommit, AuthDecode, AuthCheck, Serve, LogoutBegin, LogoutScan,
        LogoutUpdate, LogoutDenylist, LogoutCommit, Fail, Tick, vars, Exists
  <2>5. now' \in Nat
    BY NextTypeOK
  <2> QED
    BY <1>1, <1>2, <2>2, <2>3, <2>4, <2>5 DEF DenyCovered, Exists
<1> QED
    BY <1>3, <1>4

-----------------------------------------------------------------------------
(* The theorems.                                                            *)

LEMMA InitIInv == Init => IInv
<1> SUFFICES ASSUME Init PROVE IInv
    OBVIOUS
<1>1. TypeOK
    BY InitTypeOK
<1>2. Requests /\ Scans
    BY DEF Init, Requests, Scans, RequestOK, ScanCovered
<1>3. RotationAtomic /\ SweptRevoked
    BY DEF Init, RotationAtomic, SweptRevoked
<1>4. Denials
    BY DEF Init, Denials, Denying
<1> QED
    BY <1>1, <1>2, <1>3, <1>4 DEF IInv

\* IInv is an inductive invariant.
THEOREM InvariantHolds == Spec => []IInv
<1>1. IInv /\ [Next]_vars => IInv'
  <2> SUFFICES ASSUME IInv, [Next]_vars PROVE IInv'
    OBVIOUS
  <2> QED
    BY NextTypeOK, NextRequests, NextRotationAtomic, NextScans, NextSweptRevoked,
       NextDenials DEF IInv
<1> QED
    BY InitIInv, <1>1, PTL DEF Spec

\* The variables keep their types, and every stored token has a user.
THEOREM TypeCorrect == Spec => []TypeOK
<1>1. IInv => TypeOK
    BY DEF IInv
<1> QED
    BY InvariantHolds, <1>1, PTL

\* A token that came from a rotation never coexists with a usable parent.
THEOREM RotationIsAtomic == Spec => []RotationAtomic
<1>1. IInv => RotationAtomic
    BY DEF IInv
<1> QED
    BY InvariantHolds, <1>1, PTL

\* What a committed logout selected stays revoked.
THEOREM LogoutSweeps == Spec => []SweptRevoked
<1>1. IInv => SweptRevoked
    BY DEF IInv
<1> QED
    BY InvariantHolds, <1>1, PTL

\* The access token of an answered logout is refused until its last second.
THEOREM LogoutDenies == Spec => []DeniedUntilLastSecond
<1>1. IInv => DeniedUntilLastSecond
  <2> SUFFICES ASSUME IInv, NEW k \in loggedOut,
                      now <= (AccessExp(k) - 1) * Ticks
               PROVE  now < denied[k]
    BY DEF DeniedUntilLastSecond, Denylisted
  <2>1. k \in Token /\ DenyCovered(k)
    BY DEF IInv, Denials, Denying, Exists
  <2>2. (AccessExp(k) - 1) * Ticks \in Int /\ now \in Int /\ denied[k] \in Int
    BY <2>1, TtlBound, SessionsAssumption DEF IInv, TypeOK
  <2> QED
    BY <2>1, <2>2 DEF DenyCovered
<1> QED
    BY InvariantHolds, <1>1, PTL

\* No step makes a revoked refresh token usable again.
THEOREM RevocationIsFinal == Spec => RevokedForever
<1>1. IInv /\ [Next]_vars
        => [\A k \in Token : row[k] = "revoked" => row'[k] = "revoked"]_row
    BY StepKeepsRevoked DEF IInv
<1> QED
    BY InvariantHolds, <1>1, PTL DEF Spec, RevokedForever

\* A refresh that begins after a logout never redeems what it covered.
THEOREM LogoutStopsRefresh == Spec => LogoutStopsLaterRefresh
<1>1. IInv /\ [Next]_vars
        => [\A r \in Request :
                pc[r] = "idle" /\ pc'[r] = "refresh_write" => tok'[r] \notin swept]_vars
  <2> SUFFICES ASSUME IInv, Next, NEW r \in Request,
                      pc[r] = "idle", pc'[r] = "refresh_write"
               PROVE  tok'[r] \notin swept
    OBVIOUS
  <2>1. PICK k \in Token : RefreshRead(r, k)
    BY DEF IInv, TypeOK, Next, Arrive, Proceed, LoginIssue, LoginCommit,
        RefreshRead, RefreshWrite, RefreshCommit, AuthDecode, AuthCheck, Serve,
        LogoutBegin, LogoutScan, LogoutUpdate, LogoutDenylist, LogoutCommit,
        Fail, Tick, Begin, Advance, End, request
  <2>2. tok'[r] = k /\ row[k] = "live"
    BY <2>1 DEF RefreshRead, Begin, Refreshable, IInv, TypeOK
  <2> QED
    BY <2>2 DEF IInv, SweptRevoked
<1> QED
    BY InvariantHolds, <1>1, PTL DEF Spec, LogoutStopsLaterRefresh
=============================================================================
