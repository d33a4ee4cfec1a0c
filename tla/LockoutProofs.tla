---------------------------- MODULE LockoutProofs ----------------------------
(* Proofs about Lockout, for any number of concurrent logins. *)
EXTENDS Lockout, FiniteSetTheorems, WellFoundedInduction, TLAPS

USE LockoutAssumption

\* Logins that have counted and are about to insert a row without a lock.
Pending == {r \in Request : pc[r] = "counted" /\ draft[r].until = 0}

\* A login that counts sees at most Max - 2 failures or locks, so what does
\* not lock, committed or still pending, stays within the bound.
Bounded ==
    /\ IsFiniteSet(row)
    /\ Cardinality(Unlocking) + Cardinality(Pending) <= Max + Cardinality(Request) - 2

IInv == TypeOK /\ Bounded

-----------------------------------------------------------------------------
LEMMA InitTypeOK == Init => TypeOK
BY DEF Init, TypeOK, Draft, NoDraft

LEMMA NextTypeOK ==
    ASSUME TypeOK, [Next]_vars
    PROVE  TypeOK'
<1>1. ASSUME NEW r \in Request, EnsureAllowed(r)
      PROVE  TypeOK'
    BY <1>1 DEF EnsureAllowed, Move, TypeOK
<1>2. ASSUME NEW r \in Request, RecordFailedLogin(r)
      PROVE  TypeOK'
    <2>. DEFINE d == [at |-> now, until |-> IF Cardinality(Recent) + 1 >= Max
                                            THEN now + Duration ELSE 0]
    <2>1. d \in Draft
        BY DEF TypeOK, Draft
    <2>. QED
        BY <1>2, <2>1 DEF RecordFailedLogin, Move, TypeOK
<1>3. ASSUME NEW r \in Request, CommitFailure(r)
      PROVE  TypeOK'
    <2>1. PICK i \in Unused :
              row' = row \cup {[id |-> i, at |-> draft[r].at, until |-> draft[r].until]}
        BY <1>3 DEF CommitFailure
    <2>2. row' \subseteq Row
        BY <2>1 DEF TypeOK, Row, Draft, Unused
    <2>. QED
        BY <1>3, <2>2 DEF CommitFailure, End, TypeOK, Draft, NoDraft
<1>4. ASSUME NEW r \in Request, RecordSuccessfulLogin(r)
      PROVE  TypeOK'
    BY <1>4 DEF RecordSuccessfulLogin, Move, TypeOK
<1>5. ASSUME NEW r \in Request, CommitSuccess(r) \/ Abort(r)
      PROVE  TypeOK'
    <2>1. NoDraft \in Draft
        BY DEF NoDraft, Draft
    <2>2. /\ pc' = [pc EXCEPT ![r] = "idle"]
          /\ draft' = [draft EXCEPT ![r] = NoDraft]
          /\ doomed' = [doomed EXCEPT ![r] = {}]
          /\ row' \subseteq row /\ now' = now
        BY <1>5 DEF CommitSuccess, Abort, End
    <2>. QED
        BY <2>1, <2>2 DEF TypeOK
<1>6. CASE Tick \/ UNCHANGED vars
    BY <1>6 DEF Tick, vars, TypeOK
<1>. QED
    BY <1>1, <1>2, <1>3, <1>4, <1>5, <1>6 DEF Next

\* Fewer rows, fewer drafts or a later clock keep the bound.
LEMMA Shrinks ==
    ASSUME TypeOK, Bounded, row' \subseteq row, Pending' \subseteq Pending, now' >= now, now' \in Nat
    PROVE  Bounded'
<1>1. IsFiniteSet(row') /\ IsFiniteSet(Unlocking) /\ IsFiniteSet(Pending)
    BY FS_Subset DEF Bounded, Unlocking, Recent, Pending
<1>2. Unlocking' \subseteq Unlocking
    BY DEF Unlocking, Recent, TypeOK, Row
<1>3. /\ Cardinality(Unlocking') <= Cardinality(Unlocking)
      /\ Cardinality(Pending') <= Cardinality(Pending)
      /\ IsFiniteSet(Unlocking') /\ IsFiniteSet(Pending')
    BY <1>1, <1>2, FS_Subset
<1>4. /\ Cardinality(Unlocking') \in Nat /\ Cardinality(Unlocking) \in Nat
      /\ Cardinality(Pending') \in Nat /\ Cardinality(Pending) \in Nat
      /\ Cardinality(Request) \in Nat
    BY <1>1, <1>3, FS_CardinalityType
<1>. QED
    BY <1>1, <1>3, <1>4 DEF Bounded

LEMMA CountBounded ==
    ASSUME TypeOK, Bounded, NEW r \in Request, RecordFailedLogin(r)
    PROVE  Bounded'
<1>1. row' = row /\ now' = now /\ Unlocking' = Unlocking
    BY DEF RecordFailedLogin, Unlocking, Recent
<1>2. CASE Cardinality(Recent) + 1 >= Max
    <2>1. draft'[r].until # 0 /\ \A s \in Request \ {r} : pc'[s] = pc[s] /\ draft'[s] = draft[s]
        BY <1>2 DEF RecordFailedLogin, Move, TypeOK
    <2>2. Pending' \subseteq Pending
        BY <2>1 DEF Pending
    <2>. QED
        BY <1>1, <2>2, Shrinks DEF TypeOK
<1>3. CASE ~(Cardinality(Recent) + 1 >= Max)
    <2>1. IsFiniteSet(Recent) /\ Unlocking \subseteq Recent
        BY FS_Subset DEF Bounded, Recent, Unlocking
    <2>2. /\ Cardinality(Unlocking) <= Cardinality(Recent)
          /\ Cardinality(Unlocking) \in Nat /\ Cardinality(Recent) \in Nat
        BY <2>1, FS_Subset, FS_CardinalityType
    <2>3. /\ Cardinality(Pending') <= Cardinality(Request)
          /\ Cardinality(Pending') \in Nat /\ Cardinality(Request) \in Nat
        <3>1. Pending' \subseteq Request
            BY DEF Pending
        <3>. QED
            BY <3>1, FS_Subset, FS_CardinalityType
    <2>. QED
        BY <1>1, <1>3, <2>2, <2>3 DEF Bounded
<1>. QED BY <1>2, <1>3

LEMMA CommitBounded ==
    ASSUME TypeOK, Bounded, NEW r \in Request, CommitFailure(r)
    PROVE  Bounded'
<1>1. PICK i \in Unused :
          row' = row \cup {[id |-> i, at |-> draft[r].at, until |-> draft[r].until]}
    BY DEF CommitFailure
<1>. DEFINE x == [id |-> i, at |-> draft[r].at, until |-> draft[r].until]
<1>2. now' = now /\ Pending' = Pending \ {r} /\ IsFiniteSet(row')
    <2>1. IsFiniteSet(row')
        BY <1>1, FS_AddElement DEF Bounded
    <2>2. /\ now' = now
          /\ pc' = [pc EXCEPT ![r] = "idle"]
          /\ draft' = [draft EXCEPT ![r] = NoDraft]
        BY DEF CommitFailure, End
    <2>3. Pending' = Pending \ {r}
        BY <2>2 DEF Pending, TypeOK
    <2>. QED BY <2>1, <2>2, <2>3
<1>3. IsFiniteSet(Unlocking) /\ IsFiniteSet(Pending)
    BY FS_Subset DEF Bounded, Unlocking, Recent, Pending
<1>4. /\ Cardinality(Unlocking) \in Nat /\ Cardinality(Pending) \in Nat
      /\ Cardinality(Request) \in Nat
    BY <1>3, FS_CardinalityType
<1>5. CASE draft[r].until = 0
    <2>1. r \in Pending
        BY <1>5 DEF CommitFailure, Pending
    <2>2. Cardinality(Pending') = Cardinality(Pending) - 1
        BY <1>2, <1>3, <2>1, FS_RemoveElement
    <2>3. Unlocking' \subseteq Unlocking \cup {x}
        BY <1>1, <1>2 DEF Unlocking, Recent
    <2>4. /\ IsFiniteSet(Unlocking \cup {x})
          /\ Cardinality(Unlocking \cup {x}) <= Cardinality(Unlocking) + 1
        <3>. HIDE DEF x
        <3>1. /\ IsFiniteSet(Unlocking \cup {x})
              /\ Cardinality(Unlocking \cup {x}) =
                    IF x \in Unlocking THEN Cardinality(Unlocking)
                                       ELSE Cardinality(Unlocking) + 1
            BY <1>3, FS_AddElement, Zenon
        <3>. QED BY <1>4, <3>1
    <2>5. /\ Cardinality(Unlocking') <= Cardinality(Unlocking \cup {x})
          /\ Cardinality(Unlocking') \in Nat /\ Cardinality(Unlocking \cup {x}) \in Nat
        BY <2>3, <2>4, FS_Subset, FS_CardinalityType
    <2>. QED
        BY <1>2, <1>4, <2>2, <2>4, <2>5 DEF Bounded
<1>6. CASE draft[r].until # 0
    <2>1. Unlocking' = Unlocking
        BY <1>1, <1>2, <1>6 DEF Unlocking, Recent
    <2>2. Cardinality(Pending') <= Cardinality(Pending) /\ Cardinality(Pending') \in Nat
        BY <1>2, <1>3, FS_Subset, FS_CardinalityType
    <2>. QED
        BY <1>2, <1>4, <2>1, <2>2 DEF Bounded
<1>. QED BY <1>5, <1>6

LEMMA NextBounded ==
    ASSUME TypeOK, Bounded, [Next]_vars
    PROVE  Bounded'
<1>1. ASSUME NEW r \in Request, EnsureAllowed(r) \/ RecordSuccessfulLogin(r)
      PROVE  Bounded'
    <2>1. Pending' \subseteq Pending /\ row' = row /\ now' = now
        BY <1>1 DEF EnsureAllowed, RecordSuccessfulLogin, Move, Pending, TypeOK
    <2>. QED
        BY <2>1, Shrinks DEF TypeOK
<1>2. ASSUME NEW r \in Request, CommitSuccess(r) \/ Abort(r)
      PROVE  Bounded'
    <2>1. Pending' \subseteq Pending /\ row' \subseteq row /\ now' = now
        BY <1>2 DEF CommitSuccess, Abort, End, Pending, TypeOK
    <2>. QED
        BY <2>1, Shrinks DEF TypeOK
<1>3. CASE Tick \/ UNCHANGED vars
    <2>1. Pending' = Pending /\ row' = row /\ now' \in Nat /\ now' >= now
        BY <1>3 DEF Tick, vars, Pending, TypeOK
    <2>. QED
        BY <2>1, Shrinks
<1>. QED
    BY <1>1, <1>2, <1>3, CountBounded, CommitBounded DEF Next

LEMMA InitIInv == Init => IInv
<1>. SUFFICES ASSUME Init PROVE Bounded
    BY InitTypeOK DEF IInv
<1>1. Unlocking = {} /\ Pending = {} /\ row = {}
    BY DEF Init, Unlocking, Recent, Pending
<1>2. Cardinality(Request) \in Nat /\ Cardinality(Request) # 0
    BY FS_CardinalityType, FS_EmptySet
<1>. QED
    BY <1>1, <1>2, FS_EmptySet DEF Bounded

THEOREM InvariantHolds == Spec => []IInv
<1>1. IInv /\ [Next]_vars => IInv'
    BY NextTypeOK, NextBounded DEF IInv
<1>. QED
    BY InitIInv, <1>1, PTL DEF Spec

\* Rows, drafts and deletions stay well formed.
THEOREM TypeCorrect == Spec => []TypeOK
<1>1. IInv => TypeOK
    BY DEF IInv
<1>. QED
    BY <1>1, InvariantHolds, PTL

\* Whatever the threshold and the window, n logins at once let at most n - 1
\* failures more than the threshold allows pass without a lock.
THEOREM OvershootIsBounded == Spec => []OvershootBounded
<1>1. IInv => OvershootBounded
    <2>1. SUFFICES ASSUME IInv PROVE OvershootBounded
        OBVIOUS
    <2>2. IsFiniteSet(Unlocking) /\ IsFiniteSet(Pending)
        BY <2>1, FS_Subset DEF IInv, Bounded, Unlocking, Recent, Pending
    <2>3. /\ Cardinality(Unlocking) \in Nat /\ Cardinality(Pending) \in Nat
          /\ Cardinality(Request) \in Nat
        BY <2>2, FS_CardinalityType
    <2>. QED
        BY <2>1, <2>3 DEF IInv, Bounded, OvershootBounded
<1>. QED
    BY <1>1, InvariantHolds, PTL

-----------------------------------------------------------------------------
(* Locks.                                                                   *)

\* No lock reaches further than one that would be made now.
Ceiling ==
    /\ \A x \in row : x.until <= now + Duration
    /\ \A r \in Request : draft[r].until <= now + Duration

LInv == TypeOK /\ Ceiling

LEMMA NextCeiling ==
    ASSUME LInv, [Next]_vars
    PROVE  Ceiling'
<1>1. ASSUME NEW r \in Request, EnsureAllowed(r) \/ RecordSuccessfulLogin(r)
      PROVE  Ceiling'
    BY <1>1 DEF EnsureAllowed, RecordSuccessfulLogin, LInv, Ceiling
<1>2. ASSUME NEW r \in Request, RecordFailedLogin(r)
      PROVE  Ceiling'
    <2>1. draft' = [draft EXCEPT ![r] =
              [at |-> now, until |-> IF Cardinality(Recent) + 1 >= Max
                                     THEN now + Duration ELSE 0]]
        BY <1>2 DEF RecordFailedLogin
    <2>2. draft'[r].until <= now + Duration
        BY <2>1 DEF LInv, TypeOK
    <2>. QED
        BY <1>2, <2>1, <2>2 DEF RecordFailedLogin, LInv, TypeOK, Ceiling
<1>3. ASSUME NEW r \in Request, CommitFailure(r)
      PROVE  Ceiling'
    BY <1>3 DEF CommitFailure, End, NoDraft, LInv, TypeOK, Ceiling
<1>4. ASSUME NEW r \in Request, CommitSuccess(r) \/ Abort(r)
      PROVE  Ceiling'
    BY <1>4 DEF CommitSuccess, Abort, End, NoDraft, LInv, TypeOK, Ceiling
<1>5. CASE Tick \/ UNCHANGED vars
    BY <1>5 DEF Tick, vars, LInv, TypeOK, Row, Draft, Ceiling
<1>. QED
    BY <1>1, <1>2, <1>3, <1>4, <1>5 DEF Next

\* A set of naturals with an upper bound has a greatest member: the least
\* distance to the bound.
LEMMA Greatest ==
    ASSUME NEW S \in SUBSET Nat, S # {}, NEW b \in Nat, \A t \in S : t <= b
    PROVE  \E t \in S : \A s \in S : t >= s
<1>. DEFINE R == {ss \in Nat \X Nat : ss[1] < ss[2]}
            D == {b - t : t \in S}
<1>1. IsWellFoundedOn(R, Nat)
    BY NatLessThanWellFounded DEF OpToRel
<1>2. D \subseteq Nat
    <2>1. \A t \in S : b - t \in Nat
        OBVIOUS
    <2>. QED BY <2>1
<1>3. D # {}
    OBVIOUS
<1>4. PICK d \in D : \A e \in D : <<e, d>> \notin R
    <2>. HIDE DEF R, D
    <2>. QED BY <1>1, <1>2, <1>3, WFMin
<1>5. PICK t \in S : d = b - t
    OBVIOUS
<1>6. ASSUME NEW s \in S PROVE t >= s
    <2>1. b - s \in D /\ b - s \in Nat /\ d \in Nat
        BY <1>2
    <2>2. ~(b - s < d)
        BY <1>4, <2>1
    <2>. QED BY <1>5, <2>2
<1>. QED BY <1>6

\* The latest locked_until is no earlier than any.
LEMMA LatestCounts ==
    ASSUME LInv, NEW x \in row, x.until > now
    PROVE  Locked
<1>. DEFINE locks == {y.until : y \in {z \in row : z.until > 0}}
<1>1. x.until \in locks /\ locks \subseteq Nat /\ \A t \in locks : t <= now + Duration
    BY DEF LInv, TypeOK, Ceiling, Row
<1>2. now + Duration \in Nat
    BY DEF LInv, TypeOK
<1>. HIDE DEF locks
<1>3. \E t \in locks : \A s \in locks : t >= s
    BY <1>1, <1>2, Greatest
<1>4. LockedUntil = CHOOSE t \in locks : \A s \in locks : t >= s
    BY <1>1 DEF LockedUntil, locks
<1>5. LockedUntil \in locks /\ \A s \in locks : LockedUntil >= s
    BY <1>3, <1>4
<1>6. LockedUntil \in Nat /\ x.until \in Nat /\ LockedUntil >= x.until
    BY <1>1, <1>5
<1>. QED
    BY <1>6 DEF Locked, LInv, TypeOK

\* Once no login is under way, no login, right or wrong, gets past a lock
\* before it expires, so none deletes it, whichever of several locks it is.
THEOREM LocksHold == Spec => LockHolds
<1>1. Init => LInv
    BY InitTypeOK DEF Init, LInv, Ceiling, NoDraft
<1>2. LInv /\ [Next]_vars => LInv'
    BY NextTypeOK, NextCeiling DEF LInv
<1>3. LInv /\ [Next]_vars =>
          [\A x \in row : Quiet /\ x.until > now' => x \in row' /\ Quiet']_vars
    <2>. SUFFICES ASSUME LInv, [Next]_vars, NEW x \in row, Quiet, x.until > now'
                  PROVE  x \in row' /\ Quiet'
        OBVIOUS
    <2>1. CASE Tick \/ UNCHANGED vars
        BY <2>1 DEF Tick, vars, Quiet
    <2>2. ASSUME NEW r \in Request, EnsureAllowed(r)
          PROVE  FALSE
        BY <2>2, LatestCounts DEF EnsureAllowed
    <2>. QED
        BY <2>1, <2>2 DEF Next, Quiet, RecordFailedLogin, CommitFailure,
                          RecordSuccessfulLogin, CommitSuccess, Abort, Move
<1>. QED
    BY <1>1, <1>2, <1>3, PTL DEF Spec, LockHolds
=============================================================================
