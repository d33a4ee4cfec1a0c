---------------------------- MODULE PagingProofs ----------------------------
(***************************************************************************)
(* Proofs about Paging for any finite set of rows: what ListCursor returns *)
(* is the page that Exact describes, and a page back is the page before.   *)
(***************************************************************************)
EXTENDS Paging, FiniteSetTheorems, SequenceTheorems, TLAPS

\* Rows of a table: an id names one of them.
Rows(S) ==
  /\ IsFiniteSet(S)
  /\ \A r \in S : r.at \in Int /\ r.id \in Int
  /\ \A r, s \in S : r.id = s.id => r = s

\* A cursor that a route gave out.
IsCursor(c) == c = NoCursor \/ (c.at \in Int /\ c.id \in Int /\ c.dir \in {"next", "prev"})

-----------------------------------------------------------------------------
(* The order of rows.                                                       *)

LEMMA NewerTransitive ==
  ASSUME NEW r, NEW s, NEW t, r.at \in Int, r.id \in Int, s.at \in Int, s.id \in Int,
         t.at \in Int, t.id \in Int, Newer(r, s), Newer(s, t)
  PROVE  Newer(r, t)
BY DEF Newer

LEMMA NewerOrder ==
  ASSUME NEW S, Rows(S), NEW r \in S, NEW s \in S
  PROVE  /\ ~Newer(r, r)
         /\ ~(Newer(r, s) /\ Newer(s, r))
         /\ r # s => Newer(r, s) \/ Newer(s, r)
BY DEF Newer, Rows

LEMMA RowsSubset ==
  ASSUME NEW S, Rows(S), NEW T, T \subseteq S
  PROVE  Rows(T)
<1>1. IsFiniteSet(T)
  BY FS_Subset DEF Rows
<1>. QED BY <1>1 DEF Rows

\* A newer row has fewer rows before it.
Before(S, r) == {q \in S : Newer(q, r)}

LEMMA RankOrder ==
  ASSUME NEW S, Rows(S), NEW r \in S
  PROVE  /\ Cardinality(Before(S, r)) \in 0..(Cardinality(S) - 1)
         /\ \A s \in S : Newer(r, s) => Cardinality(Before(S, r)) < Cardinality(Before(S, s))
<1>1. IsFiniteSet(S) /\ Cardinality(S) \in Nat
  BY FS_CardinalityType DEF Rows
<1>2. \A T \in SUBSET S : IsFiniteSet(T) /\ Cardinality(T) \in Nat
  BY <1>1, FS_Subset, FS_CardinalityType
<1>3. ASSUME NEW T \in SUBSET S, Before(S, r) \subseteq T, r \in T
      PROVE  Cardinality(Before(S, r)) < Cardinality(T)
  <2>1. Before(S, r) \in SUBSET T /\ Before(S, r) # T
    BY <1>3, NewerOrder DEF Before
  <2>2. Before(S, r) \in SUBSET S
    BY DEF Before
  <2>. HIDE DEF Before
  <2>3. /\ Cardinality(Before(S, r)) <= Cardinality(T)
        /\ Cardinality(Before(S, r)) # Cardinality(T)
    BY <1>2, <2>1, FS_Subset
  <2>. QED BY <1>2, <2>2, <2>3
<1>4. Cardinality(Before(S, r)) \in 0..(Cardinality(S) - 1)
  <2>1. Before(S, r) \in SUBSET S
    BY DEF Before
  <2>2. Cardinality(Before(S, r)) < Cardinality(S)
    BY <1>3, <2>1
  <2>. QED BY <1>1, <1>2, <2>1, <2>2
<1>5. ASSUME NEW s \in S, Newer(r, s)
      PROVE  Cardinality(Before(S, r)) < Cardinality(Before(S, s))
  <2>1. Before(S, s) \in SUBSET S /\ r \in Before(S, s)
    BY <1>5 DEF Before
  <2>2. Before(S, r) \subseteq Before(S, s)
    BY <1>5, NewerTransitive DEF Before, Rows
  <2>. QED BY <1>3, <2>1, <2>2
<1>. QED BY <1>4, <1>5

\* Every place of the order is taken, by one row.
LEMMA RankOnto ==
  ASSUME NEW S, Rows(S), NEW i \in 1..Cardinality(S)
  PROVE  \E r \in S : Cardinality(Before(S, r)) = i - 1
<1>. DEFINE n == Cardinality(S)
            f == [r \in S |-> Cardinality(Before(S, r)) + 1]
<1>1. IsFiniteSet(S) /\ n \in Nat
  BY FS_CardinalityType DEF Rows
<1>2. IsFiniteSet(1..n) /\ Cardinality(1..n) = n
  BY <1>1, FS_Interval
<1>3. \A r \in S : Cardinality(Before(S, r)) \in 0..(n - 1)
  BY RankOrder
<1>4. f \in [S -> 1..n]
  BY <1>1, <1>3
<1>5. \A r, s \in S : f[r] = f[s] => r = s
  BY <1>3, RankOrder, NewerOrder
<1>6. f \in Injection(S, 1..n)
  BY <1>4, <1>5 DEF Injection, IsInjective
<1>. HIDE DEF f
<1>7. f \in Surjection(S, 1..n)
  BY <1>2, <1>6, FS_Injection
<1>8. PICK r \in S : f[r] = i
  BY <1>7 DEF Surjection
<1>. QED BY <1>3, <1>8 DEF f

\* NewestFirst lists each row once, in order.
LEMMA Sorted ==
  ASSUME NEW S, Rows(S)
  PROVE  /\ Cardinality(S) \in Nat
         /\ NewestFirst(S) \in [1..Cardinality(S) -> S]
         /\ \A r \in S : \E i \in 1..Cardinality(S) : NewestFirst(S)[i] = r
         /\ \A i, j \in 1..Cardinality(S) :
               i < j => Newer(NewestFirst(S)[i], NewestFirst(S)[j])
<1>. DEFINE n == Cardinality(S)
            s == NewestFirst(S)
<1>1. n \in Nat
  BY FS_CardinalityType DEF Rows
<1>2. \A i \in 1..n : s[i] \in S /\ Cardinality(Before(S, s[i])) = i - 1
  <2>1. SUFFICES ASSUME NEW i \in 1..n
                 PROVE  s[i] \in S /\ Cardinality(Before(S, s[i])) = i - 1
    OBVIOUS
  <2>2. s[i] = CHOOSE r \in S : Cardinality(Before(S, r)) = i - 1
    BY DEF NewestFirst, Before
  <2>3. \E r \in S : Cardinality(Before(S, r)) = i - 1
    BY RankOnto
  <2>. QED BY <2>2, <2>3
<1>3. s \in [1..n -> S]
  <2>. DEFINE place(i) == CHOOSE r \in S : Cardinality({q \in S : Newer(q, r)}) = i - 1
  <2>1. \A i \in 1..n : s[i] = place(i)
    BY DEF NewestFirst
  <2>2. s = [i \in 1..n |-> place(i)]
    BY DEF NewestFirst
  <2>. HIDE DEF s, place
  <2>. QED BY <1>2, <2>1, <2>2
<1>4. ASSUME NEW r \in S
      PROVE  \E i \in 1..n : s[i] = r
  <2>1. Cardinality(Before(S, r)) \in 0..(n - 1)
    BY RankOrder
  <2>. DEFINE i == Cardinality(Before(S, r)) + 1
  <2>2. i \in 1..n
    BY <1>1, <2>1
  <2>3. s[i] \in S /\ Cardinality(Before(S, s[i])) = Cardinality(Before(S, r))
    BY <1>2, <2>1, <2>2
  <2>. HIDE DEF s, i
  <2>4. ~Newer(r, s[i]) /\ ~Newer(s[i], r)
    BY <2>1, <2>3, RankOrder
  <2>5. s[i] = r
    BY <2>3, <2>4, NewerOrder
  <2>. QED BY <2>2, <2>5
<1>5. ASSUME NEW i \in 1..n, NEW j \in 1..n, i < j
      PROVE  Newer(s[i], s[j])
  <2>1. s[i] \in S /\ s[j] \in S
    BY <1>2
  <2>2. Cardinality(Before(S, s[i])) < Cardinality(Before(S, s[j]))
    BY <1>2, <1>5
  <2>. HIDE DEF s
  <2>3. s[i] # s[j] /\ ~Newer(s[j], s[i])
    BY <1>2, <2>1, <2>2, RankOrder
  <2>. QED BY <2>1, <2>3, NewerOrder
<1>. QED BY <1>1, <1>3, <1>4, <1>5

-----------------------------------------------------------------------------
(* The query.                                                               *)

LEMMA UpToPrefix ==
  ASSUME NEW T, NEW s \in Seq(T), NEW n \in Nat
  PROVE  /\ UpTo(s, n) \in Seq(T)
         /\ Len(UpTo(s, n)) = IF Len(s) < n THEN Len(s) ELSE n
         /\ \A i \in 1..Len(UpTo(s, n)) : UpTo(s, n)[i] = s[i]
<1>. DEFINE m == IF Len(s) < n THEN Len(s) ELSE n
<1>1. m \in 0..Len(s) /\ Len(s) \in Nat
  BY LenProperties
<1>2. \A i \in 1..m : s[i] \in T
  BY <1>1, ElementOfSeq
<1>3. /\ SubSeq(s, 1, m) \in Seq(T)
      /\ Len(SubSeq(s, 1, m)) = IF 1 <= m THEN m - 1 + 1 ELSE 0
      /\ \A i \in 1..(m - 1 + 1) : SubSeq(s, 1, m)[i] = s[1 + i - 1]
  <2>. HIDE DEF m
  <2>. QED BY <1>1, <1>2, SubSeqProperties
<1>4. UpTo(s, n) = SubSeq(s, 1, m)
  BY DEF UpTo
<1>. HIDE DEF m
<1>5. Len(SubSeq(s, 1, m)) = m
  BY <1>1, <1>3
<1>6. \A i \in 1..m : SubSeq(s, 1, m)[i] = s[i]
  BY <1>1, <1>3
<1>. QED BY <1>3, <1>4, <1>5, <1>6 DEF m

LEMMA ReverseOf ==
  ASSUME NEW T, NEW s \in Seq(T)
  PROVE  /\ Reverse(s) \in Seq(T)
         /\ Len(Reverse(s)) = Len(s)
         /\ \A i \in 1..Len(s) : Reverse(s)[i] = s[Len(s) - i + 1]
<1>1. Len(s) \in Nat
  BY LenProperties
<1>2. \A i \in 1..Len(s) : s[Len(s) - i + 1] \in T
  BY <1>1, ElementOfSeq
<1>3. Reverse(s) \in [1..Len(s) -> T]
  BY <1>1, <1>2 DEF Reverse
<1>4. \A i \in 1..Len(s) : Reverse(s)[i] = s[Len(s) - i + 1]
  BY <1>1 DEF Reverse
<1>. QED BY <1>1, <1>3, <1>4, SeqDef

\* The rows of a page are neighbours in the order of all candidates, at its
\* beginning or, going back, at its end.
LEMMA ListCursorItems ==
  ASSUME NEW S, Rows(S), NEW c, IsCursor(c), NEW limit \in Nat
  PROVE  LET T == Candidates(S, c)
             n == Cardinality(T)
             m == IF n < limit THEN n ELSE limit
             first == IF c # NoCursor /\ c.dir = "prev" THEN n - m ELSE 0
             found == ListCursor(S, c, limit)
         IN  /\ found.items \in Seq(T) /\ Len(found.items) = m
             /\ \A i \in 1..m : found.items[i] = NewestFirst(T)[first + i]
             /\ found.more = (n > limit)
<1>. DEFINE T == Candidates(S, c)
            n == Cardinality(T)
            m == IF n < limit THEN n ELSE limit
            back == c # NoCursor /\ c.dir = "prev"
            first == IF back THEN n - m ELSE 0
            s == NewestFirst(T)
            q == IF back THEN Reverse(s) ELSE s
            fetched == UpTo(q, limit + 1)
            models == UpTo(fetched, limit)
            found == ListCursor(S, c, limit)
<1>1. T \subseteq S
  BY DEF Candidates
<1>2. Rows(T)
  BY <1>1, RowsSubset
<1>3. /\ n \in Nat /\ s \in Seq(T) /\ Len(s) = n
  <2>1. n \in Nat /\ s \in [1..n -> T]
    BY <1>2, Sorted
  <2>. HIDE DEF s, n, T
  <2>. QED BY <2>1, SeqDef
<1>4. ApplyCursor(S, c) = q
  <2>. c # NoCursor => c.dir = "next" \/ c.dir = "prev"
    BY DEF IsCursor
  <2>. QED BY DEF ApplyCursor, Candidates, OldestFirst, IsCursor, NoCursor
<1>5. found = [items |-> IF back THEN Reverse(models) ELSE models, more |-> Len(fetched) > limit]
  BY <1>4 DEF ListCursor
<1>. HIDE DEF T, n, s, found
<1>6. /\ q \in Seq(T) /\ Len(q) = n
      /\ \A i \in 1..n : q[i] = IF back THEN s[n - i + 1] ELSE s[i]
  BY <1>3, ReverseOf
<1>. HIDE DEF q
<1>7. /\ fetched \in Seq(T)
      /\ Len(fetched) = IF n < limit + 1 THEN n ELSE limit + 1
      /\ \A i \in 1..Len(fetched) : fetched[i] = q[i]
  BY <1>3, <1>6, UpToPrefix
<1>. HIDE DEF fetched
<1>8. /\ models \in Seq(T) /\ Len(models) = m
      /\ \A i \in 1..m : models[i] = q[i]
  <2>1. /\ models \in Seq(T)
        /\ Len(models) = IF Len(fetched) < limit THEN Len(fetched) ELSE limit
        /\ \A i \in 1..Len(models) : models[i] = fetched[i]
    BY <1>7, UpToPrefix
  <2>2. Len(models) = m
    BY <1>3, <1>7, <2>1
  <2>. HIDE DEF models
  <2>. QED BY <1>3, <1>7, <2>1, <2>2
<1>. HIDE DEF models
<1>9. m \in 0..n
  BY <1>3
<1>10. CASE back
  <2>. HIDE DEF m
  <2>1. /\ Reverse(models) \in Seq(T) /\ Len(Reverse(models)) = m
        /\ \A i \in 1..m : Reverse(models)[i] = models[m - i + 1]
    BY <1>8, ReverseOf
  <2>2. ASSUME NEW i \in 1..m
        PROVE  Reverse(models)[i] = s[n - m + i]
    <3>1. m - i + 1 \in 1..m /\ m - i + 1 \in 1..n /\ n - (m - i + 1) + 1 = n - m + i
      BY <1>3, <1>9
    <3>2. Reverse(models)[i] = q[m - i + 1]
      BY <1>8, <2>1, <3>1
    <3>. HIDE DEF back
    <3>. QED BY <1>6, <1>10, <3>1, <3>2
  <2>. QED BY <1>3, <1>5, <1>7, <1>10, <2>1, <2>2 DEF T, n, s, found, m
<1>11. CASE ~back
  BY <1>3, <1>5, <1>6, <1>7, <1>8, <1>9, <1>11 DEF T, n, s, found
<1>. QED BY <1>10, <1>11

Forward(c) == c = NoCursor \/ c.dir = "next"

\* A page of the candidates T and whether there are more of them.
IsPage(T, forward, limit, items, more) ==
  /\ items \in Seq(T)
  /\ \A i, j \in 1..Len(items) : i < j => Newer(items[i], items[j])
  /\ Len(items) <= limit
  /\ more <=> \E r \in T : r \notin ToSet(items)
  /\ more => Len(items) = limit
  /\ \A i \in 1..Len(items), r \in T \ ToSet(items) :
        IF forward THEN Newer(items[i], r) ELSE Newer(r, items[i])

LEMMA ListCursorPage ==
  ASSUME NEW S, Rows(S), NEW c, IsCursor(c), NEW limit \in Nat
  PROVE  /\ IsPage(Candidates(S, c), Forward(c), limit,
                   ListCursor(S, c, limit).items, ListCursor(S, c, limit).more)
         /\ ListCursor(S, c, limit).more \in BOOLEAN
<1>. DEFINE T == Candidates(S, c)
            n == Cardinality(T)
            m == IF n < limit THEN n ELSE limit
            first == IF c # NoCursor /\ c.dir = "prev" THEN n - m ELSE 0
            s == NewestFirst(T)
            items == ListCursor(S, c, limit).items
            more == ListCursor(S, c, limit).more
<1>1. /\ items \in Seq(T) /\ Len(items) = m
      /\ \A i \in 1..m : items[i] = s[first + i]
      /\ more = (n > limit)
  BY ListCursorItems
<1>2. /\ Rows(T)
      /\ n \in Nat /\ s \in [1..n -> T]
      /\ \A r \in T : \E i \in 1..n : s[i] = r
      /\ \A i, j \in 1..n : i < j => Newer(s[i], s[j])
  <2>1. Rows(T)
    BY RowsSubset DEF Candidates
  <2>. HIDE DEF T
  <2>. QED BY <2>1, Sorted
<1>3. first = IF Forward(c) THEN 0 ELSE n - m
  BY DEF Forward, IsCursor, NoCursor
<1>. HIDE DEF T, n, s, items, more, first
<1>4. m \in 0..n /\ first \in 0..(n - m) /\ (n > limit => m = limit) /\ (n <= limit => m = n)
  BY <1>2, <1>3
<1>5. \A k, l \in 1..n : s[k] = s[l] => k = l
  <2>1. SUFFICES ASSUME NEW k \in 1..n, NEW l \in 1..n, s[k] = s[l], k < l
                 PROVE  FALSE
    OBVIOUS
  <2>2. s[k] \in T /\ Newer(s[k], s[k])
    BY <1>2, <2>1
  <2>. QED BY <1>2, <2>2, NewerOrder
<1>. HIDE DEF m
<1>6. DOMAIN items = 1..m
  BY <1>1, LenProperties
<1>7. ASSUME NEW k \in 1..n
      PROVE  s[k] \in ToSet(items) <=> k \in (first + 1)..(first + m)
  <2>1. s[k] \in ToSet(items) <=> \E i \in 1..m : items[i] = s[k]
    BY <1>6 DEF ToSet
  <2>2. \A i \in 1..m : first + i \in 1..n
    BY <1>2, <1>4
  <2>3. s[k] \in ToSet(items) <=> \E i \in 1..m : first + i = k
    BY <1>1, <1>5, <2>1, <2>2
  <2>4. k \in (first + 1)..(first + m) => k - first \in 1..m /\ first + (k - first) = k
    BY <1>2, <1>4
  <2>. QED BY <1>2, <1>4, <2>3, <2>4
<1>8. ASSUME NEW i \in 1..m, NEW j \in 1..m, i < j
      PROVE  Newer(items[i], items[j])
  <2>1. first + i \in 1..n /\ first + j \in 1..n /\ first + i < first + j
    BY <1>2, <1>4, <1>8
  <2>. QED BY <1>1, <1>2, <2>1
<1>9. more <=> \E r \in T : r \notin ToSet(items)
  <2>1. ASSUME more
        PROVE  \E r \in T : r \notin ToSet(items)
    <3>1. n > limit /\ m = limit /\ m < n
      BY <1>1, <1>2, <1>4, <2>1
    <3>. DEFINE k == IF first = 0 THEN m + 1 ELSE 1
    <3>2. k \in 1..n /\ k \notin (first + 1)..(first + m)
      BY <1>2, <1>4, <3>1
    <3>. HIDE DEF k
    <3>3. s[k] \in T /\ s[k] \notin ToSet(items)
      BY <1>2, <1>7, <3>2
    <3>. QED BY <3>3
  <2>2. ASSUME ~more, NEW r \in T, r \notin ToSet(items)
        PROVE  FALSE
    <3>0. ~(n > limit)
      BY <1>1, <2>2, Zenon
    <3>1. m = n /\ first = 0
      BY <1>2, <1>4, <3>0
    <3>2. PICK k \in 1..n : s[k] = r
      BY <1>2
    <3>. QED BY <1>2, <1>7, <2>2, <3>1, <3>2
  <2>. QED BY <2>1, <2>2
<1>10. ASSUME NEW i \in 1..m, NEW r \in T \ ToSet(items)
       PROVE  IF Forward(c) THEN Newer(items[i], r) ELSE Newer(r, items[i])
  <2>1. PICK k \in 1..n : s[k] = r
    BY <1>2
  <2>2. k \notin (first + 1)..(first + m)
    BY <1>7, <1>10, <2>1
  <2>3. first + i \in 1..n /\ items[i] = s[first + i]
    BY <1>1, <1>2, <1>4
  <2>4. IF Forward(c) THEN first + i < k ELSE k < first + i
    BY <1>2, <1>3, <1>4, <2>2
  <2>. QED BY <1>2, <2>1, <2>3, <2>4
<1>11. more => Len(items) = limit
  BY <1>1, <1>4
<1>12. Len(items) <= limit
  BY <1>1, <1>2, <1>4 DEF m
<1>. QED BY <1>1, <1>8, <1>9, <1>10, <1>11, <1>12 DEF IsPage, T, items, more

-----------------------------------------------------------------------------
(* Sequences in order are determined by their elements.                     *)

InOrder(s) == \A i, j \in 1..Len(s) : i < j => Newer(s[i], s[j])

LEMMA InOrderPlaces ==
  ASSUME NEW T, Rows(T), NEW s \in Seq(T), InOrder(s)
  PROVE  /\ IsFiniteSet(ToSet(s)) /\ Cardinality(ToSet(s)) = Len(s)
         /\ \A i \in 1..Len(s) : Cardinality(Before(ToSet(s), s[i])) = i - 1
<1>1. Len(s) \in Nat /\ s \in [1..Len(s) -> T] /\ DOMAIN s = 1..Len(s)
  BY LenProperties
<1>2. \A i, j \in 1..Len(s) : /\ s[i] = s[j] => i = j
                              /\ Newer(s[j], s[i]) => j < i
  BY <1>1, NewerOrder DEF InOrder
<1>3. ASSUME NEW k \in 0..Len(s), NEW A, A = {s[j] : j \in 1..k}
      PROVE  IsFiniteSet(A) /\ Cardinality(A) = k
  <2>. DEFINE f == [j \in 1..k |-> s[j]]
  <2>1. IsFiniteSet(1..k) /\ Cardinality(1..k) = k
    BY FS_Interval
  <2>2. 1..k \subseteq 1..Len(s)
    BY <1>1
  <2>3. f \in [1..k -> A] /\ (\A y \in A : \E x \in 1..k : f[x] = y)
    BY <1>3
  <2>4. \A x, y \in 1..k : f[x] = f[y] => x = y
    BY <1>2, <2>2
  <2>5. f \in Bijection(1..k, A)
    BY <2>3, <2>4 DEF Bijection, Injection, Surjection, IsInjective
  <2>. HIDE DEF f
  <2>6. ExistsBijection(1..k, A)
    BY <2>5 DEF ExistsBijection
  <2>. QED BY <2>1, <2>6, FS_Bijection
<1>4. IsFiniteSet(ToSet(s)) /\ Cardinality(ToSet(s)) = Len(s)
  <2>1. ToSet(s) = {s[j] : j \in 1..Len(s)}
    BY <1>1 DEF ToSet
  <2>. QED BY <1>1, <1>3, <2>1
<1>5. ASSUME NEW i \in 1..Len(s)
      PROVE  Cardinality(Before(ToSet(s), s[i])) = i - 1
  <2>1. i - 1 \in 0..Len(s) /\ \A j \in 1..Len(s) : j < i <=> j \in 1..(i - 1)
    BY <1>1
  <2>2. Before(ToSet(s), s[i]) \subseteq {s[j] : j \in 1..(i - 1)}
    BY <1>1, <1>2, <2>1 DEF Before, ToSet
  <2>3. {s[j] : j \in 1..(i - 1)} \subseteq Before(ToSet(s), s[i])
    BY <1>1, <2>1 DEF Before, ToSet, InOrder
  <2>4. Before(ToSet(s), s[i]) = {s[j] : j \in 1..(i - 1)}
    BY <2>2, <2>3
  <2>. QED BY <1>3, <2>1, <2>4
<1>. QED BY <1>4, <1>5

LEMMA InOrderUnique ==
  ASSUME NEW T, Rows(T), NEW s \in Seq(T), NEW t \in Seq(T), InOrder(s), InOrder(t),
         ToSet(s) = ToSet(t)
  PROVE  s = t
<1>1. Len(s) = Len(t) /\ Len(s) \in Nat /\ DOMAIN s = 1..Len(s) /\ DOMAIN t = 1..Len(t)
  BY InOrderPlaces, LenProperties
<1>2. ASSUME NEW i \in 1..Len(s)
      PROVE  s[i] = t[i]
  <2>1. PICK j \in 1..Len(t) : s[i] = t[j]
    BY <1>1 DEF ToSet
  <2>2. i - 1 = Cardinality(Before(ToSet(s), s[i])) /\ j - 1 = Cardinality(Before(ToSet(t), t[j]))
    BY InOrderPlaces
  <2>. QED BY <1>1, <2>1, <2>2
<1>. QED BY <1>1, <1>2, SeqEqual

-----------------------------------------------------------------------------
(* The answer of the routes.                                                *)

\* The answer p to a request for `limit' rows of S after the cursor c.
IsAnswer(S, c, limit, dated, p) ==
  /\ p.cursor = c /\ p.limit = limit /\ p.status \in {200, 500}
  /\ p.status = 200 => IsPage(Candidates(S, c), Forward(c), limit, p.items, p.next # NoCursor)
  /\ p.status = 500 => p.items = <<>> /\ p.next = NoCursor /\ p.prev = NoCursor
  /\ p.next # NoCursor =>
        /\ dated /\ p.items # <<>> /\ p.next = Cursor(p.items[Len(p.items)], "next")
  /\ p.prev # NoCursor => p.items # <<>> /\ p.prev = Cursor(p.items[1], "prev")
  /\ dated \/ p.next # NoCursor \/ p.prev # NoCursor => p.status = 200

LEMMA AnswerIs ==
  ASSUME NEW S, Rows(S), NEW c, IsCursor(c), NEW limit \in Nat \ {0}, NEW dated \in BOOLEAN
  PROVE  IsAnswer(S, c, limit, dated, Answer(S, c, limit, dated))
<1>. DEFINE T == Candidates(S, c)
            items == ListCursor(S, c, limit).items
            more == ListCursor(S, c, limit).more
            p == Answer(S, c, limit, dated)
            next == more /\ items # <<>>
            prev == c # NoCursor /\ items # <<>>
<1>1. IsPage(T, Forward(c), limit, items, more) /\ more \in BOOLEAN
  BY ListCursorPage
<1>2. more => items # <<>>
  BY <1>1 DEF IsPage
<1>3. \A r : Cursor(r, "next") # NoCursor /\ Cursor(r, "prev") # NoCursor
  BY DEF Cursor, NoCursor
<1>4. p = IF ~dated /\ (next \/ prev)
          THEN [items |-> <<>>, next |-> NoCursor, prev |-> NoCursor, has_next |-> FALSE,
                has_prev |-> FALSE, cursor |-> c, limit |-> limit, status |-> 500]
          ELSE [items |-> items,
                next |-> IF next THEN Cursor(Last(items), "next") ELSE NoCursor,
                prev |-> IF prev THEN Cursor(Head(items), "prev") ELSE NoCursor,
                has_next |-> more, has_prev |-> c # NoCursor,
                cursor |-> c, limit |-> limit, status |-> 200]
  BY DEF Answer
<1>. HIDE DEF T, items, more, p
<1>5. CASE ~dated /\ (next \/ prev)
  BY <1>4, <1>5 DEF IsAnswer, p
<1>6. CASE ~(~dated /\ (next \/ prev))
  <2>1. /\ p.cursor = c /\ p.limit = limit /\ p.status = 200 /\ p.items = items
        /\ p.next = IF next THEN Cursor(Last(items), "next") ELSE NoCursor
        /\ p.prev = IF prev THEN Cursor(Head(items), "prev") ELSE NoCursor
    BY <1>4, <1>6
  <2>2. p.next # NoCursor <=> more
    BY <1>2, <1>3, <2>1
  <2>3. IsPage(T, Forward(c), limit, p.items, p.next # NoCursor)
    BY <1>1, <2>1, <2>2 DEF IsPage
  <2>4. items # <<>> => Head(items) = items[1]
    BY <1>1 DEF IsPage
  <2>. QED
    BY <1>1, <1>2, <1>6, <2>1, <2>2, <2>3, <2>4 DEF IsAnswer, T, p, Last
<1>. QED BY <1>5, <1>6

\* Every answer that succeeds is exact.
LEMMA AnswerExact ==
  ASSUME NEW S, Rows(S), NEW c, IsCursor(c), NEW limit \in Nat \ {0}, NEW dated \in BOOLEAN,
         NEW p, IsAnswer(S, c, limit, dated, p), p.status = 200
  PROVE  Exact(S, p)
<1>. DEFINE T == Candidates(S, c)
            out == T \ ToSet(p.items)
<1>1. IsPage(T, Forward(c), limit, p.items, p.next # NoCursor) /\ p.cursor = c /\ p.limit = limit
  BY DEF IsAnswer
<1>. HIDE DEF T
<1>2. /\ Len(p.items) \in Nat /\ DOMAIN p.items = 1..Len(p.items)
      /\ p.items \in [1..Len(p.items) -> T]
  BY <1>1, LenProperties DEF IsPage
<1>3. ToSet(p.items) \subseteq T
  BY <1>2 DEF ToSet
<1>4. out # {} => Len(p.items) = limit
  BY <1>1 DEF IsPage
<1>5. \A r \in ToSet(p.items), s \in out : IF Forward(c) THEN Newer(r, s) ELSE Newer(s, r)
  BY <1>1, <1>2 DEF IsPage, ToSet
<1>6. /\ \A i, j \in DOMAIN p.items : i < j => Newer(p.items[i], p.items[j])
      /\ Len(p.items) <= limit
  BY <1>1, <1>2 DEF IsPage
<1>. QED BY <1>1, <1>3, <1>4, <1>5, <1>6 DEF Exact, T, Forward

\* A next cursor says that there is an older row.
LEMMA AnswerNext ==
  ASSUME NEW S, Rows(S), NEW c, IsCursor(c), NEW limit \in Nat \ {0}, NEW dated \in BOOLEAN,
         NEW p, IsAnswer(S, c, limit, dated, p), p.status = 200, p.items # <<>>, Forward(c)
  PROVE  /\ p.items[Len(p.items)] \in S
         /\ p.next # NoCursor <=> \E r \in S : Older(r, p.items[Len(p.items)])
         /\ \A r \in Candidates(S, c) : r \in ToSet(p.items) \/ Older(r, p.items[Len(p.items)])
         /\ \A r \in ToSet(p.items) : ~Older(r, p.items[Len(p.items)])
<1>. DEFINE T == Candidates(S, c)
            last == p.items[Len(p.items)]
<1>1. IsPage(T, TRUE, limit, p.items, p.next # NoCursor)
  BY DEF IsAnswer
<1>2. \A r : r \in T <=> r \in S /\ (c = NoCursor \/ Newer(c, r))
  BY DEF Candidates, Forward, Older
<1>. HIDE DEF T
<1>3. /\ Len(p.items) \in Nat \ {0} /\ DOMAIN p.items = 1..Len(p.items)
      /\ p.items \in [1..Len(p.items) -> T]
  BY <1>1, LenProperties, EmptySeq DEF IsPage
<1>4. last \in T /\ Len(p.items) \in 1..Len(p.items)
  BY <1>3
<1>5. \A r \in T : r \in ToSet(p.items) \/ Newer(last, r)
  BY <1>1, <1>4 DEF IsPage
<1>6. ASSUME NEW r \in ToSet(p.items)
      PROVE  ~Newer(last, r)
  <2>1. PICK i \in 1..Len(p.items) : r = p.items[i]
    BY <1>3 DEF ToSet
  <2>2. i = Len(p.items) \/ Newer(r, last)
    BY <1>1, <1>3, <2>1 DEF IsPage
  <2>3. r \in S /\ last \in S
    BY <1>2, <1>3, <1>4, <2>1
  <2>. QED BY <2>1, <2>2, <2>3, NewerOrder
<1>7. ASSUME NEW r \in S, Newer(last, r)
      PROVE  r \in T /\ r \notin ToSet(p.items)
  <2>1. last \in S /\ (c = NoCursor \/ Newer(c, last))
    BY <1>2, <1>4
  <2>2. c = NoCursor \/ (c.at \in Int /\ c.id \in Int)
    BY DEF IsCursor
  <2>3. c = NoCursor \/ Newer(c, r)
    BY <1>7, <2>1, <2>2, NewerTransitive DEF Rows
  <2>. QED BY <1>2, <1>6, <1>7, <2>3
<1>8. p.next # NoCursor <=> \E r \in T : r \notin ToSet(p.items)
  BY <1>1 DEF IsPage
<1>9. \A r \in T : r \in S
  BY <1>2
<1>. QED BY <1>4, <1>5, <1>6, <1>7, <1>8, <1>9 DEF Older, T

\* One page on and one back, with nothing changed between.
LEMMA AnswerBack ==
  ASSUME NEW S, Rows(S), NEW c, IsCursor(c), NEW n \in Nat \ {0}, NEW m \in Nat \ {0},
         NEW dated \in BOOLEAN,
         NEW b, IsAnswer(S, c, n, dated, b), b.next # NoCursor,
         NEW p, IsAnswer(S, b.next, m, dated, p), p.prev # NoCursor,
         NEW q, IsAnswer(S, p.prev, n, dated, q)
  PROVE  q.items = b.items
<1>. DEFINE l == b.items[Len(b.items)]
            h == p.items[1]
            U == {r \in S : Newer(r, h)}
            B == ToSet(b.items)
            Q == ToSet(q.items)
<1>1. /\ IsPage(Candidates(S, c), Forward(c), n, b.items, b.next # NoCursor)
      /\ b.items # <<>> /\ b.next = Cursor(l, "next") /\ dated
  BY DEF IsAnswer
<1>2. /\ IsPage(Candidates(S, b.next), Forward(b.next), m, p.items, p.next # NoCursor)
      /\ Forward(b.next)
      /\ p.items # <<>> /\ p.prev = Cursor(h, "prev")
  <2>1. Forward(b.next)
    BY <1>1 DEF Forward, Cursor
  <2>. HIDE DEF l
  <2>. QED BY <1>1, <2>1 DEF IsAnswer
<1>3. Candidates(S, b.next) = {r \in S : Newer(l, r)}
  BY <1>1 DEF Candidates, Cursor, NoCursor, Older, Newer
<1>4. Candidates(S, p.prev) = U
  BY <1>2 DEF Candidates, Cursor, NoCursor, Newer
<1>5. IsPage(U, Forward(p.prev), n, q.items, q.next # NoCursor) /\ ~Forward(p.prev)
  <2>1. ~Forward(p.prev)
    BY <1>2 DEF Forward, Cursor, NoCursor
  <2>. HIDE DEF h, U
  <2>. QED BY <1>1, <1>4, <2>1 DEF IsAnswer
<1>6. /\ Len(b.items) = n /\ DOMAIN b.items = 1..n
      /\ b.items \in [1..n -> Candidates(S, c)]
      /\ \A i, j \in 1..n : i < j => Newer(b.items[i], b.items[j])
      /\ \A i \in 1..n, r \in Candidates(S, c) \ B :
            IF Forward(c) THEN Newer(b.items[i], r) ELSE Newer(r, b.items[i])
  BY <1>1, LenProperties DEF IsPage
<1>7. \A r : r \in Candidates(S, c) <=>
                 /\ r \in S
                 /\ c = NoCursor \/ (IF Forward(c) THEN Newer(c, r) ELSE Newer(r, c))
  BY DEF Candidates, Forward, Older
<1>8. l \in S /\ l \in Candidates(S, c)
  BY <1>1, <1>6, <1>7
<1>9. /\ h \in S /\ Newer(l, h)
      /\ \A r \in S : Newer(l, r) => ~Newer(r, h)
  <2>1. /\ Len(p.items) \in Nat \ {0} /\ DOMAIN p.items = 1..Len(p.items)
        /\ p.items \in [1..Len(p.items) -> Candidates(S, b.next)]
    BY <1>2, LenProperties, EmptySeq DEF IsPage
  <2>2. h \in S /\ Newer(l, h)
    BY <1>3, <2>1
  <2>3. ASSUME NEW r \in S, Newer(l, r)
        PROVE  r = h \/ Newer(h, r)
    <3>1. r \in Candidates(S, b.next)
      BY <1>3, <2>3
    <3>2. CASE r \in ToSet(p.items)
      <4>1. PICK i \in 1..Len(p.items) : r = p.items[i]
        BY <2>1, <3>2 DEF ToSet
      <4>2. i = 1 \/ 1 < i
        BY <2>1
      <4>. QED BY <1>2, <2>1, <4>1, <4>2 DEF IsPage
    <3>3. CASE r \notin ToSet(p.items)
      BY <1>2, <2>1, <3>1, <3>3 DEF IsPage
    <3>. QED BY <3>2, <3>3
  <2>. HIDE DEF l, h
  <2>. QED BY <2>2, <2>3, NewerOrder
<1>. HIDE DEF l, h
<1>10. \A r \in B : r \in S /\ r \in Candidates(S, c) /\ (r = l \/ Newer(r, l))
  <2>1. SUFFICES ASSUME NEW i \in 1..n
                 PROVE  /\ b.items[i] \in S /\ b.items[i] \in Candidates(S, c)
                        /\ b.items[i] = l \/ Newer(b.items[i], l)
    BY <1>6 DEF ToSet
  <2>2. i = n \/ i < n
    OBVIOUS
  <2>. QED BY <1>6, <1>7, <2>2 DEF l
<1>11. ASSUME NEW r \in B
       PROVE  r \in U
  <2>1. r \in S /\ (r = l \/ Newer(r, l))
    BY <1>10
  <2>. QED BY <1>8, <1>9, <2>1, NewerTransitive DEF Rows
<1>12. ASSUME NEW r \in B, NEW s \in U \ B
       PROVE  Newer(s, r)
  <2>1. s \in S /\ ~Newer(l, s)
    BY <1>9, <1>12
  <2>2. PICK i \in 1..n : r = b.items[i]
    BY <1>6 DEF ToSet
  <2>3. CASE s \in Candidates(S, c)
    <3>1. n \in 1..n
      OBVIOUS
    <3>2. ~Forward(c)
      BY <1>6, <1>12, <2>1, <2>3, <3>1 DEF l
    <3>. QED BY <1>6, <1>12, <2>2, <2>3, <3>2
  <2>4. CASE s \notin Candidates(S, c)
    <3>1. c # NoCursor /\ c.at \in Int /\ c.id \in Int
      BY <1>7, <2>1, <2>4 DEF IsCursor
    <3>2. /\ s.at \in Int /\ s.id \in Int /\ r.at \in Int /\ r.id \in Int
          /\ l.at \in Int /\ l.id \in Int
      BY <1>8, <1>10, <2>1 DEF Rows
    <3>3. CASE Forward(c)
      <4>1. ~Newer(c, s) /\ Newer(c, r)
        BY <1>7, <1>10, <2>1, <2>4, <3>1, <3>3
      <4>. QED BY <3>1, <3>2, <4>1 DEF Newer
    <3>4. CASE ~Forward(c)
      <4>1. ~Newer(s, c) /\ Newer(l, c)
        BY <1>7, <1>8, <2>1, <2>4, <3>1, <3>4
      <4>. QED BY <2>1, <3>1, <3>2, <4>1 DEF Newer
    <3>. QED BY <3>3, <3>4
  <2>. QED BY <2>3, <2>4
<1>13. Rows(U) /\ U \subseteq S
  BY RowsSubset
<1>14. b.items \in Seq(S) /\ InOrder(b.items)
  <2>1. b.items \in [1..n -> S]
    BY <1>6, <1>7
  <2>2. b.items \in Seq(S)
    BY <2>1, SeqDef
  <2>. QED BY <1>6, <2>2 DEF InOrder
<1>15. /\ q.items \in Seq(S) /\ q.items \in Seq(U) /\ InOrder(q.items)
       /\ Q \subseteq U /\ Len(q.items) <= n
       /\ \A r \in Q, s \in U \ Q : Newer(s, r)
       /\ (\E s \in U : s \notin Q) => Len(q.items) = n
  <2>. HIDE DEF U
  <2>2. DOMAIN q.items = 1..Len(q.items) /\ q.items \in [1..Len(q.items) -> U]
    BY <1>5, LenProperties DEF IsPage
  <2>3. Q \subseteq U
    BY <2>2 DEF ToSet
  <2>4. \A r \in Q, s \in U \ Q : Newer(s, r)
    BY <1>5, <2>2 DEF IsPage, ToSet
  <2>5. q.items \in Seq(S)
    BY <1>5, <1>13, SeqMonotonic DEF IsPage
  <2>. QED BY <1>5, <2>3, <2>4, <2>5 DEF IsPage, InOrder
<1>16. /\ IsFiniteSet(B) /\ Cardinality(B) = n
       /\ IsFiniteSet(Q) /\ Cardinality(Q) = Len(q.items)
  BY <1>6, <1>14, <1>15, InOrderPlaces
<1>. HIDE DEF U, B, Q
<1>17. B = Q
  <2>1. ASSUME NEW x \in B, x \notin Q
        PROVE  FALSE
    <3>1. x \in U /\ Cardinality(Q) = n
      BY <1>11, <1>15, <1>16, <2>1
    <3>2. ASSUME NEW y \in Q, y \notin B
          PROVE  FALSE
      <4>1. Newer(y, x) /\ Newer(x, y)
        BY <1>12, <1>15, <2>1, <3>1, <3>2
      <4>. QED BY <1>13, <1>15, <3>1, <4>1, NewerOrder
    <3>3. Q \in SUBSET B
      BY <3>2
    <3>. QED BY <1>16, <2>1, <3>1, <3>3, FS_Subset
  <2>2. B \in SUBSET Q
    BY <2>1
  <2>3. Cardinality(B) <= Cardinality(Q) /\ Cardinality(Q) <= n
    BY <1>15, <1>16, <2>2, FS_Subset
  <2>4. Len(q.items) \in Nat
    BY <1>15, LenProperties
  <2>5. Cardinality(Q) = Cardinality(B)
    BY <1>16, <2>3, <2>4
  <2>. QED BY <1>16, <2>2, <2>5, FS_Subset
<1>. QED BY <1>14, <1>15, <1>17, InOrderUnique DEF B, Q
=============================================================================
