----------------------------- MODULE ListsProofs ------------------------------
(***************************************************************************)
(* Proofs about Lists for any users, requests and numbers of rows: what a  *)
(* todo handler has checked before its transaction still holds in it.      *)
(***************************************************************************)
EXTENDS Lists, PagingProofs

USE ListsAssumption

Todos == kind = "todos"

Job == [op : {"none", "update", "delete", "change", "insert"}, user : User \cup {None},
        id : Nat, done : BOOLEAN, found : Row]

Jobs ==
  /\ row \in [Id -> Row] /\ last \in Nat /\ clock \in 0..MaxClock
  /\ job \in [Request -> Job]

Numbered ==
  /\ \A i \in Id : Exists(i) => i <= last
  /\ \A r \in Request : job[r] # NoJob => job[r].id \in Id /\ job[r].id <= last

\* A request is of the owner of its todo, also of one deleted meanwhile that
\* another request may yet bring back.
Owned ==
  \A r \in Request : job[r] # NoJob =>
    /\ Todos /\ job[r].user \in User
    /\ Exists(job[r].id) => row[job[r].id].owner = job[r].user
    /\ \A s \in Request : job[s] # NoJob /\ job[s].id = job[r].id => job[s].user = job[r].user

Inv == Jobs /\ Numbered /\ Owned

\* The step of one todo or of none that OnlyOwnerWrites allows.
Allowed ==
  \A i \in Id : row'[i] # row[i] /\ (Exists(i) \/ i <= last) /\ kind = "todos" =>
    \E r \in Request :
      /\ job[r].id = i /\ job'[r] = NoJob
      /\ Exists(i) => job[r].user = row[i].owner
      /\ row'[i] # Absent => row'[i].owner = job[r].user

LEMMA RowsAndJobs ==
  /\ Absent \in Row
  /\ NoJob \in Job
  /\ \A at \in 0..MaxClock, o \in User \cup {None}, d \in BOOLEAN :
        [at |-> at, owner |-> o, done |-> d] \in Row
  /\ Id \subseteq Nat
BY DEF Absent, Row, NoJob, None, Id, Job

LEMMA InitInv == Init => Inv
<1>. SUFFICES ASSUME Init PROVE Inv
  OBVIOUS
<1>1. Jobs
  BY RowsAndJobs DEF Init, Jobs
<1>2. Numbered /\ Owned
  BY DEF Init, Numbered, Owned, Exists
<1>. QED BY <1>1, <1>2 DEF Inv

\* A new row takes an id that no row and no request has.
LEMMA InsertInv ==
  ASSUME Inv, NEW owner \in User \cup {None}, Insert(owner)
  PROVE  Inv' /\ Allowed
<1>. PICK at \in 1..clock :
       Change(last + 1, [at |-> at, owner |-> owner, done |-> FALSE])
  BY DEF Insert
<1>. DEFINE new == [at |-> at, owner |-> owner, done |-> FALSE]
<1>1. /\ row' = [row EXCEPT ![last + 1] = new] /\ last' = last + 1
      /\ UNCHANGED <<kind, clock, job>>
      /\ last + 1 \in Id /\ new \in Row
  <2>1. at \in 0..MaxClock
    BY DEF Inv, Jobs
  <2>2. last + 1 \in Id
    BY DEF Insert, Inv, Jobs, Id
  <2>. QED BY <2>1, <2>2, RowsAndJobs DEF Insert, Change
<1>2. Jobs'
  BY <1>1 DEF Inv, Jobs
<1>3. Numbered'
  <2>1. \A i \in Id : i \in Nat /\ (row'[i] # Absent => i = last + 1 \/ i <= last)
    BY <1>1, RowsAndJobs DEF Inv, Jobs, Numbered, Exists
  <2>2. \A r \in Request : job[r] # NoJob => job[r].id \in Id /\ job[r].id <= last
    BY DEF Inv, Numbered
  <2>3. last \in Nat
    BY DEF Inv, Jobs
  <2>. QED BY <1>1, <2>1, <2>2, <2>3 DEF Numbered, Exists
<1>4. Owned'
  <2>1. \A r \in Request : job[r] # NoJob => row'[job[r].id] = row[job[r].id]
    BY <1>1, RowsAndJobs DEF Inv, Jobs, Numbered
  <2>. QED BY <1>1, <2>1 DEF Inv, Owned, Exists, Todos
<1>5. Allowed
  BY <1>1, RowsAndJobs DEF Inv, Jobs, Numbered, Allowed
<1>. QED BY <1>2, <1>3, <1>4, <1>5 DEF Inv

LEMMA DeleteRoleInv ==
  ASSUME Inv, NEW i \in Id, DeleteRole(i)
  PROVE  Inv' /\ Allowed
<1>1. /\ row' = [row EXCEPT ![i] = Absent] /\ kind = "roles"
      /\ UNCHANGED <<kind, clock, job, last>>
  BY DEF DeleteRole, Change
<1>2. Jobs' /\ Numbered'
  BY <1>1, RowsAndJobs DEF Inv, Jobs, Numbered, Exists
<1>3. Owned' /\ Allowed
  BY <1>1 DEF Inv, Owned, Allowed, Todos
<1>. QED BY <1>2, <1>3 DEF Inv

LEMMA ReadTodoInv ==
  ASSUME Inv, NEW r \in Request, NEW u \in User, NEW i \in Id,
         NEW op \in {"update", "delete"}, NEW done \in BOOLEAN, ReadTodo(r, u, i, op, done)
  PROVE  Inv' /\ Allowed
<1>. DEFINE j == [op |-> op, user |-> u, id |-> i, done |-> done, found |-> Absent]
<1>1. /\ job' = [job EXCEPT ![r] = j] /\ Exists(i) /\ row[i].owner = u
      /\ Todos
      /\ UNCHANGED <<kind, row, clock, last>>
  BY DEF ReadTodo, Quiet, Todos
<1>2. Jobs' /\ Numbered'
  BY <1>1, RowsAndJobs DEF Inv, Jobs, Job, Numbered, Exists
<1>3. \A s \in Request : job'[s] = IF s = r THEN j ELSE job[s]
  BY <1>1 DEF Inv, Jobs
<1>4. Owned'
  BY <1>1, <1>3 DEF Inv, Owned, Exists, Todos
<1>5. Allowed
  BY <1>1 DEF Allowed
<1>. QED BY <1>2, <1>4, <1>5 DEF Inv

LEMMA MergeInv ==
  ASSUME Inv, NEW r \in Request, Merge(r)
  PROVE  Inv' /\ Allowed
<1>. DEFINE j == job'[r]
<1>1. /\ \A s \in Request \ {r} : job'[s] = job[s]
      /\ j.op \in {"change", "insert"}
      /\ j.user = job[r].user /\ j.id = job[r].id /\ j.done = job[r].done
      /\ job[r] # NoJob
      /\ UNCHANGED <<kind, row, clock, last>>
  BY DEF Merge, Quiet, Inv, Jobs, Job, NoJob
<1>2. Jobs'
  <2>1. row[job[r].id] \in Row
    BY <1>1 DEF Inv, Jobs, Numbered
  <2>2. job' = [job EXCEPT ![r] =
            [job[r] EXCEPT !.op = IF Exists(job[r].id) THEN "change" ELSE "insert",
                           !.found = row[job[r].id]]]
    BY DEF Merge, Inv, Jobs, Job
  <2>3. [job[r] EXCEPT !.op = IF Exists(job[r].id) THEN "change" ELSE "insert",
                       !.found = row[job[r].id]] \in Job
    BY <2>1 DEF Inv, Jobs, Job
  <2>. QED BY <1>1, <2>2, <2>3 DEF Inv, Jobs
<1>3. Numbered' /\ Owned'
  BY <1>1 DEF Inv, Numbered, Owned, Exists, Todos
<1>4. Allowed
  BY <1>1 DEF Allowed
<1>. QED BY <1>2, <1>3, <1>4 DEF Inv

\* A request that ends, with a change of its own todo or with none.
LEMMA OverInv ==
  ASSUME Inv, NEW r \in Request, job[r] # NoJob, job' = [job EXCEPT ![r] = NoJob],
         UNCHANGED <<kind, clock, last>>,
         NEW new \in Row, row' = [row EXCEPT ![job[r].id] = new],
         new = Absent \/ new.owner = job[r].user
  PROVE  Inv' /\ Allowed
<1>0. \A s \in Request : job'[s] = IF s = r THEN NoJob ELSE job[s]
  BY DEF Inv, Jobs
<1>1. job[r].id \in Id /\ job[r].id <= last
  BY DEF Inv, Numbered
<1>2. \A i \in Id : row'[i] = IF i = job[r].id THEN new ELSE row[i]
  BY <1>1 DEF Inv, Jobs
<1>3. Jobs'
  BY RowsAndJobs DEF Inv, Jobs
<1>4. Numbered'
  BY <1>0, <1>1, <1>2 DEF Inv, Numbered, Exists
<1>5. Owned'
  <2>1. SUFFICES ASSUME NEW s \in Request, s # r, job[s] # NoJob
                 PROVE  /\ Todos /\ job[s].user \in User
                        /\ row'[job[s].id] # Absent => row'[job[s].id].owner = job[s].user
                        /\ \A t \in Request : job[t] # NoJob /\ job[t].id = job[s].id
                              => job[t].user = job[s].user
    BY <1>0 DEF Owned, Todos, Exists
  <2>2. job[s].id \in Id
    BY <2>1 DEF Inv, Numbered
  <2>3. CASE job[s].id = job[r].id
    BY <1>2, <2>1, <2>2, <2>3 DEF Inv, Owned
  <2>4. CASE job[s].id # job[r].id
    BY <1>2, <2>1, <2>2, <2>4 DEF Inv, Owned, Exists
  <2>. QED BY <2>3, <2>4
<1>6. Allowed
  BY <1>0, <1>1, <1>2 DEF Inv, Owned, Todos, Allowed
<1>. QED BY <1>3, <1>4, <1>5, <1>6 DEF Inv

LEMMA FlushInv ==
  ASSUME Inv, NEW r \in Request,
         FlushUpdate(r) \/ FlushInsert(r) \/ FlushDelete(r) \/ Abort(r)
  PROVE  Inv' /\ Allowed
<1>0. /\ job[r] # NoJob /\ job' = [job EXCEPT ![r] = NoJob] /\ UNCHANGED <<kind, clock, last>>
      /\ job[r].id \in Id /\ row[job[r].id] \in Row /\ job[r].done \in BOOLEAN
      /\ job[r].user \in User
      /\ Exists(job[r].id) => row[job[r].id].owner = job[r].user
  <2>1. job[r] # NoJob /\ job' = [job EXCEPT ![r] = NoJob] /\ UNCHANGED <<kind, clock, last>>
    BY DEF FlushUpdate, FlushInsert, FlushDelete, Abort, Change, Over, Quiet, NoJob
  <2>. QED BY <2>1 DEF Inv, Numbered, Jobs, Job, Owned
<1>1. CASE FlushUpdate(r)
  <2>. DEFINE new == [row[job[r].id] EXCEPT
                        !.done = IF job[r].done = job[r].found.done THEN @ ELSE job[r].done]
  <2>1. Exists(job[r].id) /\ row' = [row EXCEPT ![job[r].id] = new]
    BY <1>1 DEF FlushUpdate, Change
  <2>2. new \in Row /\ new.owner = row[job[r].id].owner
    BY <1>0 DEF Row
  <2>. HIDE DEF new
  <2>. QED BY <1>0, <2>1, <2>2, OverInv
<1>2. CASE FlushInsert(r)
  <2>. DEFINE new == [at |-> clock, owner |-> job[r].user, done |-> job[r].done]
  <2>1. row' = [row EXCEPT ![job[r].id] = new]
    BY <1>2 DEF FlushInsert, Change
  <2>2. new \in Row /\ new.owner = job[r].user
    BY <1>0, RowsAndJobs DEF Inv, Jobs
  <2>. HIDE DEF new
  <2>. QED BY <1>0, <2>1, <2>2, OverInv
<1>3. CASE FlushDelete(r)
  <2>1. row' = [row EXCEPT ![job[r].id] = Absent]
    BY <1>3 DEF FlushDelete, Change
  <2>. QED BY <1>0, <2>1, RowsAndJobs, OverInv
<1>4. CASE Abort(r)
  <2>. DEFINE new == row[job[r].id]
  <2>1. row' = [row EXCEPT ![job[r].id] = new]
    BY <1>0, <1>4 DEF Abort, Quiet, Inv, Jobs
  <2>2. new = Absent \/ new.owner = job[r].user
    BY <1>0 DEF Exists
  <2>. HIDE DEF new
  <2>. QED BY <1>0, <2>1, <2>2, OverInv DEF new
<1>. QED BY <1>1, <1>2, <1>3, <1>4

\* Paging, time and stuttering change neither a row nor a request.
LEMMA ReadInv ==
  ASSUME Inv, UNCHANGED <<kind, row, last, job>>, clock' = clock \/ Tick
  PROVE  Inv' /\ Allowed
<1>1. Jobs'
  BY DEF Tick, Inv, Jobs
<1>2. Numbered' /\ Owned' /\ Allowed
  BY DEF Inv, Numbered, Owned, Allowed, Exists, Todos
<1>. QED BY <1>1, <1>2 DEF Inv

LEMMA NextInv ==
  ASSUME Inv, [Next]_vars
  PROVE  Inv' /\ Allowed
<1>1. ASSUME CreateRole \/ \E u \in User : CreateTodo(u)
      PROVE  Inv' /\ Allowed
  BY <1>1, InsertInv DEF CreateRole, CreateTodo
<1>2. ASSUME NEW i \in Id, DeleteRole(i)
      PROVE  Inv' /\ Allowed
  BY <1>2, DeleteRoleInv
<1>3. ASSUME NEW r \in Request,
             \E u \in User, i \in Id, op \in {"update", "delete"}, done \in BOOLEAN :
                ReadTodo(r, u, i, op, done)
      PROVE  Inv' /\ Allowed
  BY <1>3, ReadTodoInv
<1>4. ASSUME NEW r \in Request, Merge(r) \/ FlushUpdate(r) \/ FlushInsert(r)
                                  \/ FlushDelete(r) \/ Abort(r)
      PROVE  Inv' /\ Allowed
  BY <1>4, MergeInv, FlushInv
<1>5. ASSUME NEW limit \in 1..MaxLimit, FirstPage(limit) \/ NextPage(limit) \/ PrevPage(limit)
      PROVE  Inv' /\ Allowed
  BY <1>5, ReadInv DEF FirstPage, NextPage, PrevPage
<1>6. CASE Tick \/ UNCHANGED vars
  BY <1>6, ReadInv DEF Tick, vars
<1>. QED BY <1>1, <1>2, <1>3, <1>4, <1>5, <1>6 DEF Next

\* However updates and deletions of todos overlap, each change of a todo is
\* its owner's, and so is a todo that an update brings back after a deletion
\* (update_todo/handler.py:24, todo_repository.py:127).
THEOREM OwnersOnly == Spec => OnlyOwnerWrites
<1>1. Inv /\ [Next]_vars => [Allowed]_vars
  BY NextInv
<1>2. Inv /\ [Next]_vars => Inv'
  BY NextInv
<1>. QED BY InitInv, <1>1, <1>2, PTL DEF Spec, OnlyOwnerWrites, Allowed

-----------------------------------------------------------------------------
(* Paging: the client's page, the page before it, and its walk.             *)

Paged ==
  /\ kind \in {"roles", "todos"} /\ clock \in 1..MaxClock
  /\ last \in 0..(IF kind = "roles" THEN MaxRole ELSE MaxTodo)
  /\ page.limit \in 1..MaxLimit /\ page.status \in {0, 200, 500}
  /\ IsCursor(page.cursor) /\ IsCursor(page.next) /\ IsCursor(page.prev)
  /\ page.next # NoCursor => kind = "roles" /\ page.next.dir = "next"

\* While nothing has changed, both pages are still the answers they were.
Followed ==
  before # NoPage =>
    /\ IsCursor(before.cursor) /\ before.limit \in 1..MaxLimit /\ before.next # NoCursor
    /\ IsAnswer(Visible(Client), before.cursor, before.limit, kind = "roles", before)
    /\ IsAnswer(Visible(Client), before.next, page.limit, kind = "roles", page)

\* The row i is older than the cursor c.
Below(i, c) == c.at > row[i].at \/ (c.at = row[i].at /\ c.id > i)

\* What the walk may count on is listed or still to come; what it has listed
\* is gone or behind it, and comes back under no id.
Walked ==
  /\ walk \in [on : BOOLEAN, seen : Seq(Id), since : SUBSET Id]
  /\ walk.on => \A i, j \in DOMAIN walk.seen : walk.seen[i] = walk.seen[j] => i = j
  /\ walk.on /\ page.next = NoCursor => walk.since \subseteq ToSet(walk.seen)
  /\ walk.on /\ page.next # NoCursor =>
       /\ \A i \in walk.since : Exists(i) /\ (i \in ToSet(walk.seen) \/ Below(i, page.next))
       /\ \A i \in ToSet(walk.seen) : i <= last /\ (Exists(i) => ~Below(i, page.next))

PInv == Inv /\ Paged /\ Followed /\ Walked

LEMMA VisibleIs ==
  ASSUME NEW u
  PROVE  /\ \A r \in Visible(u) : /\ r.id \in Id /\ Exists(r.id) /\ r.at = row[r.id].at
                                 /\ r = [at |-> row[r.id].at, id |-> r.id, owner |-> row[r.id].owner]
         /\ \A i \in Id : Exists(i) /\ kind = "roles" => \E r \in Visible(u) : r.id = i
<1>1. ASSUME NEW r \in Visible(u)
      PROVE  \E i \in Id : Exists(i) /\ r = [at |-> row[i].at, id |-> i, owner |-> row[i].owner]
  BY DEF Visible
<1>2. ASSUME NEW i \in Id, Exists(i), kind = "roles"
      PROVE  \E r \in Visible(u) : r.id = i
  <2>. DEFINE r == [at |-> row[i].at, id |-> i, owner |-> row[i].owner]
  <2>1. r \in Visible(u) /\ r.id = i
    BY <1>2 DEF Visible
  <2>. QED BY <2>1
<1>. QED BY <1>1, <1>2

LEMMA IdFinite == IsFiniteSet(Id)
<1>. DEFINE n == IF MaxRole > MaxTodo THEN MaxRole ELSE MaxTodo
<1>1. n \in Int
  OBVIOUS
<1>2. IsFiniteSet(1..n)
  BY <1>1, FS_Interval
<1>. QED BY <1>2 DEF Id

LEMMA VisibleRows ==
  ASSUME row \in [Id -> Row], NEW u
  PROVE  Rows(Visible(u))
<1>. DEFINE S == Visible(u)
            f == [r \in S |-> r.id]
<1>1. ASSUME NEW r \in S, NEW s \in S, r.id = s.id
      PROVE  r = s
  <2>. DEFINE of(i) == [at |-> row[i].at, id |-> i, owner |-> row[i].owner]
  <2>1. r = of(r.id) /\ s = of(s.id)
    BY VisibleIs
  <2>. HIDE DEF of
  <2>. QED BY <1>1, <2>1
<1>2. \A r \in S : r.id \in Id /\ r.id \in Int /\ r.at \in Int
  <2>1. \A i \in Id : i \in Int /\ row[i].at \in Int
    BY RowsAndJobs DEF Row
  <2>. QED BY <2>1, VisibleIs
<1>. HIDE DEF S
<1>3. f \in Injection(S, Id)
  BY <1>1, <1>2 DEF Injection, IsInjective
<1>. HIDE DEF f
<1>4. IsFiniteSet(S)
  BY <1>3, IdFinite, FS_Injection
<1>. QED BY <1>1, <1>2, <1>4 DEF Rows, S

LEMMA NoCursorIs == IsCursor(NoCursor) /\ NoCursor.dir = "none"
BY DEF IsCursor, NoCursor

\* An answer to a cursor that a page gave out.
LEMMA GetIs ==
  ASSUME row \in [Id -> Row], NEW c, IsCursor(c), NEW limit \in 1..MaxLimit
  PROVE  /\ IsAnswer(Visible(Client), c, limit, kind = "roles", Get(c, limit))
         /\ IsCursor(Get(c, limit).next) /\ IsCursor(Get(c, limit).prev)
         /\ Get(c, limit).next # NoCursor => Get(c, limit).next.dir = "next"
<1>. DEFINE S == Visible(Client)
            p == Get(c, limit)
<1>1. Rows(S) /\ limit \in Nat \ {0} /\ (kind = "roles") \in BOOLEAN
  BY VisibleRows
<1>2. IsAnswer(S, c, limit, kind = "roles", p)
  BY <1>1, AnswerIs DEF Get
<1>. HIDE DEF S, p
<1>3. /\ Len(p.items) \in Nat
      /\ \A i \in 1..Len(p.items) : p.items[i].at \in Int /\ p.items[i].id \in Int
      /\ p.items # <<>> => 1 \in 1..Len(p.items) /\ Len(p.items) \in 1..Len(p.items)
  <2>1. CASE p.items = <<>>
    <3>1. p.items \in Seq(S)
      BY <2>1, EmptySeq
    <3>. QED BY <2>1, <3>1, EmptySeq
  <2>2. CASE p.items # <<>>
    <3>1. p.status = 200
      BY <1>2, <2>2 DEF IsAnswer
    <3>2. p.items \in Seq(Candidates(S, c))
      BY <1>2, <3>1 DEF IsAnswer, IsPage
    <3>3. /\ Len(p.items) \in Nat \ {0}
          /\ p.items \in [1..Len(p.items) -> Candidates(S, c)]
      BY <2>2, <3>2, LenProperties, EmptySeq
    <3>. QED BY <1>1, <3>3 DEF Candidates, Rows
  <2>. QED BY <2>1, <2>2
<1>4. p.next # NoCursor =>
        /\ p.items # <<>> /\ p.next = Cursor(p.items[Len(p.items)], "next")
  BY <1>2 DEF IsAnswer
<1>5. p.prev # NoCursor => p.items # <<>> /\ p.prev = Cursor(p.items[1], "prev")
  BY <1>2 DEF IsAnswer
<1>. QED BY <1>2, <1>3, <1>4, <1>5 DEF S, p, IsCursor, Cursor

\* A page going forward, by ids: it lists rows below its cursor, none twice,
\* and leaves none out above the next one.
ListsOnward(c, p) ==
  LET ids == IdsOf(p.items)
  IN /\ ids \in Seq(Id)
     /\ \A i, j \in DOMAIN ids : ids[i] = ids[j] => i = j
     /\ \A i \in ToSet(ids) : Exists(i) /\ (c = NoCursor \/ Below(i, c))
     /\ p.next = NoCursor =>
           \A r \in Visible(Client) : c = NoCursor \/ Below(r.id, c) => r.id \in ToSet(ids)
     /\ p.next # NoCursor =>
           /\ \A r \in Visible(Client) :
                c = NoCursor \/ Below(r.id, c) => r.id \in ToSet(ids) \/ Below(r.id, p.next)
           /\ \A i \in ToSet(ids) : ~Below(i, p.next)
           /\ \A i \in Id : Below(i, p.next) => c = NoCursor \/ Below(i, c)

LEMMA PageByIds ==
  ASSUME row \in [Id -> Row], NEW c, IsCursor(c), Forward(c), NEW limit \in 1..MaxLimit,
         NEW p, p = Get(c, limit), p.status = 200
  PROVE  ListsOnward(c, p)
<1>. DEFINE S == Visible(Client)
            T == Candidates(S, c)
            n == Len(p.items)
            ids == IdsOf(p.items)
<1>1. Rows(S) /\ limit \in Nat \ {0} /\ (kind = "roles") \in BOOLEAN
  BY VisibleRows
<1>2. IsAnswer(S, c, limit, kind = "roles", p)
  BY GetIs
<1>3. \A r \in S : /\ r.id \in Id /\ Exists(r.id) /\ r.at = row[r.id].at
                   /\ r.at \in Int /\ r.id \in Int
  BY <1>1, VisibleIs DEF Rows
<1>. HIDE DEF S
<1>4. IsPage(T, Forward(c), limit, p.items, p.next # NoCursor)
  BY <1>2 DEF IsAnswer
<1>5. \A r : r \in T <=> r \in S /\ (c = NoCursor \/ Older(r, c))
  BY DEF Candidates, Forward
<1>6. \A d : \A r \in S : Older(r, d) <=> Below(r.id, d)
  BY <1>3 DEF Older, Newer, Below
<1>. HIDE DEF T
<1>7. n \in Nat /\ DOMAIN p.items = 1..n /\ p.items \in [1..n -> T]
  BY <1>4, LenProperties DEF IsPage
<1>8. /\ \A i \in 1..n : p.items[i] \in S
      /\ DOMAIN ids = 1..n /\ \A i \in 1..n : ids[i] = p.items[i].id
  BY <1>5, <1>7 DEF IdsOf
<1>9. ids \in Seq(Id)
  <2>1. ids = [i \in 1..n |-> p.items[i].id]
    BY <1>7 DEF IdsOf
  <2>2. \A i \in 1..n : p.items[i].id \in Id
    BY <1>3, <1>8
  <2>. HIDE DEF ids
  <2>3. ids \in [1..n -> Id]
    BY <2>1, <2>2
  <2>. QED BY <1>7, <2>3, SeqDef
<1>. HIDE DEF ids
<1>10. \A i : i \in ToSet(ids) <=> \E k \in 1..n : i = p.items[k].id
  BY <1>8 DEF ToSet
<1>11. \A r \in S : r.id \in ToSet(ids) <=> r \in ToSet(p.items)
  <2>1. \A r \in S, k \in 1..n : r.id = p.items[k].id <=> r = p.items[k]
    BY <1>1, <1>8 DEF Rows
  <2>2. \A r : r \in ToSet(p.items) <=> \E k \in 1..n : r = p.items[k]
    BY <1>7 DEF ToSet
  <2>. QED BY <1>10, <2>1, <2>2
<1>12. ASSUME NEW i \in 1..n, NEW j \in 1..n, ids[i] = ids[j]
       PROVE  i = j
  <2>1. p.items[i] = p.items[j]
    BY <1>1, <1>8, <1>12 DEF Rows
  <2>2. i < j \/ j < i => Newer(p.items[i], p.items[i])
    BY <1>4, <2>1 DEF IsPage
  <2>. QED BY <1>1, <1>8, <2>2, NewerOrder
<1>13. \A i \in ToSet(ids) : Exists(i) /\ (c = NoCursor \/ Below(i, c))
  BY <1>3, <1>5, <1>6, <1>7, <1>10
<1>14. ASSUME p.next = NoCursor, NEW r \in S, c = NoCursor \/ Below(r.id, c)
       PROVE  r.id \in ToSet(ids)
  <2>1. r \in T
    BY <1>5, <1>6, <1>14
  <2>2. r \in ToSet(p.items)
    BY <1>4, <1>14, <2>1 DEF IsPage
  <2>. QED BY <1>11, <2>2
<1>15. ASSUME p.next # NoCursor
       PROVE  /\ \A r \in S : c = NoCursor \/ Below(r.id, c) =>
                               r.id \in ToSet(ids) \/ Below(r.id, p.next)
              /\ \A i \in ToSet(ids) : ~Below(i, p.next)
              /\ \A i \in Id : Below(i, p.next) => c = NoCursor \/ Below(i, c)
  <2>. DEFINE l == p.items[n]
  <2>1. p.items # <<>> /\ p.next = Cursor(l, "next")
    BY <1>2, <1>15 DEF IsAnswer
  <2>2. /\ l \in S
        /\ \A r \in T : r \in ToSet(p.items) \/ Older(r, l)
        /\ \A r \in ToSet(p.items) : ~Older(r, l)
    <3>1. ASSUME NEW dated \in BOOLEAN, IsAnswer(S, c, limit, dated, p)
          PROVE  /\ p.items[Len(p.items)] \in S
                 /\ \A r \in Candidates(S, c) :
                      r \in ToSet(p.items) \/ Older(r, p.items[Len(p.items)])
                 /\ \A r \in ToSet(p.items) : ~Older(r, p.items[Len(p.items)])
      BY <1>1, <2>1, <3>1, AnswerNext
    <3>. QED BY <1>1, <1>2, <3>1 DEF T
  <2>3. \A i : Below(i, p.next) <=> l.at > row[i].at \/ (l.at = row[i].at /\ l.id > i)
    BY <2>1 DEF Below, Cursor
  <2>4. \A r \in S : Older(r, l) <=> Below(r.id, p.next)
    BY <1>3, <2>3 DEF Older, Newer
  <2>5. l \in T
    BY <1>4, <1>7, <2>1, EmptySeq DEF IsPage
  <2>. HIDE DEF l
  <2>6. \A r \in S : c = NoCursor \/ Below(r.id, c) => r.id \in ToSet(ids) \/ Below(r.id, p.next)
    BY <1>5, <1>6, <1>11, <2>2, <2>4
  <2>7. ASSUME NEW i \in ToSet(ids)
        PROVE  ~Below(i, p.next)
    <3>1. PICK k \in 1..n : i = p.items[k].id
      BY <1>10
    <3>2. p.items[k] \in ToSet(p.items) /\ p.items[k] \in S
      BY <1>7, <1>8 DEF ToSet
    <3>. QED BY <2>2, <2>4, <3>1, <3>2
  <2>8. ASSUME NEW i \in Id, Below(i, p.next), c # NoCursor
        PROVE  Below(i, c)
    <3>1. Newer(c, l) /\ l.at \in Int /\ l.id \in Int /\ c.at \in Int /\ c.id \in Int
      BY <1>3, <1>5, <2>2, <2>5, <2>8 DEF Older, IsCursor
    <3>2. row[i].at \in Int /\ i \in Int
      BY RowsAndJobs DEF Row
    <3>3. l.at > row[i].at \/ (l.at = row[i].at /\ l.id > i)
      BY <2>3, <2>8
    <3>. QED BY <3>1, <3>2, <3>3 DEF Newer, Below
  <2>. QED BY <2>6, <2>7, <2>8
<1>. QED BY <1>8, <1>9, <1>12, <1>13, <1>14, <1>15 DEF ids, S, ListsOnward

-----------------------------------------------------------------------------
(* The steps.                                                               *)

LEMMA InitPInv == Init => PInv
<1>. SUFFICES ASSUME Init PROVE PInv
  OBVIOUS
<1>1. Paged
  BY NoCursorIs DEF Init, Paged, NoPage
<1>2. Followed
  BY DEF Init, Followed
<1>3. Walked
  <2>1. <<>> \in Seq(Id)
    BY EmptySeq
  <2>. QED BY <2>1 DEF Init, Walked, NoWalk
<1>. QED BY InitInv, <1>1, <1>2, <1>3 DEF PInv

\* A change of rows: of a role, only that a new one comes or one goes.
LEMMA ChangePInv ==
  ASSUME PInv, NEW i \in Id, NEW r \in Row, Change(i, r),
         last' = last \/ (last' = last + 1 /\ last' <= IF kind = "roles" THEN MaxRole ELSE MaxTodo),
         kind = "roles" => r = Absent \/ (i = last + 1 /\ last' = last + 1)
  PROVE  Paged' /\ Followed' /\ Walked'
<1>1. /\ row' = [row EXCEPT ![i] = r] /\ before' = NoPage /\ UNCHANGED <<kind, clock, page>>
      /\ walk' = IF r = Absent \/ r.at # row[i].at
                 THEN [walk EXCEPT !.since = @ \ {i}] ELSE walk
  BY DEF Change
<1>2. last \in Nat /\ last' \in Nat /\ last <= last'
  BY DEF PInv, Inv, Jobs
<1>3. Paged'
  <2>1. last' \in 0..(IF kind = "roles" THEN MaxRole ELSE MaxTodo)
    BY <1>2 DEF PInv, Paged
  <2>. QED BY <1>1, <2>1 DEF PInv, Paged
<1>4. Followed'
  BY <1>1 DEF Followed
<1>5. Walked'
  <2>1. /\ walk' \in [on : BOOLEAN, seen : Seq(Id), since : SUBSET Id]
        /\ walk'.on = walk.on /\ walk'.seen = walk.seen
        /\ walk'.since \subseteq walk.since
        /\ r = Absent \/ r.at # row[i].at => i \notin walk'.since
    BY <1>1 DEF PInv, Walked
  <2>2. \A j : j # i => row'[j] = row[j]
    BY <1>1 DEF PInv, Inv, Jobs
  <2>3. row'[i] = r
    BY <1>1 DEF PInv, Inv, Jobs
  <2>4. CASE walk.on /\ page.next # NoCursor
    <3>1. kind = "roles"
      BY <2>4 DEF PInv, Paged
    <3>2. ASSUME NEW j \in walk'.since
          PROVE  Exists(j)' /\ (j \in ToSet(walk.seen) \/ Below(j, page.next)')
      <4>1. Exists(j) /\ (j \in ToSet(walk.seen) \/ Below(j, page.next)) /\ j \in Id
        BY <2>1, <2>4, <3>2 DEF PInv, Walked
      <4>2. j # i
        BY <1>2, <2>1, <3>1, <3>2, <4>1 DEF PInv, Inv, Numbered
      <4>. QED BY <1>1, <2>2, <4>1, <4>2 DEF Exists, Below
    <3>3. ASSUME NEW j \in ToSet(walk.seen)
          PROVE  j <= last' /\ (Exists(j)' => ~Below(j, page.next)')
      <4>1. j <= last /\ (Exists(j) => ~Below(j, page.next)) /\ j \in Int
        <5>1. walk.seen \in Seq(Id)
          BY DEF PInv, Walked
        <5>2. ToSet(walk.seen) \subseteq Id
          BY <5>1, LenProperties DEF ToSet
        <5>3. j <= last /\ (Exists(j) => ~Below(j, page.next))
          BY <2>4, <3>3 DEF PInv, Walked
        <5>4. j \in Id
          BY <3>3, <5>2
        <5>5. j \in Int
          BY <5>4, RowsAndJobs
        <5>. QED BY <5>3, <5>5
      <4>2. CASE j = i
        BY <1>2, <2>3, <3>1, <4>1, <4>2 DEF Exists
      <4>3. CASE j # i
        BY <1>1, <1>2, <2>2, <4>1, <4>3 DEF Exists, Below
      <4>. QED BY <4>2, <4>3
    <3>. QED BY <1>1, <2>1, <2>4, <3>2, <3>3 DEF PInv, Walked
  <2>5. CASE ~(walk.on /\ page.next # NoCursor)
    BY <1>1, <2>1, <2>5 DEF PInv, Walked
  <2>. QED BY <2>4, <2>5
<1>. QED BY <1>3, <1>4, <1>5

\* Steps that change no row and get no page.
LEMMA QuietPInv ==
  ASSUME PInv, UNCHANGED <<kind, row, last, page, walk, before>>, clock' = clock \/ Tick
  PROVE  Paged' /\ Followed' /\ Walked'
<1>1. Paged'
  BY DEF PInv, Paged, Tick
<1>2. Visible(Client)' = Visible(Client)
  BY DEF Visible, Exists
<1>3. Followed'
  BY <1>2 DEF PInv, Followed
<1>4. Walked'
  BY DEF PInv, Walked, Exists, Below
<1>. QED BY <1>1, <1>3, <1>4

\* A page, whatever it is.
LEMMA GetPaged ==
  ASSUME PInv, NEW c, IsCursor(c), NEW limit \in 1..MaxLimit, page' = Get(c, limit),
         UNCHANGED <<kind, row, last, clock, job>>
  PROVE  /\ Paged'
         /\ IsAnswer(Visible(Client), c, limit, kind = "roles", page')
         /\ Visible(Client)' = Visible(Client)
<1>1. /\ IsAnswer(Visible(Client), c, limit, kind = "roles", page')
      /\ IsCursor(page'.next) /\ IsCursor(page'.prev)
      /\ page'.next # NoCursor => page'.next.dir = "next"
  BY GetIs DEF PInv, Inv, Jobs
<1>2. /\ page'.cursor = c /\ page'.limit = limit /\ page'.status \in {200, 500}
      /\ page'.next # NoCursor => kind = "roles"
  BY <1>1 DEF IsAnswer
<1>3. Paged'
  BY <1>1, <1>2 DEF PInv, Paged
<1>4. Visible(Client)' = Visible(Client)
  BY DEF Visible, Exists
<1>. QED BY <1>1, <1>3, <1>4

\* A walk after a step that changes no row.
LEMMA WalkedAfter ==
  ASSUME UNCHANGED <<row, last>>, NEW w, walk' = w, NEW next, page'.next = next,
         w \in [on : BOOLEAN, seen : Seq(Id), since : SUBSET Id],
         w.on => \A i, j \in DOMAIN w.seen : w.seen[i] = w.seen[j] => i = j,
         w.on /\ next = NoCursor => w.since \subseteq ToSet(w.seen),
         w.on /\ next # NoCursor =>
            /\ \A i \in w.since : Exists(i) /\ (i \in ToSet(w.seen) \/ Below(i, next))
            /\ \A i \in ToSet(w.seen) : i <= last /\ (Exists(i) => ~Below(i, next))
  PROVE  Walked'
BY DEF Walked, Exists, Below

LEMMA FirstPagePInv ==
  ASSUME PInv, NEW limit \in 1..MaxLimit, FirstPage(limit)
  PROVE  Paged' /\ Followed' /\ Walked'
<1>. PICK p : page' = p
  OBVIOUS
<1>. DEFINE since == {r.id : r \in Visible(Client)}
            ids == IdsOf(p.items)
            w == [on |-> p.status = 200, seen |-> ids, since |-> since]
<1>1. /\ p = Get(NoCursor, limit) /\ page' = Get(NoCursor, limit) /\ before' = NoPage
      /\ walk' = w /\ UNCHANGED <<kind, row, last, clock, job>>
  BY DEF FirstPage
<1>2. Paged' /\ IsAnswer(Visible(Client), NoCursor, limit, kind = "roles", p)
  BY <1>1, NoCursorIs, GetPaged
<1>3. Followed'
  BY <1>1 DEF Followed
<1>4. since \subseteq Id /\ \A i \in since : Exists(i) /\ \E r \in Visible(Client) : i = r.id
  BY VisibleIs
<1>. HIDE DEF since
<1>5. ASSUME p.status = 200 PROVE Walked'
  <2>1. ListsOnward(NoCursor, p)
    <3>1. row \in [Id -> Row] /\ Forward(NoCursor)
      BY DEF PInv, Inv, Jobs, Forward
    <3>. QED BY <1>1, <1>5, <3>1, NoCursorIs, PageByIds
  <2>2. /\ ids \in Seq(Id)
        /\ \A i, j \in DOMAIN ids : ids[i] = ids[j] => i = j
        /\ \A i \in ToSet(ids) : Exists(i)
        /\ p.next = NoCursor => \A i \in since : i \in ToSet(ids)
        /\ p.next # NoCursor => /\ \A i \in since : i \in ToSet(ids) \/ Below(i, p.next)
                                /\ \A i \in ToSet(ids) : ~Below(i, p.next)
    <3>. HIDE DEF ids
    <3>. QED BY <1>4, <2>1 DEF ListsOnward, ids
  <2>. HIDE DEF ids
  <2>3. \A i \in ToSet(ids) : i <= last
    <3>1. ToSet(ids) \subseteq Id
      BY <2>2, LenProperties DEF ToSet
    <3>. QED BY <2>2, <3>1 DEF PInv, Inv, Numbered
  <2>4. w \in [on : BOOLEAN, seen : Seq(Id), since : SUBSET Id] /\ w.seen = ids /\ w.since = since
    BY <1>4, <1>5, <2>2
  <2>. HIDE DEF w
  <2>5. UNCHANGED <<row, last>> /\ walk' = w /\ page'.next = p.next
    BY <1>1
  <2>6. p.next = NoCursor => w.since \subseteq ToSet(w.seen)
    BY <2>2, <2>4
  <2>7. p.next # NoCursor =>
          /\ \A i \in w.since : Exists(i) /\ (i \in ToSet(w.seen) \/ Below(i, p.next))
          /\ \A i \in ToSet(w.seen) : i <= last /\ (Exists(i) => ~Below(i, p.next))
    BY <1>4, <2>2, <2>3, <2>4
  <2>. QED BY <2>2, <2>4, <2>5, <2>6, <2>7, WalkedAfter
<1>6. ASSUME p.status # 200 PROVE Walked'
  <2>1. p.items = <<>>
    BY <1>2, <1>6 DEF IsAnswer
  <2>2. ids \in Seq(Id)
    <3>1. ids = [i \in 1..0 |-> p.items[i].id]
      BY <2>1, EmptySeq DEF IdsOf
    <3>2. ids \in [1..0 -> Id]
      BY <3>1
    <3>. HIDE DEF ids
    <3>. QED BY <3>2, SeqDef
  <2>. HIDE DEF ids
  <2>3. w \in [on : BOOLEAN, seen : Seq(Id), since : SUBSET Id] /\ ~w.on
    BY <1>4, <1>6, <2>2
  <2>. HIDE DEF w
  <2>. QED BY <1>1, <2>3 DEF Walked
<1>. QED BY <1>2, <1>3, <1>5, <1>6

LEMMA NextPagePInv ==
  ASSUME PInv, NEW limit \in 1..MaxLimit, NextPage(limit)
  PROVE  Paged' /\ Followed' /\ Walked'
<1>. PICK p : page' = p
  OBVIOUS
<1>. PICK c : page.next = c
  OBVIOUS
<1>. DEFINE ids == IdsOf(p.items)
<1>1. /\ c # NoCursor /\ p = Get(c, limit) /\ page' = Get(c, limit)
      /\ walk' = IF walk.on THEN [walk EXCEPT !.seen = @ \o ids] ELSE walk
      /\ before' = IF Get(page.cursor, page.limit) = page THEN page ELSE NoPage
      /\ UNCHANGED <<kind, row, last, clock, job>>
  BY DEF NextPage
<1>2. /\ IsCursor(c) /\ Forward(c) /\ kind = "roles"
      /\ IsCursor(page.cursor) /\ page.limit \in 1..MaxLimit
      /\ row \in [Id -> Row]
  BY <1>1 DEF PInv, Paged, Inv, Jobs, Forward
<1>3. /\ Paged' /\ IsAnswer(Visible(Client), c, limit, kind = "roles", p)
      /\ Visible(Client)' = Visible(Client)
  BY <1>1, <1>2, GetPaged
<1>4. p.status = 200 /\ p.limit = limit
  BY <1>2, <1>3 DEF IsAnswer
<1>5. Followed'
  <2>. SUFFICES ASSUME before' # NoPage
                PROVE  /\ IsCursor(before'.cursor) /\ before'.limit \in 1..MaxLimit
                       /\ before'.next # NoCursor
                       /\ IsAnswer(Visible(Client), before'.cursor, before'.limit,
                                   kind = "roles", before')
                       /\ IsAnswer(Visible(Client), before'.next, p.limit, kind = "roles", p)
    BY <1>1, <1>3 DEF Followed
  <2>1. before' = page /\ Get(page.cursor, page.limit) = page
    BY <1>1
  <2>2. IsAnswer(Visible(Client), page.cursor, page.limit, kind = "roles", page)
    BY <1>2, <2>1, GetIs
  <2>. QED BY <1>1, <1>2, <1>3, <1>4, <2>1, <2>2
<1>6. ASSUME ~walk.on PROVE Walked'
  <2>1. walk' = walk /\ walk \in [on : BOOLEAN, seen : Seq(Id), since : SUBSET Id]
    BY <1>1, <1>6 DEF PInv, Walked
  <2>. QED BY <1>6, <2>1 DEF Walked
<1>7. ASSUME walk.on PROVE Walked'
  <2>. DEFINE seen == walk.seen
              all == seen \o ids
  <2>1. /\ ids \in Seq(Id)
        /\ \A i, j \in DOMAIN ids : ids[i] = ids[j] => i = j
        /\ \A i \in ToSet(ids) : Exists(i) /\ Below(i, c)
        /\ p.next = NoCursor =>
              \A r \in Visible(Client) : Below(r.id, c) => r.id \in ToSet(ids)
        /\ p.next # NoCursor =>
              /\ \A r \in Visible(Client) :
                    Below(r.id, c) => r.id \in ToSet(ids) \/ Below(r.id, p.next)
              /\ \A i \in ToSet(ids) : ~Below(i, p.next)
              /\ \A i \in Id : Below(i, p.next) => Below(i, c)
    <3>1. ListsOnward(c, p)
      BY <1>1, <1>2, <1>4, PageByIds
    <3>. HIDE DEF ids
    <3>. QED BY <1>1, <3>1 DEF ListsOnward, ids
  <2>2. /\ seen \in Seq(Id) /\ walk.since \subseteq Id
        /\ \A i, j \in DOMAIN seen : seen[i] = seen[j] => i = j
        /\ \A i \in walk.since : Exists(i) /\ (i \in ToSet(seen) \/ Below(i, c))
        /\ \A i \in ToSet(seen) : i <= last /\ (Exists(i) => ~Below(i, c))
    BY <1>1, <1>7 DEF PInv, Walked
  <2>. HIDE DEF ids, seen
  <2>3. /\ Len(seen) \in Nat /\ Len(ids) \in Nat
        /\ DOMAIN seen = 1..Len(seen) /\ DOMAIN ids = 1..Len(ids)
        /\ all \in Seq(Id) /\ Len(all) = Len(seen) + Len(ids)
        /\ DOMAIN all = 1..(Len(seen) + Len(ids))
        /\ \A i \in 1..(Len(seen) + Len(ids)) :
              all[i] = IF i <= Len(seen) THEN seen[i] ELSE ids[i - Len(seen)]
    BY <2>1, <2>2, ConcatProperties, LenProperties
  <2>. HIDE DEF all
  <2>4. /\ ToSet(seen) \subseteq Id /\ ToSet(ids) \subseteq Id
        /\ \A i : i \in ToSet(all) <=> i \in ToSet(seen) \/ i \in ToSet(ids)
    <3>1. ToSet(seen) \subseteq Id /\ ToSet(ids) \subseteq Id
      BY <2>1, <2>2, LenProperties DEF ToSet
    <3>2. ASSUME NEW i \in ToSet(all)
          PROVE  i \in ToSet(seen) \/ i \in ToSet(ids)
      <4>1. PICK k \in 1..(Len(seen) + Len(ids)) : i = all[k]
        BY <2>3 DEF ToSet
      <4>2. k <= Len(seen) => k \in 1..Len(seen) /\ i = seen[k]
        BY <2>3, <4>1
      <4>3. ~(k <= Len(seen)) => k - Len(seen) \in 1..Len(ids) /\ i = ids[k - Len(seen)]
        BY <2>3, <4>1
      <4>. QED BY <2>3, <4>2, <4>3 DEF ToSet
    <3>3. ASSUME NEW k \in 1..Len(seen)
          PROVE  seen[k] \in ToSet(all)
      <4>1. k \in 1..(Len(seen) + Len(ids)) /\ all[k] = seen[k]
        BY <2>3
      <4>. QED BY <2>3, <4>1 DEF ToSet
    <3>4. ASSUME NEW k \in 1..Len(ids)
          PROVE  ids[k] \in ToSet(all)
      <4>1. /\ k + Len(seen) \in 1..(Len(seen) + Len(ids)) /\ ~(k + Len(seen) <= Len(seen))
            /\ (k + Len(seen)) - Len(seen) = k
        BY <2>3
      <4>2. all[k + Len(seen)] = ids[k]
        BY <2>3, <4>1
      <4>. QED BY <2>3, <4>1, <4>2 DEF ToSet
    <3>. QED BY <2>3, <3>1, <3>2, <3>3, <3>4 DEF ToSet
  <2>5. ASSUME NEW i \in 1..Len(seen), NEW j \in 1..Len(ids)
        PROVE  seen[i] # ids[j]
    <3>1. seen[i] \in ToSet(seen) /\ ids[j] \in ToSet(ids)
      BY <2>3 DEF ToSet
    <3>2. Exists(ids[j]) /\ Below(ids[j], c)
      BY <2>1, <3>1
    <3>. QED BY <2>2, <3>1, <3>2
  <2>6. ASSUME NEW i \in DOMAIN all, NEW j \in DOMAIN all, all[i] = all[j]
        PROVE  i = j
    <3>1. i \in 1..(Len(seen) + Len(ids)) /\ j \in 1..(Len(seen) + Len(ids))
      BY <2>3
    <3>2. CASE i <= Len(seen) /\ j <= Len(seen)
      <4>1. i \in 1..Len(seen) /\ j \in 1..Len(seen) /\ seen[i] = seen[j]
        BY <2>3, <2>6, <3>1, <3>2
      <4>. QED BY <2>2, <2>3, <4>1
    <3>3. CASE i <= Len(seen) /\ ~(j <= Len(seen))
      <4>1. i \in 1..Len(seen) /\ j - Len(seen) \in 1..Len(ids) /\ seen[i] = ids[j - Len(seen)]
        BY <2>3, <2>6, <3>1, <3>3
      <4>. QED BY <2>5, <4>1
    <3>4. CASE ~(i <= Len(seen)) /\ j <= Len(seen)
      <4>1. i - Len(seen) \in 1..Len(ids) /\ j \in 1..Len(seen) /\ ids[i - Len(seen)] = seen[j]
        BY <2>3, <2>6, <3>1, <3>4
      <4>. QED BY <2>5, <4>1
    <3>5. CASE ~(i <= Len(seen)) /\ ~(j <= Len(seen))
      <4>1. /\ i - Len(seen) \in 1..Len(ids) /\ j - Len(seen) \in 1..Len(ids)
            /\ ids[i - Len(seen)] = ids[j - Len(seen)]
        BY <2>3, <2>6, <3>1, <3>5
      <4>2. i - Len(seen) = j - Len(seen)
        BY <2>1, <2>3, <4>1
      <4>. QED BY <2>3, <3>1, <4>2
    <3>. QED BY <3>2, <3>3, <3>4, <3>5
  <2>7. /\ walk' \in [on : BOOLEAN, seen : Seq(Id), since : SUBSET Id]
        /\ walk'.seen = all /\ walk'.since = walk.since
    <3>1. walk' = [walk EXCEPT !.seen = all]
      BY <1>1, <1>7 DEF all, seen, ids
    <3>. QED BY <2>2, <2>3, <3>1 DEF PInv, Walked
  <2>8. \A i \in walk.since : \E r \in Visible(Client) : r.id = i
    BY <1>2, <2>2, VisibleIs
  <2>. PICK w : walk' = w
    OBVIOUS
  <2>9. CASE p.next = NoCursor
    <3>1. \A i \in walk.since : i \in ToSet(seen) \/ i \in ToSet(ids)
      BY <2>1, <2>2, <2>8, <2>9
    <3>2. w.since \subseteq ToSet(w.seen)
      BY <2>4, <2>7, <3>1
    <3>. QED BY <1>1, <2>6, <2>7, <2>9, <3>2, WalkedAfter
  <2>10. CASE p.next # NoCursor
    <3>1. \A i \in walk.since :
             Exists(i) /\ (i \in ToSet(all) \/ Below(i, p.next))
      BY <2>1, <2>2, <2>4, <2>8, <2>10
    <3>2. \A i \in ToSet(all) : i <= last /\ (Exists(i) => ~Below(i, p.next))
      <4>1. \A i \in ToSet(ids) : i <= last
        BY <2>1, <2>4 DEF PInv, Inv, Numbered
      <4>2. \A i \in ToSet(seen) : i \in Id
        BY <2>4
      <4>. QED BY <2>1, <2>2, <2>4, <2>10, <4>1, <4>2
    <3>. QED BY <1>1, <2>6, <2>7, <2>10, <3>1, <3>2, WalkedAfter
  <2>. QED BY <2>9, <2>10
<1>. QED BY <1>3, <1>5, <1>6, <1>7

LEMMA PrevPagePInv ==
  ASSUME PInv, NEW limit \in 1..MaxLimit, PrevPage(limit)
  PROVE  Paged' /\ Followed' /\ Walked'
<1>1. IsCursor(page.prev)
  BY DEF PInv, Paged
<1>2. Paged'
  BY <1>1, GetPaged DEF PrevPage
<1>3. Followed'
  BY DEF PrevPage, Followed
<1>4. Walked'
  <2>1. <<>> \in Seq(Id)
    BY EmptySeq
  <2>. QED BY <2>1 DEF PrevPage, Walked, NoWalk
<1>. QED BY <1>2, <1>3, <1>4

\* A step keeps the invariant.
LEMMA NextPInv ==
  ASSUME PInv, [Next]_vars
  PROVE  PInv'
<1>0. Inv' /\ Inv
  BY NextInv DEF PInv
<1>1. ASSUME NEW owner \in User \cup {None}, Insert(owner)
      PROVE  Paged' /\ Followed' /\ Walked'
  <2>1. PICK at \in 1..clock :
          Change(last + 1, [at |-> at, owner |-> owner, done |-> FALSE])
    BY <1>1 DEF Insert
  <2>. DEFINE new == [at |-> at, owner |-> owner, done |-> FALSE]
  <2>2. new \in Row
    <3>1. at \in 0..MaxClock
      BY <1>0 DEF Inv, Jobs
    <3>. QED BY <3>1, RowsAndJobs
  <2>3. /\ last' = last + 1 /\ last + 1 \in Id
        /\ last + 1 <= IF kind = "roles" THEN MaxRole ELSE MaxTodo
    BY <1>0, <1>1 DEF Insert, Inv, Jobs, Id
  <2>4. Change(last + 1, new)
    BY <2>1
  <2>. HIDE DEF new
  <2>. QED BY <2>2, <2>3, <2>4, ChangePInv
<1>2. ASSUME NEW i \in Id, DeleteRole(i)
      PROVE  Paged' /\ Followed' /\ Walked'
  BY <1>2, RowsAndJobs, ChangePInv DEF DeleteRole
<1>3. ASSUME NEW r \in Request, FlushUpdate(r) \/ FlushInsert(r) \/ FlushDelete(r)
      PROVE  Paged' /\ Followed' /\ Walked'
  <2>1. /\ job[r] # NoJob /\ last' = last
    BY <1>3 DEF FlushUpdate, FlushInsert, FlushDelete, NoJob
  <2>2. /\ job[r].id \in Id /\ row[job[r].id] \in Row /\ job[r].done \in BOOLEAN
        /\ job[r].user \in User /\ kind # "roles"
    BY <1>0, <2>1 DEF Inv, Numbered, Jobs, Job, Owned, Todos
  <2>3. \E new \in Row : Change(job[r].id, new)
    <3>1. CASE FlushUpdate(r)
      <4>. DEFINE new == [row[job[r].id] EXCEPT
                            !.done = IF job[r].done = job[r].found.done THEN @ ELSE job[r].done]
      <4>1. new \in Row
        BY <2>2 DEF Row
      <4>2. Change(job[r].id, new)
        BY <3>1 DEF FlushUpdate
      <4>. QED BY <4>1, <4>2
    <3>2. CASE FlushInsert(r)
      <4>. DEFINE new == [at |-> clock, owner |-> job[r].user, done |-> job[r].done]
      <4>1. new \in Row
        BY <1>0, <2>2, RowsAndJobs DEF Inv, Jobs
      <4>2. Change(job[r].id, new)
        BY <3>2 DEF FlushInsert
      <4>. QED BY <4>1, <4>2
    <3>3. CASE FlushDelete(r)
      BY <3>3, RowsAndJobs DEF FlushDelete
    <3>. QED BY <1>3, <3>1, <3>2, <3>3
  <2>. QED BY <2>1, <2>2, <2>3, ChangePInv
<1>4. ASSUME NEW limit \in 1..MaxLimit, FirstPage(limit) \/ NextPage(limit) \/ PrevPage(limit)
      PROVE  Paged' /\ Followed' /\ Walked'
  BY <1>4, FirstPagePInv, NextPagePInv, PrevPagePInv
<1>5. ASSUME NEW r \in Request,
             \/ Merge(r) \/ Abort(r)
             \/ \E u \in User, i \in Id, op \in {"update", "delete"}, done \in BOOLEAN :
                   ReadTodo(r, u, i, op, done)
      PROVE  Paged' /\ Followed' /\ Walked'
  <2>1. UNCHANGED <<kind, row, last, clock, page, walk, before>>
    BY <1>5 DEF Merge, Abort, ReadTodo, Quiet
  <2>. QED BY <2>1, QuietPInv
<1>6. CASE Tick \/ UNCHANGED vars
  <2>1. UNCHANGED <<kind, row, last, page, walk, before>> /\ (clock' = clock \/ Tick)
    BY <1>6 DEF Tick, vars
  <2>. QED BY <1>0, <2>1, QuietPInv DEF PInv
<1>7. ASSUME CreateRole \/ \E u \in User : CreateTodo(u)
      PROVE  Paged' /\ Followed' /\ Walked'
  BY <1>1, <1>7 DEF CreateRole, CreateTodo
<1>. QED BY <1>0, <1>2, <1>3, <1>4, <1>5, <1>6, <1>7 DEF Next, PInv

-----------------------------------------------------------------------------
(* What the invariant gives.                                                *)

LEMMA PagingInvariant == Spec => []PInv
<1>1. PInv /\ UNCHANGED vars => PInv'
  BY NextPInv
<1>2. PInv /\ [Next]_vars => PInv'
  BY NextPInv
<1>. QED BY InitPInv, <1>2, PTL DEF Spec

\* Every variable keeps its range: ids stay below the sequence, a page keeps a
\* limit that was asked for (LIMIT_MIN and LIMIT_MAX of the routes).
THEOREM ListsTyped == Spec => []TypeOK
<1>1. ASSUME PInv PROVE TypeOK
  <2>1. /\ kind \in {"roles", "todos"} /\ row \in [Id -> Row]
        /\ last \in 0..(IF kind = "roles" THEN MaxRole ELSE MaxTodo) /\ clock \in 1..MaxClock
        /\ \A i \in Id : Exists(i) => i <= last
        /\ page.limit \in 1..MaxLimit /\ page.status \in {0, 200, 500}
    BY <1>1 DEF PInv, Inv, Jobs, Numbered, Paged
  <2>2. ASSUME NEW r \in Request
        PROVE  job[r].id \in 0..last /\ job[r].found \in Row
    <3>1. job[r] \in Job /\ last \in Nat
      BY <1>1 DEF PInv, Inv, Jobs
    <3>2. CASE job[r] = NoJob
      BY <3>1, <3>2, RowsAndJobs DEF NoJob
    <3>3. CASE job[r] # NoJob
      BY <1>1, <3>1, <3>3, RowsAndJobs DEF PInv, Inv, Numbered, Job
    <3>. QED BY <3>2, <3>3
  <2>3. walk.on \in BOOLEAN /\ walk.since \subseteq Id
    BY <1>1 DEF PInv, Walked
  <2>. QED BY <2>1, <2>2, <2>3 DEF TypeOK
<1>. QED BY <1>1, PagingInvariant, PTL

\* A client that follows the next cursors to the end has met every role that
\* was there all along, and none twice, whatever is created and deleted
\* meanwhile ("get items AFTER the cursor", todo_repository.py:43).
THEOREM WalksListOnce == Spec => []ListedOnce
<1>1. PInv => ListedOnce
  BY DEF PInv, Walked, ListedOnce
<1>. QED BY <1>1, PagingInvariant, PTL

\* The page a step gets, and the cursor it is the answer to.
LEMMA PageStep ==
  ASSUME PInv, [Next]_vars, page' # page
  PROVE  \E c, limit :
           /\ limit \in 1..MaxLimit /\ IsCursor(c) /\ page' = Get(c, limit)
           /\ IsAnswer(Visible(Client), c, limit, kind = "roles", page')
<1>1. PICK limit \in 1..MaxLimit : FirstPage(limit) \/ NextPage(limit) \/ PrevPage(limit)
  BY DEF Next, vars, CreateRole, CreateTodo, Insert, DeleteRole, Change, Tick, ReadTodo, Merge,
         FlushUpdate, FlushInsert, FlushDelete, Abort, Quiet
<1>2. IsCursor(page.next) /\ IsCursor(page.prev)
  BY DEF PInv, Paged
<1>3. \/ page' = Get(NoCursor, limit)
      \/ page' = Get(page.next, limit)
      \/ page' = Get(page.prev, limit)
  BY <1>1 DEF FirstPage, NextPage, PrevPage
<1>4. \E c : IsCursor(c) /\ page' = Get(c, limit)
  BY <1>2, <1>3, NoCursorIs
<1>5. PICK c : IsCursor(c) /\ page' = Get(c, limit)
  BY <1>4
<1>6. IsAnswer(Visible(Client), c, limit, kind = "roles", Get(c, limit))
  BY <1>5, GetIs DEF PInv, Inv, Jobs
<1>. QED BY <1>5, <1>6

\* Every page answered holds the rows next to its cursor, in order, as many
\* as there are up to the limit (todo_repository.py:84,
\* casbin_policy_repository.py:192).
THEOREM EveryPageExact == Spec => PagesExact
<1>. DEFINE A == page' # page /\ page'.status = 200 => Exact(Visible(Client), page')
<1>1. ASSUME PInv, [Next]_vars, page' # page, page'.status = 200
      PROVE  Exact(Visible(Client), page')
  <2>1. PICK c, limit :
          limit \in 1..MaxLimit /\ IsCursor(c) /\ IsAnswer(Visible(Client), c, limit, kind = "roles", page')
    BY <1>1, PageStep
  <2>2. Rows(Visible(Client)) /\ limit \in Nat \ {0} /\ (kind = "roles") \in BOOLEAN
    BY <1>1, <2>1, VisibleRows DEF PInv, Inv, Jobs
  <2>. QED BY <1>1, <2>1, <2>2, AnswerExact
<1>2. PInv /\ [Next]_vars => [A]_vars
  BY <1>1
<1>. QED BY <1>2, PagingInvariant, PTL DEF Spec, PagesExact

\* Going forward, a page offers a next cursor exactly when an older row is
\* there ("Cursor for the next page. None if no more items", response.py:45).
THEOREM NextExactlyWhenOlder == Spec => NextOffered
<1>. DEFINE A == /\ page' # page /\ page'.status = 200 /\ page'.items # <<>>
                 /\ page'.cursor.dir # "prev"
                 => (page'.next # NoCursor)
                      = \E r \in Visible(Client) : Older(r, Last(page'.items))
<1>1. ASSUME PInv, [Next]_vars, page' # page, page'.status = 200, page'.items # <<>>,
             page'.cursor.dir # "prev"
      PROVE  page'.next # NoCursor <=> \E r \in Visible(Client) : Older(r, Last(page'.items))
  <2>. PICK p : page' = p
    OBVIOUS
  <2>1. PICK c, limit :
          limit \in 1..MaxLimit /\ IsCursor(c) /\ IsAnswer(Visible(Client), c, limit, kind = "roles", p)
    BY <1>1, PageStep
  <2>2. Rows(Visible(Client)) /\ limit \in Nat \ {0} /\ (kind = "roles") \in BOOLEAN
    BY <1>1, <2>1, VisibleRows DEF PInv, Inv, Jobs
  <2>3. Forward(c)
    BY <1>1, <2>1 DEF IsAnswer, IsCursor, Forward
  <2>4. p.next # NoCursor <=> \E r \in Visible(Client) : Older(r, p.items[Len(p.items)])
    BY <1>1, <2>1, <2>2, <2>3, AnswerNext
  <2>. QED BY <2>4 DEF Last
<1>2. PInv /\ [Next]_vars => [A]_vars
  BY <1>1
<1>. QED BY <1>2, PagingInvariant, PTL DEF Spec, NextOffered

\* Back from a page is the page before it, item by item, if nothing changed
\* (the "prev" branch of the cursor queries, todo_repository.py:67).
THEOREM BackToTheSamePage == Spec => BackAgain
<1>. DEFINE A == \A limit \in 1..MaxLimit :
                   PrevPage(limit) /\ before # NoPage /\ before.limit = limit
                     => page'.items = before.items
<1>1. ASSUME PInv, NEW limit \in 1..MaxLimit, PrevPage(limit), before # NoPage,
             before.limit = limit
      PROVE  page'.items = before.items
  <2>. DEFINE S == Visible(Client)
  <2>1. Rows(S) /\ limit \in Nat \ {0} /\ (kind = "roles") \in BOOLEAN
    BY <1>1, VisibleRows DEF PInv, Inv, Jobs
  <2>2. /\ IsCursor(before.cursor) /\ before.next # NoCursor
        /\ IsAnswer(S, before.cursor, limit, kind = "roles", before)
        /\ IsAnswer(S, before.next, page.limit, kind = "roles", page)
    BY <1>1 DEF PInv, Followed
  <2>3. page.limit \in Nat \ {0} /\ IsCursor(page.prev) /\ page.prev # NoCursor
    BY <1>1 DEF PInv, Paged, PrevPage
  <2>4. IsAnswer(S, page.prev, limit, kind = "roles", Get(page.prev, limit))
    BY <1>1, <2>3, GetIs DEF PInv, Inv, Jobs
  <2>. HIDE DEF S
  <2>5. ASSUME NEW q, IsAnswer(S, page.prev, limit, kind = "roles", q)
        PROVE  q.items = before.items
    <3>1. PICK b : b = before
      OBVIOUS
    <3>2. PICK p : p = page
      OBVIOUS
    <3>3. /\ IsCursor(b.cursor) /\ b.next # NoCursor
          /\ IsAnswer(S, b.cursor, limit, kind = "roles", b)
          /\ IsAnswer(S, b.next, p.limit, kind = "roles", p)
          /\ p.limit \in Nat \ {0} /\ p.prev # NoCursor
          /\ IsAnswer(S, p.prev, limit, kind = "roles", q)
      BY <2>2, <2>3, <2>5, <3>1, <3>2
    <3>4. ASSUME NEW dated \in BOOLEAN, NEW c, NEW m, c = b.cursor, m = p.limit,
                 IsAnswer(S, c, limit, dated, b), IsAnswer(S, b.next, m, dated, p),
                 IsAnswer(S, p.prev, limit, dated, q)
          PROVE  q.items = b.items
      <4>1. IsCursor(c) /\ m \in Nat \ {0} /\ b.next # NoCursor /\ p.prev # NoCursor
        BY <3>3, <3>4
      <4>. QED BY <2>1, <3>4, <4>1, AnswerBack
    <3>5. q.items = b.items
      BY <2>1, <3>3, <3>4
    <3>. QED BY <3>1, <3>5
  <2>. QED BY <1>1, <2>4, <2>5 DEF PrevPage
<1>2. PInv /\ [Next]_vars => [A]_vars
  BY <1>1
<1>. QED BY <1>2, PagingInvariant, PTL DEF Spec, BackAgain
=============================================================================
