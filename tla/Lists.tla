------------------------------- MODULE Lists --------------------------------
(***************************************************************************)
(* The rows behind a list and a client that pages through it while others  *)
(* write: roles (permissions are alike), which anyone with the permission  *)
(* creates and deletes, or todos, which their owner creates, changes and   *)
(* deletes.  A behaviour is about one of the two.                          *)
(*                                                                         *)
(* A todo handler reads the todo and checks its owner before it opens its  *)
(* unit of work; save() merges the entity: it selects the row again, then  *)
(* writes the columns that differ, or inserts the row when it finds none.  *)
(***************************************************************************)
EXTENDS Paging

CONSTANTS User, Request, MaxRole, MaxTodo, MaxLimit, MaxClock

ASSUME ListsAssumption ==
  /\ User # {} /\ "none" \notin User
  /\ MaxRole \in Nat /\ MaxTodo \in Nat /\ MaxClock \in Nat \ {0} /\ MaxLimit \in Nat \ {0}

VARIABLES kind,     \* "roles" or "todos"
          row,      \* the committed rows by id
          last,     \* the last serial id
          clock,    \* now()
          job,      \* the request a handler works on
          page,     \* the client's last page
          walk,     \* its pages forward: what it has seen, what was there
          before    \* the page the last one followed, while nothing changed

vars == <<kind, row, last, clock, job, page, walk, before>>

None == "none"
Id == 1..(IF MaxRole > MaxTodo THEN MaxRole ELSE MaxTodo)
Absent == [at |-> 0, owner |-> None, done |-> FALSE]
Row == [at : 0..MaxClock, owner : User \cup {None}, done : BOOLEAN]
NoJob == [op |-> "none", user |-> None, id |-> 0, done |-> FALSE, found |-> Absent]
NoPage == [items |-> <<>>, next |-> NoCursor, prev |-> NoCursor, has_next |-> FALSE,
           has_prev |-> FALSE, cursor |-> NoCursor, limit |-> 1, status |-> 0]
NoWalk == [on |-> FALSE, seen |-> <<>>, since |-> {}]

Init ==
  /\ kind \in {"roles", "todos"}
  /\ row = [i \in Id |-> Absent] /\ last = 0 /\ clock = 1
  /\ job = [r \in Request |-> NoJob]
  /\ page = NoPage /\ walk = NoWalk /\ before = NoPage

Exists(i) == row[i] # Absent

(* A committed change of the rows: what the walk may still count on.       *)
Change(i, r) ==
  /\ row' = [row EXCEPT ![i] = r]
  /\ walk' = IF r = Absent \/ r.at # row[i].at
             THEN [walk EXCEPT !.since = @ \ {i}] ELSE walk
  /\ before' = NoPage
  /\ UNCHANGED <<kind, clock, page>>

(* Mutant: the id is given by the caller and the sequence stays behind.    *)
InsertGivenId(owner) ==
  /\ last < IF kind = "roles" THEN MaxRole ELSE MaxTodo
  /\ \E at \in 1..clock :
       Change(last + 1, [at |-> at, owner |-> owner, done |-> FALSE])
  /\ UNCHANGED <<last, job>>

(* created_at is the start of the inserting transaction, the id is drawn   *)
(* by its INSERT: an older row may get the larger id and come to light     *)
(* later.  A seeder gives several rows the same time.                      *)
Insert(owner) ==
  /\ last < IF kind = "roles" THEN MaxRole ELSE MaxTodo
  /\ last' = last + 1
  /\ \E at \in 1..clock :
       Change(last + 1, [at |-> at, owner |-> owner, done |-> FALSE])
  /\ UNCHANGED job

CreateRole == kind = "roles" /\ Insert(None)
CreateTodo(u) == kind = "todos" /\ Insert(u)

DeleteRole(i) ==
  /\ kind = "roles" /\ Exists(i)
  /\ Change(i, Absent)
  /\ UNCHANGED <<last, job>>

Tick ==
  /\ clock < MaxClock /\ clock' = clock + 1
  /\ UNCHANGED <<kind, row, last, job, page, walk, before>>

(***************************************************************************)
(* Changing and deleting a todo.                                           *)
(***************************************************************************)
Quiet == UNCHANGED <<kind, row, last, clock, page, walk, before>>

(* Mutant: the owner is not compared.                                      *)
ReadTodoOfAnyone(r, u, i, op, done) ==
  /\ kind = "todos" /\ job[r] = NoJob /\ Exists(i)
  /\ job' = [job EXCEPT ![r] =
       [op |-> op, user |-> u, id |-> i, done |-> done, found |-> Absent]]
  /\ Quiet

(* get_by_id and the check of the owner; the entity takes what the command *)
(* gives.                                                                  *)
ReadTodo(r, u, i, op, done) ==
  /\ kind = "todos" /\ job[r] = NoJob
  /\ Exists(i) /\ row[i].owner = u
  /\ job' = [job EXCEPT ![r] =
       [op |-> op, user |-> u, id |-> i, done |-> done, found |-> Absent]]
  /\ Quiet

(* merge: the row is read once more, without a lock.                       *)
Merge(r) ==
  /\ job[r].op = "update"
  /\ job' = [job EXCEPT ![r].op = IF Exists(job[r].id) THEN "change" ELSE "insert",
                        ![r].found = row[job[r].id]]
  /\ Quiet

Over(r) == job' = [job EXCEPT ![r] = NoJob]

(* UPDATE of the columns that differ from what the merge has read.         *)
FlushUpdate(r) ==
  LET j == job[r]
  IN /\ j.op = "change" /\ Exists(j.id)
     /\ Change(j.id, [row[j.id] EXCEPT !.done = IF j.done = j.found.done THEN @ ELSE j.done])
     /\ Over(r) /\ UNCHANGED last

(* INSERT with the id of the entity: the todo comes back, created now.     *)
FlushInsert(r) ==
  LET j == job[r]
  IN /\ j.op = "insert" /\ ~Exists(j.id)
     /\ Change(j.id, [at |-> clock, owner |-> j.user, done |-> j.done])
     /\ Over(r) /\ UNCHANGED last

(* DELETE by id, whether or not the row is there.                          *)
FlushDelete(r) ==
  /\ job[r].op = "delete"
  /\ Change(job[r].id, Absent)
  /\ Over(r) /\ UNCHANGED last

(* An UPDATE that meets no row, an INSERT that meets one, any other error. *)
Abort(r) == job[r] # NoJob /\ Over(r) /\ Quiet

(***************************************************************************)
(* Paging.                                                                 *)
(***************************************************************************)
Visible(u) ==
  {[at |-> row[i].at, id |-> i, owner |-> row[i].owner] :
     i \in {i \in Id : Exists(i) /\ (kind = "roles" \/ row[i].owner = u)}}

Client == CHOOSE u \in User : TRUE

Get(c, limit) == Answer(Visible(Client), c, limit, kind = "roles")

IdsOf(items) == [i \in DOMAIN items |-> items[i].id]

(* A request without a cursor begins a walk.                               *)
FirstPage(limit) ==
  /\ page' = Get(NoCursor, limit)
  /\ walk' = [on |-> page'.status = 200, seen |-> IdsOf(page'.items),
              since |-> {r.id : r \in Visible(Client)}]
  /\ before' = NoPage
  /\ UNCHANGED <<kind, row, last, clock, job>>

NextPage(limit) ==
  /\ page.next # NoCursor
  /\ page' = Get(page.next, limit)
  /\ walk' = IF walk.on THEN [walk EXCEPT !.seen = @ \o IdsOf(page'.items)] ELSE walk
  /\ before' = IF Get(page.cursor, page.limit) = page THEN page ELSE NoPage
  /\ UNCHANGED <<kind, row, last, clock, job>>

PrevPage(limit) ==
  /\ page.prev # NoCursor
  /\ page' = Get(page.prev, limit)
  /\ walk' = NoWalk /\ before' = NoPage
  /\ UNCHANGED <<kind, row, last, clock, job>>

Next ==
  \/ CreateRole \/ Tick
  \/ \E i \in Id : DeleteRole(i)
  \/ \E u \in User : CreateTodo(u)
  \/ \E r \in Request : \/ Merge(r) \/ FlushUpdate(r) \/ FlushInsert(r)
                        \/ FlushDelete(r) \/ Abort(r)
                        \/ \E u \in User, i \in Id, op \in {"update", "delete"},
                              done \in BOOLEAN : ReadTodo(r, u, i, op, done)
  \/ \E limit \in 1..MaxLimit : FirstPage(limit) \/ NextPage(limit) \/ PrevPage(limit)

Spec == Init /\ [][Next]_vars

(***************************************************************************)
(* Properties.                                                             *)
(***************************************************************************)
TypeOK ==
  /\ kind \in {"roles", "todos"} /\ row \in [Id -> Row]
  /\ last \in 0..(IF kind = "roles" THEN MaxRole ELSE MaxTodo) /\ clock \in 1..MaxClock
  /\ \A i \in Id : Exists(i) => i <= last
  /\ \A r \in Request : job[r].id \in 0..last /\ job[r].found \in Row
  /\ page.limit \in 1..MaxLimit /\ page.status \in {0, 200, 500}
  /\ walk.on \in BOOLEAN /\ walk.since \subseteq Id

(* A walk forward to the page without a next cursor has listed every row   *)
(* that was there throughout exactly once, and no row twice, whatever was  *)
(* inserted and deleted between the pages ("get items AFTER the cursor",   *)
(* todo_repository.py:43).                                                 *)
ListedOnce ==
  walk.on =>
    /\ \A i, j \in DOMAIN walk.seen : walk.seen[i] = walk.seen[j] => i = j
    /\ page.next = NoCursor => walk.since \subseteq ToSet(walk.seen)

(* Every page, forward or back, is the rows next to its cursor.            *)
PagesExact ==
  [][page' # page /\ page'.status = 200 => Exact(Visible(Client), page')]_vars

(* Back from a page is the page it followed, if nothing changed and the    *)
(* same number of rows is asked for.                                       *)
BackAgain ==
  [][\A limit \in 1..MaxLimit :
       PrevPage(limit) /\ before # NoPage /\ before.limit = limit
         => page'.items = before.items]_vars

(* After a row going forward, a next cursor exactly when an older row is   *)
(* there ("Cursor for the next page. None if no more items",               *)
(* response.py:45).                                                        *)
NextOffered ==
  [][/\ page' # page /\ page'.status = 200 /\ page'.items # <<>>
     /\ page'.cursor.dir # "prev"
     => (page'.next # NoCursor)
          = \E r \in Visible(Client) : Older(r, Last(page'.items))]_vars

(* A todo is changed, deleted or brought back by a request of its owner    *)
(* only, and never changes hands, though the owner is checked before the   *)
(* transaction ("You do not have permission to update this todo").         *)
OnlyOwnerWrites ==
  [][\A i \in Id : row'[i] # row[i] /\ (Exists(i) \/ i <= last) /\ kind = "todos" =>
       \E r \in Request :
          /\ job[r].id = i /\ job'[r] = NoJob
          /\ Exists(i) => job[r].user = row[i].owner
          /\ row'[i] # Absent => row'[i].owner = job[r].user]_vars

=============================================================================
