------------------------------- MODULE Paging -------------------------------
(***************************************************************************)
(* Cursor pagination of roles, permissions and todos: the query of the     *)
(* list_*_cursor repositories and the answer their routes build from it.   *)
(* A row is a record with its creation time `at' and its `id'; a cursor is *)
(* such a pair and a direction, the content of its base64 text.            *)
(***************************************************************************)
EXTENDS Integers, FiniteSets, SequencesExt

NoCursor == [at |-> 0, id |-> 0, dir |-> "none"]

Newer(r, s) == r.at > s.at \/ (r.at = s.at /\ r.id > s.id)
Older(r, s) == Newer(s, r)

Cursor(r, dir) == [at |-> r.at, id |-> r.id, dir |-> dir]

(* The two orders of ORDER BY: the i-th row has i - 1 rows before it.      *)
NewestFirst(S) ==
  [i \in 1..Cardinality(S) |->
     CHOOSE r \in S : Cardinality({q \in S : Newer(q, r)}) = i - 1]
OldestFirst(S) == Reverse(NewestFirst(S))

(* Mutant: rows of the cursor's own creation time are all passed over.     *)
CursorByTime(S, c) ==
  IF c = NoCursor THEN NewestFirst(S)
  ELSE IF c.dir = "next" THEN NewestFirst({r \in S : r.at < c.at})
  ELSE OldestFirst({r \in S : r.at > c.at})

(* Mutant: one order for both directions.                                  *)
CursorNewestFirst(S, c) ==
  IF c = NoCursor THEN NewestFirst(S)
  ELSE IF c.dir = "next" THEN NewestFirst({r \in S : Older(r, c)})
  ELSE NewestFirst({r \in S : Newer(r, c)})

(* WHERE and ORDER BY.                                                     *)
ApplyCursor(S, c) ==
  IF c = NoCursor THEN NewestFirst(S)
  ELSE IF c.dir = "next" THEN NewestFirst({r \in S : Older(r, c)})
  ELSE OldestFirst({r \in S : Newer(r, c)})

UpTo(s, n) == SubSeq(s, 1, IF Len(s) < n THEN Len(s) ELSE n)

(* Mutant: LIMIT limit, so that there never seem to be more.               *)
FetchExactly(S, c, limit) ==
  LET fetched == UpTo(ApplyCursor(S, c), limit)
  IN [items |-> IF c # NoCursor /\ c.dir = "prev" THEN Reverse(fetched) ELSE fetched,
      more |-> Len(fetched) > limit]

(* One row more than asked for tells whether there are more.               *)
ListCursor(S, c, limit) ==
  LET fetched == UpTo(ApplyCursor(S, c), limit + 1)
      models == UpTo(fetched, limit)
  IN [items |-> IF c # NoCursor /\ c.dir = "prev" THEN Reverse(models) ELSE models,
      more |-> Len(fetched) > limit]

(* The answer of the routes.  A cursor needs the creation time of an item: *)
(* the entities Role and Permission carry it, Todo does not, and reading   *)
(* it from one raises.  The cursors are those the routes gave out: a text  *)
(* that is none raises in decode_cursor, an answer without a page.         *)
Answer(S, c, limit, dated) ==
  LET found == ListCursor(S, c, limit)
      some == found.items # <<>>
      next == found.more /\ some
      prev == c # NoCursor /\ some
  IN IF ~dated /\ (next \/ prev)
     THEN [items |-> <<>>, next |-> NoCursor, prev |-> NoCursor, has_next |-> FALSE,
           has_prev |-> FALSE, cursor |-> c, limit |-> limit, status |-> 500]
     ELSE [items |-> found.items,
           next |-> IF next THEN Cursor(Last(found.items), "next") ELSE NoCursor,
           prev |-> IF prev THEN Cursor(Head(found.items), "prev") ELSE NoCursor,
           has_next |-> found.more, has_prev |-> c # NoCursor,
           cursor |-> c, limit |-> limit, status |-> 200]

(***************************************************************************)
(* The reference: a page without its computation.                          *)
(***************************************************************************)
Candidates(S, c) ==
  IF c = NoCursor THEN S
  ELSE {r \in S : IF c.dir = "next" THEN Older(r, c) ELSE Newer(r, c)}

(* The rows next to the cursor, as many as asked for, the newest first.    *)
Exact(S, page) ==
  LET in == ToSet(page.items)
      out == Candidates(S, page.cursor) \ in
      forward == page.cursor = NoCursor \/ page.cursor.dir = "next"
  IN /\ in \subseteq Candidates(S, page.cursor)
     /\ \A i, j \in DOMAIN page.items : i < j => Newer(page.items[i], page.items[j])
     /\ Len(page.items) <= page.limit
     /\ out # {} => Len(page.items) = page.limit
     /\ \A r \in in, s \in out : IF forward THEN Newer(r, s) ELSE Newer(s, r)
=============================================================================
