------------------------------ MODULE Requests -----------------------------
(***************************************************************************)
(* The middlewares around a POST handler, outermost first: tenant, logging,*)
(* metrics, CSRF, idempotency, request size, and the global rate limit of  *)
(* each route.  Two routes are modelled, POST /auth/register and POST      *)
(* /todos/; what identifies a body is the address or the title.  Each      *)
(* request is an attempt of one client; a retry is another request that    *)
(* says the same.                                                          *)
(*                                                                         *)
(* An exception passes through every middleware: those that count or       *)
(* record do so on the way, the others are skipped, and the server answers *)
(* 500.  An answer goes back through all of them.                          *)
(***************************************************************************)
EXTENDS Integers, FiniteSets, Sequences

CONSTANTS Request, Key, Tenant, Email, Title,
          Auth,  \* Authorization headers; a caller's, with a valid access token
          Times  \* RATE_LIMIT, the requests of a client to a route in a window

ASSUME RequestsAssumption ==
  /\ IsFiniteSet(Request) /\ Auth # {}
  /\ "none" \notin Tenant \cup Key \cup Auth \cup Request
  /\ Times \in Nat

VARIABLES at,      \* where a request is
          of,      \* what it asks, and the tenant it was taken to be of
          answer,  \* what it is answered
          cache,   \* the stored answers in Redis
          active,  \* the gauge of requests under way
          hits     \* the requests to a route counted in this window

requestVars == <<at, of, answer, cache, active, hits>>

None == "none"
Outside == {"idle", "done", "lost"}
Route == {"register", "todo"}
Handling == {"check", "insert", "grant", "commit", "mail", "permit", "create"}
Phase == Outside \cup Handling \cup {"csrf", "lookup", "size", "limit", "store", "leave"}

Asked == [route : Route, key : Key \cup {None}, auth : Auth, tenant : Tenant \cup {None},
          body : Email \cup Title \cup {None}]
Nothing == [route |-> "register", key |-> None, auth |-> CHOOSE a \in Auth : TRUE,
            tenant |-> None, body |-> None]

(* An answer tells of the row a request has made, if of any.               *)
Answer == [status : {0, 201, 400, 401, 403, 404, 409, 411, 413, 429, 500},
           told : Request \cup {None}]
Silent == [status |-> 0, told |-> None]

(* What is stored of an answer, under the Authorization header, the path   *)
(* and the Idempotency-Key.                                                *)
Entry == [status : {0, 201}, told : Request \cup {None},
          body : Email \cup Title \cup {None}]
NoEntry == [status |-> 0, told |-> None, body |-> None]
CacheKey == Route \X Auth \X Key
KeyOf(r) == <<of[r].route, of[r].auth, of[r].key>>

RequestsInit ==
  /\ at = [r \in Request |-> "idle"]
  /\ of = [r \in Request |-> Nothing]
  /\ answer = [r \in Request |-> Silent]
  /\ cache = [k \in CacheKey |-> NoEntry]
  /\ active = 0 /\ hits = [p \in Route |-> 0]

Goto(r, p) == at' = [at EXCEPT ![r] = p]

Reply(r, status, told, p) ==
  /\ answer' = [answer EXCEPT ![r] = [status |-> status, told |-> told]]
  /\ Goto(r, p)

(* The first of header, host and token that names a tenant.                *)
Identified(header, host, token) ==
  IF header # None THEN header ELSE IF host # None THEN host ELSE token

(* No tenant, or no valid token for the todos: refused before anything is  *)
(* counted.                                                                *)
Stray(r, status) ==
  /\ at[r] = "idle"
  /\ Reply(r, status, None, "done")
  /\ UNCHANGED <<of, cache, active, hits>>

(* Mutant: the gauge counts only what passes the CSRF check.               *)
EnterUncounted(r, asked) ==
  /\ at[r] = "idle" /\ asked.tenant # None
  /\ of' = [of EXCEPT ![r] = asked]
  /\ Goto(r, "csrf")
  /\ UNCHANGED <<answer, cache, active, hits>>

Enter(r, asked) ==
  /\ at[r] = "idle" /\ asked.tenant # None
  /\ of' = [of EXCEPT ![r] = asked]
  /\ active' = active + 1
  /\ Goto(r, "csrf")
  /\ UNCHANGED <<answer, cache, hits>>

(* Double submit: header and cookie carry one token.                       *)
Csrf(r, valid) ==
  /\ at[r] = "csrf"
  /\ IF valid
     THEN Goto(r, IF of[r].key = None THEN "size" ELSE "lookup") /\ UNCHANGED answer
     ELSE Reply(r, 403, None, "leave")
  /\ UNCHANGED <<of, cache, active, hits>>

(* Mutant: the stored answer is given whatever the body.                   *)
LookupAnyBody(r) ==
  /\ at[r] = "lookup"
  /\ LET c == cache[KeyOf(r)]
     IN IF c = NoEntry THEN Goto(r, "size") /\ UNCHANGED answer
        ELSE Reply(r, c.status, c.told, "leave")
  /\ UNCHANGED <<of, cache, active, hits>>

(* Nothing stored: on to the handler.  An answer to another body: 409.     *)
Lookup(r) ==
  /\ at[r] = "lookup"
  /\ LET c == cache[KeyOf(r)]
     IN IF c = NoEntry THEN Goto(r, "size") /\ UNCHANGED answer
        ELSE IF c.body # of[r].body THEN Reply(r, 409, None, "leave")
        ELSE Reply(r, c.status, c.told, "leave")
  /\ UNCHANGED <<of, cache, active, hits>>

(* LimitRequestSizeMiddleware, inside idempotency: the Content-Length is   *)
(* over the limit, is not there, or is no number, which int() raises on.   *)
Size(r, length) ==
  /\ at[r] = "size"
  /\ \/ length = "fits" /\ Goto(r, "limit") /\ UNCHANGED answer
     \/ length = "exceeds" /\ Reply(r, 413, None, "leave")
     \/ length = "missing" /\ Reply(r, 411, None, "leave")
     \/ length = "malformed" /\ Reply(r, 500, None, "leave")
  /\ UNCHANGED <<of, cache, active, hits>>

(* The limiter counts what it lets through, inside the idempotency         *)
(* middleware: a replay costs nothing.                                     *)
Limit(r) ==
  /\ at[r] = "limit"
  /\ LET p == of[r].route
     IN IF hits[p] < Times
        THEN /\ hits' = [hits EXCEPT ![p] = @ + 1]
             /\ Goto(r, IF p = "register" THEN "check" ELSE "permit")
             /\ UNCHANGED answer
        ELSE Reply(r, 429, None, "leave") /\ UNCHANGED hits
  /\ UNCHANGED <<of, cache, active>>

Window(p) ==
  /\ hits[p] > 0 /\ hits' = [hits EXCEPT ![p] = 0]
  /\ UNCHANGED <<at, of, answer, cache, active>>

(* What the handler answers is stored if it was keyed and a success.       *)
Answered(r, status, told) ==
  Reply(r, status, told, IF of[r].key # None /\ status = 201 THEN "store" ELSE "leave")

EntryOf(r) == [status |-> answer[r].status, told |-> answer[r].told, body |-> of[r].body]

(* Mutant: SETEX is forgotten.                                             *)
StoreNothing(r) ==
  /\ at[r] = "store"
  /\ Goto(r, "leave")
  /\ UNCHANGED <<of, answer, cache, active, hits>>

(* SETEX.                                                                  *)
Store(r) ==
  /\ at[r] = "store"
  /\ cache' = [cache EXCEPT ![KeyOf(r)] = EntryOf(r)]
  /\ Goto(r, "leave")
  /\ UNCHANGED <<of, answer, active, hits>>

(* Redis fails or times out, in the middleware or the limiter: an          *)
(* exception, after a SETEX that may or may not have been done.            *)
RedisFails(r) ==
  /\ at[r] \in {"lookup", "limit", "store"}
  /\ \/ UNCHANGED cache
     \/ at[r] = "store" /\ cache' = [cache EXCEPT ![KeyOf(r)] = EntryOf(r)]
  /\ Reply(r, 500, None, "leave")
  /\ UNCHANGED <<of, active, hits>>

(* The TTL has passed.                                                     *)
Expire(k) ==
  /\ cache[k] # NoEntry
  /\ cache' = [cache EXCEPT ![k] = NoEntry]
  /\ UNCHANGED <<at, of, answer, active, hits>>

(* Mutant: the gauge goes down after an answer, not after an exception.    *)
LeaveOnAnswer(r) ==
  /\ at[r] = "leave"
  /\ active' = IF answer[r].status = 500 THEN active ELSE active - 1
  /\ Goto(r, "done")
  /\ UNCHANGED <<of, answer, cache, hits>>

(* finally: the gauge goes down.                                           *)
Leave(r) ==
  /\ at[r] = "leave"
  /\ active' = active - 1
  /\ Goto(r, "done")
  /\ UNCHANGED <<of, answer, cache, hits>>

(* The process dies with every request in it, none of them is answered.    *)
(* A new process counts from zero; Redis keeps what it has.                *)
Die ==
  LET out == {r \in Request : at[r] \in Outside}
  IN /\ at' = [r \in Request |-> IF r \in out THEN at[r] ELSE "lost"]
     /\ of' = [r \in Request |-> IF r \in out THEN of[r] ELSE Nothing]
     /\ answer' = [r \in Request |-> IF r \in out THEN answer[r] ELSE Silent]
     /\ active' = 0
     /\ UNCHANGED <<cache, hits>>
=============================================================================
