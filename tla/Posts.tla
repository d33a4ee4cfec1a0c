-------------------------------- MODULE Posts ------------------------------
(***************************************************************************)
(* POST /auth/register and POST /todos/ inside the middlewares they share. *)
(*                                                                         *)
(* Each attempt to create a todo inserts another row: nothing but the      *)
(* idempotency middleware keeps a repeated one from doing so again.  A     *)
(* todo is named by the request that inserted it; that it is changed or    *)
(* deleted later is Lists.                                                 *)
(***************************************************************************)
EXTENDS Registration

VARIABLES todo,   \* the todo a request has committed
          excuse  \* history: the keys that may lead to a second todo

vars == <<requestVars, registerVars, todo, excuse>>

NoTodo == [owner |-> None, key |-> None, title |-> None]

(* The Idempotency-Keys a caller uses for todos.                           *)
TodoKey == {"todo"} \X Auth \X Key

Init ==
  /\ RequestsInit /\ RegistrationInit
  /\ todo = [r \in Request |-> NoTodo]
  /\ excuse = {}

(***************************************************************************)
(* The handler.                                                            *)
(***************************************************************************)

(* get_current_user finds no user in the tenant, 404, or                   *)
(* require_permission no permission, 403.                                  *)
Permit(r, refusal) ==
  /\ at[r] = "permit"
  /\ IF refusal = 0 THEN Goto(r, "create") /\ UNCHANGED answer
     ELSE Reply(r, refusal, None, "leave")
  /\ UNCHANGED <<of, cache, active, hits, registerVars, todo>>

Written(r) == [owner |-> of[r].auth, key |-> of[r].key, title |-> of[r].body]

(* INSERT and COMMIT: nothing waits for the new row, nobody sees it        *)
(* between them.                                                           *)
Create(r) ==
  /\ at[r] = "create"
  /\ todo' = [todo EXCEPT ![r] = Written(r)]
  /\ Answered(r, 201, r)
  /\ UNCHANGED <<of, cache, active, hits, registerVars>>

CreateUnconfirmed(r) ==
  /\ at[r] = "create"
  /\ todo' = [todo EXCEPT ![r] = Written(r)]
  /\ Reply(r, 500, None, "leave")
  /\ UNCHANGED <<of, cache, active, hits, registerVars>>

(* The database fails, the title is blank: an exception before the COMMIT. *)
AbortTodo(r) ==
  /\ at[r] \in {"permit", "create"}
  /\ Reply(r, 500, None, "leave")
  /\ UNCHANGED <<of, cache, active, hits, registerVars, todo>>

(***************************************************************************)
(* Requests and handlers together.                                         *)
(***************************************************************************)
Middleware(r) ==
  /\ \/ \E valid \in BOOLEAN : Csrf(r, valid)
     \/ Lookup(r) \/ Limit(r) \/ Store(r) \/ RedisFails(r) \/ Leave(r)
     \/ \E length \in {"fits", "exceeds", "missing", "malformed"} : Size(r, length)
  /\ UNCHANGED <<registerVars, todo>>

Handler(r) ==
  \/ Register(r) /\ UNCHANGED todo
  \/ (\E refusal \in {0, 403, 404} : Permit(r, refusal)) \/ Create(r) \/ CreateUnconfirmed(r)

Abort(r) == AbortTodo(r) \/ (AbortRegister(r) /\ UNCHANGED todo)

Sources == {Identified(header, host, token) : header, host, token \in Tenant \cup {None}}

Arrive(r) ==
  /\ \/ \E status \in {400, 401} : Stray(r, status)
     \/ \E route \in Route, key \in Key \cup {None}, auth \in Auth, tenant \in Sources :
        \E body \in IF route = "register" THEN Email ELSE Title :
          Enter(r, [route |-> route, key |-> key, auth |-> auth, tenant |-> tenant,
                    body |-> body])
  /\ UNCHANGED <<registerVars, todo>>

(* The transactions of a dead process are rolled back.                     *)
Crash ==
  /\ \E r \in Request : at[r] \notin Outside
  /\ Die
  /\ rows' = [r \in Request |-> {}]
  /\ UNCHANGED <<account, try, mails, todo>>

Passes ==
  /\ (\E p \in Route : Window(p)) \/ (\E k \in CacheKey : Expire(k))
  /\ UNCHANGED <<registerVars, todo>>

Change ==
  \/ \E r \in Request : Arrive(r) \/ Middleware(r) \/ Handler(r) \/ Abort(r)
  \/ Passes
  \/ Crash

(* The requests that a key has let through and that have not come back.    *)
Working(k) ==
  {r \in Request : at[r] \in {"size", "limit", "permit", "create", "store"} /\ KeyOf(r) = k}

(* What keeps a key from doing its work: two requests look it up before    *)
(* either has stored its answer, the answer expires, or the one who has    *)
(* made the todo is not told so and has stored nothing.                    *)
Excuses ==
  excuse' = excuse \cup
    {k \in TodoKey :
      \/ \E r, s \in Working(k)' : r # s
      \/ cache[k] # NoEntry /\ cache'[k] = NoEntry
      \/ /\ cache'[k] = NoEntry
         /\ \E r \in Working(k) :
              r \notin Working(k)' /\ todo'[r] # NoTodo /\ answer'[r].status # 201}

Next == Change /\ Excuses

(* The next step of a request, whatever it leads to.                       *)
Step(r) == (Middleware(r) \/ Handler(r)) /\ Excuses

Spec == Init /\ [][Next]_vars /\ \A r \in Request : WF_vars(Step(r))

(***************************************************************************)
(* Properties.                                                             *)
(***************************************************************************)
Under(r) == at[r] \notin Outside

TypeOK ==
  /\ at \in [Request -> Phase] /\ of \in [Request -> Asked]
  /\ answer \in [Request -> Answer] /\ cache \in [CacheKey -> Entry]
  /\ active \in 0..Cardinality(Request) /\ hits \in [Route -> 0..Times]
  /\ account \in [Email -> [tenant : Tenant \cup {None}, rows : SUBSET Whole]]
  /\ rows \in [Request -> SUBSET Whole]
  /\ try \in [Request -> 0..Len(Providers)] /\ mails \in [Email -> Nat]
  /\ todo \in [Request -> [owner : Auth, key : Key \cup {None}, title : Title] \cup {NoTodo}]
  /\ excuse \subseteq TodoKey

(* The gauge is the number of requests within the metrics middleware, also *)
(* after exceptions raised anywhere and after a restart (metrics.py:17-27).*)
GaugeTrue == active = Cardinality({r \in Request : Under(r)})

(* Whoever is answered 201, by the handler or from the cache, is told of a *)
(* todo that is committed, belongs to that caller and has the title that   *)
(* was asked for (create_todo/handler.py:22-25, idempotency.py:32-57).     *)
ToldTrue ==
  \A r \in Request : answer[r].status = 201 =>
    \E s \in Request :
      /\ answer[r].told = s /\ todo[s] # NoTodo
      /\ todo[s].owner = of[r].auth /\ todo[s].title = of[r].body

(* An Idempotency-Key of a caller leads to one todo, unless requests with  *)
(* it overlapped, its answer expired, or a failure or the end of the       *)
(* process came between the commit and the SETEX (idempotency.py:32-57).   *)
SecondTodoExcused ==
  \A r, s \in Request :
    r # s /\ todo[r] # NoTodo /\ todo[r].key # None
          /\ todo[r].owner = todo[s].owner /\ todo[r].key = todo[s].key
    => <<"todo", todo[r].owner, todo[r].key>> \in excuse

(* Registration is Accounts, whatever is retried, lost or repeated: one    *)
(* whole account for an address, mails only to accounts and no more than   *)
(* there are providers.                                                    *)
Promise == INSTANCE Accounts WITH Tries <- Len(Providers)
ImplementsAccounts == Promise!Spec

(* Every request under way is answered, unless the process dies: nobody    *)
(* waits for ever for the uncommitted row of another.                      *)
EveryRequestAnswered == \A r \in Request : Under(r) ~> ~Under(r)
=============================================================================
