------------------------------ MODULE PostsProofs ---------------------------
(***************************************************************************)
(* Proofs about Posts for any requests, keys, tenants, addresses, titles   *)
(* and providers.  What the properties say is not inductive.  Of the       *)
(* registrations, Accounted says which rows a request holds where, and     *)
(* that no two requests hold or mail the same address; of the todos,       *)
(* Posted says that a stored answer is about a todo of its caller, and     *)
(* that a key without an excuse has one request at work at a time, nothing *)
(* stored while it is, and an answer stored once its todo is made.         *)
(***************************************************************************)
EXTENDS Posts, TLAPS, FiniteSetTheorems

Busy == {"grant", "commit", "mail"}
Before == {"idle", "csrf", "lookup", "size", "limit", "check", "insert", "grant", "commit"}
Works == {"size", "limit", "permit", "create", "store"}

(***************************************************************************)
(* The invariant of the registrations.                                     *)
(***************************************************************************)
Typed ==
  /\ at \in [Request -> Phase] /\ of \in [Request -> Asked]
  /\ hits \in [Route -> 0..Times]
  /\ account \in [Email -> [tenant : Tenant \cup {None}, rows : SUBSET Whole]]
  /\ rows \in [Request -> SUBSET Whole]
  /\ try \in [Request -> 0..Len(Providers)] /\ mails \in [Email -> Nat]

AskedWell ==
  \A r \in Request :
    /\ Under(r) => /\ of[r].tenant \in Tenant
                   /\ of[r].route = "register" => of[r].body \in Email
                   /\ of[r].route = "todo" => of[r].body \in Title
    /\ at[r] \in {"lookup", "store"} => of[r].key \in Key
    /\ at[r] \in {"check", "insert", "grant", "commit", "mail"} => of[r].route = "register"
    /\ at[r] \in {"permit", "create", "store"} => of[r].route = "todo"

RowsHeld ==
  \A r \in Request :
    rows[r] = IF at[r] = "grant" THEN Whole \ {"role"}
              ELSE IF at[r] = "commit" THEN Whole ELSE {}

Exclusive ==
  \A r, s \in Request :
    at[r] \in Busy /\ at[s] \in Busy /\ Mine(r) = Mine(s) => r = s

Opening ==
  \A r \in Request :
    /\ at[r] \in {"grant", "commit"} => ~Registered(Mine(r))
    /\ at[r] = "mail" => Registered(Mine(r)) /\ mails[Mine(r)] <= try[r]
    /\ at[r] \in Before => try[r] = 0

AccountsWhole ==
  \A e \in Email :
    /\ Registered(e) => account[e].rows = Whole /\ account[e].tenant \in Tenant
    /\ ~Registered(e) => mails[e] = 0

Accounted == Typed /\ AskedWell /\ RowsHeld /\ Exclusive /\ Opening /\ AccountsWhole

(***************************************************************************)
(* The invariant of the todos.                                             *)
(***************************************************************************)
Todo == [owner : Auth, key : Key \cup {None}, title : Title]

Backed(todos, s, auth, title) ==
  s \in Request /\ todos[s] # NoTodo /\ todos[s].owner = auth /\ todos[s].title = title

TodoOf(s, k) == todo[s] # NoTodo /\ todo[s].owner = k[2] /\ todo[s].key = k[3]

PostsTyped ==
  /\ answer \in [Request -> Answer] /\ cache \in [CacheKey -> Entry]
  /\ todo \in [Request -> Todo \cup {NoTodo}]
  /\ excuse \subseteq TodoKey

AnswersKept ==
  \A r \in Request :
    /\ at[r] = "idle" => answer[r] = Silent
    /\ at[r] = "store" => answer[r] = [status |-> 201, told |-> r] /\ todo[r] = Written(r)
    /\ answer[r].status = 201 => Backed(todo, answer[r].told, of[r].auth, of[r].body)

TodosKept ==
  \A r \in Request : todo[r] # NoTodo => at[r] \in {"store", "leave", "done", "lost"}

CacheKept ==
  \A k \in CacheKey :
    cache[k] # NoEntry =>
      cache[k].status = 201 /\ Backed(todo, cache[k].told, k[2], cache[k].body)

(* A key without an excuse.                                                *)
Sound(k) ==
  /\ \A r, s \in Working(k) : r = s
  /\ Working(k) # {} => cache[k] = NoEntry
  /\ \A s \in Request : TodoOf(s, k) /\ s \notin Working(k) => cache[k] # NoEntry
  /\ \A r, s \in Request : TodoOf(r, k) /\ TodoOf(s, k) => r = s

KeysSound == \A k \in TodoKey \ excuse : Sound(k)

Posted == PostsTyped /\ AnswersKept /\ TodosKept /\ CacheKept /\ KeysSound

Inv == Accounted /\ Posted

(* The number of providers is a natural number.                            *)
LEMMA ProvidersFinite == Len(Providers) \in Nat
<1>. DEFINE P == {"ses", "sendgrid", "smtp"}
<1>1. <<Chosen>> \in Seq(P) /\ <<>> \in Seq(P) /\ <<"smtp">> \in Seq(P)
  BY RegistrationAssumption
<1>2. <<Chosen>> \o <<"smtp">> \in Seq(P) /\ <<>> \o <<"smtp">> \in Seq(P)
  BY <1>1
<1>3. Providers \in Seq(P)
  BY <1>1, <1>2 DEF Providers
<1>. QED BY <1>3

LEMMA InitInv == Init => Inv
<1>. SUFFICES ASSUME Init PROVE Inv
  OBVIOUS
<1>. USE DEF Init, RequestsInit, RegistrationInit
<1>1. \A e \in Email : ~Registered(e)
  BY DEF Registered
<1>2. Typed
  BY ProvidersFinite, RequestsAssumption
  DEF Typed, Phase, Outside, Asked, Nothing, NoAccount, Whole, None, Route
<1>3. AskedWell /\ RowsHeld /\ Exclusive /\ Opening
  BY DEF AskedWell, RowsHeld, Exclusive, Opening, Under, Outside, Busy, Before
<1>4. AccountsWhole
  BY <1>1 DEF AccountsWhole
<1>5. PostsTyped
  BY DEF PostsTyped, Answer, Silent, Entry, NoEntry
<1>6. AnswersKept /\ TodosKept /\ CacheKept
  BY DEF AnswersKept, TodosKept, CacheKept, Silent
<1>7. KeysSound
  BY DEF KeysSound, Sound, TodoOf, Working
<1>. QED BY <1>2, <1>3, <1>4, <1>5, <1>6, <1>7 DEF Inv, Accounted, Posted

(***************************************************************************)
(* Steps that leave the accounts alone.                                    *)
(***************************************************************************)
Moves(r, p) ==
  /\ p \in Phase /\ at' = [at EXCEPT ![r] = p]
  /\ UNCHANGED <<of, registerVars>> /\ hits' \in [Route -> 0..Times]
  /\ at[r] \notin Outside \cup {"grant", "commit"}
  /\ p \notin Busy \cup {"idle"} /\ (p \in Before => at[r] \in Before)
  /\ p \in {"lookup", "store"} => of[r].key \in Key
  /\ p \in {"check", "insert"} => of[r].route = "register"
  /\ p \in {"permit", "create", "store"} => of[r].route = "todo"

LEMMA MovesAccounted ==
  ASSUME Accounted, NEW r \in Request, NEW p, Moves(r, p)
  PROVE  Accounted'
<1>. USE DEF Accounted, Moves, registerVars
<1>1. Typed'
  BY DEF Typed
<1>2. AskedWell'
  BY DEF Typed, AskedWell, Under, Outside, Busy
<1>3. RowsHeld'
  BY DEF Typed, RowsHeld, Busy
<1>4. Exclusive'
  BY DEF Typed, Exclusive, Busy, Mine
<1>5. Opening'
  BY DEF Typed, Opening, Before, Mine, Registered, Busy
<1>6. AccountsWhole'
  BY DEF Typed, AccountsWhole, Registered
<1>. QED BY <1>1, <1>2, <1>3, <1>4, <1>5, <1>6

(***************************************************************************)
(* What a step of one request does to answers, cache and todos.            *)
(***************************************************************************)
Creates(r) == at[r] = "create" /\ todo' = [todo EXCEPT ![r] = Written(r)]
Stores(r) == at[r] = "store" /\ cache' = [cache EXCEPT ![KeyOf(r)] = EntryOf(r)]

Answers(r, p, a) ==
  /\ p \in Phase \ {"idle"} /\ a \in Answer
  /\ at' = [at EXCEPT ![r] = p] /\ answer' = [answer EXCEPT ![r] = a] /\ UNCHANGED of
  /\ UNCHANGED todo \/ (Creates(r) /\ p \in {"store", "leave"})
  /\ UNCHANGED cache \/ Stores(r)
  /\ at[r] \in {"store", "leave"} => p \in {"leave", "done"}
  /\ at[r] \notin {"done", "lost"}
  /\ p \in Works => \/ at[r] \in Works \/ of[r].key = None
                    \/ at[r] = "lookup" /\ cache[KeyOf(r)] = NoEntry
  /\ p = "store" => Creates(r) /\ a = [status |-> 201, told |-> r]
  /\ at[r] = "store" /\ a.status = 201 => Stores(r)
  /\ Creates(r) /\ p = "leave" => a.status # 201 \/ of[r].key = None
  /\ a.status = 201 =>
       \/ a = answer[r]
       \/ Creates(r) /\ a.told = r
       \/ Backed(todo, a.told, of[r].auth, of[r].body)

LEMMA AnswersPostsTyped ==
  ASSUME Inv, NEW r \in Request, NEW p, NEW a, Answers(r, p, a), Excuses
  PROVE  PostsTyped'
<1>1. answer' \in [Request -> Answer]
  BY DEF Inv, Posted, Answers, PostsTyped
<1>2. todo' \in [Request -> Todo \cup {NoTodo}]
  <2>1. CASE Creates(r)
    <3>1. Written(r) \in Todo
      BY <2>1 DEF Inv, Accounted, Typed, AskedWell, Creates, Under, Outside, Written, Asked, Todo
    <3>. QED BY <2>1, <3>1 DEF Inv, Posted, PostsTyped, Creates
  <2>. QED BY <2>1 DEF Inv, Posted, Answers, PostsTyped
<1>3. cache' \in [CacheKey -> Entry]
  <2>1. CASE Stores(r)
    <3>1. of[r] \in Asked /\ of[r].key \in Key /\ answer[r] \in Answer
      BY <2>1 DEF Inv, Accounted, Typed, AskedWell, Posted, PostsTyped, Stores
    <3>2. answer[r] = [status |-> 201, told |-> r]
      BY <2>1 DEF Inv, Posted, AnswersKept, Stores
    <3>3. EntryOf(r) \in Entry
      BY <3>1, <3>2 DEF EntryOf, Entry, Asked, Answer
    <3>. HIDE DEF EntryOf, KeyOf, Entry
    <3>. QED BY <2>1, <3>3 DEF Inv, Posted, PostsTyped, Stores
  <2>. QED BY <2>1 DEF Inv, Posted, Answers, PostsTyped
<1>4. excuse' \subseteq TodoKey
  BY DEF Inv, Posted, PostsTyped, Excuses
<1>. QED BY <1>1, <1>2, <1>3, <1>4 DEF PostsTyped

LEMMA CreatesBacked ==
  ASSUME Inv, NEW r \in Request, Creates(r)
  PROVE  /\ todo'[r] = Written(r) /\ Written(r) # NoTodo /\ Written(r) \in Todo
         /\ Backed(todo', r, of[r].auth, of[r].body) /\ todo[r] = NoTodo
         /\ \A s \in Request \ {r} : todo'[s] = todo[s]
<1>1. Written(r) \in Todo
  BY DEF Inv, Accounted, Typed, AskedWell, Creates, Under, Outside, Written, Asked, Todo
<1>2. todo'[r] = Written(r) /\ \A s \in Request \ {r} : todo'[s] = todo[s]
  BY DEF Creates, Inv, Posted, PostsTyped
<1>3. todo[r] = NoTodo
  BY DEF Creates, Inv, Posted, TodosKept
<1>. QED BY <1>1, <1>2, <1>3, RequestsAssumption DEF Written, NoTodo, None, Todo, Backed

(* A todo is there to stay.                                                *)
LEMMA BackedStays ==
  ASSUME Inv, NEW r \in Request, NEW p, NEW a, Answers(r, p, a),
         NEW s, NEW auth, NEW title, Backed(todo, s, auth, title)
  PROVE  Backed(todo', s, auth, title)
<1>1. CASE UNCHANGED todo
  BY <1>1
<1>2. CASE Creates(r)
  <2>1. s \in Request /\ s # r /\ todo'[s] = todo[s]
    BY <1>2, CreatesBacked DEF Backed
  <2>. QED BY <2>1 DEF Backed
<1>. QED BY <1>1, <1>2 DEF Answers

LEMMA AnswersAnswersKept ==
  ASSUME Inv, NEW r \in Request, NEW p, NEW a, Answers(r, p, a)
  PROVE  AnswersKept'
<1>1. of' = of /\ \A s \in Request : Written(s)' = Written(s)
  BY DEF Answers, Written
<1>. SUFFICES ASSUME NEW s \in Request
              PROVE  /\ at'[s] = "idle" => answer'[s] = Silent
                     /\ at'[s] = "store" => /\ answer'[s] = [status |-> 201, told |-> s]
                                            /\ todo'[s] = Written(s)
                     /\ answer'[s].status = 201 =>
                          Backed(todo', answer'[s].told, of[s].auth, of[s].body)
  BY <1>1 DEF AnswersKept, Backed, Written
<1>2. CASE s # r
  <2>1. at'[s] = at[s] /\ answer'[s] = answer[s]
    BY <1>2 DEF Answers, Inv, Posted, PostsTyped, Accounted, Typed
  <2>2. todo'[s] = todo[s]
    BY <1>2, CreatesBacked DEF Answers
  <2>3. answer[s].status = 201 => Backed(todo', answer[s].told, of[s].auth, of[s].body)
    <3>. SUFFICES ASSUME answer[s].status = 201
                  PROVE  Backed(todo', answer[s].told, of[s].auth, of[s].body)
      OBVIOUS
    <3>1. Backed(todo, answer[s].told, of[s].auth, of[s].body)
      BY DEF Inv, Posted, AnswersKept
    <3>. QED BY <3>1, BackedStays
  <2>. QED BY <2>1, <2>2, <2>3 DEF Inv, Posted, AnswersKept
<1>3. CASE s = r
  <2>1. at'[r] = p /\ answer'[r] = a /\ p # "idle"
    BY DEF Answers, Inv, Posted, PostsTyped, Accounted, Typed
  <2>2. p = "store" => a = [status |-> 201, told |-> r] /\ todo'[r] = Written(r)
    BY CreatesBacked DEF Answers
  <2>3. ASSUME a.status = 201 PROVE Backed(todo', a.told, of[r].auth, of[r].body)
    <3>1. CASE Backed(todo, a.told, of[r].auth, of[r].body)
      BY <3>1, BackedStays
    <3>2. CASE a = answer[r]
      <4>1. Backed(todo, a.told, of[r].auth, of[r].body)
        BY <2>3, <3>2 DEF Inv, Posted, AnswersKept
      <4>. QED BY <4>1, BackedStays
    <3>3. CASE Creates(r) /\ a.told = r
      BY <3>3, CreatesBacked
    <3>. QED BY <2>3, <3>1, <3>2, <3>3 DEF Answers
  <2>. QED BY <1>3, <2>1, <2>2, <2>3
<1>. QED BY <1>2, <1>3

LEMMA AnswersTodosKept ==
  ASSUME Inv, NEW r \in Request, NEW p, NEW a, Answers(r, p, a)
  PROVE  TodosKept'
<1>. SUFFICES ASSUME NEW s \in Request, todo'[s] # NoTodo
              PROVE  at'[s] \in {"store", "leave", "done", "lost"}
  BY DEF TodosKept
<1>1. CASE s # r
  BY <1>1 DEF Answers, Creates, Inv, Posted, PostsTyped, TodosKept, Accounted, Typed
<1>2. CASE s = r
  <2>1. at'[r] = p
    BY DEF Answers, Inv, Accounted, Typed
  <2>2. CASE UNCHANGED todo
    BY <1>2, <2>1, <2>2 DEF Answers, Inv, Posted, TodosKept
  <2>. QED BY <1>2, <2>1, <2>2 DEF Answers
<1>. QED BY <1>1, <1>2

(* What is stored was answered 201 and is about the todo just made.        *)
LEMMA StoresEntry ==
  ASSUME Inv, NEW r \in Request, Stores(r)
  PROVE  /\ EntryOf(r).status = 201 /\ EntryOf(r) # NoEntry
         /\ Backed(todo, EntryOf(r).told, of[r].auth, EntryOf(r).body)
         /\ KeyOf(r) \in CacheKey
<1>1. at[r] = "store" /\ answer[r] = [status |-> 201, told |-> r]
  BY DEF Stores, Inv, Posted, AnswersKept
<1>2. Backed(todo, answer[r].told, of[r].auth, of[r].body)
  BY <1>1 DEF Inv, Posted, AnswersKept
<1>3. of[r] \in Asked /\ of[r].key \in Key
  BY <1>1 DEF Inv, Accounted, Typed, AskedWell
<1>. QED BY <1>1, <1>2, <1>3 DEF EntryOf, NoEntry, KeyOf, CacheKey, Asked

LEMMA AnswersCacheKept ==
  ASSUME Inv, NEW r \in Request, NEW p, NEW a, Answers(r, p, a)
  PROVE  CacheKept'
<1>. SUFFICES ASSUME NEW k \in CacheKey, cache'[k] # NoEntry
              PROVE  /\ cache'[k].status = 201
                     /\ Backed(todo', cache'[k].told, k[2], cache'[k].body)
  BY DEF CacheKept
<1>1. CASE cache'[k] = cache[k]
  <2>1. cache[k].status = 201 /\ Backed(todo, cache[k].told, k[2], cache[k].body)
    BY <1>1 DEF Inv, Posted, CacheKept
  <2>2. Backed(todo', cache[k].told, k[2], cache[k].body)
    BY <2>1, BackedStays
  <2>. QED BY <1>1, <2>1, <2>2
<1>2. CASE cache'[k] # cache[k]
  <2>1. Stores(r) /\ k = KeyOf(r) /\ cache'[k] = EntryOf(r)
    BY <1>2 DEF Answers, Stores, Inv, Posted, PostsTyped
  <2>2. k[2] = of[r].auth
    BY <2>1 DEF KeyOf
  <2>3. Backed(todo', EntryOf(r).told, of[r].auth, EntryOf(r).body)
    BY <2>1, StoresEntry, BackedStays
  <2>. QED BY <2>1, <2>2, <2>3, StoresEntry
<1>. QED BY <1>1, <1>2

(* An excuse that a step has not given.                                    *)
LEMMA Unexcused ==
  ASSUME Inv, Excuses, NEW k \in TodoKey, k \notin excuse'
  PROVE  /\ Sound(k) /\ k \in CacheKey /\ k[3] \in Key /\ k[1] = "todo"
         /\ \A x, y \in Working(k)' : x = y
         /\ cache'[k] = NoEntry => cache[k] = NoEntry
         /\ cache'[k] = NoEntry => \A x \in Working(k) :
              x \in Working(k)' \/ todo'[x] = NoTodo \/ answer'[x].status = 201
<1>1. k \in TodoKey \ excuse
  BY DEF Excuses
<1>2. Sound(k)
  BY <1>1 DEF Inv, Posted, KeysSound
<1>3. k \in CacheKey /\ k[3] \in Key /\ k[1] = "todo"
  BY DEF TodoKey, CacheKey, Route
<1>. QED BY <1>2, <1>3 DEF Excuses

LEMMA AnswersKeysSound ==
  ASSUME Inv, NEW r \in Request, NEW p, NEW a, Answers(r, p, a), Excuses
  PROVE  KeysSound'
<1>. SUFFICES ASSUME NEW k \in TodoKey, k \notin excuse'
              PROVE  Sound(k)'
  BY DEF KeysSound, TodoKey
<1>1. /\ Sound(k) /\ k \in CacheKey /\ k[3] \in Key /\ k[1] = "todo"
      /\ \A x, y \in Working(k)' : x = y
      /\ cache'[k] = NoEntry => cache[k] = NoEntry
      /\ cache'[k] = NoEntry => \A x \in Working(k) :
           x \in Working(k)' \/ todo'[x] = NoTodo \/ answer'[x].status = 201
  BY Unexcused
<1>2. /\ at'[r] = p /\ answer'[r] = a
      /\ \A s \in Request \ {r} : at'[s] = at[s] /\ answer'[s] = answer[s]
  BY DEF Answers, Inv, Posted, PostsTyped, Accounted, Typed
<1>3. /\ \A s \in Request : s \in Working(k) <=> at[s] \in Works /\ KeyOf(s) = k
      /\ \A s \in Request : s \in Working(k)' <=> at'[s] \in Works /\ KeyOf(s) = k
      /\ Working(k) \subseteq Request /\ Working(k)' \subseteq Request
  BY DEF Working, Works, KeyOf, Answers
<1>4. \A s \in Request \ {r} : s \in Working(k)' <=> s \in Working(k)
  BY <1>2, <1>3
<1>5. None \notin Key
  BY RequestsAssumption DEF None
<1>6. ASSUME Creates(r), TodoOf(r, k)' PROVE r \in Working(k)
  <2>1. todo'[r] = Written(r) /\ of[r].route = "todo" /\ at[r] = "create"
    BY <1>6, CreatesBacked DEF Inv, Accounted, AskedWell, Creates
  <2>2. of[r].auth = k[2] /\ of[r].key = k[3]
    BY <1>6, <2>1 DEF TodoOf, Written
  <2>3. KeyOf(r) = k
    BY <1>1, <2>1, <2>2 DEF KeyOf, CacheKey
  <2>. QED BY <1>3, <2>1, <2>3 DEF Works
<1>7. \A s \in Request : (s # r \/ ~Creates(r)) => todo'[s] = todo[s]
  BY CreatesBacked DEF Answers
<1>8. \A s \in Request : (s # r \/ ~Creates(r)) => (TodoOf(s, k)' <=> TodoOf(s, k))
  BY <1>7 DEF TodoOf
<1>9. Working(k)' # {} => cache'[k] = NoEntry
  <2>. SUFFICES ASSUME NEW w \in Working(k)', cache'[k] # NoEntry PROVE FALSE
    OBVIOUS
  <2>1. CASE cache'[k] = cache[k]
    <3>1. Working(k) = {}
      BY <1>1, <2>1 DEF Sound
    <3>2. w = r /\ p \in Works /\ KeyOf(r) = k /\ at[r] \notin Works
      BY <1>2, <1>3, <1>4, <3>1
    <3>3. of[r].key = k[3]
      BY <3>2 DEF KeyOf
    <3>. QED BY <1>1, <1>5, <2>1, <3>2, <3>3 DEF Answers
  <2>2. CASE cache'[k] # cache[k]
    <3>1. Stores(r) /\ k = KeyOf(r) /\ at[r] = "store"
      BY <2>2, <1>1 DEF Answers, Stores, Inv, Posted, PostsTyped
    <3>2. r \in Working(k) /\ p \notin Works
      BY <1>3, <3>1 DEF Works, Answers
    <3>3. w # r /\ w \in Working(k)
      BY <1>2, <1>3, <1>4, <3>2
    <3>. QED BY <1>1, <3>2, <3>3 DEF Sound
  <2>. QED BY <2>1, <2>2
<1>10. ASSUME NEW s \in Request, TodoOf(s, k)', s \notin Working(k)', cache'[k] = NoEntry
       PROVE  FALSE
  <2>1. cache[k] = NoEntry /\ todo'[s] # NoTodo
    BY <1>1, <1>10 DEF TodoOf
  <2>2. s \in Working(k)
    <3>1. CASE s # r \/ ~Creates(r)
      BY <1>1, <1>8, <1>10, <2>1, <3>1 DEF Sound
    <3>2. CASE s = r /\ Creates(r)
      BY <1>6, <1>10, <3>2
    <3>. QED BY <3>1, <3>2
  <2>3. answer'[s].status = 201
    BY <1>1, <1>10, <2>1, <2>2
  <2>4. s = r /\ a.status = 201 /\ at[r] \in Works /\ p \notin Works /\ KeyOf(r) = k
    BY <1>2, <1>3, <1>4, <1>10, <2>2, <2>3
  <2>5. CASE Creates(r)
    <3>1. p = "leave"
      <4>1. UNCHANGED todo => p = "leave"
        BY <2>5, CreatesBacked
      <4>2. p \in {"store", "leave"} => p = "leave"
        BY <2>4 DEF Works
      <4>. QED BY <4>1, <4>2 DEF Answers
    <3>2. of[r].key = k[3]
      BY <2>4 DEF KeyOf
    <3>. QED BY <1>1, <1>5, <2>4, <2>5, <3>1, <3>2 DEF Answers
  <2>6. CASE ~Creates(r)
    <3>1. todo[r] # NoTodo
      BY <1>7, <2>1, <2>4, <2>6
    <3>2. at[r] = "store"
      BY <2>4, <3>1 DEF Inv, Posted, TodosKept, Works
    <3>3. Stores(r)
      BY <2>4, <3>2 DEF Answers
    <3>4. cache'[k] = EntryOf(r)
      BY <1>1, <2>4, <3>3 DEF Stores, Inv, Posted, PostsTyped
    <3>. QED BY <1>10, <3>3, <3>4, StoresEntry
  <2>. QED BY <2>5, <2>6
<1>11. ASSUME NEW s \in Request, s # r, Creates(r), TodoOf(r, k)', TodoOf(s, k)'
       PROVE  FALSE
  <2>1. r \in Working(k) /\ TodoOf(s, k)
    BY <1>6, <1>8, <1>11
  <2>2. cache[k] = NoEntry
    BY <1>1, <2>1 DEF Sound
  <2>3. s \in Working(k)
    BY <1>1, <2>1, <2>2 DEF Sound
  <2>. QED BY <1>1, <1>11, <2>1, <2>3 DEF Sound
<1>12. ASSUME NEW x \in Request, NEW y \in Request, TodoOf(x, k)', TodoOf(y, k)'
       PROVE  x = y
  <2>1. CASE (x # r /\ y # r) \/ ~Creates(r)
    <3>1. TodoOf(x, k) /\ TodoOf(y, k)
      BY <1>8, <1>12, <2>1
    <3>. QED BY <1>1, <3>1 DEF Sound
  <2>2. CASE (x = r \/ y = r) /\ Creates(r)
    BY <1>11, <1>12, <2>2
  <2>. QED BY <2>1, <2>2
<1>. QED BY <1>1, <1>9, <1>10, <1>12 DEF Sound

LEMMA AnswersPosted ==
  ASSUME Inv, NEW r \in Request, NEW p, NEW a, Answers(r, p, a), Excuses
  PROVE  Posted'
BY AnswersPostsTyped, AnswersAnswersKept, AnswersTodosKept, AnswersCacheKept, AnswersKeysSound
DEF Posted

(***************************************************************************)
(* The steps of the middlewares and handlers, seen from both sides.        *)
(***************************************************************************)
Both(r) == \E p, a : Moves(r, p) /\ Answers(r, p, a)

(* A request goes on unanswered.                                           *)
LEMMA GoesOn ==
  ASSUME Inv, NEW r \in Request, NEW p \in Phase, at' = [at EXCEPT ![r] = p],
         UNCHANGED <<of, answer, cache, todo>>,
         p \notin {"idle", "store"}, at[r] \notin Outside \cup {"store"},
         at[r] = "leave" => p = "done",
         p \in Works => \/ at[r] \in Works \/ of[r].key = None
                        \/ at[r] = "lookup" /\ cache[KeyOf(r)] = NoEntry
  PROVE  Answers(r, p, answer[r])
<1>1. answer[r] \in Answer /\ answer' = [answer EXCEPT ![r] = answer[r]]
  BY DEF Inv, Posted, PostsTyped
<1>2. ~(Creates(r) /\ p = "leave") \/ answer[r].status # 201 \/ of[r].key = None
  <2>. SUFFICES ASSUME Creates(r) PROVE FALSE
    OBVIOUS
  <2>. QED BY CreatesBacked
<1>. QED BY <1>1, <1>2 DEF Answers, Outside

(* A request is turned away, or fails.                                     *)
Refuses(r, status, p) ==
  /\ at' = [at EXCEPT ![r] = p] /\ p \in {"leave", "done"}
  /\ answer' = [answer EXCEPT ![r] = [status |-> status, told |-> None]]
  /\ UNCHANGED of /\ (UNCHANGED todo \/ (Creates(r) /\ p = "leave"))
  /\ (UNCHANGED cache \/ Stores(r)) /\ at[r] \notin {"done", "lost"}

LEMMA Refused ==
  ASSUME Inv, NEW r \in Request, NEW status \in {400, 401, 403, 404, 409, 411, 413, 429, 500},
         NEW p, Refuses(r, status, p)
  PROVE  Answers(r, p, [status |-> status, told |-> None])
<1>. DEFINE a == [status |-> status, told |-> None]
<1>1. a \in Answer /\ a.status # 201
  BY DEF Answer
<1>2. p \in Phase \ {"idle", "store"} /\ p \notin Works
  BY DEF Phase, Outside, Works, Refuses
<1>. HIDE DEF a
<1>3. Answers(r, p, a)
  BY <1>1, <1>2 DEF Answers, Refuses, a
<1>. QED BY <1>3 DEF a

LEMMA LeaveMoves ==
  ASSUME NEW r \in Request, at' = [at EXCEPT ![r] = "leave"], UNCHANGED <<of, registerVars>>,
         hits' \in [Route -> 0..Times], at[r] \notin Outside \cup {"grant", "commit"}
  PROVE  Moves(r, "leave")
BY DEF Moves, Phase, Busy, Before

LEMMA RefusedBoth ==
  ASSUME Inv, NEW r \in Request, NEW status \in {400, 401, 403, 404, 409, 411, 413, 429, 500},
         Refuses(r, status, "leave"), UNCHANGED registerVars, hits' \in [Route -> 0..Times],
         at[r] \notin Outside \cup {"grant", "commit"}
  PROVE  Both(r)
<1>1. Moves(r, "leave")
  BY DEF Refuses, Moves, Phase, Busy, Before
<1>2. Answers(r, "leave", [status |-> status, told |-> None])
  BY Refused
<1>. QED BY <1>1, <1>2 DEF Both

LEMMA CsrfBoth ==
  ASSUME Inv, NEW r \in Request, NEW valid \in BOOLEAN, Csrf(r, valid),
         UNCHANGED <<registerVars, todo>>
  PROVE  Both(r)
<1>1. /\ at[r] = "csrf" /\ UNCHANGED <<of, cache, registerVars, todo>>
      /\ hits' \in [Route -> 0..Times] /\ of[r] \in Asked
  BY DEF Csrf, Inv, Accounted, Typed
<1>2. CASE valid /\ of[r].key = None
  <2>1. at' = [at EXCEPT ![r] = "size"] /\ UNCHANGED answer
    BY <1>2 DEF Csrf, Goto
  <2>2. Answers(r, "size", answer[r])
    BY <1>1, <1>2, <2>1, GoesOn DEF Phase, Outside
  <2>3. Moves(r, "size")
    BY <1>1, <2>1 DEF Moves, Phase, Outside, Busy, Before
  <2>. QED BY <2>2, <2>3 DEF Both
<1>3. CASE valid /\ of[r].key # None
  <2>1. at' = [at EXCEPT ![r] = "lookup"] /\ UNCHANGED answer
    BY <1>3 DEF Csrf, Goto
  <2>2. Answers(r, "lookup", answer[r])
    BY <1>1, <2>1, GoesOn DEF Phase, Outside, Works
  <2>3. of[r].key \in Key
    BY <1>1, <1>3 DEF Asked
  <2>4. Moves(r, "lookup")
    BY <1>1, <2>1, <2>3 DEF Moves, Phase, Outside, Busy, Before
  <2>. QED BY <2>2, <2>4 DEF Both
<1>4. CASE ~valid
  <2>1. /\ at' = [at EXCEPT ![r] = "leave"]
        /\ answer' = [answer EXCEPT ![r] = [status |-> 403, told |-> None]]
    BY <1>4 DEF Csrf, Reply, Goto
  <2>2. Refuses(r, 403, "leave")
    BY <1>1, <2>1 DEF Refuses, Outside
  <2>. QED BY <1>1, <2>2, RefusedBoth DEF Outside
<1>. QED BY <1>2, <1>3, <1>4

LEMMA LookupBoth ==
  ASSUME Inv, NEW r \in Request, Lookup(r), UNCHANGED <<registerVars, todo>>
  PROVE  Both(r)
<1>. DEFINE c == cache[KeyOf(r)]
<1>1. /\ at[r] = "lookup" /\ UNCHANGED <<of, cache, registerVars, todo>>
      /\ hits' \in [Route -> 0..Times] /\ of[r] \in Asked /\ of[r].key \in Key
  BY DEF Lookup, Inv, Accounted, Typed, AskedWell
<1>2. KeyOf(r) \in CacheKey
  BY <1>1 DEF KeyOf, CacheKey, Asked
<1>3. CASE c = NoEntry
  <2>1. at' = [at EXCEPT ![r] = "size"] /\ UNCHANGED answer
    BY <1>3 DEF Lookup, Goto
  <2>2. Answers(r, "size", answer[r])
    BY <1>1, <1>3, <2>1, GoesOn DEF Phase, Outside
  <2>3. Moves(r, "size")
    BY <1>1, <2>1 DEF Moves, Phase, Outside, Busy, Before
  <2>. QED BY <2>2, <2>3 DEF Both
<1>4. CASE c # NoEntry /\ c.body # of[r].body
  <2>1. /\ at' = [at EXCEPT ![r] = "leave"]
        /\ answer' = [answer EXCEPT ![r] = [status |-> 409, told |-> None]]
    BY <1>4 DEF Lookup, Reply, Goto
  <2>2. Refuses(r, 409, "leave")
    BY <1>1, <2>1 DEF Refuses, Outside
  <2>. QED BY <1>1, <2>2, RefusedBoth DEF Outside
<1>5. CASE c # NoEntry /\ c.body = of[r].body
  <2>. DEFINE a == [status |-> c.status, told |-> c.told]
  <2>1. /\ at' = [at EXCEPT ![r] = "leave"]
        /\ answer' = [answer EXCEPT ![r] = a]
    BY <1>5 DEF Lookup, Reply, Goto
  <2>2. Backed(todo, c.told, KeyOf(r)[2], c.body) /\ c.status = 201
    BY <1>2, <1>5 DEF Inv, Posted, CacheKept
  <2>3. Backed(todo, c.told, of[r].auth, of[r].body) /\ c.told \in Request
    BY <1>5, <2>2 DEF KeyOf, Backed
  <2>4. a \in Answer /\ a.told = c.told
    BY <2>2, <2>3 DEF Answer
  <2>. HIDE DEF a, c
  <2>5. Answers(r, "leave", a)
    BY <1>1, <2>1, <2>3, <2>4 DEF Answers, Phase, Outside, Works, Creates
  <2>. QED BY <1>1, <2>1, <2>5, LeaveMoves DEF Both, Outside
<1>. QED BY <1>3, <1>4, <1>5

LEMMA SizeBoth ==
  ASSUME Inv, NEW r \in Request, NEW length \in {"fits", "exceeds", "missing", "malformed"},
         Size(r, length), UNCHANGED <<registerVars, todo>>
  PROVE  Both(r)
<1>1. /\ at[r] = "size" /\ UNCHANGED <<of, cache, registerVars, todo>>
      /\ hits' \in [Route -> 0..Times]
  BY DEF Size, Inv, Accounted, Typed
<1>2. CASE length = "fits"
  <2>1. at' = [at EXCEPT ![r] = "limit"] /\ UNCHANGED answer
    BY <1>2 DEF Size, Goto
  <2>2. Answers(r, "limit", answer[r])
    BY <1>1, <2>1, GoesOn DEF Phase, Outside, Works
  <2>3. Moves(r, "limit")
    BY <1>1, <2>1 DEF Moves, Phase, Outside, Busy, Before
  <2>. QED BY <2>2, <2>3 DEF Both
<1>3. CASE length # "fits"
  <2>1. PICK status \in {411, 413, 500} :
          /\ at' = [at EXCEPT ![r] = "leave"]
          /\ answer' = [answer EXCEPT ![r] = [status |-> status, told |-> None]]
    BY <1>3 DEF Size, Reply, Goto
  <2>2. Refuses(r, status, "leave")
    BY <1>1, <2>1 DEF Refuses, Outside
  <2>. QED BY <1>1, <2>2, RefusedBoth DEF Outside
<1>. QED BY <1>2, <1>3

LEMMA LimitBoth ==
  ASSUME Inv, NEW r \in Request, Limit(r), UNCHANGED <<registerVars, todo>>
  PROVE  Both(r)
<1>. DEFINE q == of[r].route
<1>1. /\ at[r] = "limit" /\ UNCHANGED <<of, cache, registerVars, todo>>
      /\ hits \in [Route -> 0..Times] /\ q \in Route
  BY DEF Limit, Inv, Accounted, Typed, Asked
<1>2. CASE hits[q] < Times
  <2>. DEFINE p == IF q = "register" THEN "check" ELSE "permit"
  <2>1. at' = [at EXCEPT ![r] = p] /\ UNCHANGED answer
    BY <1>2 DEF Limit, Goto
  <2>2. hits' \in [Route -> 0..Times]
    BY <1>1, <1>2, RequestsAssumption DEF Limit
  <2>3. (p = "check" /\ q = "register") \/ (p = "permit" /\ q = "todo")
    BY <1>1 DEF Route
  <2>. HIDE DEF p
  <2>4. Answers(r, p, answer[r])
    BY <1>1, <2>1, <2>3, GoesOn DEF Phase, Outside, Handling, Works
  <2>5. Moves(r, p)
    BY <1>1, <2>1, <2>2, <2>3 DEF Moves, Phase, Outside, Handling, Busy, Before
  <2>. QED BY <2>4, <2>5 DEF Both
<1>3. CASE ~(hits[q] < Times)
  <2>1. /\ at' = [at EXCEPT ![r] = "leave"] /\ hits' = hits
        /\ answer' = [answer EXCEPT ![r] = [status |-> 429, told |-> None]]
    BY <1>3 DEF Limit, Reply, Goto
  <2>2. Refuses(r, 429, "leave")
    BY <1>1, <2>1 DEF Refuses, Outside
  <2>. QED BY <1>1, <2>1, <2>2, RefusedBoth DEF Outside
<1>. QED BY <1>2, <1>3

LEMMA StoreBoth ==
  ASSUME Inv, NEW r \in Request, Store(r), UNCHANGED <<registerVars, todo>>
  PROVE  Both(r)
<1>1. /\ at[r] = "store" /\ UNCHANGED <<of, answer, registerVars, todo>> /\ Stores(r)
      /\ hits' \in [Route -> 0..Times] /\ at' = [at EXCEPT ![r] = "leave"]
  BY DEF Store, Stores, Goto, Inv, Accounted, Typed
<1>2. answer[r] \in Answer /\ answer' = [answer EXCEPT ![r] = answer[r]]
  BY <1>1 DEF Inv, Posted, PostsTyped
<1>3. Answers(r, "leave", answer[r])
  BY <1>1, <1>2 DEF Answers, Phase, Works, Creates
<1>. QED BY <1>1, <1>3, LeaveMoves DEF Both, Outside

LEMMA RedisFailsBoth ==
  ASSUME Inv, NEW r \in Request, RedisFails(r), UNCHANGED <<registerVars, todo>>
  PROVE  Both(r)
<1>1. /\ at[r] \in {"lookup", "limit", "store"} /\ UNCHANGED <<of, registerVars, todo>>
      /\ UNCHANGED cache \/ Stores(r)
      /\ hits' \in [Route -> 0..Times] /\ at' = [at EXCEPT ![r] = "leave"]
      /\ answer' = [answer EXCEPT ![r] = [status |-> 500, told |-> None]]
  BY DEF RedisFails, Stores, Reply, Goto, Inv, Accounted, Typed
<1>2. Refuses(r, 500, "leave")
  BY <1>1 DEF Refuses, Outside
<1>. QED BY <1>1, <1>2, RefusedBoth DEF Outside

LEMMA LeaveBoth ==
  ASSUME Inv, NEW r \in Request, Leave(r), UNCHANGED <<registerVars, todo>>
  PROVE  Both(r)
<1>1. /\ at[r] = "leave" /\ UNCHANGED <<of, answer, cache, registerVars, todo>>
      /\ hits' \in [Route -> 0..Times] /\ at' = [at EXCEPT ![r] = "done"]
  BY DEF Leave, Goto, Inv, Accounted, Typed
<1>2. Answers(r, "done", answer[r])
  BY <1>1, GoesOn DEF Phase, Outside, Works
<1>3. Moves(r, "done")
  BY <1>1 DEF Moves, Phase, Outside, Busy, Before
<1>. QED BY <1>2, <1>3 DEF Both

LEMMA CheckBoth ==
  ASSUME Inv, NEW r \in Request, Check(r), UNCHANGED todo
  PROVE  Both(r)
<1>. DEFINE taken == Registered(Mine(r)) /\ account[Mine(r)].tenant = of[r].tenant
<1>1. /\ at[r] = "check" /\ UNCHANGED <<of, cache, registerVars, todo>>
      /\ hits' \in [Route -> 0..Times] /\ of[r].route = "register"
  BY DEF Check, Inv, Accounted, Typed, AskedWell
<1>2. CASE taken
  <2>1. /\ at' = [at EXCEPT ![r] = "leave"]
        /\ answer' = [answer EXCEPT ![r] = [status |-> 400, told |-> None]]
    BY <1>2 DEF Check, Answered, Reply, Goto
  <2>2. Refuses(r, 400, "leave")
    BY <1>1, <2>1 DEF Refuses, Outside
  <2>. QED BY <1>1, <2>2, RefusedBoth DEF Outside
<1>3. CASE ~taken
  <2>1. at' = [at EXCEPT ![r] = "insert"] /\ UNCHANGED answer
    BY <1>3 DEF Check, Goto
  <2>2. Answers(r, "insert", answer[r])
    BY <1>1, <2>1, GoesOn DEF Phase, Outside, Handling, Works
  <2>3. Moves(r, "insert")
    BY <1>1, <2>1 DEF Moves, Phase, Outside, Handling, Busy, Before
  <2>. QED BY <2>2, <2>3 DEF Both
<1>. QED BY <1>2, <1>3

LEMMA UnsentBoth ==
  ASSUME Inv, NEW r \in Request, Unsent(r), UNCHANGED todo
  PROVE  Both(r)
<1>1. /\ at[r] = "mail" /\ UNCHANGED <<of, cache, registerVars, todo>>
      /\ hits' \in [Route -> 0..Times] /\ at' = [at EXCEPT ![r] = "leave"]
      /\ answer' = [answer EXCEPT ![r] = [status |-> 500, told |-> None]]
  BY DEF Unsent, AnswerFails, Reply, Goto, Inv, Accounted, Typed
<1>2. Refuses(r, 500, "leave")
  BY <1>1 DEF Refuses, Outside
<1>. QED BY <1>1, <1>2, RefusedBoth DEF Outside

LEMMA PermitBoth ==
  ASSUME Inv, NEW r \in Request, NEW refusal \in {0, 403, 404}, Permit(r, refusal)
  PROVE  Both(r)
<1>1. /\ at[r] = "permit" /\ UNCHANGED <<of, cache, registerVars, todo>>
      /\ hits' \in [Route -> 0..Times] /\ of[r].route = "todo"
  BY DEF Permit, Inv, Accounted, Typed, AskedWell
<1>2. CASE refusal = 0
  <2>1. at' = [at EXCEPT ![r] = "create"] /\ UNCHANGED answer
    BY <1>2 DEF Permit, Goto
  <2>2. Answers(r, "create", answer[r])
    BY <1>1, <2>1, GoesOn DEF Phase, Outside, Handling, Works
  <2>3. Moves(r, "create")
    BY <1>1, <2>1 DEF Moves, Phase, Outside, Handling, Busy, Before
  <2>. QED BY <2>2, <2>3 DEF Both
<1>3. CASE refusal # 0
  <2>1. /\ at' = [at EXCEPT ![r] = "leave"]
        /\ answer' = [answer EXCEPT ![r] = [status |-> refusal, told |-> None]]
    BY <1>3 DEF Permit, Reply, Goto
  <2>2. Refuses(r, refusal, "leave")
    BY <1>1, <1>3, <2>1 DEF Refuses, Outside
  <2>. QED BY <1>1, <2>2, <1>3, RefusedBoth DEF Outside
<1>. QED BY <1>2, <1>3

LEMMA CreateBoth ==
  ASSUME Inv, NEW r \in Request, Create(r)
  PROVE  Both(r)
<1>. DEFINE a == [status |-> 201, told |-> r]
            p == IF of[r].key # None THEN "store" ELSE "leave"
<1>1. /\ UNCHANGED <<of, cache, registerVars>> /\ Creates(r) /\ at[r] = "create"
      /\ hits' \in [Route -> 0..Times] /\ of[r].route = "todo" /\ of[r] \in Asked
      /\ at' = [at EXCEPT ![r] = p] /\ answer' = [answer EXCEPT ![r] = a]
  BY DEF Create, Creates, Answered, Reply, Goto, Inv, Accounted, Typed, AskedWell
<1>2. a \in Answer /\ a.told = r
  BY DEF Answer
<1>3. (p = "store" /\ of[r].key \in Key) \/ (p = "leave" /\ of[r].key = None)
  BY <1>1 DEF Asked
<1>. HIDE DEF p
<1>4. Answers(r, p, a)
  BY <1>1, <1>2, <1>3 DEF Answers, Phase, Works
<1>5. Moves(r, p)
  BY <1>1, <1>3 DEF Moves, Phase, Outside, Busy, Before
<1>. QED BY <1>4, <1>5 DEF Both

LEMMA CreateUnconfirmedBoth ==
  ASSUME Inv, NEW r \in Request, CreateUnconfirmed(r)
  PROVE  Both(r)
<1>1. /\ at[r] = "create" /\ UNCHANGED <<of, cache, registerVars>> /\ Creates(r)
      /\ hits' \in [Route -> 0..Times] /\ at' = [at EXCEPT ![r] = "leave"]
      /\ answer' = [answer EXCEPT ![r] = [status |-> 500, told |-> None]]
  BY DEF CreateUnconfirmed, Creates, Reply, Goto, Inv, Accounted, Typed
<1>2. Refuses(r, 500, "leave")
  BY <1>1 DEF Refuses, Outside
<1>. QED BY <1>1, <1>2, RefusedBoth DEF Outside

LEMMA AbortTodoBoth ==
  ASSUME Inv, NEW r \in Request, AbortTodo(r)
  PROVE  Both(r)
<1>1. /\ at[r] \in {"permit", "create"} /\ UNCHANGED <<of, cache, registerVars, todo>>
      /\ hits' \in [Route -> 0..Times] /\ at' = [at EXCEPT ![r] = "leave"]
      /\ answer' = [answer EXCEPT ![r] = [status |-> 500, told |-> None]]
  BY DEF AbortTodo, Reply, Goto, Inv, Accounted, Typed
<1>2. Refuses(r, 500, "leave")
  BY <1>1 DEF Refuses, Outside
<1>. QED BY <1>1, <1>2, RefusedBoth DEF Outside

(***************************************************************************)
(* The steps of a registration's transaction.                              *)
(***************************************************************************)
LEMMA RaiseAccounted ==
  ASSUME Accounted, NEW r \in Request, Raise(r),
         at[r] \in {"check", "insert", "grant", "commit"}
  PROVE  Accounted'
<1>. USE DEF Accounted, Raise, Goto, Reply
<1>1. Typed'
  BY DEF Typed, Phase
<1>2. AskedWell'
  BY DEF Typed, AskedWell, Under, Outside
<1>3. RowsHeld'
  BY DEF Typed, RowsHeld
<1>4. Exclusive'
  BY DEF Typed, Exclusive, Busy, Mine
<1>5. Opening'
  BY DEF Typed, Opening, Before, Mine, Registered
<1>6. AccountsWhole'
  BY DEF Typed, AccountsWhole, Registered
<1>. QED BY <1>1, <1>2, <1>3, <1>4, <1>5, <1>6

LEMMA InsertAccounted ==
  ASSUME Accounted, NEW r \in Request, Insert(r), ~Registered(Mine(r))
  PROVE  Accounted'
<1>1. /\ at[r] = "insert" /\ at' = [at EXCEPT ![r] = "grant"]
      /\ \A s \in Request : Mine(s) = Mine(r) => rows[s] = {}
      /\ rows' = [rows EXCEPT ![r] = Whole \ {"role"}]
      /\ UNCHANGED <<of, answer, cache, active, hits, account, try, mails>>
  BY DEF Insert, Goto
<1>2. \A s \in Request : at[s] \in Busy => Mine(s) # Mine(r)
  BY <1>1 DEF Accounted, RowsHeld, Opening, Busy, Registered, Whole
<1>. USE DEF Accounted
<1>3. Typed'
  BY <1>1 DEF Typed, Phase, Handling, Whole
<1>4. AskedWell'
  BY <1>1 DEF Typed, AskedWell, Under, Outside
<1>5. RowsHeld'
  BY <1>1 DEF Typed, RowsHeld
<1>6. Exclusive'
  BY <1>1, <1>2 DEF Typed, Exclusive, Busy, Mine
<1>7. Opening'
  BY <1>1 DEF Typed, Opening, Before, Mine, Registered
<1>8. AccountsWhole'
  BY <1>1 DEF Typed, AccountsWhole, Registered
<1>. QED BY <1>3, <1>4, <1>5, <1>6, <1>7, <1>8

LEMMA GrantAccounted ==
  ASSUME Accounted, NEW r \in Request, Grant(r)
  PROVE  Accounted'
<1>. USE DEF Accounted, Grant, Goto
<1>1. (Whole \ {"role"}) \cup {"role"} = Whole /\ rows[r] = Whole \ {"role"}
  BY DEF RowsHeld, Whole
<1>2. Typed'
  BY <1>1 DEF Typed, Phase, Handling
<1>3. AskedWell'
  BY DEF Typed, AskedWell, Under, Outside
<1>4. RowsHeld'
  BY <1>1 DEF Typed, RowsHeld
<1>5. Exclusive'
  BY DEF Typed, Exclusive, Busy, Mine
<1>6. Opening'
  BY DEF Typed, Opening, Before, Mine, Registered
<1>7. AccountsWhole'
  BY DEF Typed, AccountsWhole, Registered
<1>. QED BY <1>2, <1>3, <1>4, <1>5, <1>6, <1>7

Commits(r, p) ==
  /\ at[r] = "commit" /\ p \in {"mail", "leave"} /\ at' = [at EXCEPT ![r] = p]
  /\ account' = [account EXCEPT ![Mine(r)] = [tenant |-> of[r].tenant, rows |-> rows[r]]]
  /\ rows' = [rows EXCEPT ![r] = {}]
  /\ UNCHANGED <<of, hits, try, mails>>

LEMMA CommitsAccounted ==
  ASSUME Accounted, NEW r \in Request, NEW p, Commits(r, p)
  PROVE  Accounted'
<1>. USE DEF Accounted, Commits
<1>. DEFINE e == Mine(r)
            new == [tenant |-> of[r].tenant, rows |-> Whole]
<1>a. /\ e \in Email /\ of[r].tenant \in Tenant /\ rows[r] = Whole
      /\ ~Registered(e) /\ mails[e] = 0 /\ try[r] = 0
  BY DEF AskedWell, RowsHeld, Under, Outside, Mine, Opening, AccountsWhole, Before
<1>b. /\ new # NoAccount /\ new.rows = Whole /\ new.tenant \in Tenant
      /\ new \in [tenant : Tenant \cup {None}, rows : SUBSET Whole]
  BY <1>a DEF NoAccount, Whole
<1>c. account' = [account EXCEPT ![e] = new]
  BY <1>a
<1>d. /\ account'[e] = new
      /\ \A f \in Email : f # e => account'[f] = account[f]
      /\ \A f \in Email : Registered(f) => account'[f] = account[f] /\ account'[f] # NoAccount
  BY <1>a, <1>b, <1>c DEF Typed, Registered
<1>e. \A s \in Request : s # r /\ at[s] \in Busy => Mine(s) # e
  BY DEF Exclusive, Busy
<1>f. \A s \in Request : Mine(s)' = Mine(s)
  BY DEF Mine
<1>g. \A s \in Request : at[s] \in {"grant", "commit", "mail"} => Mine(s) \in Email
  BY DEF AskedWell, Under, Outside, Mine
<1>. HIDE DEF new
<1>1. Typed'
  BY <1>a, <1>b, <1>c DEF Typed, Phase, Outside, Handling
<1>2. AskedWell'
  BY <1>a DEF Typed, AskedWell, Under, Outside
<1>3. RowsHeld'
  BY <1>a DEF Typed, RowsHeld
<1>4. Exclusive'
  BY <1>a, <1>e, <1>f DEF Typed, Exclusive, Busy
<1>5. Opening'
  <2>. SUFFICES ASSUME NEW s \in Request
                PROVE  /\ at'[s] \in {"grant", "commit"} => ~Registered(Mine(s))'
                       /\ at'[s] = "mail" => Registered(Mine(s))' /\ mails[Mine(s)] <= try[s]
                       /\ at'[s] \in Before => try[s] = 0
    BY <1>f DEF Opening
  <2>1. Mine(s)' = Mine(s)
    BY <1>f
  <2>2. CASE s = r
    BY <1>a, <1>b, <1>d, <2>1, <2>2 DEF Typed, Registered, Before
  <2>3. CASE s # r
    <3>1. at'[s] = at[s]
      BY <2>3 DEF Typed
    <3>2. at[s] \in {"grant", "commit", "mail"} => Mine(s) \in Email /\ Mine(s) # e
      BY <1>e, <1>g, <2>3 DEF Busy
    <3>3. at[s] \in {"grant", "commit", "mail"} => account'[Mine(s)] = account[Mine(s)]
      BY <1>d, <3>2
    <3>. QED BY <2>1, <3>1, <3>3 DEF Opening, Registered
  <2>. QED BY <2>2, <2>3
<1>6. AccountsWhole'
  BY <1>a, <1>b, <1>d DEF Typed, AccountsWhole, Registered
<1>. QED BY <1>1, <1>2, <1>3, <1>4, <1>5, <1>6

LEMMA SendAccounted ==
  ASSUME Accounted, NEW r \in Request, NEW sent \in BOOLEAN,
         NEW outcome \in {"true", "false", "raised"}, Send(r, sent, outcome)
  PROVE  Accounted'
<1>. USE DEF Accounted, Send, AnswerFails, Reply, Goto
<1>. DEFINE e == Mine(r)
<1>a. /\ e \in Email /\ Registered(e) /\ mails[e] \in Nat /\ mails[e] <= try[r]
      /\ try[r] \in Nat
  <2>1. at[r] = "mail" /\ of[r].body \in Email
    BY DEF AskedWell, Under, Outside
  <2>2. Registered(e) /\ mails[e] <= try[r] /\ e \in Email
    BY <2>1 DEF Opening, Mine
  <2>3. try[r] \in Nat /\ mails[e] \in Nat
    BY <2>2, ProvidersFinite DEF Typed
  <2>. QED BY <2>2, <2>3
<1>b. \A s \in Request : s # r /\ at[s] \in Busy => Mine(s) # e
  BY DEF Exclusive, Busy, Mine
<1>c. /\ mails' \in [Email -> Nat] /\ mails'[e] <= try[r] + 1 /\ (~sent => mails'[e] <= try[r])
      /\ \A f \in Email : f # e => mails'[f] = mails[f]
  BY <1>a DEF Typed
<1>d. try' \in [Request -> 0..Len(Providers)]
  <2>1. try' = try \/ (try[r] + 1 \in 0..Len(Providers) /\ try' = [try EXCEPT ![r] = try[r] + 1])
    BY <1>a, ProvidersFinite
  <2>. QED BY <2>1 DEF Typed
<1>e. at' = at \/ at' = [at EXCEPT ![r] = "leave"]
  OBVIOUS
<1>1. Typed'
  BY <1>c, <1>d, <1>e DEF Typed, Phase
<1>2. AskedWell'
  BY <1>e DEF Typed, AskedWell, Under, Outside
<1>3. RowsHeld'
  BY <1>e DEF Typed, RowsHeld
<1>4. Exclusive'
  BY <1>e DEF Typed, Exclusive, Busy, Mine
<1>5. Opening'
  BY <1>a, <1>b, <1>c, ProvidersFinite DEF Typed, Opening, Before, Mine, Registered, Busy
<1>6. AccountsWhole'
  BY <1>a, <1>c DEF Typed, AccountsWhole, Registered
<1>. QED BY <1>1, <1>2, <1>3, <1>4, <1>5, <1>6

LEMMA HandlerInv ==
  ASSUME Inv, NEW r \in Request, Handler(r), Excuses
  PROVE  Inv'
<1>a. ASSUME NEW p, NEW a, Answers(r, p, a), Accounted' PROVE Inv'
  BY <1>a, AnswersPosted DEF Inv
<1>b. ASSUME Both(r) PROVE Inv'
  <2>1. PICK p, a : Moves(r, p) /\ Answers(r, p, a)
    BY <1>b DEF Both
  <2>2. Accounted
    BY DEF Inv
  <2>3. Accounted'
    BY <2>1, <2>2, MovesAccounted
  <2>. QED BY <1>a, <2>1, <2>3
<1>1. CASE Check(r) /\ UNCHANGED todo
  BY <1>1, <1>b, CheckBoth
<1>2. CASE Insert(r) /\ UNCHANGED todo
  <2>1. CASE Registered(Mine(r))
    <3>1. at[r] = "insert" /\ Raise(r)
      BY <1>2, <2>1 DEF Insert
    <3>2. Accounted'
      BY <3>1, RaiseAccounted DEF Inv
    <3>3. Refuses(r, 500, "leave")
      BY <1>2, <3>1 DEF Refuses, Raise, Reply, Goto
    <3>4. Answers(r, "leave", [status |-> 500, told |-> None])
      BY <3>3, Refused
    <3>. QED BY <1>a, <3>2, <3>4
  <2>2. CASE ~Registered(Mine(r))
    <3>1. Accounted'
      BY <1>2, <2>2, InsertAccounted DEF Inv
    <3>2. at[r] = "insert" /\ at' = [at EXCEPT ![r] = "grant"] /\ UNCHANGED <<of, answer, cache, todo>>
      BY <1>2, <2>2 DEF Insert, Goto
    <3>3. Answers(r, "grant", answer[r])
      BY <3>2, GoesOn DEF Phase, Handling, Outside, Works
    <3>. QED BY <1>a, <3>1, <3>3
  <2>. QED BY <2>1, <2>2
<1>3. CASE Grant(r) /\ UNCHANGED todo
  <2>1. Accounted'
    BY <1>3, GrantAccounted DEF Inv
  <2>2. at[r] = "grant" /\ at' = [at EXCEPT ![r] = "commit"] /\ UNCHANGED <<of, answer, cache, todo>>
    BY <1>3 DEF Grant, Goto
  <2>3. Answers(r, "commit", answer[r])
    BY <2>2, GoesOn DEF Phase, Handling, Outside, Works
  <2>. QED BY <1>a, <2>1, <2>3
<1>4. CASE Commit(r) /\ UNCHANGED todo
  <2>1. Commits(r, "mail")
    BY <1>4 DEF Commit, Commits, Goto
  <2>2. Accounted'
    BY <2>1, CommitsAccounted DEF Inv
  <2>3. at[r] = "commit" /\ at' = [at EXCEPT ![r] = "mail"] /\ UNCHANGED <<of, answer, cache, todo>>
    BY <1>4 DEF Commit, Goto
  <2>4. Answers(r, "mail", answer[r])
    BY <2>3, GoesOn DEF Phase, Handling, Outside, Works
  <2>. QED BY <1>a, <2>2, <2>4
<1>5. CASE CommitUnconfirmed(r) /\ UNCHANGED todo
  <2>1. Commits(r, "leave")
    BY <1>5 DEF CommitUnconfirmed, Commits, Reply, Goto
  <2>2. Accounted'
    BY <2>1, CommitsAccounted DEF Inv
  <2>3. Refuses(r, 500, "leave")
    BY <1>5 DEF CommitUnconfirmed, Refuses, Reply, Goto
  <2>4. Answers(r, "leave", [status |-> 500, told |-> None])
    BY <2>3, Refused
  <2>. QED BY <1>a, <2>2, <2>4
<1>6. ASSUME NEW sent \in BOOLEAN, NEW outcome \in {"true", "false", "raised"},
             Send(r, sent, outcome), UNCHANGED todo
      PROVE  Inv'
  <2>1. Accounted'
    BY <1>6, SendAccounted DEF Inv
  <2>2. at[r] = "mail" /\ UNCHANGED <<of, cache, todo>>
    BY <1>6 DEF Send
  <2>3. CASE outcome = "false"
    <3>1. at[r] = "mail" /\ at' = [at EXCEPT ![r] = "mail"] /\ UNCHANGED <<of, answer, cache, todo>>
      BY <1>6, <2>2, <2>3 DEF Send, Inv, Accounted, Typed
    <3>2. Answers(r, "mail", answer[r])
      BY <3>1, GoesOn DEF Phase, Handling, Outside, Works
    <3>. QED BY <1>a, <2>1, <3>2
  <2>4. CASE outcome # "false"
    <3>1. Refuses(r, 500, "leave")
      BY <1>6, <2>2, <2>4 DEF Send, AnswerFails, Refuses, Reply, Goto
    <3>2. Answers(r, "leave", [status |-> 500, told |-> None])
      BY <3>1, Refused
    <3>. QED BY <1>a, <2>1, <3>2
  <2>. QED BY <2>3, <2>4
<1>7. CASE Unsent(r) /\ UNCHANGED todo
  BY <1>7, <1>b, UnsentBoth
<1>8. CASE \E refusal \in {0, 403, 404} : Permit(r, refusal)
  BY <1>8, <1>b, PermitBoth
<1>9. CASE Create(r)
  BY <1>9, <1>b, CreateBoth
<1>10. CASE CreateUnconfirmed(r)
  BY <1>10, <1>b, CreateUnconfirmedBoth
<1>. QED BY <1>1, <1>2, <1>3, <1>4, <1>5, <1>6, <1>7, <1>8, <1>9, <1>10 DEF Handler, Register

LEMMA AbortInv ==
  ASSUME Inv, NEW r \in Request, Abort(r), Excuses
  PROVE  Inv'
<1>1. CASE AbortTodo(r)
  <2>1. PICK p, a : Moves(r, p) /\ Answers(r, p, a)
    BY <1>1, AbortTodoBoth DEF Both
  <2>2. Accounted'
    BY <2>1, MovesAccounted DEF Inv
  <2>. QED BY <2>1, <2>2, AnswersPosted DEF Inv
<1>2. CASE AbortRegister(r) /\ UNCHANGED todo
  <2>1. at[r] \in {"check", "insert", "grant", "commit"} /\ Raise(r)
    BY <1>2 DEF AbortRegister
  <2>2. Accounted'
    BY <2>1, RaiseAccounted DEF Inv
  <2>3. Refuses(r, 500, "leave")
    BY <1>2, <2>1 DEF Refuses, Raise, Reply, Goto
  <2>4. Answers(r, "leave", [status |-> 500, told |-> None])
    BY <2>3, Refused
  <2>. QED BY <2>2, <2>4, AnswersPosted DEF Inv
<1>. QED BY <1>1, <1>2 DEF Abort

LEMMA MiddlewareInv ==
  ASSUME Inv, NEW r \in Request, Middleware(r), Excuses
  PROVE  Inv'
<1>. USE DEF Middleware
<1>1. Both(r)
  BY CsrfBoth, LookupBoth, StoreBoth, RedisFailsBoth, LeaveBoth, SizeBoth, LimitBoth
<1>2. PICK p, a : Moves(r, p) /\ Answers(r, p, a)
  BY <1>1 DEF Both
<1>3. Accounted'
  BY <1>2, MovesAccounted DEF Inv
<1>. QED BY <1>2, <1>3, AnswersPosted DEF Inv

(***************************************************************************)
(* Arrivals, the passing of time, the death of the process.                *)
(***************************************************************************)
(* A step that changes no todo and no key's work, and at most forgets      *)
(* answers.                                                                *)
Rests ==
  /\ UNCHANGED todo
  /\ \A k \in TodoKey : Working(k)' = Working(k)
  /\ \A k \in CacheKey : cache'[k] \in {cache[k], NoEntry}

LEMMA RestsKeysSound ==
  ASSUME Inv, Rests, Excuses
  PROVE  KeysSound'
<1>. SUFFICES ASSUME NEW k \in TodoKey, k \notin excuse'
              PROVE  Sound(k)'
  BY DEF KeysSound, TodoKey
<1>1. Sound(k) /\ k \in CacheKey /\ (cache'[k] = NoEntry => cache[k] = NoEntry)
  BY Unexcused
<1>2. cache'[k] = cache[k] /\ Working(k)' = Working(k)
  BY <1>1 DEF Rests
<1>3. \A s \in Request : TodoOf(s, k)' <=> TodoOf(s, k)
  BY DEF Rests, TodoOf
<1>. QED BY <1>1, <1>2, <1>3 DEF Sound

LEMMA StrayInv ==
  ASSUME Inv, NEW r \in Request, NEW status \in {400, 401}, Stray(r, status),
         UNCHANGED <<registerVars, todo>>, Excuses
  PROVE  Inv'
<1>1. /\ at[r] = "idle" /\ at' = [at EXCEPT ![r] = "done"]
      /\ UNCHANGED <<of, cache, hits, account, rows, try, mails, todo>>
      /\ answer' = [answer EXCEPT ![r] = [status |-> status, told |-> None]]
  BY DEF Stray, Reply, Goto, registerVars
<1>2. Refuses(r, status, "done")
  BY <1>1 DEF Refuses
<1>3. Posted'
  BY <1>2, Refused, AnswersPosted
<1>. USE <1>1 DEF Inv, Accounted
<1>4. Typed'
  BY DEF Typed, Phase, Outside
<1>5. AskedWell'
  BY DEF Typed, AskedWell, Under, Outside
<1>6. RowsHeld'
  BY DEF Typed, RowsHeld
<1>7. Exclusive'
  BY DEF Typed, Exclusive, Busy, Mine
<1>8. Opening'
  BY DEF Typed, Opening, Before, Mine, Registered
<1>9. AccountsWhole'
  BY DEF Typed, AccountsWhole, Registered
<1>. QED BY <1>3, <1>4, <1>5, <1>6, <1>7, <1>8, <1>9

LEMMA EnterInv ==
  ASSUME Inv, NEW r \in Request, NEW asked \in Asked, Enter(r, asked),
         asked.route = "register" => asked.body \in Email,
         asked.route = "todo" => asked.body \in Title,
         UNCHANGED <<registerVars, todo>>, Excuses
  PROVE  Inv'
<1>1. /\ at[r] = "idle" /\ at' = [at EXCEPT ![r] = "csrf"] /\ of' = [of EXCEPT ![r] = asked]
      /\ UNCHANGED <<answer, cache, hits, account, rows, try, mails, todo>>
      /\ asked.tenant \in Tenant
  BY DEF Enter, Goto, registerVars, Asked
<1>. USE <1>1
<1>2. /\ at'[r] = "csrf" /\ of'[r] = asked /\ answer[r] = Silent /\ todo[r] = NoTodo
      /\ \A s \in Request \ {r} : at'[s] = at[s] /\ of'[s] = of[s]
  <2>1. answer[r] = Silent /\ todo[r] = NoTodo
    BY DEF Inv, Posted, AnswersKept, TodosKept
  <2>. QED BY <2>1 DEF Inv, Accounted, Typed
<1>3. PostsTyped'
  BY DEF Inv, Posted, PostsTyped, Excuses
<1>4. AnswersKept'
  <2>. SUFFICES ASSUME NEW s \in Request
                PROVE  /\ at'[s] = "idle" => answer'[s] = Silent
                       /\ at'[s] = "store" =>
                            /\ answer'[s] = [status |-> 201, told |-> s]
                            /\ todo'[s] = [owner |-> of'[s].auth, key |-> of'[s].key,
                                           title |-> of'[s].body]
                       /\ answer'[s].status = 201 =>
                            Backed(todo', answer'[s].told, of'[s].auth, of'[s].body)
    BY DEF AnswersKept, Backed, Written
  <2>1. CASE s = r
    BY <1>2, <2>1 DEF Silent
  <2>2. CASE s # r
    BY <1>2, <2>2 DEF Inv, Posted, AnswersKept, Written
  <2>. QED BY <2>1, <2>2
<1>5. TodosKept'
  BY <1>2 DEF Inv, Posted, TodosKept
<1>6. CacheKept'
  BY DEF Inv, Posted, CacheKept
<1>7. KeysSound'
  <2>1. \A s \in Request : s # r => (KeyOf(s)' = KeyOf(s))
    BY <1>2 DEF KeyOf
  <2>2. \A k \in TodoKey : Working(k)' = Working(k)
    BY <1>2, <2>1 DEF Working
  <2>. QED BY <2>2, RestsKeysSound DEF Rests
<1>8. Posted'
  BY <1>3, <1>4, <1>5, <1>6, <1>7 DEF Posted
<1>. USE DEF Inv, Accounted
<1>9. Typed'
  BY DEF Typed, Phase
<1>10. AskedWell'
  BY DEF Typed, AskedWell, Under, Outside
<1>11. RowsHeld'
  BY DEF Typed, RowsHeld
<1>12. Exclusive'
  BY DEF Typed, Exclusive, Busy, Mine
<1>13. Opening'
  BY DEF Typed, Opening, Before, Mine, Registered
<1>14. AccountsWhole'
  BY DEF Typed, AccountsWhole, Registered
<1>. QED BY <1>8, <1>9, <1>10, <1>11, <1>12, <1>13, <1>14

LEMMA ArriveInv ==
  ASSUME Inv, NEW r \in Request, Arrive(r), Excuses
  PROVE  Inv'
<1>1. ASSUME NEW status \in {400, 401}, Stray(r, status) PROVE Inv'
  BY <1>1, StrayInv DEF Arrive
<1>2. CASE ~\E status \in {400, 401} : Stray(r, status)
  <2>1. PICK route \in Route, key \in Key \cup {None}, auth \in Auth, tenant \in Sources :
          \E body \in IF route = "register" THEN Email ELSE Title :
            Enter(r, [route |-> route, key |-> key, auth |-> auth, tenant |-> tenant,
                      body |-> body])
    BY <1>2 DEF Arrive
  <2>2. PICK body \in IF route = "register" THEN Email ELSE Title :
          Enter(r, [route |-> route, key |-> key, auth |-> auth, tenant |-> tenant,
                    body |-> body])
    BY <2>1
  <2>. DEFINE asked == [route |-> route, key |-> key, auth |-> auth, tenant |-> tenant,
                        body |-> body]
  <2>3. tenant \in Tenant \cup {None}
    BY DEF Sources, Identified
  <2>4. /\ asked \in Asked /\ Enter(r, asked)
        /\ asked.route = "register" => asked.body \in Email
        /\ asked.route = "todo" => asked.body \in Title
    BY <2>2, <2>3 DEF Asked
  <2>. HIDE DEF asked
  <2>. QED BY <2>4, EnterInv DEF Arrive
<1>. QED BY <1>1, <1>2

LEMMA PassesInv ==
  ASSUME Inv, Passes \/ UNCHANGED <<requestVars, registerVars, todo>>,
         Excuses \/ UNCHANGED vars
  PROVE  Inv'
<1>1. /\ UNCHANGED <<at, of, answer, account, rows, try, mails, todo>>
      /\ UNCHANGED cache \/ \E k \in CacheKey : cache' = [cache EXCEPT ![k] = NoEntry]
  BY DEF Passes, Window, Expire, registerVars, requestVars
<1>2. hits' \in [Route -> 0..Times]
  <2>1. hits \in [Route -> 0..Times] /\ 0 \in 0..Times
    BY RequestsAssumption DEF Inv, Accounted, Typed
  <2>2. UNCHANGED hits \/ \E q \in Route : hits' = [hits EXCEPT ![q] = 0]
    BY DEF Passes, Window, Expire, requestVars
  <2>. QED BY <2>1, <2>2
<1>3. \A k \in CacheKey : cache'[k] \in {cache[k], NoEntry}
  BY <1>1 DEF Inv, Posted, PostsTyped
<1>4. cache' \in [CacheKey -> Entry]
  BY <1>1 DEF Inv, Posted, PostsTyped, Entry, NoEntry
<1>5. PostsTyped'
  BY <1>1, <1>4 DEF Inv, Posted, PostsTyped, Excuses, vars
<1>6. AnswersKept' /\ TodosKept'
  BY <1>1 DEF Inv, Posted, AnswersKept, TodosKept, Backed, Written
<1>7. CacheKept'
  BY <1>1, <1>3 DEF Inv, Posted, CacheKept
<1>8. KeysSound'
  <2>1. CASE Excuses
    <3>1. Rests
      BY <1>1, <1>3 DEF Rests, Working, KeyOf
    <3>. QED BY <2>1, <3>1, RestsKeysSound
  <2>2. CASE UNCHANGED vars
    BY <2>2 DEF vars, requestVars, Inv, Posted, KeysSound, Sound, TodoOf, Working, KeyOf
  <2>. QED BY <2>1, <2>2
<1>. USE <1>1, <1>2 DEF Inv, Accounted
<1>9. Typed'
  BY DEF Typed
<1>10. AskedWell'
  BY DEF Typed, AskedWell, Under, Outside
<1>11. RowsHeld'
  BY DEF Typed, RowsHeld
<1>12. Exclusive'
  BY DEF Typed, Exclusive, Busy, Mine
<1>13. Opening'
  BY DEF Typed, Opening, Before, Mine, Registered
<1>14. AccountsWhole'
  BY DEF Typed, AccountsWhole, Registered
<1>. QED BY <1>5, <1>6, <1>7, <1>8, <1>9, <1>10, <1>11, <1>12, <1>13, <1>14 DEF Posted

LEMMA CrashInv ==
  ASSUME Inv, Crash, Excuses
  PROVE  Inv'
<1>1. /\ \A r \in Request : IF at[r] \in Outside
                            THEN at'[r] = at[r] /\ of'[r] = of[r] /\ answer'[r] = answer[r]
                            ELSE at'[r] = "lost" /\ of'[r] = Nothing /\ answer'[r] = Silent
      /\ UNCHANGED <<cache, hits, account, try, mails, todo>>
      /\ \A r \in Request : rows'[r] = {}
  BY DEF Crash, Die
<1>2. /\ at' \in [Request -> Phase] /\ of' \in [Request -> Asked]
      /\ answer' \in [Request -> Answer] /\ rows' \in [Request -> SUBSET Whole]
  <2>1. Nothing \in Asked /\ Silent \in Answer /\ "lost" \in Phase
    BY RequestsAssumption DEF Nothing, Asked, Route, Silent, Answer, Phase, Outside
  <2>2. answer' \in [Request -> Answer]
    BY <1>1, <2>1 DEF Crash, Die, Inv, Posted, PostsTyped
  <2>3. at' \in [Request -> Phase] /\ of' \in [Request -> Asked]
    BY <1>1, <2>1 DEF Crash, Die, Inv, Accounted, Typed
  <2>. QED BY <2>2, <2>3 DEF Crash
<1>3. \A r \in Request : at'[r] \in Outside
  BY <1>1 DEF Outside
<1>4. PostsTyped'
  BY <1>1, <1>2 DEF Inv, Posted, PostsTyped, Excuses
<1>5. AnswersKept'
  <2>. SUFFICES ASSUME NEW s \in Request
                PROVE  /\ at'[s] = "idle" => answer'[s] = Silent
                       /\ answer'[s].status = 201 =>
                            Backed(todo, answer'[s].told, of'[s].auth, of'[s].body)
    BY <1>1, <1>3 DEF AnswersKept, Backed, Written, Outside
  <2>1. CASE at[s] \in Outside
    <3>1. at'[s] = at[s] /\ of'[s] = of[s] /\ answer'[s] = answer[s]
      BY <1>1, <2>1
    <3>2. answer[s].status = 201 => Backed(todo, answer[s].told, of[s].auth, of[s].body)
      BY DEF Inv, Posted, AnswersKept
    <3>3. at[s] = "idle" => answer[s] = Silent
      BY DEF Inv, Posted, AnswersKept
    <3>. QED BY <3>1, <3>2, <3>3
  <2>2. CASE at[s] \notin Outside
    BY <1>1, <2>2 DEF Silent
  <2>. QED BY <2>1, <2>2
<1>6. TodosKept'
  BY <1>1 DEF Inv, Posted, TodosKept, Outside
<1>7. CacheKept'
  BY <1>1 DEF Inv, Posted, CacheKept
<1>8. KeysSound'
  <2>. SUFFICES ASSUME NEW k \in TodoKey, k \notin excuse'
                PROVE  Sound(k)'
    BY DEF KeysSound, TodoKey
  <2>1. /\ Sound(k)
        /\ cache'[k] = NoEntry => \A x \in Working(k) :
             x \in Working(k)' \/ todo'[x] = NoTodo \/ answer'[x].status = 201
    BY Unexcused
  <2>2. Working(k)' = {}
    BY <1>3 DEF Working, Outside
  <2>3. \A x \in Working(k) : answer'[x].status # 201
    BY <1>1 DEF Working, Outside, Silent
  <2>4. \A s \in Request : TodoOf(s, k)' <=> TodoOf(s, k)
    BY <1>1 DEF TodoOf
  <2>5. ASSUME NEW s \in Request, TodoOf(s, k), cache[k] = NoEntry PROVE FALSE
    <3>1. s \in Working(k)
      BY <2>1, <2>5 DEF Sound
    <3>. QED BY <1>1, <2>1, <2>2, <2>3, <2>5, <3>1 DEF TodoOf
  <2>. QED BY <1>1, <2>1, <2>2, <2>4, <2>5 DEF Sound
<1>. USE <1>1, <1>2, <1>3 DEF Inv, Accounted
<1>9. Typed'
  BY DEF Typed
<1>10. AskedWell'
  BY DEF Typed, AskedWell, Under, Outside
<1>11. RowsHeld'
  BY DEF Typed, RowsHeld, Outside
<1>12. Exclusive'
  BY DEF Typed, Exclusive, Busy, Mine, Outside
<1>13. Opening'
  BY DEF Typed, Opening, Before, Mine, Registered, Outside
<1>14. AccountsWhole'
  BY DEF Typed, AccountsWhole, Registered
<1>. QED BY <1>4, <1>5, <1>6, <1>7, <1>8, <1>9, <1>10, <1>11, <1>12, <1>13, <1>14 DEF Posted

LEMMA NextInv == Inv /\ [Next]_vars => Inv'
<1>. SUFFICES ASSUME Inv, [Next]_vars PROVE Inv'
  OBVIOUS
<1>1. ASSUME NEW r \in Request, Arrive(r) \/ Middleware(r) \/ Handler(r) \/ Abort(r), Excuses
      PROVE  Inv'
  BY <1>1, ArriveInv, MiddlewareInv, HandlerInv, AbortInv
<1>2. CASE Passes /\ Excuses
  BY <1>2, PassesInv
<1>3. CASE Crash /\ Excuses
  BY <1>3, CrashInv
<1>4. CASE UNCHANGED vars
  <2>1. UNCHANGED <<requestVars, registerVars, todo>>
    BY <1>4 DEF vars
  <2>. QED BY <1>4, <2>1, PassesInv
<1>. QED BY <1>1, <1>2, <1>3, <1>4 DEF Next, Change

(* The strengthened invariant holds in every reachable state.              *)
THEOREM Invariant == Spec => []Inv
BY InitInv, NextInv, PTL DEF Spec

(* A 201, given by the handler or replayed, is about a committed todo of   *)
(* the caller with the title asked for (create_todo/handler.py:22-25,      *)
(* idempotency.py:32-57).                                                  *)
THEOREM Told == Spec => []ToldTrue
<1>1. Inv => ToldTrue
  <2>. SUFFICES ASSUME Inv, NEW r \in Request, answer[r].status = 201
                PROVE  \E s \in Request :
                         /\ answer[r].told = s /\ todo[s] # NoTodo
                         /\ todo[s].owner = of[r].auth /\ todo[s].title = of[r].body
    BY DEF ToldTrue
  <2>1. Backed(todo, answer[r].told, of[r].auth, of[r].body)
    BY DEF Inv, Posted, AnswersKept
  <2>. QED BY <2>1 DEF Backed
<1>. QED BY <1>1, Invariant, PTL

(* A key used twice leads to two todos only if requests overlapped, the    *)
(* answer expired, or the commit was not followed by the SETEX             *)
(* (idempotency.py:32-57).                                                 *)
THEOREM SecondTodos == Spec => []SecondTodoExcused
<1>1. Inv => SecondTodoExcused
  <2>. SUFFICES ASSUME Inv, NEW r \in Request, NEW s \in Request, r # s,
                       todo[r] # NoTodo, todo[r].key # None,
                       todo[r].owner = todo[s].owner, todo[r].key = todo[s].key
                PROVE  <<"todo", todo[r].owner, todo[r].key>> \in excuse
    BY DEF SecondTodoExcused
  <2>. DEFINE k == <<"todo", todo[r].owner, todo[r].key>>
  <2>1. todo[r] \in Todo /\ todo[s] \in Todo \cup {NoTodo}
    BY DEF Inv, Posted, PostsTyped
  <2>2. k \in TodoKey
    BY <2>1 DEF TodoKey, Todo
  <2>3. todo[s] # NoTodo
    BY DEF NoTodo
  <2>4. TodoOf(r, k) /\ TodoOf(s, k)
    BY <2>3 DEF TodoOf
  <2>. HIDE DEF k
  <2>5. k \in excuse
    BY <2>2, <2>4 DEF Inv, Posted, KeysSound, Sound
  <2>. QED BY <2>5 DEF k
<1>. QED BY <1>1, Invariant, PTL

(***************************************************************************)
(* The gauge.                                                              *)
(***************************************************************************)
UnderWay == {r \in Request : Under(r)}

LEMMA UnderWayFinite ==
  /\ IsFiniteSet(UnderWay) /\ Cardinality(UnderWay) \in Nat
  /\ IsFiniteSet(Request) /\ Cardinality(UnderWay) <= Cardinality(Request)
  /\ Cardinality(Request) \in Nat
<1>1. UnderWay \subseteq Request
  BY DEF UnderWay
<1>. QED BY <1>1, FS_Subset, FS_CardinalityType, RequestsAssumption

(* A request that stays outside, or stays under way.                       *)
Stays(r) == \E p \in Phase : at' = [at EXCEPT ![r] = p] /\ (at[r] \in Outside) = (p \in Outside)

LEMMA GaugeNext == Inv /\ GaugeTrue /\ [Next]_vars => GaugeTrue'
<1>. SUFFICES ASSUME Inv, GaugeTrue, [Next]_vars PROVE GaugeTrue'
  OBVIOUS
<1>. DEFINE Quiet == active' = active /\ (UNCHANGED at \/ \E r \in Request : Stays(r))
<1>a. at \in [Request -> Phase] /\ active = Cardinality(UnderWay)
  BY DEF Inv, Accounted, Typed, UnderWay, GaugeTrue
<1>b. SUFFICES active' = Cardinality(UnderWay')
  BY DEF UnderWay, GaugeTrue
<1>1. CASE \E r \in Request : \E asked : Enter(r, asked)
  <2>1. PICK r \in Request : at[r] = "idle" /\ at' = [at EXCEPT ![r] = "csrf"]
                             /\ active' = active + 1
    BY <1>1 DEF Enter, Goto
  <2>2. UnderWay' = UnderWay \cup {r} /\ r \notin UnderWay
    BY <1>a, <2>1 DEF UnderWay, Under, Outside
  <2>. QED BY <1>a, <2>1, <2>2, FS_AddElement, UnderWayFinite
<1>2. CASE \E r \in Request : Leave(r)
  <2>1. PICK r \in Request : at[r] = "leave" /\ at' = [at EXCEPT ![r] = "done"]
                             /\ active' = active - 1
    BY <1>2 DEF Leave, Goto
  <2>2. UnderWay' = UnderWay \ {r} /\ r \in UnderWay
    BY <1>a, <2>1 DEF UnderWay, Under, Outside
  <2>. QED BY <1>a, <2>1, <2>2, FS_RemoveElement, UnderWayFinite
<1>3. CASE Crash
  <2>1. UnderWay' = {} /\ active' = 0
    BY <1>3, <1>a DEF Crash, Die, UnderWay, Under, Outside
  <2>. QED BY <2>1, FS_EmptySet
<1>4. CASE Quiet
  <2>1. UnderWay' = UnderWay
    BY <1>4, <1>a DEF UnderWay, Under, Stays
  <2>. QED BY <1>4, <1>a, <2>1
<1>. HIDE DEF Quiet
<1>5. ASSUME NEW r \in Request, Middleware(r), ~Leave(r)
      PROVE  Quiet
  <2>. USE DEF Quiet, Stays, Goto, Reply, Phase, Outside, Handling
  <2>1. CASE Limit(r)
    <3>1. /\ at[r] = "limit" /\ active' = active
          /\ \/ at' = [at EXCEPT ![r] = "check"] \/ at' = [at EXCEPT ![r] = "permit"]
             \/ at' = [at EXCEPT ![r] = "leave"]
      BY <2>1 DEF Limit
    <3>. QED BY <3>1
  <2>2. CASE ~Limit(r)
    BY <1>5, <2>2 DEF Middleware, Csrf, Lookup, Store, RedisFails, Size
  <2>. QED BY <2>1, <2>2
<1>6. ASSUME NEW r \in Request, Handler(r) \/ Abort(r)
      PROVE  Quiet
  <2>. USE DEF Quiet, Stays, Goto, Reply, Raise, Phase, Outside, Handling
  <2>1. CASE Check(r) \/ Unsent(r)
    BY <2>1 DEF Check, Unsent, Answered, AnswerFails
  <2>2. CASE Insert(r) \/ Grant(r) \/ Abort(r)
    BY <2>2 DEF Insert, Grant, Abort, AbortTodo, AbortRegister
  <2>3. CASE Commit(r) \/ CommitUnconfirmed(r)
    BY <2>3 DEF Commit, CommitUnconfirmed
  <2>4. ASSUME NEW sent \in BOOLEAN, NEW outcome \in {"true", "false", "raised"},
               Send(r, sent, outcome)
        PROVE  Quiet
    BY <2>4 DEF Send, AnswerFails
  <2>5. ASSUME NEW refusal \in {0, 403, 404}, Permit(r, refusal)
        PROVE  Quiet
    BY <2>5 DEF Permit
  <2>6. CASE Create(r) \/ CreateUnconfirmed(r)
    BY <2>6 DEF Create, CreateUnconfirmed, Answered
  <2>. QED BY <1>6, <2>1, <2>2, <2>3, <2>4, <2>5, <2>6 DEF Handler, Register
<1>7. ASSUME NEW r \in Request, Arrive(r), ~\E s \in Request : \E asked : Enter(s, asked)
      PROVE  Quiet
  <2>1. PICK status : Stray(r, status)
    BY <1>7 DEF Arrive
  <2>2. at' = [at EXCEPT ![r] = "done"] /\ at[r] = "idle" /\ active' = active
    BY <2>1 DEF Stray, Goto, Reply
  <2>3. "done" \in Phase /\ at[r] \in Outside /\ "done" \in Outside
    BY <2>2 DEF Phase, Outside
  <2>. QED BY <2>2, <2>3 DEF Quiet, Stays
<1>8. CASE Passes \/ UNCHANGED vars
  <2>1. UNCHANGED <<at, active>>
    BY <1>8 DEF Passes, Expire, Window, vars, requestVars
  <2>2. Quiet
    BY <2>1 DEF Quiet
  <2>. QED BY <1>4, <2>2
<1>. QED BY <1>1, <1>2, <1>3, <1>4, <1>5, <1>6, <1>7, <1>8 DEF Next, Change

(* The gauge counts the requests under way, also after exceptions and      *)
(* restarts (metrics.py:17-27).                                            *)
THEOREM Gauge == Spec => []GaugeTrue
<1>1. Init => GaugeTrue
  <2>1. Init => UnderWay = {} /\ active = 0
    BY DEF Init, RequestsInit, UnderWay, Under, Outside
  <2>. QED BY <2>1, FS_EmptySet DEF GaugeTrue, UnderWay
<1>. QED BY <1>1, GaugeNext, Invariant, PTL DEF Spec

(* Every variable keeps its type, with the gauge and the limiter's         *)
(* counters within their bounds (metrics.py:17-27, rate_limit.py:76-86).   *)
THEOREM TypeCorrect == Spec => []TypeOK
<1>1. Inv /\ GaugeTrue => TypeOK
  BY UnderWayFinite DEF Inv, Accounted, Posted, Typed, PostsTyped, Todo, GaugeTrue, TypeOK, UnderWay
<1>. QED BY <1>1, Invariant, Gauge, PTL

(***************************************************************************)
(* Registration implements Accounts.                                       *)
(***************************************************************************)
LEMMA OpenStep ==
  ASSUME Inv, NEW r \in Request, Commit(r) \/ CommitUnconfirmed(r)
  PROVE  Promise!Next
<1>1. Mine(r) \in Email /\ of[r].tenant \in Tenant /\ rows[r] = Whole /\ ~Registered(Mine(r))
  BY DEF Inv, Accounted, AskedWell, RowsHeld, Opening, Under, Outside, Mine, Commit,
         CommitUnconfirmed
<1>2. Promise!Open(Mine(r), of[r].tenant)
  BY <1>1 DEF Promise!Open, Promise!NoAccount, Promise!Whole, NoAccount, Whole, None, Registered,
              Commit, CommitUnconfirmed
<1>. QED BY <1>1, <1>2 DEF Promise!Next

LEMMA VerifyStep ==
  ASSUME Inv, NEW r \in Request, NEW sent \in BOOLEAN,
         NEW outcome \in {"true", "false", "raised"}, Send(r, sent, outcome)
  PROVE  [Promise!Next]_<<account, mails>>
<1>1. Mine(r) \in Email /\ Registered(Mine(r)) /\ mails[Mine(r)] <= try[r]
  BY DEF Inv, Accounted, AskedWell, Opening, Under, Outside, Mine, Send
<1>2. mails[Mine(r)] \in Nat /\ try[r] \in Nat /\ Len(Providers) \in Nat
  BY <1>1, ProvidersFinite DEF Inv, Accounted, Typed
<1>3. CASE sent
  <2>1. Promise!Verify(Mine(r))
    BY <1>1, <1>2, <1>3 DEF Promise!Verify, Promise!NoAccount, NoAccount, None, Registered, Send
  <2>. QED BY <1>1, <2>1 DEF Promise!Next
<1>4. CASE ~sent
  BY <1>4 DEF Send
<1>. QED BY <1>3, <1>4

LEMMA StepImplements == Inv /\ [Next]_vars => [Promise!Next]_<<account, mails>>
<1>. SUFFICES ASSUME Inv, [Next]_vars, ~UNCHANGED <<account, mails>>
              PROVE  Promise!Next
  OBVIOUS
<1>1. ASSUME NEW r \in Request, Handler(r) \/ Abort(r) PROVE Promise!Next
  BY <1>1, OpenStep, VerifyStep
  DEF Handler, Register, Check, Insert, Grant, Unsent, Permit, Create, CreateUnconfirmed,
      Abort, AbortTodo, AbortRegister, Raise, registerVars
<1>2. ASSUME NEW r \in Request, Arrive(r) \/ Middleware(r) PROVE Promise!Next
  BY <1>2 DEF Arrive, Middleware, registerVars
<1>. QED BY <1>1, <1>2 DEF Next, Change, Passes, Crash, vars, registerVars

(* Whatever is retried, repeated, lost or rolled back, and however many    *)
(* requests ask at once, registration does what Accounts promises          *)
(* (register_user/handler.py:31-64, user_model.py:44).                     *)
THEOREM Implements == Spec => ImplementsAccounts
<1>1. Init => Promise!Init
  BY DEF Init, RegistrationInit, Promise!Init, Promise!NoAccount, NoAccount, None
<1>. QED BY <1>1, StepImplements, Invariant, PTL DEF Spec, ImplementsAccounts, Promise!Spec
=============================================================================
