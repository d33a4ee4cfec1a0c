----------------------------- MODULE RbacProofs -----------------------------
(***************************************************************************)
(* Proofs about Rbac: types for every behaviour, and, when requests do not *)
(* overlap, that Casbin decides as the tables say.                         *)
(***************************************************************************)
EXTENDS Rbac, TLAPS

USE RbacAssumption

-----------------------------------------------------------------------------
(* The inductive invariant.                                                 *)

\* Every node has a text of its own kind.
Kinds ==
    /\ \A x \in Role : text[x] \in Name \cup {None, Gone}
    /\ \A x \in Permission : text[x] \in Key \cup {None, Gone}
    /\ \A x \in User : text[x] \in {None, x}
    /\ text[Star] = Star

\* What a request carries is of the kinds its writes need.
Carries(j) ==
    /\ j.at \in {"assign", "assign_commit"} =>
        \/ j.from \in User /\ j.to \in Role /\ j.v0 = j.from /\ j.v1 \in Name
        \/ j.from \in Role /\ j.to \in Permission /\ j.v0 \in Name /\ j.v1 \in Key
    /\ j.at = "remove" =>
        j.from \in Role /\ j.to \in Permission /\ j.v0 \in Name /\ j.v1 \in Key
    /\ j.at = "update" =>
        \/ j.from \in Role /\ j.v0 \in Name /\ j.v1 \in Name
        \/ j.from \in Permission /\ j.v0 \in Key /\ j.v1 \in Key
    /\ j.at = "delete" =>
        \/ j.from \in Role /\ j.v0 \in Name
        \/ j.from \in Permission /\ j.v0 \in Key

Jobs == \A q \in Request : Carries(job[q])

\* The foreign keys, of the committed links and of those about to be.
LinksExist == \A e \in link : Exists(e[1]) /\ Exists(e[2])

Held ==
    \A q \in Request :
        job[q].at = "assign_commit" /\ job[q].addLink =>
            Exists(job[q].to) /\ (job[q].from \in Role => Exists(job[q].from))

TypeInv == TypeOK /\ Kinds /\ Jobs /\ LinksExist /\ Held

\* The unique indexes.
Unique == \A x, y \in Node : Exists(x) /\ text[x] = text[y] => x = y

\* One request at a time, so what it has read is still so.
Alone == \A q, s \in Request : job[q] # Idle /\ job[s] # Idle => q = s

UpToDate(j) ==
    /\ j.at \in {"assign", "assign_commit", "remove"} =>
        /\ j.v1 = text[j.to]
        /\ IF j.from \in User THEN text[j.from] = None ELSE j.v0 = text[j.from]
    /\ j.at \in {"assign", "assign_commit"} =>
        (~j.addLink <=> <<j.from, j.to>> \in link)
    /\ j.at = "assign_commit" =>
        (j.addRule <=> rule[<<j.v0, j.v1>>] = 0)
    /\ j.at \in {"update", "delete"} => j.v0 = text[j.from]

Current == \A q \in Request : UpToDate(job[q])

IInv == TypeInv /\ Unique /\ Alone /\ Current /\ Mirror
-----------------------------------------------------------------------------
(* Types, whether requests overlap or not.                                  *)

LEMMA IdleIsAJob == Idle \in Job /\ Carries(Idle) /\ Idle.at = "idle"
BY DEF Idle, Job, Carries

\* Idle and the jobs that the reads make are jobs.
LEMMA StartJobs ==
    ASSUME TypeInv, NEW q \in Request, NEW j \in Job, Carries(j), Start(q, j)
    PROVE  job' \in [Request -> Job] /\ Jobs'
BY DEF TypeInv, TypeOK, Jobs, Start

LEMMA FinishJobs ==
    ASSUME TypeInv, NEW q \in Request, Finish(q)
    PROVE  /\ job' \in [Request -> Job] /\ Jobs'
           /\ \A s \in Request : job'[s] = job[s] \/ job'[s].at = "idle"
BY IdleIsAJob DEF TypeInv, TypeOK, Jobs, Finish

\* Nodes that stay keep the foreign keys.
LEMMA HeldStays ==
    ASSUME TypeInv,
           \A x \in Node : Exists(x) => Exists(x)',
           \A s \in Request : job'[s] = job[s] \/ job'[s].at # "assign_commit"
    PROVE  Held'
<1>1. \A s \in Request : job[s].at = "assign_commit" =>
                             job[s].to \in Node /\ (job[s].from \in Role => job[s].from \in Node)
    BY DEF TypeInv, Jobs, Carries, Node
<1>. QED
    BY <1>1 DEF TypeInv, Held

\* A rule whose texts are replaced by texts of the same kind is a rule.
LEMMA RenamedRule ==
    ASSUME NEW p \in Rule, NEW old, NEW new,
           (old \in Name /\ new \in Name) \/ (old \in Key /\ new \in Key)
    PROVE  <<Renamed(p[1], new, old), Renamed(p[2], new, old)>> \in Rule
BY DEF Rule, Renamed

\* A linked pair of nodes spells a rule.
LEMMA LinkIsRule ==
    ASSUME Kinds, NEW e \in Pair, Exists(e[1]), Exists(e[2])
    PROVE  TextOf(e) \in Rule
BY DEF Kinds, Pair, Exists, TextOf, Rule

LEMMA InitTypeInv == Init => TypeInv
BY IdleIsAJob DEF Init, TypeInv, TypeOK, Kinds, Jobs, Node, Text, LinksExist, Held

\* The reads change nothing but the slot of their request.
LEMMA ReadTypeInv ==
    ASSUME TypeInv, NEW q \in Request
    PROVE  /\ \A x, l : UpdateRead(q, x, l) => TypeInv'
           /\ \A x : DeleteRead(q, x) => TypeInv'
           /\ \A x, y : AssignRead(q, x, y) => TypeInv'
           /\ \A x, y : RemoveRead(q, x, y) => TypeInv'
           /\ \A u, y : RegisterRead(q, u, y) => TypeInv'
<1>. SUFFICES ASSUME NEW j \in Job, Carries(j), j.at # "assign_commit", Start(q, j),
                     UNCHANGED <<text, link, rule, granted>>
              PROVE  TypeInv'
    <2>1. ASSUME NEW x, NEW l, UpdateRead(q, x, l)
          PROVE  TypeInv'
        <3>. DEFINE j == [Idle EXCEPT !.at = "update", !.from = x, !.v0 = text[x], !.v1 = l]
        <3>1. j \in Job /\ Carries(j) /\ j.at # "assign_commit"
            BY <2>1 DEF UpdateRead, Exists, TypeInv, Kinds, Job, Idle, Carries, Node, Text, Texts
        <3>. QED BY <2>1, <3>1 DEF UpdateRead
    <2>2. ASSUME NEW x, DeleteRead(q, x)
          PROVE  TypeInv'
        <3>. DEFINE j == [Idle EXCEPT !.at = "delete", !.from = x, !.v0 = text[x]]
        <3>1. j \in Job /\ Carries(j) /\ j.at # "assign_commit"
            BY <2>2 DEF DeleteRead, Exists, TypeInv, Kinds, Job, Idle, Carries, Node, Text, Texts
        <3>. QED BY <2>2, <3>1 DEF DeleteRead
    <2>3. ASSUME NEW x, NEW y, AssignRead(q, x, y)
          PROVE  TypeInv'
        <3>. DEFINE j == [Idle EXCEPT !.at = "assign", !.from = x, !.to = y,
                                      !.v0 = text[x], !.v1 = text[y],
                                      !.addLink = <<x, y>> \notin link]
        <3>1. j \in Job /\ Carries(j) /\ j.at # "assign_commit"
            BY <2>3 DEF AssignRead, Exists, TypeInv, Kinds, Job, Idle, Carries, Node, Text
        <3>. QED BY <2>3, <3>1 DEF AssignRead
    <2>4. ASSUME NEW x, NEW y, RemoveRead(q, x, y)
          PROVE  TypeInv'
        <3>. DEFINE j == [Idle EXCEPT !.at = "remove", !.from = x, !.to = y,
                                      !.v0 = text[x], !.v1 = text[y]]
        <3>1. j \in Job /\ Carries(j) /\ j.at # "assign_commit"
            BY <2>4 DEF RemoveRead, Exists, TypeInv, Kinds, Job, Idle, Carries, Node, Text
        <3>. QED BY <2>4, <3>1 DEF RemoveRead
    <2>5. ASSUME NEW u, NEW y, RegisterRead(q, u, y)
          PROVE  TypeInv'
        <3>. DEFINE j == [Idle EXCEPT !.at = "assign", !.from = u, !.to = y,
                                      !.v0 = u, !.v1 = DefaultName, !.addLink = TRUE]
        <3>1. j \in Job /\ Carries(j) /\ j.at # "assign_commit"
            BY <2>5 DEF RegisterRead, Job, Idle, Carries, Node, Text
        <3>. QED BY <2>5, <3>1 DEF RegisterRead
    <2>. QED BY <2>1, <2>2, <2>3, <2>4, <2>5
<1>1. job' \in [Request -> Job] /\ Jobs'
    BY StartJobs
<1>2. \A s \in Request : job'[s] = job[s] \/ job'[s] = j
    BY DEF Start, TypeInv, TypeOK
<1>3. LinksExist'
    BY DEF TypeInv, LinksExist, Exists
<1>. QED
    BY <1>1, <1>2, <1>3, HeldStays DEF TypeInv, TypeOK, Kinds, Exists

LEMMA NextTypeInv ==
    ASSUME TypeInv, [Next]_vars
    PROVE  TypeInv'
<1>1. ASSUME NEW x \in Role \cup Permission, NEW l \in Name \cup Key, Create(x, l)
      PROVE  TypeInv'
    <2>1. TypeOK' /\ Kinds' /\ Jobs'
        BY <1>1 DEF Create, Texts, TypeInv, TypeOK, Kinds, Jobs, Node, Text
    <2>2. \A y \in Node : Exists(y) => Exists(y)'
        BY <1>1 DEF Create, Exists, TypeInv, TypeOK
    <2>3. LinksExist'
        BY <1>1, <2>2 DEF Create, TypeInv, TypeOK, LinksExist, Pair, Node
    <2>. QED
        BY <1>1, <2>1, <2>2, <2>3, HeldStays DEF Create, TypeInv
<1>2. ASSUME NEW a \in Role, NEW d \in Role, NEW p \in Permission, Seed(a, d, p)
      PROVE  TypeInv'
    <2>1. text' \in [Node -> Text \cup {None, Gone}] /\ Kinds'
        BY <1>2 DEF Seed, TypeInv, TypeOK, Kinds, Node, Text
    <2>2. /\ text'[a] = AdminName
          /\ text'[d] = DefaultName
          /\ text'[p] = DefaultKey
          /\ text'[AdminUser] = AdminUser
          /\ text'[Star] = Star
        BY <1>2 DEF Seed, TypeInv, TypeOK, Kinds, Node
    <2>3. \A e \in SeedLinks(a, d, p) :
              /\ <<text'[e[1]], text'[e[2]]>> \in Rule /\ e \in Pair
              /\ Exists(e[1])' /\ Exists(e[2])'
        BY <2>2 DEF SeedLinks, Rule, Pair, Exists
    <2>4. link' \subseteq Pair /\ granted' \subseteq Rule /\ rule' \in [Rule -> Nat]
        BY <1>2, <2>3 DEF Seed, TypeInv, TypeOK
    <2>5. \A x \in Node : Exists(x) => Exists(x)'
        BY <1>2, <2>2 DEF Seed, Exists, TypeInv, TypeOK
    <2>6. LinksExist'
        BY <1>2, <2>3, <2>5 DEF Seed, TypeInv, TypeOK, LinksExist, Pair, Node
    <2>7. Held'
        BY <1>2, <2>5, HeldStays DEF Seed
    <2>. QED
        BY <1>2, <2>1, <2>4, <2>6, <2>7 DEF Seed, TypeInv, TypeOK, Jobs
<1>3. ASSUME NEW q \in Request, Update(q)
      PROVE  TypeInv'
    <2>. DEFINE j == job[q]
    <2>1. /\ job' \in [Request -> Job] /\ Jobs'
          /\ \A s \in Request : job'[s] = job[s] \/ job'[s].at = "idle"
        BY <1>3, FinishJobs DEF Update
    <2>2. CASE j.v0 = j.v1
        <3>1. UNCHANGED <<text, link, rule, granted>>
            BY <1>3, <2>2 DEF Update
        <3>. QED
            BY <2>1, <3>1, HeldStays DEF TypeInv, TypeOK, Kinds, LinksExist, Exists
    <2>3. CASE j.v0 # j.v1
        <3>1. (j.from \in Role /\ j.v0 \in Name /\ j.v1 \in Name)
                \/ (j.from \in Permission /\ j.v0 \in Key /\ j.v1 \in Key)
            BY <1>3 DEF Update, TypeInv, Jobs, Carries
        <3>2. /\ text' = [text EXCEPT ![j.from] = j.v1]
              /\ rule' = RenameRules(j.v0, j.v1)
              /\ granted' = granted \cup {<<text'[p[1]], text'[p[2]]>> : p \in link}
              /\ link' = link
            BY <1>3, <2>3 DEF Update
        <3>3. text' \in [Node -> Text \cup {None, Gone}] /\ Kinds'
            BY <3>1, <3>2 DEF TypeInv, TypeOK, Kinds, Node, Text
        <3>4. \A x \in Node : Exists(x) => Exists(x)'
            BY <3>1, <3>2 DEF Exists, TypeInv, TypeOK
        <3>5. rule' \in [Rule -> Nat]
            BY <3>1, <3>2, RenamedRule DEF RenameRules, TypeInv, TypeOK
        <3>6. LinksExist' /\ link' \subseteq Pair
            BY <3>2, <3>4 DEF TypeInv, TypeOK, LinksExist, Pair, Node
        <3>7. granted' \subseteq Rule
            BY <3>2, <3>3, <3>6, LinkIsRule DEF TypeInv, TypeOK, LinksExist, Kinds, Exists, Pair, Rule
        <3>. QED
            BY <2>1, <3>2, <3>3, <3>4, <3>5, <3>6, <3>7, HeldStays DEF TypeInv, TypeOK
    <2>. QED BY <2>2, <2>3
<1>4. ASSUME NEW q \in Request, Delete(q)
      PROVE  TypeInv'
    <2>1. /\ job' \in [Request -> Job] /\ Jobs'
          /\ \A s \in Request : job'[s] = job[s] \/ job'[s].at = "idle"
        BY <1>4, FinishJobs DEF Delete
    <2>2. job[q].from \in Role \cup Permission
        BY <1>4 DEF Delete, TypeInv, Jobs, Carries
    <2>3. text' \in [Node -> Text \cup {None, Gone}] /\ Kinds'
        BY <1>4, <2>2 DEF Delete, TypeInv, TypeOK, Kinds, Node, Text
    <2>4. link' \subseteq Pair /\ granted' \subseteq Rule /\ rule' \in [Rule -> Nat]
        BY <1>4 DEF Delete, TypeInv, TypeOK
    <2>5. LinksExist'
        BY <1>4, <2>2 DEF Delete, TypeInv, TypeOK, LinksExist, Exists, Mentions, Pair, Node
    <2>6. Held'
        <3>1. SUFFICES ASSUME NEW s \in Request,
                              job[s].at = "assign_commit", job[s].addLink,
                              Exists(job[s].to), job[s].from \in Role => Exists(job[s].from)
                       PROVE  /\ text'[job[s].to] \notin {None, Gone}
                              /\ job[s].from \in Role => text'[job[s].from] \notin {None, Gone}
            BY <2>1 DEF TypeInv, Held, Exists
        <3>2. job[q].from \notin {job[s].from, job[s].to}
            BY <1>4, <3>1 DEF Delete, KeyShared
        <3>3. job[s].to \in Node /\ (job[s].from \in Role => job[s].from \in Node)
            BY <3>1 DEF TypeInv, Jobs, Carries, Node
        <3>. QED
            BY <1>4, <3>1, <3>2, <3>3 DEF Delete, Exists, TypeInv, TypeOK
    <2>. QED
        BY <2>1, <2>3, <2>4, <2>5, <2>6 DEF TypeInv, TypeOK
<1>5. ASSUME NEW q \in Request, Assign(q)
      PROVE  TypeInv'
    <2>. DEFINE j == job[q]
                n == [j EXCEPT !.at = "assign_commit",
                               !.addRule = (rule[<<j.v0, j.v1>>] = 0)]
    <2>0. j \in Job /\ Carries(j) /\ j.at = "assign" /\ job' = [job EXCEPT ![q] = n]
        BY <1>5 DEF Assign, TypeInv, TypeOK, Jobs
    <2>3. n \in Job
        BY <2>0 DEF Job
    <2>4. Carries(n)
        BY <2>0 DEF Carries, Job
    <2>1. job' \in [Request -> Job] /\ Jobs'
        BY <2>0, <2>3, <2>4 DEF TypeInv, TypeOK, Jobs
    <2>2. Held'
        BY <1>5 DEF Assign, TypeInv, TypeOK, Held, Job, Exists, Jobs, Carries
    <2>. QED
        BY <1>5, <2>1, <2>2 DEF Assign, TypeInv, TypeOK, Kinds, LinksExist, Exists
<1>6. ASSUME NEW q \in Request, AssignCommit(q)
      PROVE  TypeInv'
    <2>. DEFINE j == job[q]
    <2>1. /\ job' \in [Request -> Job] /\ Jobs'
          /\ \A s \in Request : job'[s] = job[s] \/ job'[s].at = "idle"
        BY <1>6, FinishJobs DEF AssignCommit
    <2>2. \/ j.from \in User /\ j.to \in Role /\ j.v0 = j.from /\ j.v1 \in Name
          \/ j.from \in Role /\ j.to \in Permission /\ j.v0 \in Name /\ j.v1 \in Key
        BY <1>6 DEF AssignCommit, TypeInv, Jobs, Carries
    <2>3. text' \in [Node -> Text \cup {None, Gone}] /\ Kinds'
        BY <1>6, <2>2 DEF AssignCommit, TypeInv, TypeOK, Kinds, Node, Text
    <2>4. \A x \in Node : Exists(x) => Exists(x)'
        BY <1>6 DEF AssignCommit, Exists, TypeInv, TypeOK, Kinds
    <2>5. <<j.v0, j.v1>> \in Rule /\ <<j.from, j.to>> \in Pair
        BY <2>2 DEF Rule, Pair
    <2>6. rule' \in [Rule -> Nat]
        BY <1>6, <2>5 DEF AssignCommit, TypeInv, TypeOK
    <2>7. j.addLink => text'[j.from] \notin {None, Gone} /\ text'[j.to] \notin {None, Gone}
        BY <1>6, <2>2, <2>4 DEF AssignCommit, TypeInv, TypeOK, Held, Node, Exists
    <2>8. LinksExist' /\ link' \subseteq Pair
        <3>1. \A e \in link : e \in Pair /\ Exists(e[1])' /\ Exists(e[2])'
            BY <2>4 DEF TypeInv, TypeOK, LinksExist, Pair, Node
        <3>2. \A e \in link' : e \in link \/ (j.addLink /\ e = <<j.from, j.to>>)
            BY <1>6 DEF AssignCommit
        <3>3. ASSUME NEW e \in link'
              PROVE  /\ e \in Pair
                     /\ text'[e[1]] \notin {None, Gone} /\ text'[e[2]] \notin {None, Gone}
            <4>1. CASE e \in link
                BY <3>1, <4>1 DEF Exists
            <4>2. CASE j.addLink /\ e = <<j.from, j.to>>
                BY <2>5, <2>7, <4>2
            <4>. QED BY <3>2, <4>1, <4>2
        <3>. QED
            BY <3>3 DEF LinksExist, Exists
    <2>9. granted' \subseteq Rule
        <3>1. ASSUME NEW e \in link'
              PROVE  <<text'[e[1]], text'[e[2]]>> \in Rule
            <4>1. e \in Pair /\ text'[e[1]] \notin {None, Gone} /\ text'[e[2]] \notin {None, Gone}
                BY <2>8 DEF LinksExist, Exists
            <4>. QED
                BY <2>3, <4>1 DEF Kinds, Pair, Rule
        <3>2. granted' = granted \cup {<<text'[e[1]], text'[e[2]]>> : e \in link'}
            BY <1>6 DEF AssignCommit
        <3>. QED
            BY <3>1, <3>2 DEF TypeInv, TypeOK
    <2>. QED
        BY <2>1, <2>3, <2>4, <2>6, <2>8, <2>9, HeldStays DEF TypeInv, TypeOK
<1>7. ASSUME NEW q \in Request, Remove(q)
      PROVE  TypeInv'
    <2>1. /\ job' \in [Request -> Job] /\ Jobs'
          /\ \A s \in Request : job'[s] = job[s] \/ job'[s].at = "idle"
        BY <1>7, FinishJobs DEF Remove
    <2>2. rule' \in [Rule -> Nat] /\ link' \subseteq Pair /\ LinksExist'
        BY <1>7 DEF Remove, TypeInv, TypeOK, LinksExist, Exists
    <2>. QED
        BY <1>7, <2>1, <2>2, HeldStays DEF Remove, TypeInv, TypeOK, Kinds, Exists
<1>8. ASSUME NEW q \in Request, Abort(q)
      PROVE  TypeInv'
    <2>1. /\ job' \in [Request -> Job] /\ Jobs'
          /\ \A s \in Request : job'[s] = job[s] \/ job'[s].at = "idle"
        BY <1>8, FinishJobs DEF Abort
    <2>. QED
        BY <1>8, <2>1, HeldStays DEF Abort, TypeInv, TypeOK, Kinds, LinksExist, Exists
<1>9. CASE UNCHANGED vars
    BY <1>9 DEF vars, TypeInv, TypeOK, Kinds, Jobs, LinksExist, Held, Exists
<1>. QED
    BY <1>1, <1>2, <1>3, <1>4, <1>5, <1>6, <1>7, <1>8, <1>9, ReadTypeInv DEF Next

THEOREM TypeInvHolds == Spec => []TypeInv
BY InitTypeInv, NextTypeInv, PTL DEF Spec

\* A request, a link and a rule are always well formed, however requests
\* overlap: in particular every text that is spelled into a rule is one.
THEOREM TypeCorrect == Spec => []TypeOK
<1>1. TypeInv => TypeOK
    BY DEF TypeInv
<1>. QED
    BY <1>1, TypeInvHolds, PTL

-----------------------------------------------------------------------------
(* One request at a time.                                                   *)

LEMMA NextUnique ==
    ASSUME TypeInv, Unique, [Next]_vars
    PROVE  Unique'
<1>. USE DEF Unique, Exists
<1>1. ASSUME NEW x \in Role \cup Permission, NEW l \in Name \cup Key, Create(x, l)
      PROVE  Unique'
    BY <1>1 DEF Create, Free, TypeInv, TypeOK, Node
<1>2. ASSUME NEW a \in Role, NEW d \in Role, NEW p \in Permission, Seed(a, d, p)
      PROVE  Unique'
    <2>1. /\ a # d /\ Found(a, AdminName) /\ Found(d, DefaultName) /\ Found(p, DefaultKey)
          /\ text' = [text EXCEPT ![a] = AdminName, ![d] = DefaultName,
                                  ![p] = DefaultKey, ![AdminUser] = AdminUser]
          /\ {a, d, p, AdminUser} \subseteq Node
        BY <1>2 DEF Seed, Node
    <2>2. \A y \in Node : /\ text[y] = AdminName => y = a
                          /\ text[y] = DefaultName => y = d
                          /\ text[y] = DefaultKey => y = p
                          /\ text[y] = AdminUser => y = AdminUser
        BY <2>1 DEF Found, Free, TypeInv, Kinds, Node
    <2>3. \A y \in Node : y \notin {a, d, p, AdminUser} => text'[y] = text[y]
        BY <2>1 DEF TypeInv, TypeOK
    <2>4. /\ text'[a] = AdminName /\ text'[d] = DefaultName
          /\ text'[p] = DefaultKey /\ text'[AdminUser] = AdminUser
        BY <2>1 DEF TypeInv, TypeOK
    <2>. QED
        BY <2>2, <2>3, <2>4
<1>3. ASSUME NEW q \in Request, Update(q)
      PROVE  Unique'
    BY <1>3 DEF Update, Free, TypeInv, TypeOK
<1>4. ASSUME NEW q \in Request, Delete(q)
      PROVE  Unique'
    BY <1>4 DEF Delete, TypeInv, TypeOK
<1>5. ASSUME NEW q \in Request, AssignCommit(q)
      PROVE  Unique'
    BY <1>5 DEF AssignCommit, TypeInv, TypeOK, Kinds, Node
<1>. QED
    BY <1>1, <1>2, <1>3, <1>4, <1>5
       DEF Next, vars, UpdateRead, DeleteRead, AssignRead, RemoveRead, RegisterRead,
           Assign, Remove, Abort

\* Only the slot of the request that takes a step can be busy after it.
LEMMA NextAlone ==
    ASSUME ~Overlap, TypeInv, Alone, [Next]_vars
    PROVE  Alone'
<1>. USE DEF Alone, TypeInv, TypeOK
<1>1. ASSUME NEW q \in Request, NEW j, Start(q, j)
      PROVE  Alone'
    BY <1>1 DEF Start
<1>2. ASSUME NEW q \in Request, Finish(q)
      PROVE  Alone'
    BY <1>2 DEF Finish
<1>3. ASSUME NEW q \in Request, Assign(q)
      PROVE  Alone'
    <2>1. job[q] # Idle
        BY <1>3, IdleIsAJob DEF Assign
    <2>. QED
        BY <1>3, <2>1 DEF Assign
<1>. QED
    BY <1>1, <1>2, <1>3
       DEF Next, vars, Create, Seed, Update, Delete, AssignCommit, Remove, Abort,
           UpdateRead, DeleteRead, AssignRead, RemoveRead, RegisterRead

LEMMA NextCurrent ==
    ASSUME ~Overlap, TypeInv, Alone, Current, [Next]_vars
    PROVE  Current'
<1>1. UpToDate(Idle)'
    BY DEF UpToDate, Idle
<1>2. ASSUME NEW q \in Request, NEW j, Start(q, j), UpToDate(j)'
      PROVE  Current'
    BY <1>1, <1>2 DEF Start, TypeInv, TypeOK, Current
<1>3. ASSUME NEW q \in Request, Finish(q), job[q] # Idle
      PROVE  Current'
    BY <1>1, <1>3 DEF Finish, Alone, TypeInv, TypeOK, Current
<1>4. ASSUME NEW x \in Role \cup Permission, NEW l \in Name \cup Key, Create(x, l)
      PROVE  Current'
    <2>1. SUFFICES ASSUME NEW q \in Request
                   PROVE  UpToDate(job[q])'
        BY DEF Current
    <2>2. /\ UpToDate(job[q]) /\ Carries(job[q]) /\ job' = job
          /\ link' = link /\ rule' = rule
        BY <1>4 DEF Create, TypeInv, Jobs, Current
    <2>3. \A y : y # x => text'[y] = text[y]
        BY <1>4 DEF Create, TypeInv, TypeOK
    <2>4. text[x] = None
        BY <1>4 DEF Create
    <2>. QED
        BY <2>2, <2>3, <2>4 DEF UpToDate, Carries
<1>5. ASSUME NEW a \in Role, NEW d \in Role, NEW p \in Permission, Seed(a, d, p)
      PROVE  Current'
    BY <1>1, <1>5 DEF Seed, Current
<1>6. ASSUME NEW q \in Request, Assign(q)
      PROVE  Current'
    <2>1. job[q] # Idle
        BY <1>6, IdleIsAJob DEF Assign
    <2>. DEFINE j == job[q]
                n == [j EXCEPT !.at = "assign_commit",
                               !.addRule = (rule[<<j.v0, j.v1>>] = 0)]
    <2>2. /\ j \in Job /\ UpToDate(j) /\ j.at = "assign"
          /\ job' = [job EXCEPT ![q] = n] /\ UNCHANGED <<text, link, rule>>
        BY <1>6 DEF Assign, TypeInv, TypeOK, Current
    <2>3. /\ n.at = "assign_commit" /\ n.from = j.from /\ n.to = j.to
          /\ n.v0 = j.v0 /\ n.v1 = j.v1 /\ n.addLink = j.addLink
          /\ n.addRule <=> rule[<<j.v0, j.v1>>] = 0
        BY <2>2 DEF Job
    <2>4. UpToDate(n)
        BY <2>2, <2>3 DEF UpToDate
    <2>5. job'[q] = n /\ \A s \in Request : s # q => job'[s] = Idle
        BY <2>1, <2>2 DEF Alone, TypeInv, TypeOK
    <2>6. UpToDate(Idle)
        BY DEF UpToDate, Idle
    <2>7. ASSUME NEW s \in Request
          PROVE  UpToDate(job'[s])
        <3>1. CASE s = q
            BY <2>4, <2>5, <3>1
        <3>2. CASE s # q
            <4>1. job'[s] = Idle
                BY <2>5, <3>2
            <4>. QED BY <2>6, <4>1
        <3>. QED BY <3>1, <3>2
    <2>. QED
        BY <2>2, <2>7 DEF Current, UpToDate
<1>7. ASSUME NEW q \in Request,
             Update(q) \/ Delete(q) \/ AssignCommit(q) \/ Remove(q) \/ Abort(q)
      PROVE  Current'
    BY <1>3, <1>7, IdleIsAJob DEF Update, Delete, AssignCommit, Remove, Abort
<1>8. ASSUME NEW q \in Request, NEW x, NEW l, UpdateRead(q, x, l)
      PROVE  Current'
    <2>. DEFINE j == [Idle EXCEPT !.at = "update", !.from = x, !.v0 = text[x], !.v1 = l]
    <2>1. Start(q, j) /\ text' = text
        BY <1>8 DEF UpdateRead
    <2>2. UpToDate(j)'
        BY <2>1 DEF UpToDate, Idle
    <2>. QED
        BY <2>1, <2>2, <1>2
<1>9. ASSUME NEW q \in Request, NEW x, DeleteRead(q, x)
      PROVE  Current'
    <2>. DEFINE j == [Idle EXCEPT !.at = "delete", !.from = x, !.v0 = text[x]]
    <2>1. Start(q, j) /\ text' = text
        BY <1>9 DEF DeleteRead
    <2>2. UpToDate(j)'
        BY <2>1 DEF UpToDate, Idle
    <2>. QED
        BY <2>1, <2>2, <1>2
<1>10. ASSUME NEW q \in Request, NEW x, NEW y, AssignRead(q, x, y)
       PROVE  Current'
    <2>. DEFINE j == [Idle EXCEPT !.at = "assign", !.from = x, !.to = y,
                                  !.v0 = text[x], !.v1 = text[y],
                                  !.addLink = <<x, y>> \notin link]
    <2>1. Start(q, j) /\ text' = text /\ link' = link /\ x \notin User
        BY <1>10 DEF AssignRead
    <2>2. UpToDate(j)'
        BY <2>1 DEF UpToDate, Idle
    <2>. QED
        BY <2>1, <2>2, <1>2
<1>11. ASSUME NEW q \in Request, NEW x, NEW y, RemoveRead(q, x, y)
       PROVE  Current'
    <2>. DEFINE j == [Idle EXCEPT !.at = "remove", !.from = x, !.to = y,
                                  !.v0 = text[x], !.v1 = text[y]]
    <2>1. Start(q, j) /\ text' = text /\ x \notin User
        BY <1>11 DEF RemoveRead
    <2>2. UpToDate(j)'
        BY <2>1 DEF UpToDate, Idle
    <2>. QED
        BY <2>1, <2>2, <1>2
<1>12. ASSUME NEW q \in Request, NEW u, NEW y, RegisterRead(q, u, y)
       PROVE  Current'
    <2>. DEFINE j == [Idle EXCEPT !.at = "assign", !.from = u, !.to = y,
                                  !.v0 = u, !.v1 = DefaultName, !.addLink = TRUE]
    <2>1. /\ Start(q, j) /\ text' = text /\ link' = link
          /\ u \in User /\ text[u] = None /\ text[y] = DefaultName
        BY <1>12 DEF RegisterRead
    <2>2. \A e \in link : e[1] # u
        BY <2>1 DEF TypeInv, LinksExist, Exists
    <2>3. UpToDate(j)'
        BY <2>1, <2>2 DEF UpToDate, Idle
    <2>. QED
        BY <2>1, <2>3, <1>2
<1>13. CASE UNCHANGED vars
    BY <1>13 DEF vars, Current, UpToDate
<1>. QED
    BY <1>4, <1>5, <1>6, <1>7, <1>8, <1>9, <1>10, <1>11, <1>12, <1>13 DEF Next

-----------------------------------------------------------------------------
(* The rules mirror the links.                                              *)

LEMMA MirrorBefore ==
    ASSUME Mirror
    PROVE  \A p \in Rule : rule[p] = IF \E e \in link : TextOf(e) = p THEN 1 ELSE 0
BY DEF Mirror

LEMMA MirrorAfter ==
    ASSUME rule' \in [Rule -> Nat],
           \A p \in Rule :
               rule'[p] = IF \E e \in link' : <<text'[e[1]], text'[e[2]]>> = p THEN 1 ELSE 0
    PROVE  Mirror'
BY DEF Mirror, TextOf

\* Links whose nodes keep their texts keep their rules.
LEMMA MirrorStays ==
    ASSUME Mirror, UNCHANGED <<link, rule>>,
           \A e \in link : text'[e[1]] = text[e[1]] /\ text'[e[2]] = text[e[2]]
    PROVE  Mirror'
<1>1. \A e \in link : TextOf(e)' = TextOf(e)
    BY DEF TextOf
<1>. QED
    BY <1>1 DEF Mirror

LEMMA LinkTexts ==
    ASSUME TypeInv
    PROVE  \A e \in link : /\ e \in Pair /\ e = <<e[1], e[2]>>
                           /\ e[1] \in Node /\ e[2] \in Node /\ e[1] # e[2]
                           /\ Exists(e[1]) /\ Exists(e[2])
BY DEF TypeInv, TypeOK, LinksExist, Pair, Node

LEMMA DeleteMirror ==
    ASSUME IInv, NEW q \in Request, Delete(q)
    PROVE  \A p \in Rule :
               rule'[p] = IF \E e \in link' : <<text'[e[1]], text'[e[2]]>> = p THEN 1 ELSE 0
<1>. DEFINE x == job[q].from
            z == job[q].v0
<1>1. x \in Node /\ z = text[x] /\ Exists(x)
    BY DEF Delete, IInv, TypeInv, Jobs, Carries, Current, UpToDate, Node, Exists
<1>2. /\ text' = [text EXCEPT ![x] = Gone]
      /\ link' = {e \in link : ~Mentions(e, x)}
      /\ rule' = [p \in Rule |-> IF Mentions(p, z) THEN 0 ELSE rule[p]]
    BY DEF Delete
<1>3. \A e \in link : Mentions(TextOf(e), z) <=> Mentions(e, x)
    BY <1>1, LinkTexts DEF IInv, Unique, Mentions, TextOf
<1>4. \A e \in link' : <<text'[e[1]], text'[e[2]]>> = TextOf(e) /\ e \in link
    BY <1>2, LinkTexts DEF IInv, TypeInv, TypeOK, Mentions, TextOf
<1>. SUFFICES ASSUME NEW p \in Rule
              PROVE  rule'[p] = IF \E e \in link' : TextOf(e) = p THEN 1 ELSE 0
    BY <1>4
<1>5. CASE Mentions(p, z)
    BY <1>2, <1>3, <1>4, <1>5
<1>6. CASE ~Mentions(p, z)
    BY <1>2, <1>3, <1>4, <1>6, MirrorBefore DEF IInv
<1>. QED BY <1>5, <1>6

LEMMA RemoveMirror ==
    ASSUME IInv, NEW q \in Request, Remove(q)
    PROVE  \A p \in Rule :
               rule'[p] = IF \E e \in link' : <<text'[e[1]], text'[e[2]]>> = p THEN 1 ELSE 0
<1>. DEFINE x == job[q].from
            y == job[q].to
<1>1. x \in Role /\ y \in Permission /\ job[q].v0 = text[x] /\ job[q].v1 = text[y]
        /\ text[x] \in Name /\ text[y] \in Key
    BY DEF Remove, IInv, TypeInv, Jobs, Carries, Current, UpToDate
<1>2. /\ text' = text
      /\ link' = link \ {<<x, y>>}
      /\ rule' = [rule EXCEPT ![<<text[x], text[y]>>] = 0]
    BY <1>1 DEF Remove
<1>3. \A e \in link : TextOf(e) = <<text[x], text[y]>> => e = <<x, y>>
    BY <1>1, LinkTexts DEF IInv, Unique, TextOf, Node, Exists
<1>. SUFFICES ASSUME NEW p \in Rule
              PROVE  rule'[p] = IF \E e \in link' : TextOf(e) = p THEN 1 ELSE 0
    BY <1>2 DEF TextOf
<1>5. CASE p = <<text[x], text[y]>>
    BY <1>2, <1>3, <1>5 DEF IInv, TypeInv, TypeOK
<1>6. CASE p # <<text[x], text[y]>>
    <2>1. TextOf(<<x, y>>) # p
        BY <1>6 DEF TextOf
    <2>2. rule'[p] = rule[p]
        BY <1>2, <1>6 DEF IInv, TypeInv, TypeOK
    <2>. QED
        BY <1>2, <2>1, <2>2, MirrorBefore DEF IInv
<1>. QED BY <1>5, <1>6

LEMMA AssignMirror ==
    ASSUME IInv, NEW q \in Request, AssignCommit(q)
    PROVE  \A p \in Rule :
               rule'[p] = IF \E e \in link' : <<text'[e[1]], text'[e[2]]>> = p THEN 1 ELSE 0
<1>. DEFINE j == job[q]
            f == <<j.from, j.to>>
            z == <<j.v0, j.v1>>
<1>1. /\ \/ j.from \in User /\ j.to \in Role /\ j.v0 = j.from /\ j.v1 \in Name
         \/ j.from \in Role /\ j.to \in Permission /\ j.v0 \in Name /\ j.v1 \in Key
      /\ j.v1 = text[j.to]
      /\ IF j.from \in User THEN text[j.from] = None ELSE j.v0 = text[j.from]
      /\ ~j.addLink <=> f \in link
      /\ j.addRule <=> rule[z] = 0
    BY DEF AssignCommit, IInv, TypeInv, Jobs, Carries, Current, UpToDate
<1>2. /\ text' = IF j.from \in User THEN [text EXCEPT ![j.from] = j.from] ELSE text
      /\ link' = IF j.addLink THEN link \cup {f} ELSE link
      /\ rule' = IF j.addRule THEN [rule EXCEPT ![z] = @ + 1] ELSE rule
    BY DEF AssignCommit
<1>3. link' = link \cup {f} /\ z \in Rule
    BY <1>1, <1>2 DEF Rule
<1>4. \A e \in link : <<text'[e[1]], text'[e[2]]>> = TextOf(e)
    BY <1>1, <1>2, LinkTexts DEF IInv, TypeInv, TypeOK, TextOf, Exists
<1>5. <<text'[j.from], text'[j.to]>> = z
    BY <1>1, <1>2 DEF IInv, TypeInv, TypeOK, Node
<1>6. rule[z] \in {0, 1}
    BY <1>3, MirrorBefore DEF IInv
<1>7. \A p \in Rule : rule'[p] = IF p = z THEN 1 ELSE rule[p]
    <2>1. CASE j.addRule
        BY <1>1, <1>2, <1>3, <2>1 DEF IInv, TypeInv, TypeOK
    <2>2. CASE ~j.addRule
        BY <1>1, <1>2, <1>6, <2>2
    <2>. QED BY <2>1, <2>2
<1>. SUFFICES ASSUME NEW p \in Rule
              PROVE  rule'[p] = IF \E e \in link \cup {f} : <<text'[e[1]], text'[e[2]]>> = p THEN 1 ELSE 0
    BY <1>3
<1>8. CASE p = z
    <2>1. f \in link \cup {f} /\ f[1] = j.from /\ f[2] = j.to
        OBVIOUS
    <2>2. \E e \in link \cup {f} : <<text'[e[1]], text'[e[2]]>> = p
        BY <1>5, <1>8, <2>1
    <2>. QED
        BY <1>7, <1>8, <2>2
<1>9. CASE p # z
    <2>1. rule'[p] = rule[p]
        BY <1>7, <1>9
    <2>2. (\E e \in link \cup {f} : <<text'[e[1]], text'[e[2]]>> = p)
             <=> \E e \in link : TextOf(e) = p
        BY <1>4, <1>5, <1>9
    <2>. QED
        BY <2>1, <2>2, MirrorBefore DEF IInv
<1>. QED BY <1>8, <1>9

LEMMA UpdateMirror ==
    ASSUME IInv, NEW q \in Request, Update(q), job[q].v0 # job[q].v1
    PROVE  \A p \in Rule :
               rule'[p] = IF \E e \in link' : <<text'[e[1]], text'[e[2]]>> = p THEN 1 ELSE 0
<1>. DEFINE x == job[q].from
            old == job[q].v0
            new == job[q].v1
            Back(p) == <<Renamed(p[1], new, old), Renamed(p[2], new, old)>>
<1>1. /\ \/ x \in Role /\ old \in Name /\ new \in Name
         \/ x \in Permission /\ old \in Key /\ new \in Key
      /\ x \in Node /\ old = text[x] /\ Exists(x)
    BY DEF Update, IInv, TypeInv, Jobs, Carries, Current, UpToDate, Node, Exists
<1>2. /\ text' = [text EXCEPT ![x] = new]
      /\ link' = link
      /\ rule' = RenameRules(old, new)
      /\ \A y \in Node : text[y] # new
    BY DEF Update, Free
<1>3. \A e \in link : /\ ~Mentions(TextOf(e), new)
                      /\ e[1] # x => text[e[1]] # old
                      /\ e[2] # x => text[e[2]] # old
    BY <1>1, <1>2, LinkTexts DEF Mentions, TextOf, IInv, Unique
<1>4. \A e \in link : <<text'[e[1]], text'[e[2]]>>
                        = <<Renamed(text[e[1]], old, new), Renamed(text[e[2]], old, new)>>
    BY <1>1, <1>2, <1>3, LinkTexts DEF IInv, TypeInv, TypeOK, Renamed
<1>. SUFFICES ASSUME NEW p \in Rule
              PROVE  rule'[p] = IF \E e \in link : <<text'[e[1]], text'[e[2]]>> = p THEN 1 ELSE 0
    BY <1>2
<1>5. p = <<p[1], p[2]>>
    BY DEF Rule
<1>6. CASE Mentions(p, old)
    <2>1. rule'[p] = 0
        BY <1>2, <1>6 DEF RenameRules
    <2>2. \A e \in link : <<text'[e[1]], text'[e[2]]>> # p
        BY <1>4, <1>6 DEF Renamed, Mentions
    <2>. QED BY <2>1, <2>2
<1>7. CASE ~Mentions(p, old) /\ Mentions(p, new)
    <2>1. Back(p) \in Rule
        BY <1>1, RenamedRule
    <2>2. rule[p] = 0
        BY <1>3, <1>7, MirrorBefore DEF IInv
    <2>3. rule'[p] = rule[Back(p)]
        BY <1>2, <1>7, <2>1, <2>2 DEF RenameRules, IInv, TypeInv, TypeOK
    <2>4. \A e \in link : <<text'[e[1]], text'[e[2]]>> = p <=> TextOf(e) = Back(p)
        BY <1>3, <1>4, <1>5, <1>7 DEF Renamed, Mentions, TextOf
    <2>. QED
        BY <2>1, <2>3, <2>4, MirrorBefore DEF IInv
<1>8. CASE ~Mentions(p, old) /\ ~Mentions(p, new)
    <2>1. rule'[p] = rule[p]
        BY <1>2, <1>8 DEF RenameRules
    <2>2. \A e \in link : <<text'[e[1]], text'[e[2]]>> = p <=> TextOf(e) = p
        BY <1>4, <1>5, <1>8 DEF Renamed, Mentions, TextOf
    <2>. QED
        BY <2>1, <2>2, MirrorBefore DEF IInv
<1>. QED BY <1>6, <1>7, <1>8

LEMMA SeedMirror ==
    ASSUME IInv, NEW a \in Role, NEW d \in Role, NEW p \in Permission, Seed(a, d, p)
    PROVE  \A z \in Rule :
               rule'[z] = IF \E e \in link' : <<text'[e[1]], text'[e[2]]>> = z THEN 1 ELSE 0
<1>. DEFINE more == SeedLinks(a, d, p)
            new == {<<text'[e[1]], text'[e[2]]>> : e \in more}
<1>1. /\ text' = [text EXCEPT ![a] = AdminName, ![d] = DefaultName,
                              ![p] = DefaultKey, ![AdminUser] = AdminUser]
      /\ link' = link \cup more
      /\ rule' = [e \in Rule |-> IF e \in new /\ rule[e] = 0 THEN 1 ELSE rule[e]]
      /\ Exists(a) => text[a] = AdminName
      /\ Exists(d) => text[d] = DefaultName
      /\ Exists(p) => text[p] = DefaultKey
    BY DEF Seed, Found, Exists
<1>2. \A y \in Node : Exists(y) => text'[y] = text[y]
    BY <1>1 DEF IInv, TypeInv, TypeOK, Kinds, Node, Exists, Seed
<1>3. \A e \in link : <<text'[e[1]], text'[e[2]]>> = TextOf(e)
    BY <1>2, LinkTexts DEF IInv, TextOf
<1>. SUFFICES ASSUME NEW z \in Rule
              PROVE  rule'[z] = IF \E e \in link \cup more : <<text'[e[1]], text'[e[2]]>> = z THEN 1 ELSE 0
    BY <1>1
<1>4. rule[z] = IF \E e \in link : TextOf(e) = z THEN 1 ELSE 0
    BY MirrorBefore DEF IInv
<1>5. rule'[z] = IF z \in new /\ rule[z] = 0 THEN 1 ELSE rule[z]
    BY <1>1
<1>6. (\E e \in link \cup more : <<text'[e[1]], text'[e[2]]>> = z)
         <=> (z \in new \/ \E e \in link : TextOf(e) = z)
    BY <1>3
<1>. QED
    BY <1>4, <1>5, <1>6

LEMMA NextMirror ==
    ASSUME IInv, [Next]_vars
    PROVE  Mirror'
<1>0. rule' \in [Rule -> Nat]
    BY NextTypeInv DEF IInv, TypeInv, TypeOK
<1>1. ASSUME NEW x \in Role \cup Permission, NEW l \in Name \cup Key, Create(x, l)
      PROVE  Mirror'
    BY <1>1, LinkTexts, MirrorStays DEF Create, IInv, TypeInv, TypeOK, Exists
<1>2. ASSUME NEW q \in Request, Update(q), job[q].v0 = job[q].v1
      PROVE  Mirror'
    BY <1>2, MirrorStays DEF Update, IInv
<1>3. ASSUME UNCHANGED <<text, link, rule>>
      PROVE  Mirror'
    BY <1>3, MirrorStays DEF IInv
<1>4. ASSUME NEW q \in Request, Update(q) \/ Delete(q) \/ AssignCommit(q) \/ Remove(q)
      PROVE  Mirror'
    BY <1>0, <1>2, <1>4, MirrorAfter, UpdateMirror, DeleteMirror, AssignMirror, RemoveMirror
<1>5. ASSUME NEW a \in Role, NEW d \in Role, NEW p \in Permission, Seed(a, d, p)
      PROVE  Mirror'
    BY <1>0, <1>5, MirrorAfter, SeedMirror
<1>. QED
    BY <1>1, <1>3, <1>4, <1>5
       DEF Next, vars, UpdateRead, DeleteRead, AssignRead, RemoveRead, RegisterRead,
           Assign, Abort

LEMMA InitIInv == Init => IInv
<1>1. Init => TypeInv
    BY InitTypeInv
<1>2. Init => Unique
    BY DEF Init, Unique, Exists, Node
<1>3. Init => Alone /\ Mirror
    BY DEF Init, Alone, Mirror
<1>4. Init => Current
    BY DEF Init, Current, UpToDate, Idle
<1>. QED BY <1>1, <1>2, <1>3, <1>4 DEF IInv

THEOREM SerialInvariant == ~Overlap => (Spec => []IInv)
<1>. SUFFICES ASSUME ~Overlap PROVE Spec => []IInv
    OBVIOUS
<1>1. IInv /\ [Next]_vars => IInv'
    BY NextTypeInv, NextUnique, NextAlone, NextCurrent, NextMirror DEF IInv
<1>. QED
    BY InitIInv, <1>1, PTL DEF Spec

\* As long as administration requests come one at a time, casbin_rules holds
\* every grant of the tables once and nothing else.
THEOREM RulesMirrorLinks == ~Overlap => (Spec => []Mirror)
<1>1. IInv => Mirror
    BY DEF IInv
<1>. QED
    BY <1>1, SerialInvariant, PTL

\* What the mirror is for: Casbin's answer is the tables' answer.
LEMMA MirrorDecides ==
    ASSUME IInv
    PROVE  DecisionsFollowTables
<1>. SUFFICES ASSUME NEW u \in User, NEW k \in Key
              PROVE  Can(u, k) <=> Holds(u, k)
    BY DEF DecisionsFollowTables
<1>1. \A z \in Rule : rule[z] > 0 <=> \E e \in link : TextOf(e) = z
    BY MirrorBefore DEF IInv
<1>2. ASSUME NEW n \in Name, rule[<<u, n>>] > 0
      PROVE  \E r \in Role : <<u, r>> \in link /\ text[r] = n
    <2>1. PICK e \in link : TextOf(e) = <<u, n>>
        BY <1>1, <1>2 DEF Rule
    <2>2. e[1] = u /\ e[2] \in Role
        BY <2>1, LinkTexts DEF IInv, TypeInv, Kinds, Pair, TextOf, Exists
    <2>. QED
        BY <2>1, <2>2, LinkTexts DEF IInv, TextOf
<1>3. ASSUME NEW r \in Role, Exists(r), NEW m \in Key \cup {Star}, rule[<<text[r], m>>] > 0
      PROVE  \E y \in Permission \cup {Star} : <<r, y>> \in link /\ text[y] = m
    <2>0. text[r] \in Name
        BY <1>3 DEF IInv, TypeInv, Kinds, Exists
    <2>1. PICK e \in link : TextOf(e) = <<text[r], m>>
        BY <1>1, <1>3, <2>0 DEF Rule
    <2>2. e[1] = r /\ e[2] \in Permission \cup {Star}
        BY <1>3, <2>0, <2>1, LinkTexts DEF IInv, TypeInv, Kinds, Unique, Pair, TextOf, Exists, Node
    <2>. QED
        BY <2>1, <2>2, LinkTexts DEF IInv, TextOf
<1>4. ASSUME NEW e \in link
      PROVE  rule[TextOf(e)] > 0
    <2>1. TextOf(e) \in Rule
        BY LinkTexts, LinkIsRule DEF IInv, TypeInv
    <2>. QED
        BY <1>1, <2>1
<1>5. Can(u, k) => Holds(u, k)
    <2>1. SUFFICES ASSUME NEW n \in Name, rule[<<u, n>>] > 0,
                          NEW m \in {k, Star}, rule[<<n, m>>] > 0
                   PROVE  Holds(u, k)
        BY DEF Can
    <2>2. PICK r \in Role : <<u, r>> \in link /\ text[r] = n
        BY <1>2, <2>1
    <2>3. Exists(r)
        BY <2>2, LinkTexts DEF IInv
    <2>4. PICK y \in Permission \cup {Star} : <<r, y>> \in link /\ text[y] = m
        BY <1>3, <2>1, <2>2, <2>3
    <2>5. y = Star \/ (y \in Permission /\ text[y] = k)
        BY <2>4 DEF IInv, TypeInv, Kinds
    <2>. QED
        BY <2>2, <2>4, <2>5 DEF Holds
<1>6. Holds(u, k) => Can(u, k)
    <2>1. SUFFICES ASSUME NEW r \in Role, <<u, r>> \in link,
                          NEW y \in Permission \cup {Star}, <<r, y>> \in link,
                          text[y] \in {k, Star}
                   PROVE  Can(u, k)
        BY DEF Holds, IInv, TypeInv, Kinds
    <2>2. TextOf(<<u, r>>) = <<u, text[r]>> /\ TextOf(<<r, y>>) = <<text[r], text[y]>>
            /\ text[r] \in Name
        BY <2>1, LinkTexts DEF IInv, TypeInv, Kinds, TextOf, Exists
    <2>3. rule[<<u, text[r]>>] > 0 /\ rule[<<text[r], text[y]>>] > 0
        BY <1>4, <2>1, <2>2
    <2>. QED
        BY <2>1, <2>2, <2>3 DEF Can
<1>. QED BY <1>5, <1>6

\* As long as administration requests come one at a time, require_permission
\* answers from the rules what the tables say, after any sequence of renames,
\* deletions, grants and re-creations.
THEOREM CasbinDecidesByTables == ~Overlap => (Spec => []DecisionsFollowTables)
BY MirrorDecides, SerialInvariant, PTL

\* A text that appears with the links unchanged is in no rule: a rule with it
\* would be the spelling of a link of that node, which did not exist.
LEMMA NewTextUnruled ==
    ASSUME IInv, IInv', link' = link, NEW x \in Role \cup Permission,
           text[x] = None, text'[x] # None, NEW p \in Rule, Mentions(p, text'[x])
    PROVE  rule'[p] = 0
<1>1. rule'[p] = IF \E e \in link : <<text'[e[1]], text'[e[2]]>> = p THEN 1 ELSE 0
    BY DEF IInv, Mirror, TextOf
<1>2. text'[x] \notin {None, Gone} /\ x \in Node
    BY DEF Mentions, Rule, Node
<1>3. ASSUME NEW e \in link, <<text'[e[1]], text'[e[2]]>> = p
      PROVE  FALSE
    <2>1. /\ e[1] \in Node /\ e[2] \in Node
          /\ text[e[1]] # None /\ text[e[2]] # None
        BY LinkTexts DEF IInv, Exists
    <2>2. text'[e[1]] = text'[x] \/ text'[e[2]] = text'[x]
        BY <1>3 DEF Mentions
    <2>3. e[1] = x \/ e[2] = x
        BY <1>2, <2>1, <2>2 DEF IInv, Unique, Exists
    <2>. QED
        BY <2>1, <2>3
<1>. QED
    BY <1>1, <1>3

\* As long as administration requests come one at a time, a role or permission
\* that is created, also under the name of one deleted before, is in no rule.
THEOREM NewTextsStartEmpty == ~Overlap => (Spec => NewTextGrantsNothing)
<1>. DEFINE A == \A x \in Role \cup Permission :
                    text[x] = None /\ text'[x] # None /\ link' = link =>
                        \A p \in Rule : Mentions(p, text'[x]) => rule'[p] = 0
<1>1. IInv /\ IInv' => A
    BY NewTextUnruled
<1>2. IInv /\ IInv' /\ [Next]_vars => [A]_vars
    BY <1>1
<1>. QED
    BY SerialInvariant, <1>2, PTL DEF Spec, NewTextGrantsNothing

-----------------------------------------------------------------------------
(* Requests that overlap, while names stay (Renames = FALSE).               *)

\* The nodes a request has read are as they were, or deleted; and a grant it
\* found in the tables was once made.
Recalls(j) ==
    /\ j.at # "idle" /\ j.from \notin User => text[j.from] \in {j.v0, Gone}
    /\ j.at \in {"assign", "assign_commit", "remove"} => text[j.to] \in {j.v1, Gone}
    /\ j.at \in {"assign", "assign_commit"} =>
        /\ j.from \in User => j.addLink
        /\ ~j.addLink => <<j.v0, j.v1>> \in granted

Recalled == \A q \in Request : Recalls(job[q])

LinksGranted == \A e \in link : TextOf(e) \in granted

OInv == TypeInv /\ Recalled /\ LinksGranted /\ OnlyGranted /\ UserRolesBacked

LEMMA JobNodes ==
    ASSUME TypeInv, NEW q \in Request
    PROVE  /\ job[q].at # "idle" /\ job[q].from \notin User =>
                 job[q].from \in Role \cup Permission
           /\ job[q].at \in {"assign", "assign_commit", "remove"} =>
                 job[q].to \in Role \cup Permission
           /\ job[q].v0 \notin {None, Gone} \/ job[q].at = "idle"
           /\ job[q].at \in {"assign", "assign_commit", "remove"} =>
                 job[q].v1 \notin {None, Gone}
BY DEF TypeInv, TypeOK, Jobs, Carries, Job

\* Texts only end, and grants are never forgotten.
LEMMA TextsOnlyEnd ==
    ASSUME ~Renames, TypeInv, [Next]_vars
    PROVE  /\ \A x \in Node : text[x] # None => text'[x] \in {text[x], Gone}
           /\ granted \subseteq granted'
<1>1. ASSUME NEW x \in Role \cup Permission, NEW l \in Name \cup Key, Create(x, l)
      PROVE  /\ \A y \in Node : text[y] # None => text'[y] \in {text[y], Gone}
             /\ granted \subseteq granted'
    BY <1>1 DEF Create, TypeInv, TypeOK
<1>2. ASSUME NEW a \in Role, NEW d \in Role, NEW p \in Permission, Seed(a, d, p)
      PROVE  /\ \A y \in Node : text[y] # None => text'[y] \in {text[y], Gone}
             /\ granted \subseteq granted'
    BY <1>2 DEF Seed, Found, TypeInv, TypeOK, Kinds
<1>3. ASSUME NEW q \in Request, Update(q)
      PROVE  UNCHANGED <<text, granted>>
    BY <1>3 DEF Update
<1>4. ASSUME NEW q \in Request, Delete(q)
      PROVE  /\ \A y \in Node : text[y] # None => text'[y] \in {text[y], Gone}
             /\ granted \subseteq granted'
    BY <1>4 DEF Delete, TypeInv, TypeOK
<1>5. ASSUME NEW q \in Request, AssignCommit(q)
      PROVE  /\ \A y \in Node : text[y] # None => text'[y] \in {text[y], Gone}
             /\ granted \subseteq granted'
    BY <1>5 DEF AssignCommit, TypeInv, TypeOK, Kinds
<1>. QED
    BY <1>1, <1>2, <1>3, <1>4, <1>5
       DEF Next, vars, UpdateRead, DeleteRead, AssignRead, RemoveRead, RegisterRead,
           Assign, Remove, Abort

\* What a request recalls stays so while others go on.
LEMMA RecallStays ==
    ASSUME ~Renames, OInv, [Next]_vars, NEW s \in Request, job'[s] = job[s]
    PROVE  Recalls(job[s])'
<1>1. Recalls(job[s])
    BY DEF OInv, Recalled
<1>2. /\ job[s].at # "idle" /\ job[s].from \notin User =>
            text[job[s].from] # None /\ job[s].from \in Node
      /\ job[s].at \in {"assign", "assign_commit", "remove"} =>
            text[job[s].to] # None /\ job[s].to \in Node
    BY <1>1, JobNodes DEF Recalls, OInv, Node
<1>. QED
    BY <1>1, <1>2, TextsOnlyEnd DEF Recalls, OInv

LEMMA NextRecalled ==
    ASSUME ~Renames, OInv, [Next]_vars
    PROVE  Recalled'
<1>. SUFFICES ASSUME NEW s \in Request, job'[s] # job[s]
              PROVE  Recalls(job[s])'
    BY RecallStays DEF Recalled
<1>1. ASSUME NEW q \in Request, Finish(q)
      PROVE  Recalls(job[s])'
    BY <1>1, FinishJobs DEF Recalls, OInv
<1>2. ASSUME NEW q \in Request, NEW j, Start(q, j), job' = [job EXCEPT ![q] = j]
      PROVE  job'[s] = j
    BY <1>2 DEF OInv, TypeInv, TypeOK
<1>3. ASSUME NEW q \in Request, NEW x \in Role \cup Permission, NEW l \in Name \cup Key,
             UpdateRead(q, x, l)
      PROVE  Recalls(job[s])'
    BY <1>2, <1>3 DEF UpdateRead, Start, Recalls, Idle
<1>4. ASSUME NEW q \in Request, NEW x \in Role \cup Permission, DeleteRead(q, x)
      PROVE  Recalls(job[s])'
    BY <1>2, <1>4 DEF DeleteRead, Start, Recalls, Idle
<1>5. ASSUME NEW q \in Request, NEW x \in Role, NEW y \in Permission, AssignRead(q, x, y)
      PROVE  Recalls(job[s])'
    <2>1. job'[s] = [Idle EXCEPT !.at = "assign", !.from = x, !.to = y,
                                 !.v0 = text[x], !.v1 = text[y],
                                 !.addLink = <<x, y>> \notin link]
        BY <1>2, <1>5 DEF AssignRead, Start
    <2>2. <<x, y>> \in link => <<text[x], text[y]>> \in granted
        BY DEF OInv, LinksGranted, TextOf
    <2>. QED
        BY <1>5, <2>1, <2>2 DEF AssignRead, Recalls, Idle
<1>6. ASSUME NEW q \in Request, NEW x \in Role, NEW y \in Permission, RemoveRead(q, x, y)
      PROVE  Recalls(job[s])'
    BY <1>2, <1>6 DEF RemoveRead, Start, Recalls, Idle
<1>7. ASSUME NEW q \in Request, NEW u \in User, NEW y \in Role, RegisterRead(q, u, y)
      PROVE  Recalls(job[s])'
    BY <1>2, <1>7 DEF RegisterRead, Start, Recalls, Idle
<1>8. ASSUME NEW q \in Request, Assign(q)
      PROVE  Recalls(job[s])'
    <2>1. s = q
        BY <1>8 DEF Assign, OInv, TypeInv, TypeOK
    <2>2. /\ job[s].at = "assign" /\ job[s] \in Job
          /\ job'[s] = [job[s] EXCEPT !.at = "assign_commit",
                                      !.addRule = (rule[<<job[s].v0, job[s].v1>>] = 0)]
        BY <1>8, <2>1 DEF Assign, OInv, TypeInv, TypeOK
    <2>3. /\ job'[s].at = "assign_commit"
          /\ job'[s].from = job[s].from /\ job'[s].to = job[s].to
          /\ job'[s].v0 = job[s].v0 /\ job'[s].v1 = job[s].v1
          /\ job'[s].addLink = job[s].addLink
        BY <2>2 DEF Job
    <2>. QED
        BY <1>8, <2>2, <2>3 DEF Assign, Recalls, OInv, Recalled
<1>. QED
    BY <1>1, <1>3, <1>4, <1>5, <1>6, <1>7, <1>8
       DEF Next, vars, Create, Seed, Update, Delete, AssignCommit, Remove, Abort

\* What a registration or a grant is about to commit is still there.
LEMMA CommitTexts ==
    ASSUME OInv, NEW q \in Request, AssignCommit(q)
    PROVE  /\ job[q].addLink =>
                /\ <<job[q].from, job[q].to>> \in link'
                /\ text'[job[q].from] = job[q].v0
                /\ text'[job[q].to] = job[q].v1
           /\ <<job[q].v0, job[q].v1>> \in granted'
<1>. DEFINE j == job[q]
<1>1. /\ j.at = "assign_commit"
      /\ text' = IF j.from \in User THEN [text EXCEPT ![j.from] = j.from] ELSE text
      /\ link' = IF j.addLink THEN link \cup {<<j.from, j.to>>} ELSE link
      /\ granted' = granted \cup {<<text'[p[1]], text'[p[2]]>> : p \in link'}
    BY DEF AssignCommit
<1>2. \/ j.from \in User /\ j.to \in Role /\ j.v0 = j.from
      \/ j.from \in Role /\ j.to \in Permission
    BY <1>1 DEF OInv, TypeInv, Jobs, Carries
<1>3. j.addLink => text[j.to] = j.v1 /\ (j.from \in Role => text[j.from] = j.v0)
    BY <1>1, <1>2 DEF OInv, TypeInv, Held, Exists, Recalled, Recalls
<1>4. j.addLink => text'[j.from] = j.v0 /\ text'[j.to] = j.v1
    BY <1>1, <1>2, <1>3 DEF OInv, TypeInv, TypeOK, Node
<1>5. j.addLink => <<text'[j.from], text'[j.to]>> \in granted'
    <2>. SUFFICES ASSUME j.addLink
                  PROVE  <<text'[j.from], text'[j.to]>> \in granted'
        OBVIOUS
    <2>. DEFINE f == <<j.from, j.to>>
    <2>1. f \in link' /\ f[1] = j.from /\ f[2] = j.to
        BY <1>1
    <2>2. \A e \in link' : <<text'[e[1]], text'[e[2]]>> \in granted'
        BY DEF AssignCommit
    <2>. QED BY <2>1, <2>2
<1>6. ~j.addLink => <<j.v0, j.v1>> \in granted
    BY <1>1 DEF OInv, Recalled, Recalls
<1>. QED BY <1>1, <1>4, <1>5, <1>6

LEMMA NextLinksGranted ==
    ASSUME ~Renames, OInv, [Next]_vars
    PROVE  LinksGranted'
<1>. SUFFICES ASSUME NEW e \in link'
              PROVE  <<text'[e[1]], text'[e[2]]>> \in granted'
    BY DEF LinksGranted, TextOf
<1>1. ASSUME e \in link, text'[e[1]] = text[e[1]], text'[e[2]] = text[e[2]]
      PROVE  <<text'[e[1]], text'[e[2]]>> \in granted'
    BY <1>1, TextsOnlyEnd DEF OInv, LinksGranted, TextOf
<1>2. e \in link => /\ e[1] \in Node /\ text[e[1]] \notin {None, Gone}
                    /\ e[2] \in Node /\ text[e[2]] \notin {None, Gone}
    BY LinkTexts DEF OInv, Exists
<1>3. ASSUME NEW x \in Role \cup Permission, NEW l \in Name \cup Key, Create(x, l)
      PROVE  <<text'[e[1]], text'[e[2]]>> \in granted'
    BY <1>1, <1>2, <1>3 DEF Create, OInv, TypeInv, TypeOK
<1>4. ASSUME NEW a \in Role, NEW d \in Role, NEW p \in Permission, Seed(a, d, p)
      PROVE  <<text'[e[1]], text'[e[2]]>> \in granted'
    <2>0. \A y \in Node : text[y] # None => text'[y] = text[y]
        BY <1>4 DEF Seed, Found, OInv, TypeInv, TypeOK, Kinds
    <2>1. CASE e \in link
        BY <1>1, <1>2, <2>0, <2>1
    <2>2. CASE e \in SeedLinks(a, d, p)
        BY <1>4, <2>2 DEF Seed
    <2>. QED
        BY <1>4, <2>1, <2>2 DEF Seed
<1>5. ASSUME NEW q \in Request, Delete(q)
      PROVE  <<text'[e[1]], text'[e[2]]>> \in granted'
    BY <1>1, <1>2, <1>5 DEF Delete, Mentions, OInv, TypeInv, TypeOK
<1>6. ASSUME NEW q \in Request, AssignCommit(q)
      PROVE  <<text'[e[1]], text'[e[2]]>> \in granted'
    BY <1>6 DEF AssignCommit
<1>7. ASSUME UNCHANGED text, link' \subseteq link
      PROVE  <<text'[e[1]], text'[e[2]]>> \in granted'
    BY <1>1, <1>7
<1>. QED
    BY <1>3, <1>4, <1>5, <1>6, <1>7
       DEF Next, vars, UpdateRead, DeleteRead, AssignRead, RemoveRead, RegisterRead,
           Assign, Update, Remove, Abort

LEMMA NextOnlyGranted ==
    ASSUME ~Renames, OInv, [Next]_vars
    PROVE  OnlyGranted'
<1>. SUFFICES ASSUME NEW z \in Rule, rule'[z] > 0
              PROVE  z \in granted'
    BY DEF OnlyGranted
<1>1. rule[z] > 0 => z \in granted'
    BY TextsOnlyEnd DEF OInv, OnlyGranted
<1>2. rule[z] \in Nat
    BY DEF OInv, TypeInv, TypeOK
<1>3. ASSUME NEW a \in Role, NEW d \in Role, NEW p \in Permission, Seed(a, d, p)
      PROVE  z \in granted'
    BY <1>1, <1>2, <1>3 DEF Seed
<1>4. ASSUME NEW q \in Request, Delete(q)
      PROVE  z \in granted'
    BY <1>1, <1>4 DEF Delete
<1>5. ASSUME NEW q \in Request, AssignCommit(q)
      PROVE  z \in granted'
    <2>1. CASE z = <<job[q].v0, job[q].v1>>
        BY <1>5, <2>1, CommitTexts DEF OInv
    <2>2. CASE z # <<job[q].v0, job[q].v1>>
        BY <1>1, <1>5, <2>2 DEF AssignCommit, OInv, TypeInv, TypeOK
    <2>. QED BY <2>1, <2>2
<1>6. ASSUME NEW q \in Request, Remove(q)
      PROVE  z \in granted'
    BY <1>1, <1>6 DEF Remove, OInv, TypeInv, TypeOK
<1>7. ASSUME UNCHANGED rule
      PROVE  z \in granted'
    BY <1>1, <1>7
<1>. QED
    BY <1>3, <1>4, <1>5, <1>6, <1>7
       DEF Next, vars, UpdateRead, DeleteRead, AssignRead, RemoveRead, RegisterRead,
           Assign, Update, Create, Abort

LEMMA NextUserRolesBacked ==
    ASSUME ~Renames, OInv, [Next]_vars
    PROVE  UserRolesBacked'
<1>. SUFFICES ASSUME NEW u \in User, NEW n \in Name, rule'[<<u, n>>] > 0
              PROVE  \E r \in Role : <<u, r>> \in link' /\ text'[r] = n
    BY DEF UserRolesBacked
<1>0. <<u, n>> \in Rule /\ n \notin {None, Gone}
    BY DEF Rule
<1>1. ASSUME rule[<<u, n>>] > 0
      PROVE  \E r \in Role : <<u, r>> \in link /\ text[r] = n
    BY <1>1 DEF OInv, UserRolesBacked
<1>2. ASSUME rule[<<u, n>>] > 0, \A r \in Role : text[r] = n => text'[r] = n,
             \A r \in Role : text[r] = n /\ <<u, r>> \in link => <<u, r>> \in link'
      PROVE  \E r \in Role : <<u, r>> \in link' /\ text'[r] = n
    <2>1. PICK r \in Role : <<u, r>> \in link /\ text[r] = n
        BY <1>1, <1>2
    <2>2. <<u, r>> \in link' /\ text'[r] = n
        BY <1>2, <2>1
    <2>. QED BY <2>2
<1>3. ASSUME NEW x \in Role \cup Permission, NEW l \in Name \cup Key, Create(x, l)
      PROVE  \E r \in Role : <<u, r>> \in link' /\ text'[r] = n
    <2>1. \A r \in Role : text[r] # None => text'[r] = text[r]
        BY <1>3 DEF Create, OInv, TypeInv, TypeOK
    <2>. QED
        BY <1>0, <1>2, <1>3, <2>1 DEF Create
<1>4. ASSUME NEW a \in Role, NEW d \in Role, NEW p \in Permission, Seed(a, d, p)
      PROVE  \E r \in Role : <<u, r>> \in link' /\ text'[r] = n
    <2>1. /\ link' = link \cup SeedLinks(a, d, p)
          /\ text'[a] = AdminName
          /\ text'[d] \in Name /\ text'[p] \in Key /\ text'[Star] = Star
          /\ text'[AdminUser] = AdminUser
          /\ \A r \in Role : text[r] = n => text'[r] = n
        BY <1>0, <1>4 DEF Seed, Found, OInv, TypeInv, TypeOK, Kinds, Node
    <2>2. CASE rule[<<u, n>>] > 0
        BY <1>2, <2>1, <2>2
    <2>3. CASE ~(rule[<<u, n>>] > 0)
        <3>1. PICK e \in SeedLinks(a, d, p) : <<u, n>> = <<text'[e[1]], text'[e[2]]>>
            BY <1>0, <1>4, <2>3 DEF Seed
        <3>2. e = <<AdminUser, a>> /\ u = AdminUser /\ n = AdminName
            BY <2>1, <3>1 DEF SeedLinks
        <3>. QED
            BY <2>1, <3>1, <3>2
    <2>. QED BY <2>2, <2>3
<1>5. ASSUME NEW q \in Request, Delete(q)
      PROVE  \E r \in Role : <<u, r>> \in link' /\ text'[r] = n
    <2>1. /\ job[q].from \in Role \cup Permission
          /\ text[job[q].from] \in {job[q].v0, Gone}
        BY <1>5, JobNodes DEF Delete, OInv, TypeInv, Jobs, Carries, Recalled, Recalls
    <2>2. n # job[q].v0 /\ rule[<<u, n>>] > 0
        BY <1>0, <1>5 DEF Delete, Mentions
    <2>3. \A r \in Role : text[r] = n => r # job[q].from
        BY <1>0, <2>1, <2>2
    <2>. QED
        BY <1>2, <1>5, <2>1, <2>2, <2>3 DEF Delete, Mentions, OInv, TypeInv, TypeOK, Node
<1>6. ASSUME NEW q \in Request, AssignCommit(q)
      PROVE  \E r \in Role : <<u, r>> \in link' /\ text'[r] = n
    <2>. DEFINE j == job[q]
    <2>1. /\ \/ j.from \in User /\ j.to \in Role /\ j.v0 = j.from /\ j.addLink
             \/ j.from \in Role /\ j.v0 \in Name
          /\ link \subseteq link'
          /\ \A r \in Role : text'[r] = text[r]
        BY <1>6 DEF AssignCommit, OInv, TypeInv, TypeOK, Jobs, Carries, Recalled, Recalls, Node
    <2>2. CASE rule[<<u, n>>] > 0
        BY <1>2, <2>1, <2>2
    <2>3. CASE ~(rule[<<u, n>>] > 0)
        <3>1. <<u, n>> = <<j.v0, j.v1>>
            BY <1>0, <1>6, <2>3 DEF AssignCommit, OInv, TypeInv, TypeOK
        <3>. QED
            BY <1>6, <2>1, <3>1, CommitTexts
    <2>. QED BY <2>2, <2>3
<1>7. ASSUME NEW q \in Request, Remove(q)
      PROVE  \E r \in Role : <<u, r>> \in link' /\ text'[r] = n
    <2>1. job[q].from \in Role /\ job[q].v0 \in Name
        BY <1>7 DEF Remove, OInv, TypeInv, Jobs, Carries
    <2>. QED
        BY <1>0, <1>2, <1>7, <2>1 DEF Remove, OInv, TypeInv, TypeOK
<1>8. ASSUME UNCHANGED <<text, link, rule>>
      PROVE  \E r \in Role : <<u, r>> \in link' /\ text'[r] = n
    BY <1>2, <1>8
<1>. QED
    BY <1>3, <1>4, <1>5, <1>6, <1>7, <1>8
       DEF Next, vars, UpdateRead, DeleteRead, AssignRead, RemoveRead, RegisterRead,
           Assign, Update, Abort

THEOREM OverlapInvariant == ~Renames => (Spec => []OInv)
<1>. SUFFICES ASSUME ~Renames PROVE Spec => []OInv
    OBVIOUS
<1>1. Init => OInv
    BY InitTypeInv DEF Init, OInv, Recalled, Recalls, Idle, LinksGranted, OnlyGranted,
                       UserRolesBacked, Rule
<1>2. OInv /\ [Next]_vars => OInv'
    BY NextTypeInv, NextRecalled, NextLinksGranted, NextOnlyGranted, NextUserRolesBacked
       DEF OInv
<1>. QED
    BY <1>1, <1>2, PTL DEF Spec

\* However administration requests overlap, Casbin holds no grant that the
\* tables never made.
THEOREM RulesWereGranted == ~Renames => (Spec => []OnlyGranted)
<1>1. OInv => OnlyGranted
    BY DEF OInv
<1>. QED
    BY <1>1, OverlapInvariant, PTL

\* However they overlap, Casbin puts a user in a role only while
\* user_has_roles does.
THEOREM RolesOfUsersBacked == ~Renames => (Spec => []UserRolesBacked)
<1>1. OInv => UserRolesBacked
    BY DEF OInv
<1>. QED
    BY <1>1, OverlapInvariant, PTL
=============================================================================
