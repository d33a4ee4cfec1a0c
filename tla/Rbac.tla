-------------------------------- MODULE Rbac --------------------------------
(***************************************************************************)
(* Roles and permissions.  The same grants are kept twice: as ids in the   *)
(* tables role_permissions and user_has_roles, and as texts in casbin_rules*)
(* ("g, user, role name" and "p, role name, permission key"), which alone  *)
(* decide a request.  Every operation of the authorization module reads    *)
(* names or keys by id and then writes both.                               *)
(*                                                                         *)
(* A handler is split where another one can come between: what it reads    *)
(* before its first write, and its writes with the commit; the assignment, *)
(* which reads again, in three.  Transactions are READ COMMITTED: a        *)
(* statement sees what others have committed.                              *)
(*                                                                         *)
(* Users, roles and permissions are nodes with a text; a row of the two    *)
(* link tables is a pair of nodes, a Casbin rule a pair of texts.          *)
(***************************************************************************)
EXTENDS Integers

CONSTANTS
    User,        \* user ids, and their texts in Casbin rules
    Role,        \* role ids; serial, so never used again (a bound)
    Permission,  \* permission ids, likewise
    Name,        \* texts for roles
    Key,         \* texts for permissions
    Star,        \* "*", every permission
    AdminUser, AdminName, DefaultName, DefaultKey,   \* what the seeder makes
    None,        \* the text of a node not yet created
    Gone,        \* the text of a deleted node
    Request,     \* administration requests in flight at once
    Overlap,     \* whether they may overlap at all
    Renames,     \* whether a PATCH that renames can commit (see Update)
    Seeds        \* whether the seeder can commit (see Seed)

ASSUME RbacAssumption ==
    /\ AdminUser \in User
    /\ AdminName \in Name /\ DefaultName \in Name /\ AdminName # DefaultName
    /\ DefaultKey \in Key
    /\ User \cap (Name \cup Key) = {} /\ Name \cap Key = {}
    /\ User \cap (Role \cup Permission) = {} /\ Role \cap Permission = {}
    /\ Star \notin User \cup Name \cup Key \cup Role \cup Permission
    /\ {None, Gone} \cap (User \cup Name \cup Key \cup {Star}) = {}
    /\ None \notin Role \cup Permission
    /\ None # Gone
    /\ Overlap \in BOOLEAN /\ Renames \in BOOLEAN /\ Seeds \in BOOLEAN

VARIABLES
    text,    \* users, roles, permissions: the text of each node
    link,    \* user_has_roles and role_permissions; and, as history, the
             \* "*" the seeder granted, which no table records
    rule,    \* casbin_rules: how many rows hold each pair of texts
    job,     \* the requests in flight and what they have read
    granted  \* history: the pairs of texts ever linked

vars == <<text, link, rule, job, granted>>

Node == User \cup Role \cup Permission \cup {Star}
Pair == (User \X Role) \cup (Role \X (Permission \cup {Star}))
Rule == (User \X Name) \cup (Name \X (Key \cup {Star}))
Texts(x) == IF x \in Role THEN Name ELSE Key
Text == User \cup Name \cup Key \cup {Star}

Job == [at : {"idle", "assign", "assign_commit", "remove", "update", "delete"},
        from : Node \cup {None}, to : Node \cup {None},
        v0 : Text \cup {None}, v1 : Text \cup {None},
        addLink : BOOLEAN, addRule : BOOLEAN]

Idle == [at |-> "idle", from |-> None, to |-> None, v0 |-> None, v1 |-> None,
         addLink |-> FALSE, addRule |-> FALSE]

TypeOK ==
    /\ text \in [Node -> Text \cup {None, Gone}]
    /\ link \subseteq Pair
    /\ rule \in [Rule -> Nat]
    /\ job \in [Request -> Job]
    /\ granted \subseteq Rule

Init ==
    /\ text = [x \in Node |-> IF x = Star THEN Star ELSE None]
    /\ link = {}
    /\ rule = [p \in Rule |-> 0]
    /\ job = [q \in Request |-> Idle]
    /\ granted = {}

-----------------------------------------------------------------------------
Exists(x) == text[x] \notin {None, Gone}

\* The unique index over role names, and the one over permission keys.
Free(l) == \A x \in Node : text[x] # l

\* The texts of a pair of nodes, as a Casbin rule.
TextOf(p) == <<text[p[1]], text[p[2]]>>

Mentions(p, z) == p[1] = z \/ p[2] = z

Start(q, j) ==
    /\ job[q] = Idle
    /\ Overlap \/ \A s \in Request : job[s] = Idle
    /\ job' = [job EXCEPT ![q] = j]

Finish(q) == job' = [job EXCEPT ![q] = Idle]

-----------------------------------------------------------------------------
(* create_role, create_permission: one INSERT.                              *)

Create(x, l) ==
    /\ x \in Role \cup Permission
    /\ text[x] = None
    /\ l \in Texts(x)
    /\ Free(l)
    /\ text' = [text EXCEPT ![x] = l]
    /\ UNCHANGED <<link, rule, job, granted>>

-----------------------------------------------------------------------------
(* update_role, update_permission.                                          *)

UpdateRead(q, x, l) ==
    /\ x \in Role \cup Permission
    /\ Exists(x)
    /\ l \in Texts(x)
    /\ Start(q, [Idle EXCEPT !.at = "update", !.from = x,
                             !.v0 = text[x], !.v1 = l])
    /\ UNCHANGED <<text, link, rule, granted>>

Renamed(z, old, new) == IF z = old THEN new ELSE z

\* _rename_role_policies, _rename_permission_policies.
RenameRules(old, new) ==
    [p \in Rule |->
        IF Mentions(p, old) THEN 0
        ELSE IF Mentions(p, new)
        THEN rule[p] + rule[<<Renamed(p[1], new, old), Renamed(p[2], new, old)>>]
        ELSE rule[p]]

\* Mutant: the UPDATE without the rename of the rules.
UpdateTableOnly(q) ==
    /\ job[q].at = "update"
    /\ Finish(q)
    /\ IF job[q].v0 = job[q].v1
       THEN UNCHANGED <<text, link, rule, granted>>
       ELSE /\ Renames
            /\ Exists(job[q].from)
            /\ Free(job[q].v1)
            /\ text' = [text EXCEPT ![job[q].from] = job[q].v1]
            /\ UNCHANGED <<link, rule, granted>>

\* The row is updated only when the text differs from the one read.  The
\* handler then reads updated_at, which the flush has expired: on an async
\* session that read raises (Renames = FALSE) and nothing is committed.
Update(q) ==
    /\ job[q].at = "update"
    /\ Finish(q)
    /\ IF job[q].v0 = job[q].v1
       THEN UNCHANGED <<text, link, rule, granted>>
       ELSE /\ Renames
            /\ Exists(job[q].from)
            /\ Free(job[q].v1)
            /\ text' = [text EXCEPT ![job[q].from] = job[q].v1]
            /\ rule' = RenameRules(job[q].v0, job[q].v1)
            /\ granted' = granted \cup
                   {<<text'[p[1]], text'[p[2]]>> : p \in link}
            /\ UNCHANGED link

-----------------------------------------------------------------------------
(* delete_role, delete_permission.                                          *)

DeleteRead(q, x) ==
    /\ x \in Role \cup Permission
    /\ Exists(x)
    /\ Start(q, [Idle EXCEPT !.at = "delete", !.from = x, !.v0 = text[x]])
    /\ UNCHANGED <<text, link, rule, granted>>

\* An uncommitted INSERT of a link holds a key share lock on both its nodes.
KeyShared(x) ==
    \E s \in Request :
        /\ job[s].at = "assign_commit"
        /\ job[s].addLink
        /\ x \in {job[s].from, job[s].to}

\* Mutant: only the "p" rules of a role are deleted.
DeleteKeepsUsers(q) ==
    /\ job[q].at = "delete"
    /\ ~KeyShared(job[q].from)
    /\ text' = [text EXCEPT ![job[q].from] = Gone]
    /\ link' = {p \in link : ~Mentions(p, job[q].from)}
    /\ rule' = [p \in Rule |-> IF Mentions(p, job[q].v0) /\ p[1] \notin User
                               THEN 0 ELSE rule[p]]
    /\ Finish(q)
    /\ UNCHANGED granted

\* Mutant: a link whose foreign keys take no lock.
DeleteIgnoresLock(q) ==
    /\ job[q].at = "delete"
    /\ text' = [text EXCEPT ![job[q].from] = Gone]
    /\ link' = {p \in link : ~Mentions(p, job[q].from)}
    /\ rule' = [p \in Rule |-> IF Mentions(p, job[q].v0) THEN 0 ELSE rule[p]]
    /\ Finish(q)
    /\ UNCHANGED granted

\* A node that someone else has deleted meanwhile costs no error: the rules
\* with the text that was read are deleted all the same.
Delete(q) ==
    /\ job[q].at = "delete"
    /\ ~KeyShared(job[q].from)
    /\ text' = [text EXCEPT ![job[q].from] = Gone]
    /\ link' = {p \in link : ~Mentions(p, job[q].from)}
    /\ rule' = [p \in Rule |-> IF Mentions(p, job[q].v0) THEN 0 ELSE rule[p]]
    /\ Finish(q)
    /\ UNCHANGED granted

-----------------------------------------------------------------------------
(* assign_permission_to_role, and assign_role, which only registration and  *)
(* the seeder call: the user is new.                                        *)

AssignRead(q, x, y) ==
    /\ x \in Role /\ y \in Permission
    /\ Exists(x) /\ Exists(y)
    /\ Start(q, [Idle EXCEPT !.at = "assign", !.from = x, !.to = y,
                             !.v0 = text[x], !.v1 = text[y],
                             !.addLink = <<x, y>> \notin link])
    /\ UNCHANGED <<text, link, rule, granted>>

RegisterRead(q, u, y) ==
    /\ u \in User \ {AdminUser} /\ y \in Role
    /\ text[u] = None
    /\ \A s \in Request : job[s].from # u
    /\ text[y] = DefaultName
    /\ Start(q, [Idle EXCEPT !.at = "assign", !.from = u, !.to = y,
                             !.v0 = u, !.v1 = DefaultName, !.addLink = TRUE])
    /\ UNCHANGED <<text, link, rule, granted>>

\* INSERT the link, which must be new and refer to existing nodes, and look
\* for the rule; two rows of it are an error (scalar_one_or_none).
Assign(q) ==
    LET j == job[q]
        p == <<j.from, j.to>>
    IN  /\ j.at = "assign"
        /\ j.addLink =>
            /\ p \notin link
            /\ Exists(j.to) /\ (j.from \in User \/ Exists(j.from))
            /\ \A s \in Request :
                  ~ /\ job[s].at = "assign_commit" /\ job[s].addLink
                    /\ <<job[s].from, job[s].to>> = p
        /\ rule[<<j.v0, j.v1>>] < 2
        /\ job' = [job EXCEPT ![q] = [j EXCEPT !.at = "assign_commit",
                                               !.addRule = (rule[<<j.v0, j.v1>>] = 0)]]
        /\ UNCHANGED <<text, link, rule, granted>>

\* Mutant: the rule is committed without the link.
AssignCommitRuleOnly(q) ==
    LET j == job[q]
    IN  /\ j.at = "assign_commit"
        /\ text' = IF j.from \in User THEN [text EXCEPT ![j.from] = j.from] ELSE text
        /\ rule' = IF j.addRule
                   THEN [rule EXCEPT ![<<j.v0, j.v1>>] = @ + 1]
                   ELSE rule
        /\ granted' = granted \cup {<<text'[p[1]], text'[p[2]]>> : p \in link}
        /\ Finish(q)
        /\ UNCHANGED link

AssignCommit(q) ==
    LET j == job[q]
    IN  /\ j.at = "assign_commit"
        /\ text' = IF j.from \in User THEN [text EXCEPT ![j.from] = j.from] ELSE text
        /\ link' = IF j.addLink THEN link \cup {<<j.from, j.to>>} ELSE link
        /\ rule' = IF j.addRule
                   THEN [rule EXCEPT ![<<j.v0, j.v1>>] = @ + 1]
                   ELSE rule
        /\ granted' = granted \cup {<<text'[p[1]], text'[p[2]]>> : p \in link'}
        /\ Finish(q)

-----------------------------------------------------------------------------
(* remove_permission_from_role.                                             *)

RemoveRead(q, x, y) ==
    /\ x \in Role /\ y \in Permission
    /\ Exists(x) /\ Exists(y)
    /\ Start(q, [Idle EXCEPT !.at = "remove", !.from = x, !.to = y,
                             !.v0 = text[x], !.v1 = text[y]])
    /\ UNCHANGED <<text, link, rule, granted>>

\* Mutant: one row of the rule is taken off a count that is never looked at.
RemoveOne(q) ==
    LET j == job[q]
    IN  /\ j.at = "remove"
        /\ link' = link \ {<<j.from, j.to>>}
        /\ rule' = [rule EXCEPT ![<<j.v0, j.v1>>] = @ - 1]
        /\ Finish(q)
        /\ UNCHANGED <<text, granted>>

Remove(q) ==
    LET j == job[q]
    IN  /\ j.at = "remove"
        /\ link' = link \ {<<j.from, j.to>>}
        /\ rule' = [rule EXCEPT ![<<j.v0, j.v1>>] = 0]
        /\ Finish(q)
        /\ UNCHANGED <<text, granted>>

-----------------------------------------------------------------------------
(* make seed, in one transaction; it runs while no request is in flight.    *)
(* What exists under a default text is kept, what is missing is added.      *)
(* The runner makes its repositories without a tenant, which no row may be  *)
(* without: its first INSERT raises and nothing is committed (Seeds =       *)
(* FALSE).  Seeds = TRUE is the seeder with a tenant.                       *)

Found(x, l) == text[x] = l \/ (text[x] = None /\ Free(l))

\* The seeder links only what is not linked, and adds every default rule
\* that is missing; the admin user gets its role when it is first made.
SeedLinks(a, d, p) ==
    {<<a, Star>>, <<d, p>>} \cup (IF text[AdminUser] = None THEN {<<AdminUser, a>>} ELSE {})

Seed(a, d, p) ==
    /\ Seeds
    /\ \A q \in Request : job[q] = Idle
    /\ a \in Role /\ d \in Role \ {a} /\ p \in Permission
    /\ Found(a, AdminName) /\ Found(d, DefaultName) /\ Found(p, DefaultKey)
    /\ text' = [text EXCEPT ![a] = AdminName, ![d] = DefaultName,
                            ![p] = DefaultKey, ![AdminUser] = AdminUser]
    /\ link' = link \cup SeedLinks(a, d, p)
    /\ LET new == {<<text'[e[1]], text'[e[2]]>> : e \in SeedLinks(a, d, p)}
       IN  /\ rule' = [e \in Rule |-> IF e \in new /\ rule[e] = 0 THEN 1 ELSE rule[e]]
           /\ granted' = granted \cup new
    /\ UNCHANGED job

-----------------------------------------------------------------------------
\* A handler raises, a constraint is violated or the connection is lost.
Abort(q) ==
    /\ job[q] # Idle
    /\ Finish(q)
    /\ UNCHANGED <<text, link, rule, granted>>

Next ==
    \/ \E x \in Role \cup Permission, l \in Name \cup Key : Create(x, l)
    \/ \E a, d \in Role, p \in Permission : Seed(a, d, p)
    \/ \E q \in Request :
        \/ \E x \in Role \cup Permission, l \in Name \cup Key : UpdateRead(q, x, l)
        \/ \E x \in Role \cup Permission : DeleteRead(q, x)
        \/ \E x \in Role, y \in Permission : AssignRead(q, x, y) \/ RemoveRead(q, x, y)
        \/ \E u \in User, y \in Role : RegisterRead(q, u, y)
        \/ Update(q)
        \/ Delete(q)
        \/ Assign(q)
        \/ AssignCommit(q)
        \/ Remove(q)
        \/ Abort(q)

Spec == Init /\ [][Next]_vars

-----------------------------------------------------------------------------
(* Deciding a request: require_permission, can and the Casbin matcher.      *)

Can(u, k) ==
    \E n \in Name :
        /\ rule[<<u, n>>] > 0
        /\ rule[<<n, k>>] > 0 \/ rule[<<n, Star>>] > 0

\* The same question answered from the tables.
Holds(u, k) ==
    \E r \in Role :
        /\ <<u, r>> \in link
        /\ \/ <<r, Star>> \in link
           \/ \E y \in Permission : <<r, y>> \in link /\ text[y] = k

(* Properties.                                                              *)

\* One request at a time, the rules are the links spelled out, each once: what
\* the repository writes to the tables it writes to casbin_rules as well.
Mirror ==
    rule = [p \in Rule |-> IF \E e \in link : TextOf(e) = p THEN 1 ELSE 0]

\* A request is decided as the tables say, so no rule outlives the role, the
\* permission or the grant it came from, whatever is renamed, deleted or
\* created again under an old name.
DecisionsFollowTables ==
    \A u \in User, k \in Key : Can(u, k) <=> Holds(u, k)

\* A role or permission that is created, also under a name used before,
\* changes no decision: nobody holds the role, and no role the permission.
NewTextGrantsNothing ==
    [][\A x \in Role \cup Permission :
        text[x] = None /\ text'[x] # None /\ link' = link =>
            \A p \in Rule : Mentions(p, text'[x]) => rule'[p] = 0]_vars

\* Also when requests overlap: a rule was once a grant by the tables, it is
\* not made up from texts that were read at different times.
OnlyGranted == \A p \in Rule : rule[p] > 0 => p \in granted

\* Also when requests overlap: Casbin puts a user in a role only while the
\* tables do. The key share lock of the new link keeps the role from being
\* deleted between the read of its name and the commit.
UserRolesBacked ==
    \A u \in User, n \in Name :
        rule[<<u, n>>] > 0 => \E r \in Role : <<u, r>> \in link /\ text[r] = n

\* add_policy and both assignments look for a row with scalar_one_or_none,
\* which raises when there are two.
SingleRule == \A p \in Rule : rule[p] <= 1
=============================================================================
