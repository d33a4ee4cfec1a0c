----------------------------- MODULE Migrations -----------------------------
(***************************************************************************)
(* The Alembic chain of the repository: the initial schemas, the tenants,  *)
(* and the conversion of every primary and foreign key from UUID to        *)
(* integer, upwards and downwards, on a database that the service writes   *)
(* between two runs of Alembic.  A run is one transaction: its statements  *)
(* work on a copy that is committed or dropped as a whole.                 *)
(*                                                                         *)
(* Kept of a table: its primary key, the columns that reference other      *)
(* tables, its foreign keys, the indexes over those columns, and the       *)
(* subject of a Casbin rule.  An identifier is a pair of its SQL type and  *)
(* a number; `born' numbers rows for the properties only.                  *)
(***************************************************************************)
EXTENDS Integers, FiniteSets, SequencesExt

CONSTANTS Modelled,     \* tables of the instance, closed under references
          Populated,    \* those of them the service inserts into
          MaxBorn       \* bound: rows inserted in a behaviour

VARIABLES db,        \* the committed schema and rows
          rev,       \* alembic_version
          work,      \* the transaction of the run under way
          plan,      \* the calls it has still to make
          target,    \* the revision it leads to; rev when none runs
          failed,    \* whether the last run was stopped by a statement
          born       \* rows inserted so far

vars == <<db, rev, work, plan, target, failed, born>>

(***************************************************************************)
(* The tables, as the revisions list them.                                 *)
(***************************************************************************)
Roots == <<"audit_logs", "authorization_resources", "casbin_rules",
  "error_traces", "login_attempts", "roles", "users">>

Dependents == <<"permissions", "todos", "user_addresses",
  "user_contacts", "user_has_roles", "user_profiles", "user_security",
  "user_sessions", "user_settings", "user_verifications",
  "role_permissions">>

InitialTables == Roots \o Dependents

TenantTables == <<"users", "user_profiles", "user_security",
  "user_settings", "user_contacts", "user_addresses", "user_verifications",
  "user_sessions", "todos", "authorization_resources", "permissions", "roles",
  "user_has_roles", "role_permissions", "casbin_rules", "audit_logs",
  "error_traces", "login_attempts">>

(* Mutant: a table with references is missing from the list.               *)
TablesForgotten == <<"tenants", "users", "user_profiles",
  "user_settings", "user_security", "user_contacts", "user_addresses",
  "user_verifications", "user_sessions", "todos", "authorization_resources",
  "permissions", "roles", "role_permissions", "casbin_rules", "audit_logs",
  "error_traces", "login_attempts">>

TABLES == <<"tenants", "users", "user_profiles", "user_settings",
  "user_security", "user_contacts", "user_addresses", "user_verifications",
  "user_sessions", "todos", "authorization_resources", "permissions", "roles",
  "role_permissions", "user_has_roles", "casbin_rules", "audit_logs",
  "error_traces", "login_attempts">>

(* The references of the initial schemas: column and table.                *)
References(t) ==
  CASE t = "permissions" -> <<<<"resource_id", "authorization_resources">>>>
    [] t = "role_permissions" ->
         <<<<"role_id", "roles">>, <<"permission_id", "permissions">>>>
    [] t = "user_has_roles" -> <<<<"user_id", "users">>, <<"role_id", "roles">>>>
    [] t \in ToSet(Roots) \cup {"tenants"} -> <<>>
    [] OTHER -> <<<<"user_id", "users">>>>

ASSUME MigrationsAssumption ==
  /\ "tenants" \in Modelled
  /\ Modelled \subseteq ToSet(InitialTables) \cup {"tenants"}
  /\ \A t \in Modelled : \A f \in ToSet(References(t)) : f[2] \in Modelled
  /\ Populated \subseteq Modelled
  /\ MaxBorn \in Nat

TenantReference == <<"tenant_id", "tenants">>

FK_MAP(t) == IF t = "tenants" THEN <<>>
             ELSE Append(References(t), TenantReference)

Index(t, name, cols, unique) ==
  [table |-> t, name |-> name, cols |-> cols, unique |-> unique]

(* The indexes over reference columns: ix_..., the unique constraint of a  *)
(* table with one row for each user, and that of a link table.             *)
IndexesOf(t) ==
  LET cols == [i \in DOMAIN References(t) |-> References(t)[i][1]]
      single == {"user_profiles", "user_security", "user_settings"}
  IN IF t = "todos" THEN {}
     ELSE {Index(t, "ix", <<c>>, t \in single) : c \in ToSet(cols)}
          \cup (IF t \in single THEN {Index(t, "key", cols, TRUE)} ELSE {})
          \cup (IF Len(cols) > 1 THEN {Index(t, "uq", cols, TRUE)} ELSE {})

(***************************************************************************)
(* A database and what PostgreSQL checks.                                  *)
(***************************************************************************)
Uuid(n) == <<"uuid", n>>
Serial(n) == <<"int", n>>
NoRow == <<"uuid", -1>>    \* a random uuid that names no row
Null == <<"null", 0>>

(* A random uuid for a row that had none.                                  *)
Random(r) == Uuid(MaxBorn + 1 + r.who)

Default == [who |-> 0, id |-> Uuid(0), was |-> Uuid(0),
            ref |-> <<>>, meant |-> <<>>, v0 |-> Null, named |-> 0]

HasTable(d, t) == <<t, "id">> \in DOMAIN d.type
Ids(d, t) == {r.id : r \in d.rows[t]}
ForeignKey(t, col, p, name) ==
  [child |-> t, col |-> col, parent |-> p, name |-> name]

(* ADD CONSTRAINT ... FOREIGN KEY: the tables and the column are there,    *)
(* types agree, every row has its parent.                                  *)
Satisfied(d, f) ==
  /\ HasTable(d, f.child) /\ HasTable(d, f.parent)
  /\ <<f.child, f.col>> \in DOMAIN d.type
  /\ d.type[<<f.child, f.col>>] = d.type[<<f.parent, "id">>]
  /\ \A r \in d.rows[f.child] : r.ref[f.col] \in Ids(d, f.parent)

Distinct(d, i) ==
  i.unique => \A r, s \in d.rows[i.table] :
     (\A c \in ToSet(i.cols) : r.ref[c] = s.ref[c]) => r = s

Without(f, S) == [x \in DOMAIN f \ S |-> f[x]]
Extended(f, x, v) == [y \in DOMAIN f \cup {x} |-> IF y = x THEN v ELSE f[y]]

Empty == [type |-> <<>>, rows |-> [t \in Modelled |-> {}], fks |-> {},
          idx |-> {}, seq |-> [t \in Modelled |-> 0],
          legacyIds |-> {}, legacyIndexes |-> {}]

(***************************************************************************)
(* Running Alembic.  A plan is a set of calls, each with its place in the  *)
(* order in which upgrade() or downgrade() makes them.                     *)
(***************************************************************************)
Call(at, name, t) == [at |-> at, do |-> name, t |-> t, col |-> "", parent |-> ""]
FkCall(at, name, t, f) == [at |-> at, do |-> name, t |-> t, col |-> f[1], parent |-> f[2]]
FkCalls(at, name, t) ==
  {FkCall(at + k, name, t, FK_MAP(t)[k]) : k \in DOMAIN FK_MAP(t)}

(* Places in a list of tables that the instance has.                       *)
Places(list) == {i \in DOMAIN list : list[i] \in Modelled}

InitialUpgrade ==
  {Call(i, "create_table", InitialTables[i]) : i \in Places(InitialTables)}
InitialDowngrade ==
  {Call(100 - i, "drop_table", InitialTables[i]) : i \in Places(InitialTables)}

TenantUpgrade ==
  {Call(100, "create_tenants", "tenants")} \cup
  {Call(100 + i, "add_tenant_id_column", TenantTables[i]) : i \in Places(TenantTables)}
TenantDowngrade ==
  {Call(i, "drop_tenant_id", TenantTables[i]) : i \in Places(TenantTables)} \cup
  {Call(100, "drop_table", "tenants")}

(* The tables but for tenants, which no foreign key leaves.                *)
Children == Places(TABLES) \ {1}

(* upgrade(): tenants first, then table by table: its foreign keys, its    *)
(* indexes, its primary key.  The branches for api_keys are never taken:   *)
(* no revision creates that table.                                         *)
Upgrade ==
  {Call(200 + 10 * i + 9, "convert_pk", TABLES[i]) : i \in Places(TABLES)} \cup
  {Call(200 + 10 * i + 8, "recreate_indexes", TABLES[i]) : i \in Children} \cup
  UNION {FkCalls(200 + 10 * i, "convert_fk", TABLES[i]) : i \in Children}

(* Mutant: each table is restored at once, keys and references.            *)
DowngradeOnePass ==
  {Call(10 * (99 - i), "restore_pk", TABLES[i]) : i \in Places(TABLES)} \cup
  {Call(10 * (99 - i) + 8, "recreate_indexes", TABLES[i]) : i \in Children} \cup
  (UNION {FkCalls(10 * (99 - i), "restore_fk", TABLES[i]) : i \in Children}) \cup
  {Call(1000, "drop_legacy", "tenants")}

(* downgrade(): all primary keys, then all foreign keys, both backwards.   *)
Downgrade ==
  {Call(100 - i, "restore_pk", TABLES[i]) : i \in Places(TABLES)} \cup
  {Call(10 * (99 - i) + 8, "recreate_indexes", TABLES[i]) : i \in Children} \cup
  (UNION {FkCalls(10 * (99 - i), "restore_fk", TABLES[i]) : i \in Children}) \cup
  {Call(1000, "drop_legacy", "tenants")}

Idle == target = rev

Init ==
  /\ db = Empty /\ work = Empty
  /\ rev = 0 /\ target = 0 /\ plan = {}
  /\ failed = FALSE /\ born = 0

Begin(to, calls) ==
  /\ Idle
  /\ target' = to /\ plan' = calls /\ work' = db /\ failed' = FALSE
  /\ UNCHANGED <<db, rev, born>>

Upgrades == <<InitialUpgrade, TenantUpgrade, Upgrade>>
Downgrades == <<InitialDowngrade, TenantDowngrade, Downgrade>>

(* alembic upgrade head: all pending revisions in one transaction.         *)
UpgradeHead ==
  /\ rev < 3
  /\ Begin(3, UNION {Upgrades[k] : k \in (rev + 1)..3})

(* alembic upgrade +1 and alembic downgrade -1.                            *)
UpgradeOne ==
  /\ rev < 3
  /\ Begin(rev + 1, Upgrades[rev + 1])
DowngradeOne ==
  /\ rev > 0
  /\ Begin(rev - 1, Downgrades[rev])

(* The call no other comes before.                                         *)
Due == {o \in plan : \A q \in plan : o.at <= q.at}

(* One call: its statements succeed, or the transaction is rolled back.    *)
Execute(o, succeeds, after) ==
  /\ IF succeeds
     THEN /\ work' = after /\ plan' = plan \ {o}
          /\ UNCHANGED <<target, failed>>
     ELSE /\ work' = db /\ plan' = {} /\ target' = rev /\ failed' = TRUE
  /\ UNCHANGED <<db, rev, born>>

Commit ==
  /\ ~Idle /\ plan = {}
  /\ db' = work /\ rev' = target
  /\ UNCHANGED <<work, plan, target, failed, born>>

(* The container or the connection goes away before the commit.            *)
Crash ==
  /\ ~Idle
  /\ work' = db /\ plan' = {} /\ target' = rev
  /\ UNCHANGED <<db, rev, failed, born>>

(***************************************************************************)
(* The initial schemas and the tenants.                                    *)
(***************************************************************************)
DefaultFkey(t, f) == ForeignKey(t, f[1], f[2], "fkey")

CreateTable(o) ==
  LET keys == {DefaultFkey(o.t, f) : f \in ToSet(References(o.t))}
      columns == {<<o.t, f[1]>> : f \in ToSet(References(o.t))} \cup {<<o.t, "id">>}
  IN /\ o.do = "create_table"
     /\ Execute(o, ~HasTable(work, o.t) /\ \A f \in keys : HasTable(work, f.parent),
          [work EXCEPT
             !.type = [x \in DOMAIN @ \cup columns |-> IF x \in columns THEN "uuid" ELSE @[x]],
             !.fks = @ \cup keys,
             !.idx = @ \cup IndexesOf(o.t)])

(* DROP INDEX of the ix_ indexes by their names, then DROP TABLE.          *)
DropTable(o) ==
  /\ o.do = "drop_table"
  /\ Execute(o,
       /\ HasTable(work, o.t)
       /\ {i \in IndexesOf(o.t) : i.name = "ix"} \subseteq work.idx
       /\ \A f \in work.fks : f.parent # o.t \/ f.child = o.t,
       [work EXCEPT
          !.type = Without(@, {x \in DOMAIN @ : x[1] = o.t}),
          !.rows[o.t] = {}, !.seq[o.t] = 0,
          !.fks = {f \in @ : f.child # o.t},
          !.idx = {i \in @ : i.table # o.t}])

CreateTenants(o) ==
  /\ o.do = "create_tenants"
  /\ Execute(o, ~HasTable(work, "tenants"),
       [work EXCEPT !.type = Extended(@, <<"tenants", "id">>, "uuid"),
                    !.rows["tenants"] = {Default}])

TenantFk(t) == ForeignKey(t, "tenant_id", "tenants", "fk")

AddTenantId(o) ==
  LET added(r) == [r EXCEPT !.ref = Extended(@, "tenant_id", Uuid(0)),
                            !.meant = Extended(@, "tenant_id", 0)]
      after == [work EXCEPT !.type = Extended(@, <<o.t, "tenant_id">>, "uuid"),
                            !.rows[o.t] = {added(r) : r \in @},
                            !.fks = @ \cup {TenantFk(o.t)}]
  IN /\ o.do = "add_tenant_id_column"
     /\ Execute(o, Satisfied(after, TenantFk(o.t)), after)

(* DROP CONSTRAINT by name, then the column.                               *)
DropTenantId(o) ==
  LET dropped(r) == [r EXCEPT !.ref = Without(@, {"tenant_id"}),
                              !.meant = Without(@, {"tenant_id"})]
  IN /\ o.do = "drop_tenant_id"
     /\ Execute(o, TenantFk(o.t) \in work.fks,
          [work EXCEPT !.type = Without(@, {<<o.t, "tenant_id">>}),
                       !.rows[o.t] = {dropped(r) : r \in @},
                       !.fks = @ \ {TenantFk(o.t)}])

(***************************************************************************)
(* Converting the keys, and back.                                          *)
(***************************************************************************)
KeyName(col) == IF col = "tenant_id" THEN "fk" ELSE "fkey"
Key(o) == ForeignKey(o.t, o.col, o.parent, KeyName(o.col))

WithColumn(S, col, Value(_)) == {[r EXCEPT !.ref[col] = Value(r)] : r \in S}

RowNumber(S, r) == Cardinality({s \in S : s.id[2] <= r.id[2]})

(* The primary key becomes the row number in the order of the old key; the *)
(* pair is remembered.  CASCADE drops the foreign keys that point here.    *)
PkConverted(t) ==
  LET S == work.rows[t]
  IN IF work.type[<<t, "id">>] # "uuid" THEN work
     ELSE [work EXCEPT
       !.type[<<t, "id">>] = "int",
       !.rows[t] = {[r EXCEPT !.id = Serial(RowNumber(S, r))] : r \in S},
       !.seq[t] = Cardinality(S),
       !.fks = {f \in @ : f.parent # t},
       !.legacyIds = @ \cup {<<t, r.id, Serial(RowNumber(S, r))>> : r \in S}]

ConvertPk(o) ==
  /\ o.do = "convert_pk"
  /\ Execute(o, HasTable(work, o.t), PkConverted(o.t))

(* Mutant: a cross join, any row of the parent will do.                    *)
NewIdCrossJoin(p, id) ==
  LET found == {m \in work.legacyIds : m[1] = p}
  IN IF found = {} THEN Null ELSE (CHOOSE m \in found : TRUE)[3]

NewId(p, id) ==
  LET found == {m \in work.legacyIds : m[1] = p /\ m[2] = id}
  IN IF found = {} THEN Null ELSE (CHOOSE m \in found : TRUE)[3]

Over(o) == {i \in work.idx : i.table = o.t /\ o.col \in ToSet(i.cols)}

(* Mutant: one index over the column is remembered, not all.               *)
RecordOne(o) == IF Over(o) = {} THEN {} ELSE {CHOOSE i \in Over(o) : TRUE}

Recorded(o) == Over(o)

FkConverted(o) ==
  LET value(r) == NewId(o.parent, r.ref[o.col])
  IN [work EXCEPT
       !.type[<<o.t, o.col>>] = "int",
       !.rows[o.t] = WithColumn(@, o.col, value),
       !.legacyIndexes = @ \cup Recorded(o),
       !.idx = @ \ Over(o),
       !.fks = {f \in @ : f.child # o.t \/ f.col # o.col} \cup {Key(o)}]

ConvertFk(o) ==
  /\ o.do = "convert_fk"
  /\ Execute(o, work.type[<<o.t, o.col>>] = "uuid" /\ Satisfied(FkConverted(o), Key(o)),
       FkConverted(o))

RecreateIndexes(o) ==
  LET again == {i \in work.legacyIndexes : i.table = o.t}
  IN /\ o.do = "recreate_indexes"
     /\ Execute(o, again \cap work.idx = {} /\ \A i \in again : Distinct(work, i),
          [work EXCEPT !.idx = @ \cup again])

(* Mutant: the number is looked up without its table.                      *)
OldUuidAnyTable(t, id, otherwise) ==
  LET found == {m \in work.legacyIds : m[3] = id}
  IN IF found = {} THEN otherwise ELSE (CHOOSE m \in found : TRUE)[2]

OldUuid(t, id, otherwise) ==
  LET found == {m \in work.legacyIds : m[1] = t /\ m[3] = id}
  IN IF found = {} THEN otherwise ELSE (CHOOSE m \in found : TRUE)[2]

PkRestored(t) ==
  [work EXCEPT
     !.type[<<t, "id">>] = "uuid",
     !.rows[t] = {[r EXCEPT !.id = OldUuid(t, r.id, Random(r))] : r \in @},
     !.seq[t] = 0,
     !.fks = {f \in @ : f.parent # t}]

RestorePk(o) ==
  /\ o.do = "restore_pk"
  /\ Execute(o, HasTable(work, o.t), PkRestored(o.t))

FkRestored(o) ==
  LET value(r) == OldUuid(o.parent, r.ref[o.col], NoRow)
  IN [work EXCEPT
       !.type[<<o.t, o.col>>] = "uuid",
       !.rows[o.t] = WithColumn(@, o.col, value),
       !.idx = @ \ Over(o),
       !.fks = {f \in @ : f.child # o.t \/ f.col # o.col} \cup {Key(o)}]

RestoreFk(o) ==
  /\ o.do = "restore_fk"
  /\ Execute(o, Satisfied(FkRestored(o), Key(o)), FkRestored(o))

DropLegacy(o) ==
  /\ o.do = "drop_legacy"
  /\ Execute(o, TRUE, [work EXCEPT !.legacyIds = {}, !.legacyIndexes = {}])

(***************************************************************************)
(* The service between two runs.                                           *)
(***************************************************************************)
Columns(t) == {c \in {f[1] : f \in ToSet(FK_MAP(t))} : <<t, c>> \in DOMAIN db.type}
ParentOf(t, c) == (CHOOSE f \in ToSet(FK_MAP(t)) : f[1] = c)[2]

NewRow(t, parents, subject) ==
  LET uuid == db.type[<<t, "id">>] = "uuid"
  IN [who |-> born + 1,
      id |-> IF uuid THEN Uuid(born + 1) ELSE Serial(db.seq[t] + 1),
      was |-> IF uuid THEN Uuid(born + 1) ELSE Null,
      ref |-> [c \in Columns(t) |-> parents[c].id],
      meant |-> [c \in Columns(t) |-> parents[c].who],
      v0 |-> subject.id, named |-> subject.who]

(* A row references rows that are there.  A Casbin rule names the id of    *)
(* its user as text, which is no reference to the database.                *)
Insert(t) ==
  /\ Idle /\ HasTable(db, t) /\ born < MaxBorn
  /\ \E parents \in [Columns(t) -> UNION {db.rows[ParentOf(t, c)] : c \in Columns(t)}],
        subject \in (IF t = "casbin_rules" THEN db.rows["users"] ELSE {Default}) :
       LET after == [db EXCEPT !.rows[t] = @ \cup {NewRow(t, parents, subject)},
                               !.seq[t] = IF @ = 0 /\ db.type[<<t, "id">>] = "uuid"
                                          THEN 0 ELSE @ + 1]
       IN /\ \A c \in Columns(t) : parents[c] \in db.rows[ParentOf(t, c)]
          /\ \A i \in db.idx : i.table = t => Distinct(after, i)
          /\ db' = after /\ work' = after
  /\ born' = born + 1
  /\ UNCHANGED <<rev, plan, target, failed>>

(* Users stay; a row no other row references may go.                       *)
Delete(t) ==
  /\ Idle /\ t # "users"
  /\ \E r \in db.rows[t] :
       /\ \A f \in db.fks : f.parent = t => \A s \in db.rows[f.child] : s.ref[f.col] # r.id
       /\ db' = [db EXCEPT !.rows[t] = @ \ {r}]
  /\ work' = db'
  /\ UNCHANGED <<rev, plan, target, failed, born>>

Next ==
  \/ UpgradeHead \/ UpgradeOne \/ DowngradeOne \/ Commit \/ Crash
  \/ \E o \in Due :
       \/ CreateTable(o) \/ DropTable(o)
       \/ CreateTenants(o) \/ AddTenantId(o) \/ DropTenantId(o)
       \/ ConvertPk(o) \/ ConvertFk(o) \/ RecreateIndexes(o)
       \/ RestorePk(o) \/ RestoreFk(o) \/ DropLegacy(o)
  \/ \E t \in Populated : Insert(t) \/ Delete(t)

Spec == Init /\ [][Next]_vars

(***************************************************************************)
(* Properties.                                                             *)
(***************************************************************************)
Tables(r) ==
  (IF r > 0 THEN ToSet(InitialTables) \cap Modelled ELSE {})
  \cup (IF r > 1 THEN {"tenants"} ELSE {})

(* The committed schema is the one of its revision: keys of one type       *)
(* everywhere, each row with a value in every reference column.            *)
TypeOK ==
  /\ rev \in 0..3 /\ target \in 0..3 /\ failed \in BOOLEAN /\ born \in 0..MaxBorn
  /\ {x[1] : x \in DOMAIN db.type} = Tables(rev)
  /\ \A x \in DOMAIN db.type :
       /\ db.type[x] = IF rev = 3 THEN "int" ELSE "uuid"
       /\ \A r \in db.rows[x[1]] :
            (IF x[2] = "id" THEN r.id ELSE r.ref[x[2]])[1] = db.type[x]

(* In every committed database each reference of each row is the id of one *)
(* row, and of the row it was meant for, through any number of upgrades,   *)
(* downgrades and changes between them: "preserves data and FK             *)
(* relationships" (docs/superpowers/specs/2026-08-01-uuid-to-int-          *)
(* module-facade-design.md:16).                                            *)
RefsKept ==
  \A x \in DOMAIN db.type : x[2] # "id" =>
    \A r \in db.rows[x[1]] :
      {p.who : p \in {p \in db.rows[ParentOf(x[1], x[2])] : p.id = r.ref[x[2]]}}
        = {r.meant[x[2]]}

(* Foreign keys, their names and the indexes over reference columns are    *)
(* those the revisions declare, so that "`alembic downgrade` further down  *)
(* the chain can still drop them by name" (_fk_name, lines 94-98).         *)
SchemaKept ==
  /\ db.fks = (UNION {{DefaultFkey(t, f) : f \in ToSet(References(t))} : t \in Tables(rev)})
              \cup (IF rev > 1 THEN {TenantFk(t) : t \in ToSet(TenantTables) \cap Modelled} ELSE {})
  /\ db.idx = UNION {IndexesOf(t) : t \in Tables(rev)}

(* "the downgrade can restore the exact original uuids" (comment at lines  *)
(* 67-68): a row born with a uuid has it whenever keys are uuids.         *)
UuidsRestored ==
  rev < 3 => \A t \in Tables(rev) : \A r \in db.rows[t] : r.was # Null => r.id = r.was

(* What stops a run: nothing but a downgrade past a row that was inserted  *)
(* after the conversion and that another row references.  Its uuid is a    *)
(* new random one that LEGACY_IDS does not hold, so the references to it   *)
(* cannot be written.                                                      *)
StopsOnlyAtNewRows ==
  [][failed' /\ ~failed =>
      /\ rev = 3 /\ target = 2
      /\ \E f \in db.fks : \E r \in db.rows[f.parent], s \in db.rows[f.child] :
           s.ref[f.col] = r.id /\ r.was = Null]_vars

(* "The migration must keep data and referential integrity" (the design,   *)
(* line 55), of which the subjects of Casbin are part ("Casbin subjects:   *)
(* user:{int}", line 30): a rule names the user it was made for.           *)
SubjectsKept ==
  "casbin_rules" \in Tables(rev) =>
    \A r \in db.rows["casbin_rules"] :
       \E u \in db.rows["users"] : u.id = r.v0 /\ u.who = r.named

=============================================================================
