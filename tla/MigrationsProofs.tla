-------------------------- MODULE MigrationsProofs --------------------------
(***************************************************************************)
(* What holds of the database at every statement of every run of Alembic,  *)
(* for any part of the schema that is closed under references and any rows *)
(* the service writes between two runs.                                    *)
(***************************************************************************)
EXTENDS Migrations, FunctionTheorems, FiniteSetTheorems, SequenceTheorems, TLAPS

(***************************************************************************)
(* The invariant of a database, committed or under way.                    *)
(***************************************************************************)
Fields == {"type", "rows", "fks", "idx", "seq", "legacyIds", "legacyIndexes"}
RowFields == {"who", "id", "was", "ref", "meant", "v0", "named"}

Links(t) == ToSet(FK_MAP(t))
Slot(t, f) == <<t, f[1]>>
Present(d, t) == {f \in Links(t) : Slot(t, f) \in DOMAIN d.type}
IdType(d, t) == d.type[<<t, "id">>]
ColType(d, t, f) == d.type[Slot(t, f)]

(* The uuid a row has whenever the keys of its table are uuids.            *)
FirstId(r) == IF r.was = Null THEN Random(r) ELSE r.was

Shape(d) ==
  /\ DOMAIN d = Fields
  /\ DOMAIN d.rows = Modelled /\ DOMAIN d.seq = Modelled
  /\ \A t \in Modelled : d.seq[t] \in Nat
  /\ \A x \in DOMAIN d.type :
       /\ d.type[x] \in {"uuid", "int"}
       /\ x[1] \in Modelled /\ x = <<x[1], x[2]>>
       /\ x[2] = "id" \/ \E f \in Links(x[1]) : x[2] = f[1]

(* A column comes with its table and with the table it references.         *)
ColumnsPaired(d) ==
  \A t \in Modelled :
    /\ \A f \in Present(d, t) : HasTable(d, t) /\ HasTable(d, f[2])
    /\ HasTable(d, t) => \A f \in ToSet(References(t)) : f \in Present(d, t)

RowOK(d, t, r, n) ==
  /\ DOMAIN r = RowFields
  /\ r.who \in 0..n /\ r.was \in {Null, Uuid(r.who)}
  /\ DOMAIN r.ref = {f[1] : f \in Present(d, t)}
  /\ DOMAIN r.meant = {f[1] : f \in Present(d, t)}

RowsOK(d, n) ==
  \A t \in Modelled :
    /\ IsFiniteSet(d.rows[t])
    /\ ~HasTable(d, t) => d.rows[t] = {}
    /\ \A r \in d.rows[t] : RowOK(d, t, r, n)
    /\ \A r, s \in d.rows[t] : r.who = s.who => r = s

(* What LEGACY_IDS says of the number of a row is the uuid of that row.    *)
KnownAs(d, t, r, number) ==
  \A m \in d.legacyIds : m[1] = t /\ m[3] = number => m[2] = FirstId(r)

(* An integer key: a number the sequence has given, of one row, under      *)
(* which LEGACY_IDS knows that row if it was born with a uuid.             *)
IdsOK(d) ==
  \A t \in Modelled : \A r \in d.rows[t] :
    /\ IdType(d, t) = "uuid" => r.id = FirstId(r)
    /\ IdType(d, t) = "int" =>
         /\ r.id = Serial(r.id[2]) /\ r.id[2] \in 1..d.seq[t]
         /\ \A s \in d.rows[t] : s.id = r.id => s = r
         /\ r.was # Null => <<t, FirstId(r), r.id>> \in d.legacyIds
         /\ KnownAs(d, t, r, r.id)

LegacyOK(d) ==
  \A m \in d.legacyIds :
    /\ m = <<m[1], m[2], m[3]>> /\ m[1] \in Modelled
    /\ m[3] = Serial(m[3][2]) /\ m[3][2] \in Nat
    /\ HasTable(d, m[1])
    /\ IdType(d, m[1]) = "int" => m[3][2] <= d.seq[m[1]]

(* The value of a reference, in each state that column and key can be in.  *)
Names(d, t, f, value, q) ==
  /\ ColType(d, t, f) = "uuid" => value = FirstId(q)
  /\ ColType(d, t, f) = "int" =>
       /\ value[1] = "int"
       /\ IdType(d, f[2]) = "int" => value = q.id
       /\ IdType(d, f[2]) = "uuid" => KnownAs(d, f[2], q, value)

(* Each reference of each row names the row it is meant for.               *)
RefsOK(d) ==
  \A t \in Modelled : \A f \in Present(d, t) : \A r \in d.rows[t] :
    \E q \in d.rows[f[2]] :
      q.who = r.meant[f[1]] /\ Names(d, t, f, r.ref[f[1]], q)

LinkKey(t, f) == ForeignKey(t, f[1], f[2], KeyName(f[1]))

(* The foreign keys are those whose two sides have one type.               *)
FksOK(d) ==
  /\ \A t \in Modelled : \A f \in Present(d, t) :
       LinkKey(t, f) \in d.fks <=> ColType(d, t, f) = IdType(d, f[2])
  /\ \A k \in d.fks : \E t \in Modelled : \E f \in Present(d, t) : k = LinkKey(t, f)

DatabaseOK(d, n) ==
  /\ Shape(d) /\ ColumnsPaired(d) /\ RowsOK(d, n) /\ IdsOK(d)
  /\ LegacyOK(d) /\ RefsOK(d) /\ FksOK(d)

(* On the way up a column is converted after the key it references, and    *)
(* LEGACY_IDS holds converted tables only; on the way down a column is     *)
(* restored after that key.                                                *)
KeysFirst(d, r) ==
  /\ r < 3 => /\ \A t \in Modelled : \A f \in Present(d, t) :
                   ColType(d, t, f) = "int" => IdType(d, f[2]) = "int"
              /\ \A m \in d.legacyIds : IdType(d, m[1]) = "int"
  /\ r = 3 => \A t \in Modelled : \A f \in Present(d, t) :
                ColType(d, t, f) = "uuid" => IdType(d, f[2]) = "uuid"

(***************************************************************************)
(* The invariant of a run: what it has made of the database so far, and    *)
(* what is still in its plan.                                              *)
(***************************************************************************)
Calls(from, to) ==
  IF from < to THEN UNION {Upgrades[k] : k \in (from + 1)..to}
  ELSE IF to < from THEN Downgrades[from] ELSE {}

(* The calls made are those that come before the others.                   *)
InOrder ==
  /\ plan \subseteq Calls(rev, target)
  /\ \A c \in Calls(rev, target) \ plan : \A q \in plan : c.at <= q.at

Pending(name, t) == \E q \in plan : q.do = name /\ q.t = t
PendingKey(name, t, f) ==
  \E q \in plan : q.do = name /\ q.t = t /\ q.col = f[1] /\ q.parent = f[2]

TablesMade ==
  /\ \A t \in Tables(target) :
       HasTable(work, t) \/ Pending("create_table", t) \/ Pending("create_tenants", t)
  /\ \A t \in Modelled : HasTable(work, t) =>
       t \in Tables(target) \/ Pending("drop_table", t)

TypesMade ==
  /\ target = 3 => \A t \in Modelled :
       /\ HasTable(work, t) => IdType(work, t) = "int" \/ Pending("convert_pk", t)
       /\ \A f \in Present(work, t) :
            ColType(work, t, f) = "int" \/ PendingKey("convert_fk", t, f)
  /\ target < 3 => \A t \in Modelled :
       /\ HasTable(work, t) => IdType(work, t) = "uuid" \/ Pending("restore_pk", t)
       /\ \A f \in Present(work, t) :
            ColType(work, t, f) = "uuid" \/ PendingKey("restore_fk", t, f)

TenantColumnsMade ==
  \A t \in Modelled \ {"tenants"} :
    /\ target >= 2 => \/ TenantReference \in Present(work, t)
                      \/ Pending("add_tenant_id_column", t)
    /\ TenantReference \in Present(work, t) =>
         target >= 2 \/ Pending("drop_tenant_id", t)

(* An index is there, or is remembered and will be again.                  *)
IndexesMade ==
  /\ \A i \in work.idx \cup work.legacyIndexes :
       /\ i.table \in Modelled /\ HasTable(work, i.table)
       /\ i \in IndexesOf(i.table)
  /\ \A t \in Modelled : HasTable(work, t) => \A i \in IndexesOf(t) :
       i \in work.idx \/ (i \in work.legacyIndexes /\ Pending("recreate_indexes", t))

(* LEGACY_INDEXES has each index over a converted column, and at revision  *)
(* 3 every index until it is dropped.                                      *)
IndexesRemembered ==
  \A t \in Modelled : HasTable(work, t) => \A i \in IndexesOf(t) :
    /\ rev < 3 /\ target = 3 => \A c \in ToSet(i.cols) :
         work.type[<<t, c>>] = "int" => i \in work.legacyIndexes
    /\ rev = 3 =>
         \/ i \in work.legacyIndexes
         \/ target = 2 /\ \A q \in plan : q.do # "drop_legacy"

(* Nothing is converted before the schema is complete; a key whose         *)
(* restoration is ahead is an integer; the shadow tables go last.          *)
Staged ==
  /\ (rev < 3 /\ target = 3 /\ \E q \in plan : q.at < 200)
        => \A x \in DOMAIN work.type : work.type[x] = "uuid"
  /\ \A t \in Modelled : Pending("restore_pk", t) => HasTable(work, t) /\ IdType(work, t) = "int"
  /\ (rev = 3 /\ target = 2) => \/ Pending("drop_legacy", "tenants")
                                 \/ (work.legacyIds = {} /\ work.legacyIndexes = {})
  /\ (rev < 3 /\ target < 3) => work.legacyIndexes = {}

Ranges ==
  /\ rev \in 0..3 /\ target \in 0..3 /\ failed \in BOOLEAN /\ born \in 0..MaxBorn
  /\ target < rev => target = rev - 1
  /\ Idle => plan = {} /\ work = db

Committed ==
  /\ {t \in Modelled : HasTable(db, t)} = Tables(rev)
  /\ \A x \in DOMAIN db.type : db.type[x] = IF rev = 3 THEN "int" ELSE "uuid"
  /\ \A t \in Modelled \ {"tenants"} : TenantReference \in Present(db, t) <=> rev >= 2
  /\ db.idx = UNION {IndexesOf(t) : t \in Tables(rev)}
  /\ db.legacyIndexes = IF rev = 3 THEN db.idx ELSE {}

IInv ==
  /\ Ranges
  /\ DatabaseOK(db, born) /\ KeysFirst(db, rev) /\ Committed
  /\ DatabaseOK(work, born) /\ KeysFirst(work, rev)
  /\ InOrder /\ TablesMade /\ TypesMade /\ Staged
  /\ TenantColumnsMade /\ IndexesMade /\ IndexesRemembered

(***************************************************************************)
(* The lists of tables, the references and the indexes.                    *)
(***************************************************************************)
Pos(t) == CHOOSE i \in 1..19 : TABLES[i] = t

(* Each table of the chain has one place in TABLES; tenants is the first.  *)
LEMMA Places19 ==
  /\ DOMAIN TABLES = 1..19
  /\ \A i, j \in 1..19 : TABLES[i] = TABLES[j] => i = j
  /\ TABLES[1] = "tenants"
  /\ ToSet(TABLES) = ToSet(InitialTables) \cup {"tenants"}
<1>1. DOMAIN TABLES = 1..19 /\ TABLES[1] = "tenants"
  BY DEF TABLES
<1>2. \A i, j \in 1..19 : TABLES[i] = TABLES[j] => i = j
  BY DEF TABLES
<1>3. ToSet(TABLES) = ToSet(InitialTables) \cup {"tenants"}
  <2>1. ToSet(TABLES) = {"tenants", "users", "user_profiles", "user_settings",
          "user_security", "user_contacts", "user_addresses", "user_verifications",
          "user_sessions", "todos", "authorization_resources", "permissions", "roles",
          "role_permissions", "user_has_roles", "casbin_rules", "audit_logs",
          "error_traces", "login_attempts"}
    BY DEF TABLES, ToSet
  <2>2. ToSet(InitialTables) = {"audit_logs", "authorization_resources", "casbin_rules",
          "error_traces", "login_attempts", "roles", "users", "permissions", "todos",
          "user_addresses", "user_contacts", "user_has_roles", "user_profiles",
          "user_security", "user_sessions", "user_settings", "user_verifications",
          "role_permissions"}
    BY DEF InitialTables, Roots, Dependents, ToSet
  <2> QED BY <2>1, <2>2
<1> QED BY <1>1, <1>2, <1>3

(* The initial schemas and the tenant columns are about the same tables,   *)
(* all but tenants.                                                        *)
LEMMA Lists18 ==
  /\ DOMAIN InitialTables = 1..18 /\ DOMAIN TenantTables = 1..18
  /\ ToSet(TenantTables) = ToSet(InitialTables)
  /\ "tenants" \notin ToSet(InitialTables)
<1>1. DOMAIN InitialTables = 1..18 /\ DOMAIN TenantTables = 1..18
  BY DEF InitialTables, Roots, Dependents, TenantTables
<1>2. ToSet(InitialTables) = {"audit_logs", "authorization_resources", "casbin_rules",
          "error_traces", "login_attempts", "roles", "users", "permissions", "todos",
          "user_addresses", "user_contacts", "user_has_roles", "user_profiles",
          "user_security", "user_sessions", "user_settings", "user_verifications",
          "role_permissions"}
  BY DEF InitialTables, Roots, Dependents, ToSet
<1>3. ToSet(TenantTables) = {"users", "user_profiles", "user_settings",
          "user_security", "user_contacts", "user_addresses", "user_verifications",
          "user_sessions", "todos", "authorization_resources", "permissions", "roles",
          "role_permissions", "user_has_roles", "casbin_rules", "audit_logs",
          "error_traces", "login_attempts"}
  BY DEF TenantTables, ToSet
<1> QED BY <1>1, <1>2, <1>3

(* The places of a modelled table in each of the lists.                    *)
LEMMA TablePlaces ==
  ASSUME NEW t \in Modelled
  PROVE  /\ Pos(t) \in 1..19 /\ TABLES[Pos(t)] = t
         /\ \A i \in 1..19 : TABLES[i] = t => i = Pos(t)
         /\ t = "tenants" <=> Pos(t) = 1
         /\ t # "tenants" => /\ \E i \in 1..18 : InitialTables[i] = t
                             /\ \E i \in 1..18 : TenantTables[i] = t
<1>1. \E i \in 1..19 : TABLES[i] = t
  BY Places19, MigrationsAssumption DEF ToSet
<1>2. Pos(t) \in 1..19 /\ TABLES[Pos(t)] = t
  BY <1>1 DEF Pos
<1>3. t # "tenants" => /\ \E i \in 1..18 : InitialTables[i] = t
                       /\ \E i \in 1..18 : TenantTables[i] = t
  BY Lists18, MigrationsAssumption DEF ToSet
<1> QED BY <1>2, <1>3, Places19

(* A tuple with one value more.                                            *)
LEMMA AppendShort ==
  /\ \A a, b : Append(<<a>>, b) = <<a, b>>
  /\ \A a, b, c : Append(<<a, b>>, c) = <<a, b, c>>
<1>1. ASSUME NEW a, NEW b PROVE Append(<<a>>, b) = <<a, b>>
  <2>1. <<a>> \in Seq({a, b})
    OBVIOUS
  <2>2. Append(<<a>>, b) \in Seq({a, b}) /\ <<a, b>> \in Seq({a, b})
    BY <2>1
  <2>3. Len(Append(<<a>>, b)) = 2 /\ Append(<<a>>, b)[1] = a /\ Append(<<a>>, b)[2] = b
    BY <2>1
  <2>4. \A u, v \in Seq({a, b}) :
          Len(u) = Len(v) /\ (\A i \in 1..Len(u) : u[i] = v[i]) => u = v
    BY SeqEqual
  <2>5. \A i \in 1..2 : Append(<<a>>, b)[i] = <<a, b>>[i]
    BY <2>3
  <2> QED BY <2>2, <2>3, <2>4, <2>5
<1>2. ASSUME NEW a, NEW b, NEW c PROVE Append(<<a, b>>, c) = <<a, b, c>>
  <2>1. <<a, b>> \in Seq({a, b, c})
    OBVIOUS
  <2>2. Append(<<a, b>>, c) \in Seq({a, b, c}) /\ <<a, b, c>> \in Seq({a, b, c})
    BY <2>1
  <2>3. /\ Len(Append(<<a, b>>, c)) = 3 /\ Append(<<a, b>>, c)[1] = a
        /\ Append(<<a, b>>, c)[2] = b /\ Append(<<a, b>>, c)[3] = c
    BY <2>1
  <2>4. \A u, v \in Seq({a, b, c}) :
          Len(u) = Len(v) /\ (\A i \in 1..Len(u) : u[i] = v[i]) => u = v
    BY SeqEqual
  <2>5. \A i \in 1..3 : Append(<<a, b>>, c)[i] = <<a, b, c>>[i]
    BY <2>3
  <2> QED BY <2>2, <2>3, <2>4, <2>5
<1> QED BY <1>1, <1>2

(* A column, its table and the table it references.                        *)
LEMMA LinkFacts ==
  ASSUME NEW t \in Modelled
  PROVE  /\ \A f \in Links(t) :
              /\ f = <<f[1], f[2]>> /\ f[1] # "id"
              /\ f[2] \in Modelled /\ f[2] # t /\ t # "tenants"
              /\ f[1] = "tenant_id" <=> f = TenantReference
              /\ f = TenantReference \/ f \in ToSet(References(t))
              /\ f # TenantReference => f[2] # "tenants"
         /\ \A f, g \in Links(t) : f[1] = g[1] => f = g
         /\ ToSet(References(t)) \subseteq Links(t)
         /\ TenantReference \notin ToSet(References(t))
         /\ t # "tenants" => TenantReference \in Links(t)
         /\ DOMAIN FK_MAP(t) \subseteq 1..3
         /\ DOMAIN References(t) = 1..Len(References(t)) /\ Len(References(t)) \in Nat
<1> DEFINE L == ToSet(References(t))
<1>0. ToSet(Roots) = {"audit_logs", "authorization_resources", "casbin_rules",
                      "error_traces", "login_attempts", "roles", "users"}
  BY DEF Roots, ToSet
<1>1. CASE t = "permissions"
  <2>0. t # "role_permissions" /\ t # "user_has_roles" /\ t \notin ToSet(Roots) \cup {"tenants"}
    BY <1>0, <1>1
  <2>1. References(t) = <<<<"resource_id", "authorization_resources">>>>
    BY <1>0, <1>1, <2>0 DEF References
  <2>2. L = {<<"resource_id", "authorization_resources">>}
    BY <2>1 DEF ToSet
  <2>3. FK_MAP(t) = <<<<"resource_id", "authorization_resources">>, <<"tenant_id", "tenants">>>>
    BY <2>0, <2>1, AppendShort DEF FK_MAP, TenantReference
  <2>4. Links(t) = L \cup {TenantReference} /\ DOMAIN FK_MAP(t) = 1..2
    BY <2>2, <2>3 DEF Links, ToSet, TenantReference
  <2>5. DOMAIN References(t) = 1..Len(References(t)) /\ Len(References(t)) \in Nat
    BY <2>1
  <2> QED BY <1>1, <2>2, <2>4, <2>5, MigrationsAssumption DEF TenantReference
<1>2. CASE t = "role_permissions"
  <2>0. t # "permissions" /\ t # "user_has_roles" /\ t \notin ToSet(Roots) \cup {"tenants"}
    BY <1>0, <1>2
  <2>1. References(t) = <<<<"role_id", "roles">>, <<"permission_id", "permissions">>>>
    BY <1>0, <1>2, <2>0 DEF References
  <2>2. L = {<<"role_id", "roles">>, <<"permission_id", "permissions">>}
    BY <2>1 DEF ToSet
  <2>3. FK_MAP(t) = <<<<"role_id", "roles">>, <<"permission_id", "permissions">>,
                      <<"tenant_id", "tenants">>>>
    BY <2>0, <2>1, AppendShort DEF FK_MAP, TenantReference
  <2>4. Links(t) = L \cup {TenantReference} /\ DOMAIN FK_MAP(t) = 1..3
    BY <2>2, <2>3 DEF Links, ToSet, TenantReference
  <2>5. DOMAIN References(t) = 1..Len(References(t)) /\ Len(References(t)) \in Nat
    BY <2>1
  <2> QED BY <1>2, <2>2, <2>4, <2>5, MigrationsAssumption DEF TenantReference
<1>3. CASE t = "user_has_roles"
  <2>0. t # "permissions" /\ t # "role_permissions" /\ t \notin ToSet(Roots) \cup {"tenants"}
    BY <1>0, <1>3
  <2>1. References(t) = <<<<"user_id", "users">>, <<"role_id", "roles">>>>
    BY <1>0, <1>3, <2>0 DEF References
  <2>2. L = {<<"user_id", "users">>, <<"role_id", "roles">>}
    BY <2>1 DEF ToSet
  <2>3. FK_MAP(t) = <<<<"user_id", "users">>, <<"role_id", "roles">>,
                      <<"tenant_id", "tenants">>>>
    BY <2>0, <2>1, AppendShort DEF FK_MAP, TenantReference
  <2>4. Links(t) = L \cup {TenantReference} /\ DOMAIN FK_MAP(t) = 1..3
    BY <2>2, <2>3 DEF Links, ToSet, TenantReference
  <2>5. DOMAIN References(t) = 1..Len(References(t)) /\ Len(References(t)) \in Nat
    BY <2>1
  <2> QED BY <1>3, <2>2, <2>4, <2>5, MigrationsAssumption DEF TenantReference
<1>4. CASE t \in ToSet(Roots)
  <2>0. ToSet(Roots) = {"audit_logs", "authorization_resources", "casbin_rules",
                        "error_traces", "login_attempts", "roles", "users"}
    BY DEF Roots, ToSet
  <2>1. References(t) = <<>> /\ t # "tenants"
    BY <1>4, <2>0 DEF References
  <2>2. L = {}
    BY <2>1 DEF ToSet
  <2>3. FK_MAP(t) = <<<<"tenant_id", "tenants">>>>
    BY <2>1 DEF FK_MAP, TenantReference
  <2>4. Links(t) = {TenantReference} /\ DOMAIN FK_MAP(t) = 1..1
    BY <2>3 DEF Links, ToSet, TenantReference
  <2> QED BY <2>1, <2>2, <2>4, MigrationsAssumption DEF TenantReference
<1>5. CASE t = "tenants"
  <2>1. References(t) = <<>> /\ FK_MAP(t) = <<>>
    BY <1>5 DEF References, FK_MAP
  <2>2. L = {} /\ Links(t) = {} /\ DOMAIN FK_MAP(t) = {}
    BY <2>1 DEF ToSet, Links
  <2> QED BY <1>5, <2>1, <2>2
<1>6. CASE t \notin ToSet(Roots) \cup {"tenants", "permissions", "role_permissions", "user_has_roles"}
  <2>0. "users" \in ToSet(Roots)
    BY DEF Roots, ToSet
  <2>1. References(t) = <<<<"user_id", "users">>>>
    BY <1>6 DEF References
  <2>2. L = {<<"user_id", "users">>}
    BY <2>1 DEF ToSet
  <2>3. FK_MAP(t) = <<<<"user_id", "users">>, <<"tenant_id", "tenants">>>>
    BY <1>6, <2>1, AppendShort DEF FK_MAP, TenantReference
  <2>4. Links(t) = L \cup {TenantReference} /\ DOMAIN FK_MAP(t) = 1..2
    BY <2>2, <2>3 DEF Links, ToSet, TenantReference
  <2>5. t # "tenants" /\ t # "users"
    BY <1>6, <2>0
  <2> QED BY <2>1, <2>2, <2>4, <2>5, MigrationsAssumption DEF TenantReference
<1> QED BY <1>1, <1>2, <1>3, <1>4, <1>5, <1>6

(* Every index is over some reference columns of its table.                *)
LEMMA IndexFacts ==
  ASSUME NEW t \in Modelled, NEW i \in IndexesOf(t)
  PROVE  /\ i.table = t
         /\ \E c : c \in ToSet(i.cols)
         /\ \A c \in ToSet(i.cols) : \E f \in ToSet(References(t)) : f[1] = c
<1> DEFINE R == References(t)
           cols == [k \in DOMAIN R |-> R[k][1]]
           single == {"user_profiles", "user_security", "user_settings"}
<1>1. ToSet(cols) = {f[1] : f \in ToSet(R)}
  BY DEF ToSet
<1>2. /\ i.table = t
      /\ \/ \E c \in ToSet(cols) : i.cols = <<c>>
         \/ i.cols = cols /\ t \in single
         \/ i.cols = cols /\ Len(cols) > 1
  BY DEF IndexesOf, Index
<1>3. CASE \E c \in ToSet(cols) : i.cols = <<c>>
  <2>1. PICK c \in ToSet(cols) : i.cols = <<c>>
    BY <1>3
  <2>2. ToSet(i.cols) = {c}
    BY <2>1 DEF ToSet
  <2> QED BY <1>1, <1>2, <2>1, <2>2
<1>4. CASE i.cols = cols /\ t \in single
  <2>1. /\ t # "permissions" /\ t # "role_permissions" /\ t # "user_has_roles"
        /\ t \notin ToSet(Roots) \cup {"tenants"}
    BY <1>4 DEF Roots, ToSet
  <2>2. R = <<<<"user_id", "users">>>>
    BY <2>1 DEF References
  <2>3. ToSet(R) = {<<"user_id", "users">>}
    BY <2>2 DEF ToSet
  <2> QED BY <1>1, <1>2, <1>4, <2>3
<1>5. CASE i.cols = cols /\ Len(cols) > 1
  <2>1. 1 \in DOMAIN R
    <3>1. DOMAIN R = 1..Len(R) /\ Len(R) \in Nat
      BY LinkFacts
    <3>2. Len(cols) = Len(R)
      BY <3>1
    <3> QED BY <1>5, <3>1, <3>2
  <2>2. R[1] \in ToSet(R)
    BY <2>1 DEF ToSet
  <2>3. R[1][1] \in ToSet(cols)
    BY <1>1, <2>2
  <2>4. ToSet(i.cols) = ToSet(cols)
    BY <1>5
  <2> HIDE DEF cols
  <2> QED BY <1>1, <1>2, <2>3, <2>4
<1> QED BY <1>2, <1>3, <1>4, <1>5

(***************************************************************************)
(* The calls of a run.                                                     *)
(***************************************************************************)
Step(i) == 10 * i

CallOK(q, from, to) ==
  /\ q.t \in Modelled /\ q.at \in Nat
  /\ q.do \in {"create_table", "create_tenants", "add_tenant_id_column", "convert_pk",
       "convert_fk", "recreate_indexes", "restore_pk", "restore_fk", "drop_legacy",
       "drop_table", "drop_tenant_id"}
  /\ q.do = "create_table" => from < to /\ q.t # "tenants" /\ q.at < 200
  /\ q.do = "create_tenants" => from < to /\ 2 <= to /\ q.t = "tenants" /\ q.at < 200
  /\ q.do = "add_tenant_id_column" =>
       from < to /\ 2 <= to /\ q.t # "tenants" /\ q.at \in 101..199
  /\ q.do = "convert_pk" => from < 3 /\ to = 3 /\ q.at = 209 + Step(Pos(q.t))
  /\ q.do = "convert_fk" =>
       /\ from < 3 /\ to = 3 /\ <<q.col, q.parent>> \in Links(q.t)
       /\ \E k \in 1..3 : q.at = 200 + Step(Pos(q.t)) + k
  /\ q.do = "recreate_indexes" =>
       /\ q.t # "tenants"
       /\ \/ from < 3 /\ to = 3 /\ q.at = 208 + Step(Pos(q.t))
          \/ from = 3 /\ to = 2 /\ q.at = 998 - Step(Pos(q.t))
  /\ q.do = "restore_pk" => from = 3 /\ to = 2 /\ q = Call(100 - Pos(q.t), "restore_pk", q.t)
  /\ q.do = "restore_fk" =>
       /\ from = 3 /\ to = 2 /\ <<q.col, q.parent>> \in Links(q.t)
       /\ \E k \in 1..3 : q.at = 990 - Step(Pos(q.t)) + k
  /\ q.do = "drop_legacy" =>
       from = 3 /\ to = 2 /\ q.at = 1000 /\ q = Call(1000, "drop_legacy", "tenants")
  /\ q.do = "drop_table" =>
       from < 3 /\ to = from - 1 /\ (from = 2 => q.t = "tenants" /\ q.at = 100)
  /\ q.do = "drop_tenant_id" => from = 2 /\ to = 1 /\ q.t # "tenants" /\ q.at < 100

(* The fields of a call.                                                   *)
LEMMA CallFields ==
  \A at, name, t, f :
    /\ Call(at, name, t).at = at /\ Call(at, name, t).do = name /\ Call(at, name, t).t = t
    /\ FkCall(at, name, t, f).at = at /\ FkCall(at, name, t, f).do = name
    /\ FkCall(at, name, t, f).t = t
    /\ FkCall(at, name, t, f).col = f[1] /\ FkCall(at, name, t, f).parent = f[2]
BY DEF Call, FkCall

(* What the calls of an upgrade are.                                       *)
LEMMA UpgradeCalls ==
  ASSUME NEW from \in 0..3, NEW to \in 0..3, from < to, NEW q \in Calls(from, to)
  PROVE  CallOK(q, from, to)
<1>1. PICK k \in (from + 1)..to : q \in Upgrades[k]
  BY DEF Calls
<1>2. CASE q \in InitialUpgrade
  <2>1. PICK i \in Places(InitialTables) : q = Call(i, "create_table", InitialTables[i])
    BY <1>2 DEF InitialUpgrade
  <2>2. i \in 1..18 /\ InitialTables[i] \in Modelled /\ InitialTables[i] # "tenants"
    BY <2>1, Lists18 DEF Places, ToSet
  <2> QED BY <2>1, <2>2, CallFields DEF CallOK
<1>3. CASE k >= 2 /\ q \in TenantUpgrade
  <2>1. CASE q = Call(100, "create_tenants", "tenants")
    BY <1>1, <1>3, <2>1, MigrationsAssumption, CallFields DEF CallOK
  <2>2. CASE \E i \in Places(TenantTables) :
               q = Call(100 + i, "add_tenant_id_column", TenantTables[i])
    <3>1. PICK i \in Places(TenantTables) :
               q = Call(100 + i, "add_tenant_id_column", TenantTables[i])
      BY <2>2
    <3>2. i \in 1..18 /\ TenantTables[i] \in Modelled /\ TenantTables[i] # "tenants"
      BY <3>1, Lists18 DEF Places, ToSet
    <3> QED BY <1>1, <1>3, <3>1, <3>2, CallFields DEF CallOK
  <2> QED BY <1>3, <2>1, <2>2 DEF TenantUpgrade
<1>4. CASE k = 3 /\ q \in Upgrade
  <2>0. from < 3 /\ to = 3
    BY <1>1, <1>4
  <2>1. CASE \E i \in Places(TABLES) : q = Call(200 + 10 * i + 9, "convert_pk", TABLES[i])
    <3>1. PICK i \in Places(TABLES) : q = Call(200 + 10 * i + 9, "convert_pk", TABLES[i])
      BY <2>1
    <3>2. i \in 1..19 /\ TABLES[i] \in Modelled /\ i = Pos(TABLES[i])
      BY <3>1, Places19, TablePlaces DEF Places
    <3> QED BY <2>0, <3>1, <3>2, CallFields DEF CallOK, Step
  <2>2. CASE \E i \in Children : q = Call(200 + 10 * i + 8, "recreate_indexes", TABLES[i])
    <3>1. PICK i \in Children : q = Call(200 + 10 * i + 8, "recreate_indexes", TABLES[i])
      BY <2>2
    <3>2. i \in 1..19 /\ TABLES[i] \in Modelled /\ i = Pos(TABLES[i]) /\ i # 1
      BY <3>1, Places19, TablePlaces DEF Places, Children
    <3>3. TABLES[i] # "tenants"
      BY <3>2, TablePlaces
    <3> QED BY <2>0, <3>1, <3>2, <3>3, CallFields DEF CallOK, Step
  <2>3. CASE \E i \in Children : q \in FkCalls(200 + 10 * i, "convert_fk", TABLES[i])
    <3>1. PICK i \in Children : q \in FkCalls(200 + 10 * i, "convert_fk", TABLES[i])
      BY <2>3
    <3>2. i \in 1..19 /\ TABLES[i] \in Modelled /\ i = Pos(TABLES[i])
      BY <3>1, Places19, TablePlaces DEF Places, Children
    <3>3. PICK j \in DOMAIN FK_MAP(TABLES[i]) :
                q = FkCall(200 + 10 * i + j, "convert_fk", TABLES[i], FK_MAP(TABLES[i])[j])
      BY <3>1 DEF FkCalls
    <3>4. j \in 1..3 /\ FK_MAP(TABLES[i])[j] \in Links(TABLES[i])
      BY <3>2, <3>3, LinkFacts DEF Links, ToSet
    <3>5. <<q.col, q.parent>> \in Links(TABLES[i])
      BY <3>2, <3>3, <3>4, LinkFacts, CallFields
    <3> QED BY <2>0, <3>2, <3>3, <3>4, <3>5, CallFields DEF CallOK, Step
  <2> QED BY <1>4, <2>1, <2>2, <2>3 DEF Upgrade
<1> QED BY <1>1, <1>2, <1>3, <1>4 DEF Upgrades

(* What the calls of a downgrade are.                                      *)
LEMMA DowngradeCalls ==
  ASSUME NEW from \in 1..3, NEW to \in 0..3, to = from - 1, NEW q \in Calls(from, to)
  PROVE  CallOK(q, from, to)
<1>1. q \in Downgrades[from]
  BY DEF Calls
<1>2. CASE from = 1 /\ q \in InitialDowngrade
  <2>1. PICK i \in Places(InitialTables) : q = Call(100 - i, "drop_table", InitialTables[i])
    BY <1>2 DEF InitialDowngrade
  <2>2. i \in 1..18 /\ InitialTables[i] \in Modelled
    BY <2>1, Lists18 DEF Places
  <2> QED BY <1>2, <2>1, <2>2, CallFields DEF CallOK
<1>3. CASE from = 2 /\ q \in TenantDowngrade
  <2>1. CASE q = Call(100, "drop_table", "tenants")
    BY <1>3, <2>1, MigrationsAssumption, CallFields DEF CallOK
  <2>2. CASE \E i \in Places(TenantTables) : q = Call(i, "drop_tenant_id", TenantTables[i])
    <3>1. PICK i \in Places(TenantTables) : q = Call(i, "drop_tenant_id", TenantTables[i])
      BY <2>2
    <3>2. i \in 1..18 /\ TenantTables[i] \in Modelled /\ TenantTables[i] # "tenants"
      BY <3>1, Lists18 DEF Places, ToSet
    <3> QED BY <1>3, <3>1, <3>2, CallFields DEF CallOK
  <2> QED BY <1>3, <2>1, <2>2 DEF TenantDowngrade
<1>4. CASE from = 3 /\ q \in Downgrade
  <2>1. CASE \E i \in Places(TABLES) : q = Call(100 - i, "restore_pk", TABLES[i])
    <3>1. PICK i \in Places(TABLES) : q = Call(100 - i, "restore_pk", TABLES[i])
      BY <2>1
    <3>2. i \in 1..19 /\ TABLES[i] \in Modelled /\ i = Pos(TABLES[i])
      BY <3>1, Places19, TablePlaces DEF Places
    <3> QED BY <1>4, <3>1, <3>2, CallFields DEF CallOK, Step
  <2>2. CASE \E i \in Children : q = Call(10 * (99 - i) + 8, "recreate_indexes", TABLES[i])
    <3>1. PICK i \in Children : q = Call(10 * (99 - i) + 8, "recreate_indexes", TABLES[i])
      BY <2>2
    <3>2. i \in 1..19 /\ TABLES[i] \in Modelled /\ i = Pos(TABLES[i]) /\ i # 1
      BY <3>1, Places19, TablePlaces DEF Places, Children
    <3>3. TABLES[i] # "tenants"
      BY <3>2, TablePlaces
    <3> QED BY <1>4, <3>1, <3>2, <3>3, CallFields DEF CallOK, Step
  <2>3. CASE \E i \in Children : q \in FkCalls(10 * (99 - i), "restore_fk", TABLES[i])
    <3>1. PICK i \in Children : q \in FkCalls(10 * (99 - i), "restore_fk", TABLES[i])
      BY <2>3
    <3>2. i \in 1..19 /\ TABLES[i] \in Modelled /\ i = Pos(TABLES[i])
      BY <3>1, Places19, TablePlaces DEF Places, Children
    <3>3. PICK j \in DOMAIN FK_MAP(TABLES[i]) :
                q = FkCall(10 * (99 - i) + j, "restore_fk", TABLES[i], FK_MAP(TABLES[i])[j])
      BY <3>1 DEF FkCalls
    <3>4. j \in 1..3 /\ FK_MAP(TABLES[i])[j] \in Links(TABLES[i])
      BY <3>2, <3>3, LinkFacts DEF Links, ToSet
    <3>5. <<q.col, q.parent>> \in Links(TABLES[i])
      BY <3>2, <3>3, <3>4, LinkFacts, CallFields
    <3> QED BY <1>4, <3>2, <3>3, <3>4, <3>5, CallFields DEF CallOK, Step
  <2>4. CASE q = Call(1000, "drop_legacy", "tenants")
    BY <1>4, <2>4, MigrationsAssumption, CallFields DEF CallOK
  <2> QED BY <1>4, <2>1, <2>2, <2>3, <2>4 DEF Downgrade
<1> QED BY <1>1, <1>2, <1>3, <1>4 DEF Downgrades

(* The calls an upgrade makes for each table and column.                   *)
LEMMA UpgradeMakes ==
  ASSUME NEW from \in 0..3, NEW to \in 0..3, from < to, NEW t \in Modelled
  PROVE  /\ t \in Tables(to) \ Tables(from) =>
              \E q \in Calls(from, to) :
                 q.do \in {"create_table", "create_tenants"} /\ q.t = t
         /\ from < 2 /\ 2 <= to /\ t # "tenants" =>
              \E q \in Calls(from, to) : q.do = "add_tenant_id_column" /\ q.t = t
         /\ to = 3 =>
              /\ \E q \in Calls(from, to) :
                   q.do = "convert_pk" /\ q.t = t /\ q.at = 209 + Step(Pos(t))
              /\ t # "tenants" => \E q \in Calls(from, to) :
                   q.do = "recreate_indexes" /\ q.t = t /\ q.at = 208 + Step(Pos(t))
              /\ \A f \in Links(t) : \E q \in Calls(from, to) :
                   /\ q.do = "convert_fk" /\ q.t = t /\ q.col = f[1] /\ q.parent = f[2]
                   /\ \E k \in 1..3 : q.at = 200 + Step(Pos(t)) + k
<1>0. /\ Calls(from, to) = UNION {Upgrades[k] : k \in (from + 1)..to}
      /\ Upgrades[1] = InitialUpgrade /\ Upgrades[2] = TenantUpgrade /\ Upgrades[3] = Upgrade
  BY DEF Calls, Upgrades
<1>1. from < 1 => InitialUpgrade \subseteq Calls(from, to)
  BY <1>0
<1>2. from < 2 /\ 2 <= to => TenantUpgrade \subseteq Calls(from, to)
  BY <1>0
<1>3. to = 3 => Upgrade \subseteq Calls(from, to)
  BY <1>0
<1>4. ASSUME t \in Tables(to) \ Tables(from)
      PROVE  \E q \in Calls(from, to) :
                q.do \in {"create_table", "create_tenants"} /\ q.t = t
  <2>1. CASE t = "tenants"
    <3>1. from < 2 /\ 2 <= to
      BY <1>4, <2>1, Lists18 DEF Tables
    <3>2. Call(100, "create_tenants", "tenants") \in TenantUpgrade
      BY DEF TenantUpgrade
    <3> QED BY <1>2, <2>1, <3>1, <3>2, CallFields
  <2>2. CASE t # "tenants"
    <3>1. from < 1
      BY <1>4, <2>2 DEF Tables
    <3>2. PICK i \in 1..18 : InitialTables[i] = t
      BY <2>2, TablePlaces
    <3>3. Call(i, "create_table", t) \in InitialUpgrade
      BY <3>2, Lists18 DEF InitialUpgrade, Places
    <3> QED BY <1>1, <3>1, <3>3, CallFields
  <2> QED BY <2>1, <2>2
<1>5. ASSUME from < 2, 2 <= to, t # "tenants"
      PROVE  \E q \in Calls(from, to) : q.do = "add_tenant_id_column" /\ q.t = t
  <2>1. PICK i \in 1..18 : TenantTables[i] = t
    BY <1>5, TablePlaces
  <2>2. Call(100 + i, "add_tenant_id_column", t) \in TenantUpgrade
    BY <2>1, Lists18 DEF TenantUpgrade, Places
  <2> QED BY <1>2, <1>5, <2>2, CallFields
<1>6. ASSUME to = 3
      PROVE  /\ \E q \in Calls(from, to) :
                  q.do = "convert_pk" /\ q.t = t /\ q.at = 209 + Step(Pos(t))
             /\ t # "tenants" => \E q \in Calls(from, to) :
                  q.do = "recreate_indexes" /\ q.t = t /\ q.at = 208 + Step(Pos(t))
             /\ \A f \in Links(t) : \E q \in Calls(from, to) :
                  /\ q.do = "convert_fk" /\ q.t = t /\ q.col = f[1] /\ q.parent = f[2]
                  /\ \E k \in 1..3 : q.at = 200 + Step(Pos(t)) + k
  <2>1. Pos(t) \in Places(TABLES) /\ Pos(t) \in 1..19 /\ TABLES[Pos(t)] = t
    BY TablePlaces, Places19 DEF Places
  <2>2. t # "tenants" => Pos(t) \in Children
    BY <2>1, TablePlaces DEF Children
  <2>3. Call(200 + 10 * Pos(t) + 9, "convert_pk", t) \in Upgrade
    BY <2>1 DEF Upgrade
  <2>4. t # "tenants" => Call(200 + 10 * Pos(t) + 8, "recreate_indexes", t) \in Upgrade
    BY <2>1, <2>2 DEF Upgrade
  <2>5. ASSUME NEW f \in Links(t)
        PROVE  \E q \in Calls(from, to) :
                 /\ q.do = "convert_fk" /\ q.t = t /\ q.col = f[1] /\ q.parent = f[2]
                 /\ \E k \in 1..3 : q.at = 200 + Step(Pos(t)) + k
    <3>1. t # "tenants"
      BY LinkFacts
    <3>2. PICK k \in DOMAIN FK_MAP(t) : FK_MAP(t)[k] = f
      BY DEF Links, ToSet
    <3>3. k \in 1..3
      BY LinkFacts
    <3> DEFINE q == FkCall(200 + 10 * Pos(t) + k, "convert_fk", t, f)
    <3>4. q \in FkCalls(200 + 10 * Pos(t), "convert_fk", TABLES[Pos(t)])
      BY <2>1, <3>2 DEF FkCalls
    <3>5. q \in Upgrade
      BY <2>2, <3>1, <3>4 DEF Upgrade
    <3>6. q \in Calls(from, to)
      BY <1>3, <1>6, <3>5
    <3> QED BY <3>3, <3>6, CallFields DEF Step
  <2>6. \E q \in Calls(from, to) :
            q.do = "convert_pk" /\ q.t = t /\ q.at = 209 + Step(Pos(t))
    BY <1>3, <1>6, <2>1, <2>3, CallFields DEF Step
  <2>7. t # "tenants" => \E q \in Calls(from, to) :
            q.do = "recreate_indexes" /\ q.t = t /\ q.at = 208 + Step(Pos(t))
    BY <1>3, <1>6, <2>1, <2>4, CallFields DEF Step
  <2> QED BY <2>5, <2>6, <2>7
<1> QED BY <1>4, <1>5, <1>6

(* The calls a downgrade makes for each table and column.                  *)
LEMMA DowngradeMakes ==
  ASSUME NEW t \in Modelled
  PROVE  /\ t # "tenants" => \E q \in Calls(1, 0) : q.do = "drop_table" /\ q.t = t
         /\ \E q \in Calls(2, 1) : q.do = "drop_table" /\ q.t = "tenants"
         /\ t # "tenants" => \E q \in Calls(2, 1) : q.do = "drop_tenant_id" /\ q.t = t
         /\ \E q \in Calls(3, 2) : q.do = "restore_pk" /\ q.t = t
         /\ \E q \in Calls(3, 2) : q.do = "drop_legacy" /\ q.t = "tenants" /\ q.at = 1000
         /\ t # "tenants" => \E q \in Calls(3, 2) :
              q.do = "recreate_indexes" /\ q.t = t /\ q.at = 998 - Step(Pos(t))
         /\ \A f \in Links(t) : \E q \in Calls(3, 2) :
              /\ q.do = "restore_fk" /\ q.t = t /\ q.col = f[1] /\ q.parent = f[2]
              /\ \E k \in 1..3 : q.at = 990 - Step(Pos(t)) + k
<1>0. /\ Calls(1, 0) = InitialDowngrade /\ Calls(2, 1) = TenantDowngrade
      /\ Calls(3, 2) = Downgrade
  BY DEF Calls, Downgrades
<1>1. t # "tenants" => \E q \in Calls(1, 0) : q.do = "drop_table" /\ q.t = t
  <2>1. SUFFICES ASSUME t # "tenants" PROVE \E q \in Calls(1, 0) : q.do = "drop_table" /\ q.t = t
    OBVIOUS
  <2>2. PICK i \in 1..18 : InitialTables[i] = t
    BY <2>1, TablePlaces
  <2>3. Call(100 - i, "drop_table", t) \in InitialDowngrade
    BY <2>2, Lists18 DEF InitialDowngrade, Places
  <2> QED BY <1>0, <2>3, CallFields
<1>2. \E q \in Calls(2, 1) : q.do = "drop_table" /\ q.t = "tenants"
  BY <1>0, CallFields DEF TenantDowngrade
<1>3. t # "tenants" => \E q \in Calls(2, 1) : q.do = "drop_tenant_id" /\ q.t = t
  <2>1. SUFFICES ASSUME t # "tenants" PROVE \E q \in Calls(2, 1) : q.do = "drop_tenant_id" /\ q.t = t
    OBVIOUS
  <2>2. PICK i \in 1..18 : TenantTables[i] = t
    BY <2>1, TablePlaces
  <2>3. Call(i, "drop_tenant_id", t) \in TenantDowngrade
    BY <2>2, Lists18 DEF TenantDowngrade, Places
  <2> QED BY <1>0, <2>3, CallFields
<1>4. Pos(t) \in Places(TABLES) /\ Pos(t) \in 1..19 /\ TABLES[Pos(t)] = t
  BY TablePlaces, Places19 DEF Places
<1>5. t # "tenants" => Pos(t) \in Children
  BY <1>4, TablePlaces DEF Children
<1>6. \E q \in Calls(3, 2) : q.do = "restore_pk" /\ q.t = t
  <2>1. Call(100 - Pos(t), "restore_pk", t) \in Downgrade
    BY <1>4 DEF Downgrade
  <2> QED BY <1>0, <2>1, CallFields
<1>7. \E q \in Calls(3, 2) : q.do = "drop_legacy" /\ q.t = "tenants" /\ q.at = 1000
  BY <1>0, CallFields DEF Downgrade
<1>8. t # "tenants" => \E q \in Calls(3, 2) :
              q.do = "recreate_indexes" /\ q.t = t /\ q.at = 998 - Step(Pos(t))
  <2>1. t # "tenants" => Call(10 * (99 - Pos(t)) + 8, "recreate_indexes", t) \in Downgrade
    BY <1>4, <1>5 DEF Downgrade
  <2> QED BY <1>0, <1>4, <2>1, CallFields DEF Step
<1>9. ASSUME NEW f \in Links(t)
      PROVE  \E q \in Calls(3, 2) :
              /\ q.do = "restore_fk" /\ q.t = t /\ q.col = f[1] /\ q.parent = f[2]
              /\ \E k \in 1..3 : q.at = 990 - Step(Pos(t)) + k
  <2>1. t # "tenants"
    BY LinkFacts
  <2>2. PICK k \in DOMAIN FK_MAP(t) : FK_MAP(t)[k] = f
    BY DEF Links, ToSet
  <2>3. k \in 1..3
    BY LinkFacts
  <2> DEFINE q == FkCall(10 * (99 - Pos(t)) + k, "restore_fk", t, f)
  <2>4. q \in FkCalls(10 * (99 - Pos(t)), "restore_fk", TABLES[Pos(t)])
    BY <1>4, <2>2 DEF FkCalls
  <2>5. q \in Downgrade
    BY <1>5, <2>1, <2>4 DEF Downgrade
  <2>6. q \in Calls(3, 2)
    BY <1>0, <2>5
  <2> QED BY <1>4, <2>3, <2>6, CallFields DEF Step
<1> QED BY <1>1, <1>2, <1>3, <1>6, <1>7, <1>8, <1>9

(***************************************************************************)
(* Rows.                                                                   *)
(***************************************************************************)
Kinds == {"uuid", "int"}

(* The uuids rows are born with, or get when they are first restored, are  *)
(* a function of the row.                                                  *)
LEMMA FirstIds ==
  ASSUME NEW n \in 0..MaxBorn,
         NEW r, NEW s, r.who \in 0..n, s.who \in 0..n,
         r.was \in {Null, Uuid(r.who)}, s.was \in {Null, Uuid(s.who)}
  PROVE  /\ FirstId(r) = Uuid(FirstId(r)[2]) /\ FirstId(r)[2] \in Nat
         /\ FirstId(r) = FirstId(s) => r.who = s.who
         /\ FirstId(r) = Uuid(0) => r.who = 0
<1>1. MaxBorn \in Nat
  BY MigrationsAssumption
<1>2. r.was # Null => FirstId(r) = Uuid(r.who)
  BY DEF FirstId
<1>3. s.was # Null => FirstId(s) = Uuid(s.who)
  BY DEF FirstId
<1>4. r.was = Null => FirstId(r) = Uuid(MaxBorn + 1 + r.who)
  BY DEF FirstId, Random
<1>5. s.was = Null => FirstId(s) = Uuid(MaxBorn + 1 + s.who)
  BY DEF FirstId, Random
<1>6. \A a, b : Uuid(a) = Uuid(b) => a = b
  BY DEF Uuid
<1>7. \A a : Uuid(a)[2] = a
  BY DEF Uuid
<1> QED BY <1>1, <1>2, <1>3, <1>4, <1>5, <1>6, <1>7

(* row_number() numbers the rows of a table from 1, each by one number.    *)
LEMMA RowNumbers ==
  ASSUME NEW S, IsFiniteSet(S), \A r \in S : r.id[2] \in Int,
         \A r, s \in S : r.id[2] = s.id[2] => r = s
  PROVE  /\ \A r \in S : RowNumber(S, r) \in 1..Cardinality(S)
         /\ \A r, s \in S : RowNumber(S, r) = RowNumber(S, s) => r = s
<1> DEFINE upto(r) == {s \in S : s.id[2] <= r.id[2]}
<1>1. ASSUME NEW r \in S
      PROVE  /\ IsFiniteSet(upto(r)) /\ Cardinality(upto(r)) \in 1..Cardinality(S)
  <2>1. upto(r) \subseteq S /\ r \in upto(r)
    OBVIOUS
  <2>2. IsFiniteSet(upto(r)) /\ Cardinality(upto(r)) <= Cardinality(S)
    BY <2>1, FS_Subset
  <2>3. Cardinality(upto(r)) # 0
    BY <2>1, <2>2, FS_EmptySet
  <2> QED BY <2>2, <2>3, FS_CardinalityType
<1>2. ASSUME NEW r \in S, NEW s \in S, r.id[2] < s.id[2]
      PROVE  Cardinality(upto(r)) # Cardinality(upto(s))
  <2>1. upto(r) \subseteq upto(s) /\ s \in upto(s) /\ s \notin upto(r)
    BY <1>2
  <2> QED BY <1>1, <2>1, FS_Subset
<1>3. ASSUME NEW r \in S, NEW s \in S, Cardinality(upto(r)) = Cardinality(upto(s))
      PROVE  r = s
  <2>1. ~(r.id[2] < s.id[2]) /\ ~(s.id[2] < r.id[2])
    BY <1>2, <1>3
  <2> HIDE DEF upto
  <2> QED BY <2>1
<1>4. \A r \in S : RowNumber(S, r) = Cardinality(upto(r))
  BY DEF RowNumber
<1> HIDE DEF upto
<1> QED BY <1>1, <1>3, <1>4

(* Two versions of one row.                                                *)
SameRow(x, r) ==
  /\ DOMAIN x = DOMAIN r
  /\ x.who = r.who /\ x.was = r.was /\ x.meant = r.meant

(* Both versions have one first uuid.                                      *)
LEMMA SameFirstId ==
  \A x, r : SameRow(x, r) => FirstId(x) = FirstId(r)
BY DEF SameRow, FirstId, Random

(* UPDATE of a key: T is S with a new key in each row.                     *)
Rekeys(S, T, value) ==
  /\ IsFiniteSet(S) /\ \A r \in S : DOMAIN r = RowFields
  /\ \A x \in T : \E r \in S : x = [r EXCEPT !.id = value[r]]
  /\ \A r \in S : [r EXCEPT !.id = value[r]] \in T

(* Rows stay the same rows under their new keys.                           *)
LEMMA Rekeyed ==
  ASSUME NEW S, NEW T, NEW value, Rekeys(S, T, value)
  PROVE  /\ IsFiniteSet(T)
         /\ \A x \in T : \E r \in S :
              /\ SameRow(x, r) /\ x.ref = r.ref /\ x.id = value[r]
         /\ \A r \in S : \E x \in T :
              /\ SameRow(x, r) /\ x.ref = r.ref /\ x.id = value[r]
         /\ (\A r, s \in S : r.who = s.who => r = s) => \A x, y \in T : x.who = y.who => x = y
<1> DEFINE new(r) == [r EXCEPT !.id = value[r]]
<1>1. \A r \in S : /\ new(r) \in T
                   /\ SameRow(new(r), r) /\ new(r).ref = r.ref /\ new(r).id = value[r]
  BY DEF RowFields, SameRow, Rekeys
<1>2. \A x \in T : \E r \in S : x = new(r)
  BY DEF Rekeys
<1>3. IsFiniteSet(T)
  <2>1. [r \in S |-> new(r)] \in Surjection(S, T)
    BY <1>1, <1>2 DEF Surjection
  <2> QED BY <2>1, FS_Surjection DEF Rekeys
<1>4. (\A r, s \in S : r.who = s.who => r = s) => \A x, y \in T : x.who = y.who => x = y
  <2> SUFFICES ASSUME \A r, s \in S : r.who = s.who => r = s,
                      NEW x \in T, NEW y \in T, x.who = y.who
               PROVE  x = y
    OBVIOUS
  <2>1. PICK r \in S : x = new(r)
    BY <1>2
  <2>2. PICK s \in S : y = new(s)
    BY <1>2
  <2>3. x.who = r.who /\ y.who = s.who
    BY <1>1, <2>1, <2>2 DEF SameRow
  <2> HIDE DEF new
  <2> QED BY <2>1, <2>2, <2>3
<1> HIDE DEF new
<1> QED BY <1>1, <1>2, <1>3, <1>4

(* UPDATE of a reference column: T is S with a new value in each row.      *)
Rereferences(S, T, value, col) ==
  /\ IsFiniteSet(S) /\ \A r \in S : DOMAIN r = RowFields
  /\ \A x \in T : \E r \in S : x = [r EXCEPT !.ref[col] = value[r]]
  /\ \A r \in S : [r EXCEPT !.ref[col] = value[r]] \in T

Refers(x, r, col, w) == SameRow(x, r) /\ x.id = r.id /\ x.ref = [r.ref EXCEPT ![col] = w]

(* Rows stay the same rows with their new values.                          *)
LEMMA Rereferenced ==
  ASSUME NEW S, NEW T, NEW value, NEW col, Rereferences(S, T, value, col)
  PROVE  /\ IsFiniteSet(T)
         /\ \A x \in T : \E r \in S :
              Refers(x, r, col, value[r])
         /\ \A r \in S : \E x \in T :
              Refers(x, r, col, value[r])
         /\ (\A r, s \in S : r.who = s.who => r = s) => \A x, y \in T : x.who = y.who => x = y
<1> DEFINE new(r) == [r EXCEPT !.ref[col] = value[r]]
<1>1. \A r \in S : /\ new(r) \in T
                   /\ SameRow(new(r), r) /\ new(r).id = r.id
                   /\ new(r).ref = [r.ref EXCEPT ![col] = value[r]]
  BY DEF RowFields, SameRow, Rereferences
<1>2. \A x \in T : \E r \in S : x = new(r)
  BY DEF Rereferences
<1>3. IsFiniteSet(T)
  <2>1. [r \in S |-> new(r)] \in Surjection(S, T)
    BY <1>1, <1>2 DEF Surjection
  <2> QED BY <2>1, FS_Surjection DEF Rereferences
<1>4. (\A r, s \in S : r.who = s.who => r = s) => \A x, y \in T : x.who = y.who => x = y
  <2> SUFFICES ASSUME \A r, s \in S : r.who = s.who => r = s,
                      NEW x \in T, NEW y \in T, x.who = y.who
               PROVE  x = y
    OBVIOUS
  <2>1. PICK r \in S : x = new(r)
    BY <1>2
  <2>2. PICK s \in S : y = new(s)
    BY <1>2
  <2>3. x.who = r.who /\ y.who = s.who
    BY <1>1, <2>1, <2>2 DEF SameRow
  <2> HIDE DEF new
  <2> QED BY <2>1, <2>2, <2>3
<1>5. ASSUME NEW x \in T
      PROVE  \E r \in S : Refers(x, r, col, value[r])
  <2>1. PICK r \in S : x = new(r)
    BY <1>2
  <2> HIDE DEF new
  <2> QED BY <1>1, <2>1 DEF Refers
<1>6. ASSUME NEW r \in S
      PROVE  \E x \in T : Refers(x, r, col, value[r])
  <2> HIDE DEF new
  <2> QED BY <1>1 DEF Refers
<1> QED BY <1>3, <1>4, <1>5, <1>6

(***************************************************************************)
(* The calls on a database.                                                *)
(***************************************************************************)

(* The types, and the rows of one table, are rewritten; tables and columns *)
(* stay.                                                                   *)
Rewrites(d, e, t) ==
  /\ DOMAIN e = Fields /\ DOMAIN e.type = DOMAIN d.type
  /\ \A x \in DOMAIN d.type : e.type[x] \in Kinds
  /\ DOMAIN e.rows = Modelled /\ DOMAIN e.seq = Modelled
  /\ \A u \in Modelled : e.seq[u] \in Nat
  /\ \A u \in Modelled : u # t => e.rows[u] = d.rows[u]
  /\ IsFiniteSet(e.rows[t])
  /\ \A x \in e.rows[t] : \E r \in d.rows[t] : SameRow(x, r) /\ DOMAIN x.ref = DOMAIN r.ref
  /\ \A x, y \in e.rows[t] : x.who = y.who => x = y

(* Tables, columns and rows are in order after such a statement.           *)
LEMMA Rewritten ==
  ASSUME NEW d, NEW e, NEW n, NEW t \in Modelled,
         Shape(d), ColumnsPaired(d), RowsOK(d, n), Rewrites(d, e, t)
  PROVE  /\ Shape(e) /\ ColumnsPaired(e) /\ RowsOK(e, n)
         /\ \A u \in Modelled : Present(e, u) = Present(d, u) /\ (HasTable(e, u) <=> HasTable(d, u))
<1>1. \A u : Present(e, u) = Present(d, u) /\ (HasTable(e, u) <=> HasTable(d, u))
  BY DEF Present, HasTable, Rewrites
<1>2. Shape(e)
  BY DEF Shape, Kinds, Rewrites
<1>3. ColumnsPaired(e)
  BY <1>1 DEF ColumnsPaired
<1>4. ASSUME NEW x \in e.rows[t] PROVE RowOK(e, t, x, n)
  <2>1. PICK r \in d.rows[t] : SameRow(x, r) /\ DOMAIN x.ref = DOMAIN r.ref
    BY DEF Rewrites
  <2>2. RowOK(d, t, r, n)
    BY DEF RowsOK
  <2> QED BY <1>1, <2>1, <2>2 DEF RowOK, SameRow
<1>5. ASSUME NEW u \in Modelled, u # t
      PROVE  /\ IsFiniteSet(e.rows[u])
             /\ ~HasTable(e, u) => e.rows[u] = {}
             /\ \A r \in e.rows[u] : RowOK(e, u, r, n)
             /\ \A r, s \in e.rows[u] : r.who = s.who => r = s
  BY <1>1, <1>5 DEF RowsOK, RowOK, Rewrites
<1>6. ~HasTable(e, t) => e.rows[t] = {}
  BY <1>1 DEF RowsOK, Rewrites
<1>7. RowsOK(e, n)
  BY <1>4, <1>5, <1>6 DEF RowsOK, Rewrites
<1> QED BY <1>1, <1>2, <1>3, <1>7

(* _convert_pk: the key of a table with uuids.                             *)
ConvertsKey(d, e, t) ==
  /\ HasTable(d, t) /\ IdType(d, t) = "uuid" /\ DOMAIN e = Fields
  /\ e.type = [d.type EXCEPT ![<<t, "id">>] = "int"]
  /\ e.rows = [d.rows EXCEPT ![t] =
                  {[r EXCEPT !.id = Serial(RowNumber(d.rows[t], r))] : r \in d.rows[t]}]
  /\ e.seq = [d.seq EXCEPT ![t] = Cardinality(d.rows[t])]
  /\ e.fks = {f \in d.fks : f.parent # t}
  /\ e.legacyIds = d.legacyIds \cup
        {<<t, r.id, Serial(RowNumber(d.rows[t], r))>> : r \in d.rows[t]}

(* _convert_pk keeps the database in order: integer keys are distinct,     *)
(* LEGACY_IDS knows each row under its number, and no column refers by     *)
(* number yet.                                                             *)
LEMMA KeyConverted ==
  ASSUME NEW n \in 0..MaxBorn, NEW v, v < 3, NEW t \in Modelled,
         NEW d, DatabaseOK(d, n), KeysFirst(d, v), NEW e, ConvertsKey(d, e, t)
  PROVE  DatabaseOK(e, n) /\ KeysFirst(e, v)
<1> DEFINE S == d.rows[t]
           number == [r \in S |-> Serial(RowNumber(S, r))]
<1>1. Shape(d) /\ ColumnsPaired(d) /\ RowsOK(d, n) /\ IdsOK(d) /\ LegacyOK(d) /\ RefsOK(d) /\ FksOK(d)
  BY DEF DatabaseOK
<1>2. \A r \in S : RowOK(d, t, r, n) /\ r.id = FirstId(r)
  BY <1>1 DEF RowsOK, IdsOK, ConvertsKey
<1>3. \A r, s \in S : /\ r.id = Uuid(r.id[2]) /\ r.id[2] \in Nat
                      /\ r.id = s.id => r = s
  <2> TAKE r, s \in S
  <2>1. /\ FirstId(r) = Uuid(FirstId(r)[2]) /\ FirstId(r)[2] \in Nat
        /\ FirstId(r) = FirstId(s) => r.who = s.who
    BY <1>2, FirstIds DEF RowOK
  <2> QED BY <1>1, <1>2, <2>1 DEF RowsOK
<1>4. IsFiniteSet(S)
  BY <1>1 DEF RowsOK
<1>5. /\ \A r \in S : RowNumber(S, r) \in 1..Cardinality(S)
      /\ \A r, s \in S : RowNumber(S, r) = RowNumber(S, s) => r = s
  <2>1. \A r \in S : r.id[2] \in Int
    BY <1>3
  <2>2. \A r, s \in S : r.id[2] = s.id[2] => r = s
    BY <1>3
  <2> QED BY <1>4, <2>1, <2>2, RowNumbers
<1>6. /\ IsFiniteSet(e.rows[t])
      /\ \A x \in e.rows[t] : \E r \in S :
           SameRow(x, r) /\ x.ref = r.ref /\ x.id = Serial(RowNumber(S, r))
      /\ \A r \in S : \E x \in e.rows[t] :
           SameRow(x, r) /\ x.ref = r.ref /\ x.id = Serial(RowNumber(S, r))
      /\ \A x, y \in e.rows[t] : x.who = y.who => x = y
  <2>0. e.rows[t] = {[r EXCEPT !.id = Serial(RowNumber(S, r))] : r \in S}
    BY <1>1 DEF Shape, ConvertsKey
  <2>1. /\ \A x \in e.rows[t] : \E r \in S : x = [r EXCEPT !.id = number[r]]
        /\ \A r \in S : [r EXCEPT !.id = number[r]] \in e.rows[t]
    BY <2>0
  <2>2. \A r \in S : DOMAIN r = RowFields
    BY <1>2 DEF RowOK
  <2>3. \A r \in S : number[r] = Serial(RowNumber(S, r))
    OBVIOUS
  <2>4. \A r, s \in S : r.who = s.who => r = s
    BY <1>1 DEF RowsOK
  <2>5. Rekeys(S, e.rows[t], number)
    BY <1>4, <2>1, <2>2 DEF Rekeys
  <2> HIDE DEF S, number
  <2> QED BY <2>3, <2>4, <2>5, Rekeyed
<1>7. Cardinality(S) \in Nat
  BY <1>4, FS_CardinalityType
<1>8. /\ DOMAIN e.type = DOMAIN d.type /\ IdType(e, t) = "int"
      /\ \A x \in DOMAIN d.type : x # <<t, "id">> => e.type[x] = d.type[x]
      /\ \A u \in Modelled : u # t => /\ e.rows[u] = d.rows[u] /\ e.seq[u] = d.seq[u]
                                      /\ IdType(e, u) = IdType(d, u)
      /\ e.seq[t] = Cardinality(S) /\ HasTable(d, t)
  BY <1>1 DEF Shape, IdType, HasTable, ConvertsKey
<1>9. /\ Shape(e) /\ ColumnsPaired(e) /\ RowsOK(e, n)
      /\ \A u \in Modelled : Present(e, u) = Present(d, u) /\ (HasTable(e, u) <=> HasTable(d, u))
  <2>1. \A x \in DOMAIN d.type : e.type[x] \in Kinds
    BY <1>1, <1>8 DEF Shape, Kinds, IdType, HasTable, ConvertsKey
  <2>2. DOMAIN e.rows = Modelled /\ DOMAIN e.seq = Modelled /\ DOMAIN e = Fields
    BY <1>1 DEF Shape, ConvertsKey
  <2>3. \A u \in Modelled : e.seq[u] \in Nat
    BY <1>1, <1>7, <1>8 DEF Shape
  <2>4. \A x \in e.rows[t] : \E r \in d.rows[t] : SameRow(x, r) /\ DOMAIN x.ref = DOMAIN r.ref
    BY <1>6
  <2>5. /\ DOMAIN e.type = DOMAIN d.type /\ IsFiniteSet(e.rows[t])
        /\ \A u \in Modelled : u # t => e.rows[u] = d.rows[u]
        /\ \A x, y \in e.rows[t] : x.who = y.who => x = y
    BY <1>6, <1>8
  <2>6. Rewrites(d, e, t)
    BY <2>1, <2>2, <2>3, <2>4, <2>5 DEF Rewrites
  <2> QED BY <1>1, <2>6, Rewritten
<1>10. \A u \in Modelled : \A f \in Present(d, u) :
          /\ ColType(e, u, f) = ColType(d, u, f)
          /\ f[2] \in Modelled /\ f \in Links(u) /\ HasTable(d, f[2])
  <2> TAKE u \in Modelled
  <2> TAKE f \in Present(d, u)
  <2>1. f[1] # "id" /\ f[2] \in Modelled /\ Slot(u, f) \in DOMAIN d.type /\ f \in Links(u)
    BY LinkFacts DEF Present
  <2>2. Slot(u, f) # <<t, "id">>
    BY <2>1 DEF Slot
  <2> QED BY <1>1, <1>8, <2>1, <2>2 DEF ColType, ColumnsPaired
<1>11. /\ \A m \in d.legacyIds : m[1] # t
       /\ \A m \in e.legacyIds : m \in d.legacyIds \/ \E r \in S : m = <<t, r.id, Serial(RowNumber(S, r))>>
       /\ \A m \in d.legacyIds : m \in e.legacyIds
       /\ \A r \in S : <<t, r.id, Serial(RowNumber(S, r))>> \in e.legacyIds
  BY DEF KeysFirst, ConvertsKey
<1>12. \A a, b : Serial(a) = Serial(b) => a = b
  BY DEF Serial
<1>13. IdsOK(e)
  <2>1. ASSUME NEW x \in e.rows[t]
        PROVE  /\ x.id = Serial(x.id[2]) /\ x.id[2] \in 1..e.seq[t]
               /\ \A s \in e.rows[t] : s.id = x.id => s = x
               /\ <<t, FirstId(x), x.id>> \in e.legacyIds
               /\ KnownAs(e, t, x, x.id)
    <3>1. PICK r \in S : SameRow(x, r) /\ x.id = Serial(RowNumber(S, r))
      BY <1>6
    <3>2. FirstId(x) = r.id
      BY <1>2, <3>1, SameFirstId
    <3>3. x.id = Serial(x.id[2]) /\ x.id[2] \in 1..e.seq[t]
      BY <1>5, <1>8, <3>1 DEF Serial
    <3>4. ASSUME NEW y \in e.rows[t], y.id = x.id PROVE y = x
      <4>1. PICK s \in S : SameRow(y, s) /\ y.id = Serial(RowNumber(S, s))
        BY <1>6
      <4>2. s = r
        BY <1>5, <1>12, <3>1, <3>4, <4>1
      <4>3. y.who = x.who
        BY <3>1, <4>1, <4>2 DEF SameRow
      <4> QED BY <1>6, <4>3
    <3>5. ASSUME NEW m \in e.legacyIds, m[1] = t, m[3] = x.id PROVE m[2] = FirstId(x)
      <4>1. PICK s \in S : m = <<t, s.id, Serial(RowNumber(S, s))>>
        BY <1>11, <3>5
      <4>2. s = r
        BY <1>5, <1>12, <3>1, <3>5, <4>1
      <4> QED BY <3>2, <4>1, <4>2
    <3>6. <<t, FirstId(x), x.id>> \in e.legacyIds
      BY <1>11, <3>1, <3>2
    <3> QED BY <3>3, <3>4, <3>5, <3>6 DEF KnownAs
  <2>2. ASSUME NEW u \in Modelled, u # t, NEW r \in e.rows[u]
        PROVE  /\ IdType(e, u) = "uuid" => r.id = FirstId(r)
               /\ IdType(e, u) = "int" =>
                    /\ r.id = Serial(r.id[2]) /\ r.id[2] \in 1..e.seq[u]
                    /\ \A s \in e.rows[u] : s.id = r.id => s = r
                    /\ r.was # Null => <<u, FirstId(r), r.id>> \in e.legacyIds
                    /\ KnownAs(e, u, r, r.id)
    <3>1. \A m \in e.legacyIds : m[1] = u => m \in d.legacyIds
      BY <1>11, <2>2
    <3> QED BY <1>1, <1>8, <1>11, <2>2, <3>1 DEF IdsOK, KnownAs
  <2> QED BY <1>8, <2>1, <2>2 DEF IdsOK
<1>14. LegacyOK(e)
  <2> SUFFICES ASSUME NEW m \in e.legacyIds
               PROVE  /\ m = <<m[1], m[2], m[3]>> /\ m[1] \in Modelled
                      /\ m[3] = Serial(m[3][2]) /\ m[3][2] \in Nat
                      /\ HasTable(e, m[1])
                      /\ IdType(e, m[1]) = "int" => m[3][2] <= e.seq[m[1]]
    BY DEF LegacyOK
  <2>1. CASE m \in d.legacyIds
    BY <1>1, <1>8, <1>9, <1>11, <2>1 DEF LegacyOK
  <2>2. CASE \E r \in S : m = <<t, r.id, Serial(RowNumber(S, r))>>
    <3>1. PICK r \in S : m = <<t, r.id, Serial(RowNumber(S, r))>>
      BY <2>2
    <3>2. m[1] = t /\ m[2] = r.id /\ m[3] = Serial(RowNumber(S, r)) /\ m = <<m[1], m[2], m[3]>>
      BY <3>1
    <3>3. m[3][2] = RowNumber(S, r)
      BY <3>2 DEF Serial
    <3> QED BY <1>5, <1>7, <1>8, <1>9, <3>2, <3>3
  <2> QED BY <1>11, <2>1, <2>2
<1>15. KeysFirst(e, v)
  <2>1. ASSUME NEW u \in Modelled, NEW f \in Present(e, u), ColType(e, u, f) = "int"
        PROVE  IdType(e, f[2]) = "int"
    BY <1>8, <1>9, <1>10, <2>1 DEF KeysFirst
  <2>2. ASSUME NEW m \in e.legacyIds PROVE IdType(e, m[1]) = "int"
    BY <1>1, <1>8, <1>11 DEF KeysFirst, LegacyOK
  <2> QED BY <2>1, <2>2 DEF KeysFirst
<1>16. RefsOK(e)
  <2> SUFFICES ASSUME NEW u \in Modelled, NEW f \in Present(d, u), NEW x \in e.rows[u]
               PROVE  \E q \in e.rows[f[2]] :
                         q.who = x.meant[f[1]] /\ Names(e, u, f, x.ref[f[1]], q)
    BY <1>9 DEF RefsOK
  <2>0. \E r \in d.rows[u] : SameRow(x, r) /\ x.ref = r.ref
    <3>1. CASE u = t
      BY <1>6, <3>1
    <3>2. CASE u # t
      <4>1. x \in d.rows[u]
        BY <1>8, <3>2
      <4> QED BY <4>1 DEF SameRow
    <3> QED BY <3>1, <3>2
  <2>1. PICK r \in d.rows[u] : SameRow(x, r) /\ x.ref = r.ref
    BY <2>0
  <2>2. PICK q \in d.rows[f[2]] : q.who = r.meant[f[1]] /\ Names(d, u, f, r.ref[f[1]], q)
    BY <1>1 DEF RefsOK
  <2>3. CASE f[2] = t
    <3>1. PICK y \in e.rows[t] : SameRow(y, q)
      BY <1>6, <2>2, <2>3
    <3>2. ColType(d, u, f) # "int"
      BY <2>3 DEF KeysFirst, ConvertsKey
    <3>3. FirstId(y) = FirstId(q) /\ y.who = x.meant[f[1]]
      BY <2>1, <2>2, <3>1, SameFirstId DEF SameRow
    <3>4. Names(e, u, f, x.ref[f[1]], y)
      BY <1>10, <2>1, <2>2, <3>2, <3>3 DEF Names
    <3> QED BY <2>3, <3>3, <3>4
  <2>4. CASE f[2] # t
    <3>1. q \in e.rows[f[2]] /\ IdType(e, f[2]) = IdType(d, f[2])
      BY <1>8, <1>10, <2>2, <2>4
    <3>2. \A value : KnownAs(d, f[2], q, value) => KnownAs(e, f[2], q, value)
      BY <1>11, <2>4 DEF KnownAs
    <3>3. Names(e, u, f, x.ref[f[1]], q)
      BY <1>10, <2>1, <2>2, <3>1, <3>2 DEF Names
    <3> QED BY <2>1, <2>2, <3>1, <3>3 DEF SameRow
  <2> QED BY <2>3, <2>4
<1>17. FksOK(e)
  <2>1. ASSUME NEW u \in Modelled, NEW f \in Present(d, u)
        PROVE  LinkKey(u, f) \in e.fks <=> ColType(e, u, f) = IdType(e, f[2])
    <3>1. LinkKey(u, f).parent = f[2]
      BY DEF LinkKey, ForeignKey
    <3>2. CASE f[2] = t
      BY <1>8, <1>10, <3>1, <3>2 DEF KeysFirst, ConvertsKey
    <3>3. CASE f[2] # t
      BY <1>1, <1>8, <1>10, <3>1, <3>3 DEF FksOK, ConvertsKey
    <3> QED BY <3>2, <3>3
  <2>2. \A k \in e.fks : \E u \in Modelled : \E f \in Present(e, u) : k = LinkKey(u, f)
    BY <1>1, <1>9 DEF FksOK, ConvertsKey
  <2> QED BY <1>9, <2>1, <2>2 DEF FksOK
<1> QED BY <1>9, <1>13, <1>14, <1>15, <1>16, <1>17 DEF DatabaseOK

(* The uuid LEGACY_IDS has for a number, in a given database.              *)
OldIn(d, t, id, otherwise) ==
  LET found == {m \in d.legacyIds : m[1] = t /\ m[3] = id}
  IN IF found = {} THEN otherwise ELSE (CHOOSE m \in found : TRUE)[2]

NewIn(d, p, id) ==
  LET found == {m \in d.legacyIds : m[1] = p /\ m[2] = id}
  IN IF found = {} THEN Null ELSE (CHOOSE m \in found : TRUE)[3]

(* What the two lookups find.                                              *)
LEMMA Lookups ==
  ASSUME NEW d, NEW t, NEW id, NEW otherwise
  PROVE  /\ \/ OldIn(d, t, id, otherwise) = otherwise /\ \A m \in d.legacyIds : ~(m[1] = t /\ m[3] = id)
            \/ \E m \in d.legacyIds : m[1] = t /\ m[3] = id /\ OldIn(d, t, id, otherwise) = m[2]
         /\ \/ NewIn(d, t, id) = Null
            \/ \E m \in d.legacyIds : m[1] = t /\ m[2] = id /\ NewIn(d, t, id) = m[3]
<1>1. \/ OldIn(d, t, id, otherwise) = otherwise /\ \A m \in d.legacyIds : ~(m[1] = t /\ m[3] = id)
      \/ \E m \in d.legacyIds : m[1] = t /\ m[3] = id /\ OldIn(d, t, id, otherwise) = m[2]
  <2> DEFINE found == {m \in d.legacyIds : m[1] = t /\ m[3] = id}
  <2>1. CASE found = {}
    BY <2>1 DEF OldIn
  <2>2. CASE found # {}
    <3>1. (CHOOSE m \in found : TRUE) \in found
      BY <2>2
    <3>2. OldIn(d, t, id, otherwise) = (CHOOSE m \in found : TRUE)[2]
      BY <2>2 DEF OldIn
    <3> QED BY <3>1, <3>2
  <2> QED BY <2>1, <2>2
<1>2. \/ NewIn(d, t, id) = Null
      \/ \E m \in d.legacyIds : m[1] = t /\ m[2] = id /\ NewIn(d, t, id) = m[3]
  <2> DEFINE found == {m \in d.legacyIds : m[1] = t /\ m[2] = id}
  <2>1. CASE found = {}
    BY <2>1 DEF NewIn
  <2>2. CASE found # {}
    <3>1. (CHOOSE m \in found : TRUE) \in found
      BY <2>2
    <3>2. NewIn(d, t, id) = (CHOOSE m \in found : TRUE)[3]
      BY <2>2 DEF NewIn
    <3> QED BY <3>1, <3>2
  <2> QED BY <2>1, <2>2
<1> QED BY <1>1, <1>2

(* _restore_pk: the key of a table with integers.                          *)
RestoresKey(d, e, t) ==
  /\ HasTable(d, t) /\ IdType(d, t) = "int" /\ DOMAIN e = Fields
  /\ e.type = [d.type EXCEPT ![<<t, "id">>] = "uuid"]
  /\ e.rows = [d.rows EXCEPT ![t] =
                 {[r EXCEPT !.id = OldIn(d, t, r.id, Random(r))] : r \in d.rows[t]}]
  /\ e.seq = [d.seq EXCEPT ![t] = 0]
  /\ e.fks = {f \in d.fks : f.parent # t}
  /\ e.legacyIds = d.legacyIds

(* _restore_pk keeps the database in order: a row gets its first uuid, and *)
(* the columns that refer to it by number still name it in LEGACY_IDS.     *)
LEMMA KeyRestored ==
  ASSUME NEW n \in 0..MaxBorn, NEW t \in Modelled,
         NEW d, DatabaseOK(d, n), KeysFirst(d, 3), NEW e, RestoresKey(d, e, t)
  PROVE  DatabaseOK(e, n) /\ KeysFirst(e, 3)
<1> DEFINE S == d.rows[t]
           first == [r \in S |-> OldIn(d, t, r.id, Random(r))]
<1>1. Shape(d) /\ ColumnsPaired(d) /\ RowsOK(d, n) /\ IdsOK(d) /\ LegacyOK(d) /\ RefsOK(d) /\ FksOK(d)
  BY DEF DatabaseOK
<1>2. ASSUME NEW r \in S
      PROVE  RowOK(d, t, r, n) /\ KnownAs(d, t, r, r.id) /\ first[r] = FirstId(r)
  <2>1. /\ RowOK(d, t, r, n) /\ KnownAs(d, t, r, r.id)
        /\ r.was # Null => <<t, FirstId(r), r.id>> \in d.legacyIds
    BY <1>1 DEF RowsOK, IdsOK, RestoresKey
  <2>2. CASE OldIn(d, t, r.id, Random(r)) = Random(r)
               /\ \A m \in d.legacyIds : ~(m[1] = t /\ m[3] = r.id)
    <3>1. r.was = Null
      BY <2>1, <2>2
    <3> QED BY <2>1, <2>2, <3>1 DEF FirstId
  <2>3. CASE \E m \in d.legacyIds :
               m[1] = t /\ m[3] = r.id /\ OldIn(d, t, r.id, Random(r)) = m[2]
    BY <2>1, <2>3 DEF KnownAs
  <2> QED BY <2>2, <2>3, Lookups
<1>3. IsFiniteSet(S)
  BY <1>1 DEF RowsOK
<1>4. /\ IsFiniteSet(e.rows[t])
      /\ \A x \in e.rows[t] : \E r \in S : SameRow(x, r) /\ x.ref = r.ref /\ x.id = FirstId(r)
      /\ \A r \in S : \E x \in e.rows[t] : SameRow(x, r) /\ x.ref = r.ref /\ x.id = FirstId(r)
      /\ \A x, y \in e.rows[t] : x.who = y.who => x = y
  <2>1. e.rows[t] = {[r EXCEPT !.id = OldIn(d, t, r.id, Random(r))] : r \in S}
    BY <1>1 DEF Shape, RestoresKey
  <2>2. /\ \A x \in e.rows[t] : \E r \in S : x = [r EXCEPT !.id = first[r]]
        /\ \A r \in S : [r EXCEPT !.id = first[r]] \in e.rows[t]
    BY <2>1
  <2>3. \A r \in S : DOMAIN r = RowFields
    BY <1>2 DEF RowOK
  <2>4. \A r, s \in S : r.who = s.who => r = s
    BY <1>1 DEF RowsOK
  <2>5. \A r \in S : first[r] = FirstId(r)
    BY <1>2
  <2>6. Rekeys(S, e.rows[t], first)
    BY <1>3, <2>2, <2>3 DEF Rekeys
  <2> HIDE DEF S, first
  <2> QED BY <2>4, <2>5, <2>6, Rekeyed
<1>5. /\ DOMAIN e.type = DOMAIN d.type /\ IdType(d, t) = "int" /\ IdType(e, t) = "uuid"
      /\ \A x \in DOMAIN d.type : x # <<t, "id">> => e.type[x] = d.type[x]
      /\ \A u \in Modelled : u # t => /\ e.rows[u] = d.rows[u] /\ e.seq[u] = d.seq[u]
                                      /\ IdType(e, u) = IdType(d, u)
      /\ e.seq[t] = 0 /\ e.legacyIds = d.legacyIds
      /\ DOMAIN e.rows = Modelled /\ DOMAIN e.seq = Modelled /\ DOMAIN e = Fields
  BY <1>1 DEF Shape, IdType, HasTable, RestoresKey
<1>6. /\ Shape(e) /\ ColumnsPaired(e) /\ RowsOK(e, n)
      /\ \A u \in Modelled : Present(e, u) = Present(d, u) /\ (HasTable(e, u) <=> HasTable(d, u))
  <2>1. \A x \in DOMAIN d.type : e.type[x] \in Kinds
    BY <1>1, <1>5 DEF Shape, Kinds, IdType, HasTable
  <2>2. \A u \in Modelled : e.seq[u] \in Nat
    BY <1>1, <1>5 DEF Shape
  <2>3. \A x \in e.rows[t] : \E r \in d.rows[t] : SameRow(x, r) /\ DOMAIN x.ref = DOMAIN r.ref
    BY <1>4
  <2>4. Rewrites(d, e, t)
    BY <1>4, <1>5, <2>1, <2>2, <2>3 DEF Rewrites
  <2> QED BY <1>1, <2>4, Rewritten
<1>7. \A u \in Modelled : \A f \in Present(d, u) :
          /\ ColType(e, u, f) = ColType(d, u, f) /\ ColType(d, u, f) \in Kinds
          /\ f[2] \in Modelled /\ f \in Links(u) /\ HasTable(d, f[2])
  <2> TAKE u \in Modelled
  <2> TAKE f \in Present(d, u)
  <2>1. f[1] # "id" /\ f[2] \in Modelled /\ Slot(u, f) \in DOMAIN d.type /\ f \in Links(u)
    BY LinkFacts DEF Present
  <2>2. Slot(u, f) # <<t, "id">>
    BY <2>1 DEF Slot
  <2> QED BY <1>1, <1>5, <2>1, <2>2 DEF ColType, ColumnsPaired, Shape, Kinds
<1>8. IdsOK(e)
  <2>1. \A x \in e.rows[t] : x.id = FirstId(x)
    BY <1>4, SameFirstId
  <2>2. ASSUME NEW u \in Modelled, u # t, NEW r \in e.rows[u]
        PROVE  /\ IdType(e, u) = "uuid" => r.id = FirstId(r)
               /\ IdType(e, u) = "int" =>
                    /\ r.id = Serial(r.id[2]) /\ r.id[2] \in 1..e.seq[u]
                    /\ \A s \in e.rows[u] : s.id = r.id => s = r
                    /\ r.was # Null => <<u, FirstId(r), r.id>> \in e.legacyIds
                    /\ KnownAs(e, u, r, r.id)
    BY <1>1, <1>5, <2>2 DEF IdsOK, KnownAs
  <2> QED BY <1>5, <2>1, <2>2 DEF IdsOK
<1>9. LegacyOK(e)
  BY <1>1, <1>5, <1>6 DEF LegacyOK
<1>10. KeysFirst(e, 3)
  <2>1. ASSUME NEW u \in Modelled, NEW f \in Present(e, u), ColType(e, u, f) = "uuid"
        PROVE  IdType(e, f[2]) = "uuid"
    BY <1>5, <1>6, <1>7, <2>1 DEF KeysFirst
  <2> QED BY <2>1 DEF KeysFirst
<1>11. RefsOK(e)
  <2> SUFFICES ASSUME NEW u \in Modelled, NEW f \in Present(d, u), NEW x \in e.rows[u]
               PROVE  \E q \in e.rows[f[2]] :
                         q.who = x.meant[f[1]] /\ Names(e, u, f, x.ref[f[1]], q)
    BY <1>6 DEF RefsOK
  <2>0. \E r \in d.rows[u] : SameRow(x, r) /\ x.ref = r.ref
    <3>1. CASE u = t
      BY <1>4, <3>1
    <3>2. CASE u # t
      <4>1. x \in d.rows[u]
        BY <1>5, <3>2
      <4> QED BY <4>1 DEF SameRow
    <3> QED BY <3>1, <3>2
  <2>1. PICK r \in d.rows[u] : SameRow(x, r) /\ x.ref = r.ref
    BY <2>0
  <2>2. PICK q \in d.rows[f[2]] : q.who = r.meant[f[1]] /\ Names(d, u, f, r.ref[f[1]], q)
    BY <1>1 DEF RefsOK
  <2>3. CASE f[2] = t
    <3>1. PICK y \in e.rows[t] : SameRow(y, q)
      BY <1>4, <2>2, <2>3
    <3>2. ColType(d, u, f) = "int"
      BY <1>5, <1>7, <2>3 DEF KeysFirst, Kinds
    <3>3. FirstId(y) = FirstId(q) /\ y.who = x.meant[f[1]]
      BY <2>1, <2>2, <3>1, SameFirstId DEF SameRow
    <3>4. r.ref[f[1]] = q.id /\ r.ref[f[1]][1] = "int"
      BY <1>5, <2>2, <2>3, <3>2 DEF Names
    <3>5. KnownAs(e, t, y, x.ref[f[1]])
      <4>1. q \in S
        BY <2>2, <2>3
      <4>2. KnownAs(d, t, q, q.id)
        BY <1>2, <4>1
      <4> HIDE DEF S, first
      <4>3. x.ref[f[1]] = q.id
        BY <2>1, <3>4
      <4> QED BY <1>5, <3>3, <4>2, <4>3 DEF KnownAs
    <3>6. Names(e, u, f, x.ref[f[1]], y)
      BY <1>5, <1>7, <2>1, <2>3, <3>2, <3>4, <3>5 DEF Names
    <3> QED BY <2>3, <3>3, <3>6
  <2>4. CASE f[2] # t
    <3>1. q \in e.rows[f[2]] /\ IdType(e, f[2]) = IdType(d, f[2])
      BY <1>5, <1>7, <2>2, <2>4
    <3>2. \A value : KnownAs(d, f[2], q, value) => KnownAs(e, f[2], q, value)
      BY <1>5 DEF KnownAs
    <3>3. Names(e, u, f, x.ref[f[1]], q)
      BY <1>7, <2>1, <2>2, <3>1, <3>2 DEF Names
    <3> QED BY <2>1, <2>2, <3>1, <3>3 DEF SameRow
  <2> QED BY <2>3, <2>4
<1>12. FksOK(e)
  <2>1. ASSUME NEW u \in Modelled, NEW f \in Present(d, u)
        PROVE  LinkKey(u, f) \in e.fks <=> ColType(e, u, f) = IdType(e, f[2])
    <3>1. LinkKey(u, f).parent = f[2]
      BY DEF LinkKey, ForeignKey
    <3>2. CASE f[2] = t
      BY <1>5, <1>7, <3>1, <3>2 DEF KeysFirst, RestoresKey, Kinds
    <3>3. CASE f[2] # t
      BY <1>1, <1>5, <1>7, <3>1, <3>3 DEF FksOK, RestoresKey
    <3> QED BY <3>2, <3>3
  <2>2. \A k \in e.fks : \E u \in Modelled : \E f \in Present(e, u) : k = LinkKey(u, f)
    BY <1>1, <1>6 DEF FksOK, RestoresKey
  <2> QED BY <1>6, <2>1, <2>2 DEF FksOK
<1> QED BY <1>6, <1>8, <1>9, <1>10, <1>11, <1>12 DEF DatabaseOK

(* _convert_fk and _restore_fk: the values of one column are replaced.     *)
RewritesColumn(d, e, t, f, value, kind) ==
  /\ f \in Present(d, t) /\ DOMAIN e = Fields
  /\ e.type = [d.type EXCEPT ![Slot(t, f)] = kind]
  /\ DOMAIN e.rows = Modelled /\ \A u \in Modelled : u # t => e.rows[u] = d.rows[u]
  /\ Rereferences(d.rows[t], e.rows[t], value, f[1])
  /\ e.seq = d.seq /\ e.legacyIds = d.legacyIds
  /\ e.fks = {k \in d.fks : k.child # t \/ k.col # f[1]} \cup {LinkKey(t, f)}
  /\ Satisfied(e, LinkKey(t, f))

(* A column whose new values name the rows the old ones named keeps the    *)
(* database in order.                                                      *)
LEMMA ColumnRewritten ==
  ASSUME NEW n \in 0..MaxBorn, NEW t \in Modelled, NEW v,
         NEW d, DatabaseOK(d, n), KeysFirst(d, v),
         NEW e, NEW f, NEW value, NEW kind, RewritesColumn(d, e, t, f, value, kind),
         (v < 3 /\ kind = "int") \/ (v = 3 /\ kind = "uuid"),
         \A r \in d.rows[t] : \A q \in d.rows[f[2]] :
           q.who = r.meant[f[1]] /\ Names(d, t, f, r.ref[f[1]], q) => Names(e, t, f, value[r], q)
  PROVE  DatabaseOK(e, n) /\ KeysFirst(e, v)
<1> DEFINE S == d.rows[t]
<1>1. Shape(d) /\ ColumnsPaired(d) /\ RowsOK(d, n) /\ IdsOK(d) /\ LegacyOK(d) /\ RefsOK(d) /\ FksOK(d)
  BY DEF DatabaseOK
<1>2. /\ f \in Present(d, t) /\ f \in Links(t) /\ Slot(t, f) \in DOMAIN d.type
      /\ f[1] # "id" /\ f[2] \in Modelled /\ f[2] # t
  BY LinkFacts DEF RewritesColumn, Present
<1>3. /\ DOMAIN e.type = DOMAIN d.type /\ ColType(e, t, f) = kind
      /\ \A x \in DOMAIN d.type : x # Slot(t, f) => e.type[x] = d.type[x]
      /\ \A u \in Modelled : u # t => e.rows[u] = d.rows[u]
      /\ e.seq = d.seq /\ e.legacyIds = d.legacyIds
      /\ DOMAIN e.rows = Modelled /\ DOMAIN e.seq = Modelled /\ DOMAIN e = Fields
  BY <1>1, <1>2 DEF RewritesColumn, ColType, Shape
<1>4. /\ IsFiniteSet(e.rows[t])
      /\ \A x \in e.rows[t] : \E r \in S :
           Refers(x, r, f[1], value[r])
      /\ \A r \in S : \E x \in e.rows[t] :
           Refers(x, r, f[1], value[r])
      /\ \A x, y \in e.rows[t] : x.who = y.who => x = y
  <2>1. \A r, s \in S : r.who = s.who => r = s
    BY <1>1 DEF RowsOK
  <2>2. Rereferences(S, e.rows[t], value, f[1])
    BY DEF RewritesColumn
  <2> HIDE DEF S
  <2> QED BY <2>1, <2>2, Rereferenced
<1>5. /\ Shape(e) /\ ColumnsPaired(e) /\ RowsOK(e, n)
      /\ \A u \in Modelled : Present(e, u) = Present(d, u) /\ (HasTable(e, u) <=> HasTable(d, u))
  <2>1. \A x \in DOMAIN d.type : e.type[x] \in Kinds
    BY <1>1, <1>3 DEF Shape, Kinds, ColType
  <2>2. \A u \in Modelled : e.seq[u] \in Nat
    BY <1>1, <1>3 DEF Shape
  <2>3. ASSUME NEW x \in e.rows[t]
        PROVE  \E r \in d.rows[t] : SameRow(x, r) /\ DOMAIN x.ref = DOMAIN r.ref
    <3>1. PICK r \in S : SameRow(x, r) /\ x.ref = [r.ref EXCEPT ![f[1]] = value[r]]
      BY <1>4 DEF Refers
    <3>2. DOMAIN x.ref = DOMAIN r.ref
      BY <3>1
    <3> QED BY <3>1, <3>2
  <2>4. Rewrites(d, e, t)
    BY <1>3, <1>4, <2>1, <2>2, <2>3 DEF Rewrites
  <2> QED BY <1>1, <2>4, Rewritten
<1>6. \A u \in Modelled : HasTable(d, u) => IdType(e, u) = IdType(d, u)
  <2>1. \A u \in Modelled : <<u, "id">> # Slot(t, f)
    BY <1>2 DEF Slot
  <2> QED BY <1>3, <2>1 DEF HasTable, IdType
<1>7. \A u \in Modelled : \A g \in Present(d, u) :
          /\ u # t \/ g # f => ColType(e, u, g) = ColType(d, u, g)
          /\ g[2] \in Modelled /\ g \in Links(u) /\ HasTable(d, u) /\ HasTable(d, g[2])
          /\ IdType(e, g[2]) = IdType(d, g[2])
  <2> TAKE u \in Modelled
  <2> TAKE g \in Present(d, u)
  <2>1. g[2] \in Modelled /\ Slot(u, g) \in DOMAIN d.type /\ g \in Links(u)
    BY LinkFacts DEF Present
  <2>2. u # t \/ g # f => Slot(u, g) # Slot(t, f)
    <3>1. u = t /\ g[1] = f[1] => g = f
      BY <1>2, <2>1, LinkFacts
    <3> QED BY <3>1 DEF Slot
  <2> QED BY <1>1, <1>3, <1>6, <2>1, <2>2 DEF ColType, ColumnsPaired
<1>8. ASSUME NEW u \in Modelled, NEW x \in e.rows[u]
      PROVE  /\ HasTable(d, u)
             /\ \E r \in d.rows[u] :
                  /\ SameRow(x, r) /\ x.id = r.id
                  /\ u = t => x.ref = [r.ref EXCEPT ![f[1]] = value[r]]
                  /\ u # t => x.ref = r.ref
  <2>1. CASE u = t
    BY <1>2, <1>4, <1>7, <2>1 DEF Refers
  <2>2. CASE u # t
    <3>1. x \in d.rows[u]
      BY <1>3, <2>2
    <3>2. HasTable(d, u)
      BY <1>1, <3>1 DEF RowsOK
    <3> QED BY <2>2, <3>1, <3>2 DEF SameRow
  <2> QED BY <2>1, <2>2
<1>9. ASSUME NEW u \in Modelled, NEW r \in d.rows[u]
      PROVE  \E x \in e.rows[u] : SameRow(x, r) /\ x.id = r.id
  <2>1. CASE u = t
    BY <1>4, <2>1 DEF Refers
  <2>2. CASE u # t
    <3>1. r \in e.rows[u]
      BY <1>3, <2>2
    <3> QED BY <3>1 DEF SameRow
  <2> QED BY <2>1, <2>2
<1>10. IdsOK(e)
  <2> SUFFICES ASSUME NEW u \in Modelled, NEW x \in e.rows[u]
        PROVE  /\ IdType(e, u) = "uuid" => x.id = FirstId(x)
               /\ IdType(e, u) = "int" =>
                    /\ x.id = Serial(x.id[2]) /\ x.id[2] \in 1..e.seq[u]
                    /\ \A y \in e.rows[u] : y.id = x.id => y = x
                    /\ x.was # Null => <<u, FirstId(x), x.id>> \in e.legacyIds
                    /\ KnownAs(e, u, x, x.id)
    BY DEF IdsOK
  <2>1. PICK r \in d.rows[u] : SameRow(x, r) /\ x.id = r.id
    BY <1>8
  <2>2. IdType(e, u) = IdType(d, u)
    BY <1>6, <1>8
  <2>3. FirstId(x) = FirstId(r) /\ x.was = r.was /\ x.who = r.who
    BY <2>1, SameFirstId DEF SameRow
  <2>4. ASSUME IdType(d, u) = "int", NEW y \in e.rows[u], y.id = x.id PROVE y = x
    <3>1. PICK s \in d.rows[u] : SameRow(y, s) /\ y.id = s.id
      BY <1>8
    <3>2. s = r
      BY <1>1, <2>1, <2>4, <3>1 DEF IdsOK
    <3>3. y.who = x.who
      BY <2>1, <3>1, <3>2 DEF SameRow
    <3> QED BY <1>5, <3>3 DEF RowsOK
  <2>5. KnownAs(d, u, r, r.id) => KnownAs(e, u, x, x.id)
    BY <1>3, <2>1, <2>3 DEF KnownAs
  <2> QED BY <1>1, <1>3, <2>1, <2>2, <2>3, <2>4, <2>5 DEF IdsOK
<1>11. LegacyOK(e)
  BY <1>1, <1>3, <1>5, <1>6 DEF LegacyOK
<1>12. kind = IdType(e, f[2])
  BY <1>2, <1>3 DEF RewritesColumn, Satisfied, LinkKey, ForeignKey, ColType, IdType, Slot
<1>13. KeysFirst(e, v)
  <2>1. ASSUME v < 3, NEW u \in Modelled, NEW g \in Present(e, u), ColType(e, u, g) = "int"
        PROVE  IdType(e, g[2]) = "int"
    BY <1>5, <1>7, <1>12, <2>1 DEF KeysFirst
  <2>2. ASSUME v < 3, NEW m \in e.legacyIds PROVE IdType(e, m[1]) = "int"
    BY <1>1, <1>3, <1>6, <2>2 DEF KeysFirst, LegacyOK
  <2>3. ASSUME v = 3, NEW u \in Modelled, NEW g \in Present(e, u), ColType(e, u, g) = "uuid"
        PROVE  IdType(e, g[2]) = "uuid"
    BY <1>5, <1>7, <1>12, <2>3 DEF KeysFirst
  <2> QED BY <2>1, <2>2, <2>3 DEF KeysFirst
<1>14. RefsOK(e)
  <2> SUFFICES ASSUME NEW u \in Modelled, NEW g \in Present(d, u), NEW x \in e.rows[u]
               PROVE  \E y \in e.rows[g[2]] :
                         y.who = x.meant[g[1]] /\ Names(e, u, g, x.ref[g[1]], y)
    BY <1>5 DEF RefsOK
  <2>1. PICK r \in d.rows[u] :
               /\ SameRow(x, r) /\ x.id = r.id
               /\ u = t => x.ref = [r.ref EXCEPT ![f[1]] = value[r]]
               /\ u # t => x.ref = r.ref
    BY <1>8
  <2>2. PICK q \in d.rows[g[2]] : q.who = r.meant[g[1]] /\ Names(d, u, g, r.ref[g[1]], q)
    BY <1>1 DEF RefsOK
  <2>3. g[2] \in Modelled
    BY <1>7
  <2>4. PICK y \in e.rows[g[2]] : SameRow(y, q) /\ y.id = q.id
    BY <1>9, <2>2, <2>3
  <2>5. y.who = x.meant[g[1]] /\ FirstId(y) = FirstId(q)
    BY <2>1, <2>2, <2>4, SameFirstId DEF SameRow
  <2>6. \A w : Names(e, u, g, w, q) => Names(e, u, g, w, y)
    BY <2>4, <2>5 DEF Names, KnownAs
  <2>7. CASE u = t /\ g = f
    <3>1. f[1] \in DOMAIN r.ref
      <4>1. RowOK(d, t, r, n)
        BY <1>1, <2>7 DEF RowsOK
      <4> QED BY <1>2, <4>1 DEF RowOK
    <3>2. x.ref[f[1]] = value[r]
      BY <2>1, <2>7, <3>1
    <3>3. Names(e, t, f, value[r], q)
      BY <2>2, <2>7
    <3> QED BY <2>5, <2>6, <2>7, <3>2, <3>3
  <2>8. CASE u # t \/ g # f
    <3>1. x.ref[g[1]] = r.ref[g[1]]
      <4>1. u = t => g[1] # f[1]
        BY <1>2, <1>7, <2>8, LinkFacts
      <4>2. RowOK(d, u, r, n)
        BY <1>1 DEF RowsOK
      <4>3. g[1] \in DOMAIN r.ref
        BY <4>2 DEF RowOK
      <4> QED BY <2>1, <4>1, <4>3
    <3>2. Names(e, u, g, x.ref[g[1]], q)
      BY <1>3, <1>7, <2>2, <2>8, <3>1 DEF Names, KnownAs
    <3> QED BY <2>5, <2>6, <3>2
  <2> QED BY <2>7, <2>8
<1>15. FksOK(e)
  <2>1. ASSUME NEW u \in Modelled, NEW g \in Present(d, u)
        PROVE  LinkKey(u, g) \in e.fks <=> ColType(e, u, g) = IdType(e, g[2])
    <3>1. LinkKey(u, g).child = u /\ LinkKey(u, g).col = g[1]
      BY DEF LinkKey, ForeignKey
    <3>2. LinkKey(t, f).child = t /\ LinkKey(t, f).col = f[1]
      BY DEF LinkKey, ForeignKey
    <3>3. CASE u = t /\ g = f
      BY <1>3, <1>12, <3>3 DEF RewritesColumn
    <3>4. CASE u # t \/ g # f
      <4>1. u = t => g[1] # f[1]
        BY <1>2, <1>7, <3>4, LinkFacts
      <4>2. LinkKey(u, g) \in e.fks <=> LinkKey(u, g) \in d.fks
        BY <3>1, <3>2, <4>1 DEF RewritesColumn
      <4> QED BY <1>1, <1>7, <3>4, <4>2 DEF FksOK
    <3> QED BY <3>3, <3>4
  <2>2. \A k \in e.fks : \E u \in Modelled : \E g \in Present(e, u) : k = LinkKey(u, g)
    <3>1. \A k \in e.fks : k \in d.fks \/ k = LinkKey(t, f)
      BY DEF RewritesColumn
    <3> QED BY <1>1, <1>2, <1>5, <3>1 DEF FksOK
  <2> QED BY <1>5, <2>1, <2>2 DEF FksOK
<1> QED BY <1>5, <1>10, <1>11, <1>13, <1>14, <1>15 DEF DatabaseOK

(* What is known of one row.                                               *)
LEMMA RowFacts ==
  ASSUME NEW n, NEW d, DatabaseOK(d, n), NEW u \in Modelled, NEW r \in d.rows[u]
  PROVE  /\ RowOK(d, u, r, n)
         /\ IdType(d, u) = "uuid" => r.id = FirstId(r)
         /\ IdType(d, u) = "int" => r.id = Serial(r.id[2]) /\ KnownAs(d, u, r, r.id)
         /\ \A s \in d.rows[u] : s.who = r.who => s = r
BY DEF DatabaseOK, RowsOK, IdsOK

(* ADD CONSTRAINT after the rewriting: each new value is a key.            *)
Matched(d, e, t, f, value, kind) ==
  /\ f[2] \in Modelled /\ HasTable(d, f[2])
  /\ ColType(e, t, f) = kind /\ IdType(d, f[2]) = kind /\ IdType(e, f[2]) = kind
  /\ e.legacyIds = d.legacyIds
  /\ \A r \in d.rows[t] : \E p \in d.rows[f[2]] : p.id = value[r]

(* ADD CONSTRAINT has checked the new values.                              *)
LEMMA ColumnSatisfied ==
  ASSUME NEW n, NEW t \in Modelled, NEW d, DatabaseOK(d, n),
         NEW e, NEW f, NEW value, NEW kind, RewritesColumn(d, e, t, f, value, kind)
  PROVE  Matched(d, e, t, f, value, kind)
<1>1. /\ f \in Present(d, t) /\ f \in Links(t) /\ Slot(t, f) \in DOMAIN d.type
      /\ f[1] # "id" /\ f[2] \in Modelled /\ f[2] # t
  BY LinkFacts DEF RewritesColumn, Present
<1>2. HasTable(d, f[2])
  BY <1>1 DEF DatabaseOK, ColumnsPaired
<1>3. ColType(e, t, f) = kind /\ IdType(e, f[2]) = IdType(d, f[2])
  BY <1>1, <1>2 DEF RewritesColumn, ColType, IdType, HasTable, Slot
<1>4. ColType(e, t, f) = IdType(e, f[2])
  BY DEF RewritesColumn, Satisfied, LinkKey, ForeignKey, ColType, IdType, Slot
<1>5. \A x \in e.rows[t] : \E p \in d.rows[f[2]] : p.id = x.ref[f[1]]
  BY <1>1 DEF RewritesColumn, Satisfied, LinkKey, ForeignKey, Ids
<1>6. ASSUME NEW r \in d.rows[t] PROVE \E p \in d.rows[f[2]] : p.id = value[r]
  <2>1. Rereferences(d.rows[t], e.rows[t], value, f[1])
    BY DEF RewritesColumn
  <2>2. PICK x \in e.rows[t] : Refers(x, r, f[1], value[r])
    BY <2>1, Rereferenced
  <2>3. f[1] \in DOMAIN r.ref
    BY <1>1 DEF DatabaseOK, RowsOK, RowOK
  <2>4. x.ref[f[1]] = value[r]
    BY <2>2, <2>3 DEF Refers
  <2> QED BY <1>5, <2>4
<1>7. e.legacyIds = d.legacyIds
  BY DEF RewritesColumn
<1> QED BY <1>1, <1>2, <1>3, <1>4, <1>6, <1>7 DEF Matched

(* _convert_fk: the number of the row the uuid names.                      *)
LEMMA ColumnConverted ==
  ASSUME NEW n \in 0..MaxBorn, NEW t \in Modelled, NEW v, v < 3,
         NEW d, DatabaseOK(d, n), KeysFirst(d, v),
         NEW e, NEW f, NEW value, RewritesColumn(d, e, t, f, value, "int"),
         ColType(d, t, f) = "uuid",
         \A r \in d.rows[t] : value[r] = NewIn(d, f[2], r.ref[f[1]])
  PROVE  DatabaseOK(e, n) /\ KeysFirst(e, v)
<1>1. Matched(d, e, t, f, value, "int")
  BY ColumnSatisfied
<1>2. ASSUME NEW r \in d.rows[t], NEW q \in d.rows[f[2]],
             q.who = r.meant[f[1]], Names(d, t, f, r.ref[f[1]], q)
      PROVE  Names(e, t, f, value[r], q)
  <2>1. f[2] \in Modelled /\ IdType(d, f[2]) = "int" /\ IdType(e, f[2]) = "int"
    BY <1>1 DEF Matched
  <2>2. r.ref[f[1]] = FirstId(q)
    BY <1>2 DEF Names
  <2>3. PICK p \in d.rows[f[2]] : p.id = value[r]
    BY <1>1 DEF Matched
  <2>4. /\ p.id = Serial(p.id[2]) /\ KnownAs(d, f[2], p, p.id) /\ RowOK(d, f[2], p, n)
        /\ q.who = p.who => q = p
    BY <2>1, RowFacts
  <2>5. RowOK(d, f[2], q, n)
    BY <2>1, RowFacts
  <2>6. value[r] # Null /\ value[r][1] = "int"
    BY <2>3, <2>4 DEF Serial, Null
  <2>7. value[r] = NewIn(d, f[2], FirstId(q))
    BY <2>2
  <2>8. PICK m \in d.legacyIds : m[1] = f[2] /\ m[2] = FirstId(q) /\ value[r] = m[3]
    <3>1. \/ NewIn(d, f[2], FirstId(q)) = Null
          \/ \E m \in d.legacyIds :
               m[1] = f[2] /\ m[2] = FirstId(q) /\ NewIn(d, f[2], FirstId(q)) = m[3]
      BY Lookups
    <3> QED BY <2>6, <2>7, <3>1
  <2>9. FirstId(p) = FirstId(q)
    BY <2>3, <2>4, <2>8 DEF KnownAs
  <2>10. p.who = q.who
    BY <2>4, <2>5, <2>9, FirstIds DEF RowOK
  <2>11. value[r] = q.id
    BY <2>3, <2>4, <2>10
  <2>12. ColType(e, t, f) = "int"
    BY <1>1 DEF Matched
  <2> QED BY <2>1, <2>6, <2>11, <2>12 DEF Names
<1> QED BY <1>2, ColumnRewritten

(* _restore_fk: the uuid LEGACY_IDS has for the number.                    *)
LEMMA ColumnRestored ==
  ASSUME NEW n \in 0..MaxBorn, NEW t \in Modelled,
         NEW d, DatabaseOK(d, n), KeysFirst(d, 3),
         NEW e, NEW f, NEW value, RewritesColumn(d, e, t, f, value, "uuid"),
         \A r \in d.rows[t] : value[r] = OldIn(d, f[2], r.ref[f[1]], NoRow)
  PROVE  DatabaseOK(e, n) /\ KeysFirst(e, 3)
<1>1. Matched(d, e, t, f, value, "uuid")
  BY ColumnSatisfied
<1>2. ColType(d, t, f) \in Kinds
  <2>1. Shape(d) /\ Slot(t, f) \in DOMAIN d.type
    BY DEF DatabaseOK, RewritesColumn, Present
  <2> QED BY <2>1 DEF Shape, ColType, Kinds
<1>3. ASSUME NEW r \in d.rows[t], NEW q \in d.rows[f[2]],
             q.who = r.meant[f[1]], Names(d, t, f, r.ref[f[1]], q)
      PROVE  Names(e, t, f, value[r], q)
  <2>1. f[2] \in Modelled /\ IdType(d, f[2]) = "uuid" /\ IdType(e, f[2]) = "uuid"
    BY <1>1 DEF Matched
  <2>2. PICK p \in d.rows[f[2]] : p.id = value[r]
    BY <1>1 DEF Matched
  <2>3. p.id = FirstId(p) /\ RowOK(d, f[2], p, n)
    BY <2>1, RowFacts
  <2>4. RowOK(d, f[2], q, n)
    BY <2>1, RowFacts
  <2>5. /\ FirstId(p) = Uuid(FirstId(p)[2]) /\ FirstId(p)[2] \in Nat
        /\ FirstId(q) = Uuid(FirstId(q)[2])
    BY <2>3, <2>4, FirstIds DEF RowOK
  <2>6. value[r] # NoRow
    BY <2>2, <2>3, <2>5 DEF NoRow, Uuid
  <2>7. value[r] = OldIn(d, f[2], r.ref[f[1]], NoRow)
    OBVIOUS
  <2>8. PICK m \in d.legacyIds : m[1] = f[2] /\ m[3] = r.ref[f[1]] /\ value[r] = m[2]
    <3>1. \/ OldIn(d, f[2], r.ref[f[1]], NoRow) = NoRow
          \/ \E m \in d.legacyIds : m[1] = f[2] /\ m[3] = r.ref[f[1]]
               /\ OldIn(d, f[2], r.ref[f[1]], NoRow) = m[2]
      BY Lookups
    <3> QED BY <2>6, <2>7, <3>1
  <2>9. m[3] = Serial(m[3][2])
    BY DEF DatabaseOK, LegacyOK
  <2>10. ColType(d, t, f) = "int"
    <3>1. r.ref[f[1]] # FirstId(q)
      BY <2>5, <2>8, <2>9 DEF Serial, Uuid
    <3> QED BY <1>2, <1>3, <3>1 DEF Kinds, Names
  <2>11. KnownAs(d, f[2], q, r.ref[f[1]])
    BY <1>3, <2>1, <2>10 DEF Names
  <2>12. value[r] = FirstId(q)
    BY <2>8, <2>11 DEF KnownAs
  <2>13. ColType(e, t, f) = "uuid"
    BY <1>1 DEF Matched
  <2> QED BY <2>1, <2>12, <2>13 DEF Names
<1> QED BY <1>3, ColumnRewritten

(***************************************************************************)
(* Before the conversion: every key is a uuid, LEGACY_IDS is empty.        *)
(***************************************************************************)
AllUuids(d) == \A x \in DOMAIN d.type : d.type[x] = "uuid"

UuidsOK(d, n) ==
  /\ Shape(d) /\ ColumnsPaired(d) /\ RowsOK(d, n)
  /\ AllUuids(d) /\ d.legacyIds = {}
  /\ \A t \in Modelled : \A r \in d.rows[t] : r.id = FirstId(r)
  /\ \A t \in Modelled : \A f \in Present(d, t) : \A r \in d.rows[t] :
       \E q \in d.rows[f[2]] : q.who = r.meant[f[1]] /\ r.ref[f[1]] = FirstId(q)
  /\ \A t \in Modelled : \A f \in Present(d, t) : LinkKey(t, f) \in d.fks
  /\ \A k \in d.fks : \E t \in Modelled : \E f \in Present(d, t) : k = LinkKey(t, f)

(* The types of the columns that are there.                                *)
LEMMA UuidTypes ==
  ASSUME NEW d, AllUuids(d), ColumnsPaired(d), NEW t \in Modelled
  PROVE  /\ HasTable(d, t) => IdType(d, t) = "uuid"
         /\ \A f \in Present(d, t) : ColType(d, t, f) = "uuid" /\ IdType(d, f[2]) = "uuid"
BY DEF AllUuids, HasTable, IdType, ColType, Present, ColumnsPaired

(* With uuids only, the invariant of a database says just this.            *)
LEMMA UuidDatabase ==
  ASSUME NEW d, NEW n, NEW v, v < 3, DatabaseOK(d, n), KeysFirst(d, v), AllUuids(d)
  PROVE  UuidsOK(d, n)
<1>1. Shape(d) /\ ColumnsPaired(d) /\ RowsOK(d, n) /\ IdsOK(d) /\ LegacyOK(d) /\ RefsOK(d) /\ FksOK(d)
  BY DEF DatabaseOK
<1>2. d.legacyIds = {}
  <2>1. ASSUME NEW m \in d.legacyIds PROVE FALSE
    <3>1. HasTable(d, m[1]) /\ m[1] \in Modelled
      BY <1>1 DEF LegacyOK
    <3>2. IdType(d, m[1]) = "uuid"
      BY <1>1, <3>1, UuidTypes
    <3> QED BY <3>2 DEF KeysFirst
  <2> QED BY <2>1
<1>3. ASSUME NEW t \in Modelled, NEW r \in d.rows[t] PROVE r.id = FirstId(r)
  <2>1. HasTable(d, t)
    BY <1>1, <1>3 DEF RowsOK
  <2>2. IdType(d, t) = "uuid"
    BY <1>1, <2>1, UuidTypes
  <2> QED BY <1>1, <1>3, <2>2 DEF IdsOK
<1>4. ASSUME NEW t \in Modelled, NEW f \in Present(d, t)
      PROVE  /\ LinkKey(t, f) \in d.fks
             /\ \A r \in d.rows[t] :
                  \E q \in d.rows[f[2]] : q.who = r.meant[f[1]] /\ r.ref[f[1]] = FirstId(q)
  <2>1. ColType(d, t, f) = "uuid" /\ IdType(d, f[2]) = "uuid"
    BY <1>1, UuidTypes
  <2> QED BY <1>1, <2>1 DEF RefsOK, FksOK, Names
<1>5. \A k \in d.fks : \E t \in Modelled : \E f \in Present(d, t) : k = LinkKey(t, f)
  BY <1>1 DEF FksOK
<1> QED BY <1>1, <1>2, <1>3, <1>4, <1>5 DEF UuidsOK

(* And the other way.                                                      *)
LEMMA UuidsAreOK ==
  ASSUME NEW d, NEW n, NEW v, UuidsOK(d, n)
  PROVE  DatabaseOK(d, n) /\ KeysFirst(d, v)
<1>1. /\ Shape(d) /\ ColumnsPaired(d) /\ RowsOK(d, n)
      /\ AllUuids(d) /\ d.legacyIds = {}
  BY DEF UuidsOK
<1>2. \A t \in Modelled : \A r \in d.rows[t] : HasTable(d, t) /\ IdType(d, t) = "uuid"
  <2> TAKE t \in Modelled
  <2> TAKE r \in d.rows[t]
  <2>1. HasTable(d, t)
    BY <1>1 DEF RowsOK
  <2> QED BY <1>1, <2>1, UuidTypes
<1>3. \A t \in Modelled : \A f \in Present(d, t) :
         ColType(d, t, f) = "uuid" /\ IdType(d, f[2]) = "uuid"
  BY <1>1, UuidTypes
<1>4. IdsOK(d) /\ LegacyOK(d)
  BY <1>1, <1>2 DEF IdsOK, LegacyOK, UuidsOK
<1>5. RefsOK(d)
  BY <1>3 DEF RefsOK, Names, UuidsOK
<1>6. FksOK(d)
  BY <1>3 DEF FksOK, UuidsOK
<1>7. KeysFirst(d, v)
  BY <1>1, <1>3 DEF KeysFirst
<1> QED BY <1>1, <1>4, <1>5, <1>6, <1>7 DEF DatabaseOK

(* op.create_table of an initial schema.                                   *)
MakesTable(d, e, t) ==
  /\ t # "tenants" /\ ~HasTable(d, t)
  /\ \A f \in ToSet(References(t)) : HasTable(d, f[2])
  /\ DOMAIN e = Fields
  /\ DOMAIN e.type = DOMAIN d.type \cup {<<t, f[1]>> : f \in ToSet(References(t))} \cup {<<t, "id">>}
  /\ \A x \in DOMAIN e.type : e.type[x] = "uuid"
  /\ e.rows = d.rows /\ e.seq = d.seq /\ e.legacyIds = d.legacyIds
  /\ e.fks = d.fks \cup {DefaultFkey(t, f) : f \in ToSet(References(t))}

(* A database of uuids stays one with a table more.                        *)
LEMMA TableMade ==
  ASSUME NEW n, NEW t \in Modelled, NEW d, UuidsOK(d, n), NEW e, MakesTable(d, e, t)
  PROVE  /\ UuidsOK(e, n)
         /\ \A u \in Modelled : HasTable(e, u) <=> HasTable(d, u) \/ u = t
         /\ \A u \in Modelled : TenantReference \in Present(e, u) <=> TenantReference \in Present(d, u)
<1>1. Shape(d) /\ ColumnsPaired(d) /\ RowsOK(d, n) /\ AllUuids(d) /\ d.legacyIds = {}
  BY DEF UuidsOK
<1>2. /\ \A f \in ToSet(References(t)) : f \in Links(t) /\ f # TenantReference
      /\ \A f \in Links(t) : f[1] # "id"
      /\ \A f, g \in Links(t) : f[1] = g[1] => f = g
  BY LinkFacts
<1>3. \A u \in Modelled : HasTable(e, u) <=> HasTable(d, u) \/ u = t
  BY <1>2 DEF HasTable, MakesTable
<1>4. Present(d, t) = {}
  BY <1>1 DEF ColumnsPaired, MakesTable
<1>5. Present(e, t) = ToSet(References(t))
  <2>1. ASSUME NEW f \in Present(e, t) PROVE f \in ToSet(References(t))
    <3>1. f \in Links(t) /\ Slot(t, f) \in DOMAIN e.type /\ Slot(t, f) \notin DOMAIN d.type
      BY <1>4 DEF Present
    <3>2. PICK g \in ToSet(References(t)) : Slot(t, f) = <<t, g[1]>>
      BY <1>2, <3>1 DEF MakesTable, Slot
    <3> QED BY <1>2, <3>1, <3>2 DEF Slot
  <2>2. \A f \in ToSet(References(t)) : f \in Present(e, t)
    BY <1>2 DEF Present, Slot, MakesTable
  <2> QED BY <2>1, <2>2
<1>6. \A u \in Modelled : u # t => Present(e, u) = Present(d, u)
  BY DEF Present, Slot, MakesTable
<1>7. Shape(e)
  <2>1. \A x \in DOMAIN e.type :
          /\ x[1] \in Modelled /\ x = <<x[1], x[2]>>
          /\ x[2] = "id" \/ \E f \in Links(x[1]) : x[2] = f[1]
    <3> TAKE x \in DOMAIN e.type
    <3>1. CASE x \in DOMAIN d.type
      BY <1>1, <3>1 DEF Shape
    <3>2. CASE \E f \in ToSet(References(t)) : x = <<t, f[1]>>
      BY <1>2, <3>2
    <3>3. CASE x = <<t, "id">>
      BY <3>3
    <3> QED BY <3>1, <3>2, <3>3 DEF MakesTable
  <2> QED BY <1>1, <2>1 DEF Shape, MakesTable
<1>8. ColumnsPaired(e)
  <2>1. ASSUME NEW u \in Modelled, NEW f \in Present(e, u)
        PROVE  HasTable(e, u) /\ HasTable(e, f[2])
    <3>1. f[2] \in Modelled
      BY LinkFacts DEF Present
    <3>2. CASE u = t
      BY <1>3, <1>5, <3>1, <3>2 DEF MakesTable
    <3>3. CASE u # t
      BY <1>1, <1>3, <1>6, <3>1, <3>3 DEF ColumnsPaired
    <3> QED BY <3>2, <3>3
  <2>2. ASSUME NEW u \in Modelled, HasTable(e, u), NEW f \in ToSet(References(u))
        PROVE  f \in Present(e, u)
    BY <1>1, <1>3, <1>5, <1>6, <2>2 DEF ColumnsPaired
  <2> QED BY <2>1, <2>2 DEF ColumnsPaired
<1>9. e.rows = d.rows /\ e.rows[t] = {}
  BY <1>1 DEF RowsOK, MakesTable
<1>10. RowsOK(e, n)
  <2>1. ASSUME NEW u \in Modelled
        PROVE  /\ IsFiniteSet(e.rows[u])
               /\ ~HasTable(e, u) => e.rows[u] = {}
               /\ \A r \in e.rows[u] : RowOK(e, u, r, n)
               /\ \A r, s \in e.rows[u] : r.who = s.who => r = s
    <3>1. CASE u = t
      BY <1>1, <1>9, <3>1 DEF RowsOK
    <3>2. CASE u # t
      BY <1>1, <1>3, <1>6, <1>9, <3>2 DEF RowsOK, RowOK
    <3> QED BY <3>1, <3>2
  <2> QED BY <2>1 DEF RowsOK
<1>11. AllUuids(e) /\ e.legacyIds = {}
  BY <1>1 DEF AllUuids, MakesTable
<1>12. \A u \in Modelled : \A r \in e.rows[u] : r.id = FirstId(r)
  BY <1>9 DEF UuidsOK
<1>13. \A u \in Modelled : \A f \in Present(e, u) : \A r \in e.rows[u] :
       \E q \in e.rows[f[2]] : q.who = r.meant[f[1]] /\ r.ref[f[1]] = FirstId(q)
  BY <1>6, <1>9 DEF UuidsOK
<1>14. \A f \in ToSet(References(t)) : DefaultFkey(t, f) = LinkKey(t, f)
  BY <1>2, LinkFacts DEF DefaultFkey, LinkKey, KeyName
<1>15. \A u \in Modelled : \A f \in Present(e, u) : LinkKey(u, f) \in e.fks
  <2> TAKE u \in Modelled
  <2> TAKE f \in Present(e, u)
  <2>1. CASE u = t
    BY <1>5, <1>14, <2>1 DEF MakesTable
  <2>2. CASE u # t
    BY <1>6, <2>2 DEF UuidsOK, MakesTable
  <2> QED BY <2>1, <2>2
<1>16. \A k \in e.fks : \E u \in Modelled : \E f \in Present(e, u) : k = LinkKey(u, f)
  <2> TAKE k \in e.fks
  <2>1. CASE k \in d.fks
    <3>1. PICK u \in Modelled : \E f \in Present(d, u) : k = LinkKey(u, f)
      BY <2>1 DEF UuidsOK
    <3>2. u # t
      BY <1>4, <3>1
    <3> QED BY <1>6, <3>1, <3>2
  <2>2. CASE \E f \in ToSet(References(t)) : k = DefaultFkey(t, f)
    BY <1>5, <1>14, <2>2
  <2> QED BY <2>1, <2>2 DEF MakesTable
<1>17. \A u \in Modelled : TenantReference \in Present(e, u) <=> TenantReference \in Present(d, u)
  BY <1>2, <1>4, <1>5, <1>6
<1> QED BY <1>3, <1>7, <1>8, <1>10, <1>11, <1>12, <1>13, <1>15, <1>16, <1>17 DEF UuidsOK

(* op.drop_table: nothing else references the table.                       *)
DropsTable(d, e, t) ==
  /\ HasTable(d, t) /\ \A k \in d.fks : k.parent # t \/ k.child = t
  /\ DOMAIN e = Fields
  /\ e.type = Without(d.type, {x \in DOMAIN d.type : x[1] = t})
  /\ e.rows = [d.rows EXCEPT ![t] = {}]
  /\ e.seq = [d.seq EXCEPT ![t] = 0]
  /\ e.legacyIds = d.legacyIds
  /\ e.fks = {k \in d.fks : k.child # t}

(* It stays one with a table less that no other refers to.                 *)
LEMMA TableDropped ==
  ASSUME NEW n, NEW t \in Modelled, NEW d, UuidsOK(d, n), NEW e, DropsTable(d, e, t)
  PROVE  /\ UuidsOK(e, n)
         /\ \A u \in Modelled : HasTable(e, u) <=> HasTable(d, u) /\ u # t
         /\ \A u \in Modelled : TenantReference \in Present(e, u) <=>
                                TenantReference \in Present(d, u) /\ u # t
<1>1. Shape(d) /\ ColumnsPaired(d) /\ RowsOK(d, n) /\ AllUuids(d) /\ d.legacyIds = {}
  BY DEF UuidsOK
<1>2. /\ DOMAIN e.type = {x \in DOMAIN d.type : x[1] # t}
      /\ \A x \in DOMAIN e.type : e.type[x] = d.type[x]
  BY DEF DropsTable, Without
<1>3. \A u \in Modelled : HasTable(e, u) <=> HasTable(d, u) /\ u # t
  BY <1>2 DEF HasTable
<1>4. /\ Present(e, t) = {}
      /\ \A u \in Modelled : u # t => Present(e, u) = Present(d, u)
  BY <1>2 DEF Present, Slot
<1>5. ASSUME NEW u \in Modelled, u # t, NEW f \in Present(d, u)
      PROVE  /\ f[2] # t /\ f[2] \in Modelled
             /\ LinkKey(u, f) \in e.fks /\ e.rows[f[2]] = d.rows[f[2]]
  <2>1. LinkKey(u, f) \in d.fks
    BY DEF UuidsOK
  <2>2. LinkKey(u, f).child = u /\ LinkKey(u, f).parent = f[2]
    BY DEF LinkKey, ForeignKey
  <2>3. f[2] # t /\ f[2] \in Modelled
    BY <1>5, <2>1, <2>2, LinkFacts DEF DropsTable, Present
  <2> QED BY <1>1, <1>5, <2>1, <2>2, <2>3 DEF DropsTable, Shape
<1>6. /\ DOMAIN e.rows = Modelled /\ DOMAIN e.seq = Modelled /\ e.rows[t] = {}
      /\ \A u \in Modelled : u # t => e.rows[u] = d.rows[u]
      /\ \A u \in Modelled : e.seq[u] \in Nat
  BY <1>1 DEF Shape, DropsTable
<1>7. Shape(e)
  BY <1>1, <1>2, <1>6 DEF Shape, DropsTable
<1>8. ColumnsPaired(e)
  BY <1>1, <1>3, <1>4, <1>5 DEF ColumnsPaired
<1>9. RowsOK(e, n)
  <2>1. ASSUME NEW u \in Modelled
        PROVE  /\ IsFiniteSet(e.rows[u])
               /\ ~HasTable(e, u) => e.rows[u] = {}
               /\ \A r \in e.rows[u] : RowOK(e, u, r, n)
               /\ \A r, s \in e.rows[u] : r.who = s.who => r = s
    <3>1. CASE u = t
      BY <1>6, <3>1, FS_EmptySet
    <3>2. CASE u # t
      BY <1>1, <1>3, <1>4, <1>6, <3>2 DEF RowsOK, RowOK
    <3> QED BY <3>1, <3>2
  <2> QED BY <2>1 DEF RowsOK
<1>10. AllUuids(e) /\ e.legacyIds = {}
  BY <1>1, <1>2 DEF AllUuids, DropsTable
<1>11. \A u \in Modelled : \A r \in e.rows[u] : r.id = FirstId(r)
  BY <1>6 DEF UuidsOK
<1>12. ASSUME NEW u \in Modelled, NEW f \in Present(e, u), NEW r \in e.rows[u]
       PROVE  \E q \in e.rows[f[2]] : q.who = r.meant[f[1]] /\ r.ref[f[1]] = FirstId(q)
  <2>1. u # t /\ f \in Present(d, u) /\ r \in d.rows[u]
    BY <1>4, <1>6
  <2>2. e.rows[f[2]] = d.rows[f[2]]
    BY <1>5, <2>1
  <2> QED BY <2>1, <2>2 DEF UuidsOK
<1>13. \A u \in Modelled : \A f \in Present(e, u) : LinkKey(u, f) \in e.fks
  BY <1>4, <1>5
<1>14. \A k \in e.fks : \E u \in Modelled : \E f \in Present(e, u) : k = LinkKey(u, f)
  <2> TAKE k \in e.fks
  <2>1. k \in d.fks /\ k.child # t
    BY DEF DropsTable
  <2>2. PICK u \in Modelled : \E f \in Present(d, u) : k = LinkKey(u, f)
    BY <2>1 DEF UuidsOK
  <2>3. k.child = u
    BY <2>2 DEF LinkKey, ForeignKey
  <2> QED BY <1>4, <2>1, <2>2, <2>3
<1>15. \A u \in Modelled : TenantReference \in Present(e, u) <=>
                           TenantReference \in Present(d, u) /\ u # t
  BY <1>4
<1> QED BY <1>3, <1>7, <1>8, <1>9, <1>10, <1>11, <1>12, <1>13, <1>14, <1>15 DEF UuidsOK

(* The tenants table, with the default tenant in it.                       *)
MakesTenants(d, e) ==
  /\ ~HasTable(d, "tenants") /\ DOMAIN e = Fields
  /\ e.type = Extended(d.type, <<"tenants", "id">>, "uuid")
  /\ e.rows = [d.rows EXCEPT !["tenants"] = {Default}]
  /\ e.seq = d.seq /\ e.legacyIds = d.legacyIds /\ e.fks = d.fks

(* It stays one with the tenants and their default row.                    *)
LEMMA TenantsMade ==
  ASSUME NEW n \in 0..MaxBorn, NEW d, UuidsOK(d, n), NEW e, MakesTenants(d, e)
  PROVE  /\ UuidsOK(e, n)
         /\ \A u \in Modelled : HasTable(e, u) <=> HasTable(d, u) \/ u = "tenants"
         /\ \A u \in Modelled : Present(e, u) = Present(d, u)
<1>0. "tenants" \in Modelled /\ n \in Nat
  BY MigrationsAssumption
<1>1. Shape(d) /\ ColumnsPaired(d) /\ RowsOK(d, n) /\ AllUuids(d) /\ d.legacyIds = {}
  BY DEF UuidsOK
<1>2. /\ DOMAIN e.type = DOMAIN d.type \cup {<<"tenants", "id">>}
      /\ \A x \in DOMAIN d.type : e.type[x] = d.type[x] \/ e.type[x] = "uuid"
      /\ e.type[<<"tenants", "id">>] = "uuid"
  BY DEF MakesTenants, Extended
<1>3. \A u \in Modelled : HasTable(e, u) <=> HasTable(d, u) \/ u = "tenants"
  BY <1>2 DEF HasTable
<1>4. \A u \in Modelled : Present(e, u) = Present(d, u)
  <2>1. \A u \in Modelled : \A f \in Links(u) : f[1] # "id"
    BY LinkFacts
  <2> QED BY <1>2, <2>1 DEF Present, Slot
<1>5. Present(d, "tenants") = {}
  BY <1>0, LinkFacts DEF Present
<1>6. \A u \in Modelled : \A f \in Present(d, u) : f[2] # "tenants" /\ f[2] \in Modelled /\ u # "tenants"
  BY <1>1, LinkFacts DEF ColumnsPaired, MakesTenants, Present
<1>7. /\ DOMAIN e.rows = Modelled /\ e.rows["tenants"] = {Default}
      /\ \A u \in Modelled : u # "tenants" => e.rows[u] = d.rows[u]
  BY <1>0, <1>1 DEF Shape, MakesTenants
<1>8. Shape(e)
  BY <1>0, <1>1, <1>2, <1>7 DEF Shape, MakesTenants
<1>9. ColumnsPaired(e)
  <2>1. ToSet(References("tenants")) \subseteq Links("tenants")
    BY <1>0, LinkFacts
  <2>2. ASSUME NEW f \in ToSet(References("tenants")) PROVE FALSE
    BY <1>0, <2>1, LinkFacts
  <2> QED BY <1>1, <1>3, <1>4, <1>6, <2>2 DEF ColumnsPaired
<1>10. /\ RowOK(e, "tenants", Default, n) /\ Default.id = FirstId(Default)
  <2>1. /\ Default.who = 0 /\ Default.was = Uuid(0) /\ Default.id = Uuid(0)
        /\ Default.ref = <<>> /\ Default.meant = <<>> /\ DOMAIN Default = RowFields
    BY DEF Default, RowFields
  <2>2. DOMAIN <<>> = {}
    OBVIOUS
  <2>3. Uuid(0) # Null
    BY DEF Uuid, Null
  <2> QED BY <1>0, <1>4, <1>5, <2>1, <2>2, <2>3 DEF RowOK, FirstId
<1>11. RowsOK(e, n)
  <2>1. ASSUME NEW u \in Modelled
        PROVE  /\ IsFiniteSet(e.rows[u])
               /\ ~HasTable(e, u) => e.rows[u] = {}
               /\ \A r \in e.rows[u] : RowOK(e, u, r, n)
               /\ \A r, s \in e.rows[u] : r.who = s.who => r = s
    <3>1. CASE u = "tenants"
      BY <1>3, <1>7, <1>10, <3>1, FS_Singleton
    <3>2. CASE u # "tenants"
      BY <1>1, <1>3, <1>4, <1>7, <3>2 DEF RowsOK, RowOK
    <3> QED BY <3>1, <3>2
  <2> QED BY <2>1 DEF RowsOK
<1>12. AllUuids(e) /\ e.legacyIds = {}
  BY <1>1, <1>2 DEF AllUuids, MakesTenants
<1>13. \A u \in Modelled : \A r \in e.rows[u] : r.id = FirstId(r)
  BY <1>7, <1>10 DEF UuidsOK
<1>14. \A u \in Modelled : \A f \in Present(e, u) : \A r \in e.rows[u] :
       \E q \in e.rows[f[2]] : q.who = r.meant[f[1]] /\ r.ref[f[1]] = FirstId(q)
  BY <1>4, <1>6, <1>7 DEF UuidsOK
<1>15. /\ \A u \in Modelled : \A f \in Present(e, u) : LinkKey(u, f) \in e.fks
       /\ \A k \in e.fks : \E u \in Modelled : \E f \in Present(e, u) : k = LinkKey(u, f)
  BY <1>4 DEF UuidsOK, MakesTenants
<1> QED BY <1>3, <1>4, <1>8, <1>9, <1>11, <1>12, <1>13, <1>14, <1>15 DEF UuidsOK

(* Every row of a table is changed, and keeps who it is.                   *)
Changes(S, T, new) ==
  /\ IsFiniteSet(S) /\ \A r \in S : new[r].who = r.who
  /\ T = {new[r] : r \in S}

(* Rows that keep who they are remain distinct.                            *)
LEMMA Changed ==
  ASSUME NEW S, NEW T, NEW new, Changes(S, T, new), \A r, s \in S : r.who = s.who => r = s
  PROVE  IsFiniteSet(T) /\ \A x, y \in T : x.who = y.who => x = y
<1>1. IsFiniteSet(T)
  <2>1. [r \in S |-> new[r]] \in Surjection(S, T)
    BY DEF Surjection, Changes
  <2> QED BY <2>1, FS_Surjection DEF Changes
<1>2. ASSUME NEW x \in T, NEW y \in T, x.who = y.who PROVE x = y
  <2>1. PICK r \in S : x = new[r]
    BY DEF Changes
  <2>2. PICK s \in S : y = new[s]
    BY DEF Changes
  <2> QED BY <1>2, <2>1, <2>2 DEF Changes
<1> QED BY <1>1, <1>2

(* add_tenant_id_column: every row there is belongs to the default tenant. *)
WithTenant(r) == [r EXCEPT !.ref = Extended(@, "tenant_id", Uuid(0)),
                           !.meant = Extended(@, "tenant_id", 0)]

AddsTenantId(d, e, t) ==
  /\ t # "tenants" /\ DOMAIN e = Fields
  /\ e.type = Extended(d.type, <<t, "tenant_id">>, "uuid")
  /\ e.rows = [d.rows EXCEPT ![t] = {WithTenant(r) : r \in d.rows[t]}]
  /\ e.seq = d.seq /\ e.legacyIds = d.legacyIds
  /\ e.fks = d.fks \cup {TenantFk(t)}
  /\ Satisfied(e, TenantFk(t))

(* It stays one with a tenant_id column that names the default tenant.     *)
LEMMA TenantIdAdded ==
  ASSUME NEW n \in 0..MaxBorn, NEW t \in Modelled, NEW d, UuidsOK(d, n),
         NEW e, AddsTenantId(d, e, t)
  PROVE  /\ UuidsOK(e, n)
         /\ \A u \in Modelled : HasTable(e, u) <=> HasTable(d, u)
         /\ \A u \in Modelled : TenantReference \in Present(e, u) <=>
                                TenantReference \in Present(d, u) \/ u = t
<1> DEFINE S == d.rows[t]
           new == [r \in S |-> WithTenant(r)]
<1>1. Shape(d) /\ ColumnsPaired(d) /\ RowsOK(d, n) /\ AllUuids(d) /\ d.legacyIds = {}
  BY DEF UuidsOK
<1>2. /\ DOMAIN e.type = DOMAIN d.type \cup {<<t, "tenant_id">>}
      /\ \A x \in DOMAIN e.type : e.type[x] = "uuid"
  BY <1>1 DEF AddsTenantId, Extended, AllUuids
<1>3. \A u \in Modelled : HasTable(e, u) <=> HasTable(d, u)
  BY <1>2 DEF HasTable
<1>4. TenantReference \in Links(t) /\ TenantReference[1] = "tenant_id" /\ TenantReference[2] = "tenants"
  BY LinkFacts DEF AddsTenantId, TenantReference
<1>5. Present(e, t) = Present(d, t) \cup {TenantReference}
  <2>1. \A f \in Links(t) : Slot(t, f) = <<t, "tenant_id">> => f = TenantReference
    BY <1>4, LinkFacts DEF Slot
  <2>2. Slot(t, TenantReference) = <<t, "tenant_id">>
    BY <1>4 DEF Slot
  <2> QED BY <1>2, <1>4, <2>1, <2>2 DEF Present
<1>6. \A u \in Modelled : u # t => Present(e, u) = Present(d, u)
  BY <1>2 DEF Present, Slot
<1>7. HasTable(e, t) /\ HasTable(e, "tenants") /\ LinkKey(t, TenantReference) = TenantFk(t)
  BY <1>4 DEF AddsTenantId, Satisfied, TenantFk, LinkKey, ForeignKey, KeyName
<1>8. /\ DOMAIN e.rows = Modelled /\ e.rows[t] = {WithTenant(r) : r \in S}
      /\ \A u \in Modelled : u # t => e.rows[u] = d.rows[u]
  BY <1>1 DEF Shape, AddsTenantId
<1>9. Shape(e)
  <2>1. \A x \in DOMAIN e.type :
          /\ x[1] \in Modelled /\ x = <<x[1], x[2]>>
          /\ x[2] = "id" \/ \E f \in Links(x[1]) : x[2] = f[1]
    BY <1>1, <1>2, <1>4 DEF Shape
  <2> QED BY <1>1, <1>2, <1>8, <2>1 DEF Shape, AddsTenantId
<1>10. ColumnsPaired(e)
  <2>2. ASSUME NEW u \in Modelled, NEW f \in Present(e, u)
        PROVE  HasTable(e, u) /\ HasTable(e, f[2])
    <3>1. f[2] \in Modelled
      BY LinkFacts DEF Present
    <3>2. CASE f \in Present(d, u)
      <4>1. HasTable(d, u) /\ HasTable(d, f[2])
        BY <1>1, <3>2 DEF ColumnsPaired
      <4> QED BY <1>3, <3>1, <4>1
    <3>3. CASE f \notin Present(d, u)
      BY <1>4, <1>5, <1>6, <1>7, <3>3
    <3> QED BY <3>2, <3>3
  <2>3. ASSUME NEW u \in Modelled, HasTable(e, u), NEW f \in ToSet(References(u))
        PROVE  f \in Present(e, u)
    <3>1. f \in Present(d, u)
      BY <1>1, <1>3, <2>3 DEF ColumnsPaired
    <3> QED BY <1>5, <1>6, <3>1
  <2> QED BY <2>2, <2>3 DEF ColumnsPaired
<1>11. ASSUME NEW r \in S
       PROVE  /\ RowOK(d, t, r, n) /\ DOMAIN WithTenant(r) = RowFields
              /\ WithTenant(r).who = r.who /\ WithTenant(r).was = r.was /\ WithTenant(r).id = r.id
              /\ WithTenant(r).ref = Extended(r.ref, "tenant_id", Uuid(0))
              /\ WithTenant(r).meant = Extended(r.meant, "tenant_id", 0)
  <2>1. RowOK(d, t, r, n)
    BY <1>1 DEF RowsOK
  <2> QED BY <2>1 DEF RowOK, RowFields, WithTenant
<1>12. \A g, x, w : /\ DOMAIN Extended(g, x, w) = DOMAIN g \cup {x}
                    /\ Extended(g, x, w)[x] = w
                    /\ \A y \in DOMAIN g : y # x => Extended(g, x, w)[y] = g[y]
  BY DEF Extended
<1>13. IsFiniteSet(e.rows[t]) /\ \A x, y \in e.rows[t] : x.who = y.who => x = y
  <2>1. IsFiniteSet(S) /\ \A r, s \in S : r.who = s.who => r = s
    BY <1>1 DEF RowsOK
  <2>2. Changes(S, e.rows[t], new)
    BY <1>8, <1>11, <2>1 DEF Changes
  <2> HIDE DEF S, new
  <2> QED BY <2>1, <2>2, Changed
<1>14. ASSUME NEW x \in e.rows[t] PROVE RowOK(e, t, x, n) /\ x.id = FirstId(x)
  <2>1. PICK r \in S : x = WithTenant(r)
    BY <1>8
  <2>2. {f[1] : f \in Present(e, t)} = {f[1] : f \in Present(d, t)} \cup {"tenant_id"}
    BY <1>4, <1>5
  <2>3. /\ DOMAIN x = RowFields /\ x.who = r.who /\ x.was = r.was /\ x.id = r.id
        /\ DOMAIN x.ref = DOMAIN r.ref \cup {"tenant_id"}
        /\ DOMAIN x.meant = DOMAIN r.meant \cup {"tenant_id"} /\ RowOK(d, t, r, n)
    <3>1. /\ DOMAIN x = RowFields /\ x.who = r.who /\ x.was = r.was /\ x.id = r.id
          /\ x.ref = Extended(r.ref, "tenant_id", Uuid(0))
          /\ x.meant = Extended(r.meant, "tenant_id", 0) /\ RowOK(d, t, r, n)
      BY <1>11, <2>1
    <3>2. /\ DOMAIN x.ref = DOMAIN r.ref \cup {"tenant_id"}
          /\ DOMAIN x.meant = DOMAIN r.meant \cup {"tenant_id"}
      BY <3>1 DEF Extended
    <3> QED BY <3>1, <3>2
  <2>4. r.id = FirstId(r)
    BY DEF UuidsOK
  <2> HIDE DEF S
  <2> QED BY <2>2, <2>3, <2>4 DEF RowOK, FirstId, Random
<1>15. RowsOK(e, n)
  <2>1. ASSUME NEW u \in Modelled
        PROVE  /\ IsFiniteSet(e.rows[u])
               /\ ~HasTable(e, u) => e.rows[u] = {}
               /\ \A r \in e.rows[u] : RowOK(e, u, r, n)
               /\ \A r, s \in e.rows[u] : r.who = s.who => r = s
    <3>1. CASE u = t
      BY <1>7, <1>13, <1>14, <3>1
    <3>2. CASE u # t
      BY <1>1, <1>3, <1>6, <1>8, <3>2 DEF RowsOK, RowOK
    <3> QED BY <3>1, <3>2
  <2> QED BY <2>1 DEF RowsOK
<1>16. AllUuids(e) /\ e.legacyIds = {}
  BY <1>1, <1>2 DEF AllUuids, AddsTenantId
<1>17. \A u \in Modelled : \A r \in e.rows[u] : r.id = FirstId(r)
  BY <1>8, <1>14 DEF UuidsOK
<1>18. ASSUME NEW u \in Modelled, NEW f \in Present(d, u), NEW r \in d.rows[u]
       PROVE  \E q \in e.rows[f[2]] : q.who = r.meant[f[1]] /\ r.ref[f[1]] = FirstId(q)
  <2>1. PICK q \in d.rows[f[2]] : q.who = r.meant[f[1]] /\ r.ref[f[1]] = FirstId(q)
    BY DEF UuidsOK
  <2>2. CASE f[2] = t
    <3>1. WithTenant(q) \in e.rows[t]
      BY <1>8, <2>1, <2>2
    <3>2. FirstId(WithTenant(q)) = FirstId(q) /\ WithTenant(q).who = q.who
      BY <1>11, <2>1, <2>2 DEF FirstId, Random
    <3> QED BY <2>1, <2>2, <3>1, <3>2
  <2>3. CASE f[2] # t
    <3>1. f[2] \in Modelled
      BY LinkFacts DEF Present
    <3> QED BY <1>8, <2>1, <2>3, <3>1
  <2> QED BY <2>2, <2>3
<1>19. ASSUME NEW f \in Present(e, t), NEW x \in e.rows[t]
       PROVE  \E q \in e.rows[f[2]] : q.who = x.meant[f[1]] /\ x.ref[f[1]] = FirstId(q)
  <2>1. PICK r \in S : x = WithTenant(r)
    BY <1>8
  <2>2. CASE f = TenantReference
    <3>1. x.ref[f[1]] = Uuid(0) /\ x.meant[f[1]] = 0
      BY <1>4, <1>11, <1>12, <2>1, <2>2
    <3>2. PICK q \in e.rows["tenants"] : q.id = x.ref["tenant_id"]
      BY DEF AddsTenantId, Satisfied, TenantFk, ForeignKey, Ids
    <3>3. RowOK(e, "tenants", q, n) /\ q.id = FirstId(q)
      BY <1>15, <1>17, MigrationsAssumption DEF RowsOK
    <3>4. q.who = 0
      BY <1>4, <2>2, <3>1, <3>2, <3>3, FirstIds DEF RowOK
    <3> QED BY <1>4, <2>2, <3>1, <3>2, <3>3, <3>4
  <2>3. CASE f # TenantReference
    <3>1. f \in Present(d, t) /\ f[1] # "tenant_id"
      BY <1>4, <1>5, <2>3, LinkFacts DEF Present
    <3>2. f[1] \in DOMAIN r.ref /\ f[1] \in DOMAIN r.meant
      BY <1>11, <3>1 DEF RowOK
    <3>3. x.ref[f[1]] = r.ref[f[1]] /\ x.meant[f[1]] = r.meant[f[1]]
      BY <1>11, <1>12, <2>1, <3>1, <3>2
    <3> QED BY <1>18, <3>1, <3>3
  <2> QED BY <2>2, <2>3
<1>20. \A u \in Modelled : \A f \in Present(e, u) : \A r \in e.rows[u] :
         \E q \in e.rows[f[2]] : q.who = r.meant[f[1]] /\ r.ref[f[1]] = FirstId(q)
  BY <1>6, <1>8, <1>18, <1>19
<1>21. \A u \in Modelled : \A f \in Present(e, u) : LinkKey(u, f) \in e.fks
  BY <1>5, <1>6, <1>7 DEF UuidsOK, AddsTenantId
<1>22. \A k \in e.fks : \E u \in Modelled : \E f \in Present(e, u) : k = LinkKey(u, f)
  <2> TAKE k \in e.fks
  <2>1. CASE k \in d.fks
    <3>1. \E u \in Modelled : \E f \in Present(d, u) : k = LinkKey(u, f)
      BY <2>1 DEF UuidsOK
    <3> QED BY <1>5, <1>6, <3>1
  <2>2. CASE k = TenantFk(t)
    BY <1>5, <1>7, <2>2
  <2> QED BY <2>1, <2>2 DEF AddsTenantId
<1>23. \A u \in Modelled : TenantReference \in Present(e, u) <=>
                           TenantReference \in Present(d, u) \/ u = t
  BY <1>5, <1>6
<1> QED BY <1>3, <1>9, <1>10, <1>15, <1>16, <1>17, <1>20, <1>21, <1>22, <1>23 DEF UuidsOK

(* And its removal.                                                        *)
WithoutTenant(r) == [r EXCEPT !.ref = Without(@, {"tenant_id"}),
                              !.meant = Without(@, {"tenant_id"})]

DropsTenantId(d, e, t) ==
  /\ t # "tenants" /\ DOMAIN e = Fields
  /\ e.type = Without(d.type, {<<t, "tenant_id">>})
  /\ e.rows = [d.rows EXCEPT ![t] = {WithoutTenant(r) : r \in d.rows[t]}]
  /\ e.seq = d.seq /\ e.legacyIds = d.legacyIds
  /\ e.fks = d.fks \ {TenantFk(t)}

(* It stays one without that column.                                       *)
LEMMA TenantIdDropped ==
  ASSUME NEW n \in 0..MaxBorn, NEW t \in Modelled, NEW d, UuidsOK(d, n),
         NEW e, DropsTenantId(d, e, t)
  PROVE  /\ UuidsOK(e, n)
         /\ \A u \in Modelled : HasTable(e, u) <=> HasTable(d, u)
         /\ \A u \in Modelled : TenantReference \in Present(e, u) <=>
                                TenantReference \in Present(d, u) /\ u # t
<1> DEFINE S == d.rows[t]
           new == [r \in S |-> WithoutTenant(r)]
<1>1. Shape(d) /\ ColumnsPaired(d) /\ RowsOK(d, n) /\ AllUuids(d) /\ d.legacyIds = {}
  BY DEF UuidsOK
<1>2. /\ DOMAIN e.type = DOMAIN d.type \ {<<t, "tenant_id">>}
      /\ \A x \in DOMAIN e.type : e.type[x] = "uuid"
  BY <1>1 DEF DropsTenantId, Without, AllUuids
<1>3. \A u \in Modelled : HasTable(e, u) <=> HasTable(d, u)
  BY <1>2 DEF HasTable
<1>4. TenantReference \in Links(t) /\ TenantReference[1] = "tenant_id" /\ TenantReference[2] = "tenants"
  BY LinkFacts DEF DropsTenantId, TenantReference
<1>5. Present(e, t) = Present(d, t) \ {TenantReference}
  <2>1. \A f \in Links(t) : Slot(t, f) = <<t, "tenant_id">> => f = TenantReference
    BY <1>4, LinkFacts DEF Slot
  <2>2. Slot(t, TenantReference) = <<t, "tenant_id">>
    BY <1>4 DEF Slot
  <2> QED BY <1>2, <1>4, <2>1, <2>2 DEF Present
<1>6. \A u \in Modelled : u # t => Present(e, u) = Present(d, u)
  BY <1>2 DEF Present, Slot
<1>7. LinkKey(t, TenantReference) = TenantFk(t)
  BY <1>4 DEF TenantFk, LinkKey, ForeignKey, KeyName
<1>8. /\ DOMAIN e.rows = Modelled /\ e.rows[t] = {WithoutTenant(r) : r \in S}
      /\ \A u \in Modelled : u # t => e.rows[u] = d.rows[u]
  BY <1>1 DEF Shape, DropsTenantId
<1>9. Shape(e)
  BY <1>1, <1>2, <1>8 DEF Shape, DropsTenantId
<1>10. ColumnsPaired(e)
  <2>1. TenantReference \notin ToSet(References(t))
    BY LinkFacts
  <2>2. ASSUME NEW u \in Modelled, NEW f \in Present(e, u)
        PROVE  HasTable(e, u) /\ HasTable(e, f[2])
    <3>1. f[2] \in Modelled
      BY LinkFacts DEF Present
    <3>2. CASE f \in Present(d, u)
      <4>1. HasTable(d, u) /\ HasTable(d, f[2])
        BY <1>1, <3>2 DEF ColumnsPaired
      <4> QED BY <1>3, <3>1, <4>1
    <3>3. CASE f \notin Present(d, u)
      BY <1>5, <1>6, <3>3
    <3> QED BY <3>2, <3>3
  <2>3. ASSUME NEW u \in Modelled, HasTable(e, u), NEW f \in ToSet(References(u))
        PROVE  f \in Present(e, u)
    <3>1. f \in Present(d, u)
      BY <1>1, <1>3, <2>3 DEF ColumnsPaired
    <3> QED BY <1>5, <1>6, <2>1, <3>1
  <2> QED BY <2>2, <2>3 DEF ColumnsPaired
<1>11. ASSUME NEW r \in S
       PROVE  /\ RowOK(d, t, r, n) /\ DOMAIN WithoutTenant(r) = RowFields
              /\ WithoutTenant(r).who = r.who /\ WithoutTenant(r).was = r.was
              /\ WithoutTenant(r).id = r.id
              /\ WithoutTenant(r).ref = Without(r.ref, {"tenant_id"})
              /\ WithoutTenant(r).meant = Without(r.meant, {"tenant_id"})
  <2>1. RowOK(d, t, r, n)
    BY <1>1 DEF RowsOK
  <2> QED BY <2>1 DEF RowOK, RowFields, WithoutTenant
<1>12. \A g, x : /\ DOMAIN Without(g, {x}) = DOMAIN g \ {x}
                 /\ \A y \in DOMAIN g : y # x => Without(g, {x})[y] = g[y]
  BY DEF Without
<1>13. IsFiniteSet(e.rows[t]) /\ \A x, y \in e.rows[t] : x.who = y.who => x = y
  <2>1. IsFiniteSet(S) /\ \A r, s \in S : r.who = s.who => r = s
    BY <1>1 DEF RowsOK
  <2>2. Changes(S, e.rows[t], new)
    BY <1>8, <1>11, <2>1 DEF Changes
  <2> HIDE DEF S, new
  <2> QED BY <2>1, <2>2, Changed
<1>14. ASSUME NEW x \in e.rows[t] PROVE RowOK(e, t, x, n) /\ x.id = FirstId(x)
  <2>1. PICK r \in S : x = WithoutTenant(r)
    BY <1>8
  <2>2. {f[1] : f \in Present(e, t)} = {f[1] : f \in Present(d, t)} \ {"tenant_id"}
    <3>1. \A f \in Present(d, t) : f[1] = "tenant_id" <=> f = TenantReference
      BY LinkFacts DEF Present
    <3> QED BY <1>5, <3>1
  <2>3. /\ DOMAIN x = RowFields /\ x.who = r.who /\ x.was = r.was /\ x.id = r.id
        /\ DOMAIN x.ref = DOMAIN r.ref \ {"tenant_id"}
        /\ DOMAIN x.meant = DOMAIN r.meant \ {"tenant_id"} /\ RowOK(d, t, r, n)
    BY <1>11, <1>12, <2>1
  <2>4. r.id = FirstId(r)
    BY DEF UuidsOK
  <2> HIDE DEF S
  <2> QED BY <2>2, <2>3, <2>4 DEF RowOK, FirstId, Random
<1>15. RowsOK(e, n)
  <2>1. ASSUME NEW u \in Modelled
        PROVE  /\ IsFiniteSet(e.rows[u])
               /\ ~HasTable(e, u) => e.rows[u] = {}
               /\ \A r \in e.rows[u] : RowOK(e, u, r, n)
               /\ \A r, s \in e.rows[u] : r.who = s.who => r = s
    <3>1. CASE u = t
      <4>1. ~HasTable(e, t) => e.rows[t] = {}
        BY <1>1, <1>3, <1>8 DEF RowsOK
      <4> QED BY <1>13, <1>14, <3>1, <4>1
    <3>2. CASE u # t
      BY <1>1, <1>3, <1>6, <1>8, <3>2 DEF RowsOK, RowOK
    <3> QED BY <3>1, <3>2
  <2> QED BY <2>1 DEF RowsOK
<1>16. AllUuids(e) /\ e.legacyIds = {}
  BY <1>1, <1>2 DEF AllUuids, DropsTenantId
<1>17. \A u \in Modelled : \A r \in e.rows[u] : r.id = FirstId(r)
  BY <1>8, <1>14 DEF UuidsOK
<1>18. ASSUME NEW u \in Modelled, NEW f \in Present(d, u), NEW r \in d.rows[u]
       PROVE  \E q \in e.rows[f[2]] : q.who = r.meant[f[1]] /\ r.ref[f[1]] = FirstId(q)
  <2>1. PICK q \in d.rows[f[2]] : q.who = r.meant[f[1]] /\ r.ref[f[1]] = FirstId(q)
    BY DEF UuidsOK
  <2>2. CASE f[2] = t
    <3>1. WithoutTenant(q) \in e.rows[t]
      BY <1>8, <2>1, <2>2
    <3>2. FirstId(WithoutTenant(q)) = FirstId(q) /\ WithoutTenant(q).who = q.who
      BY <1>11, <2>1, <2>2 DEF FirstId, Random
    <3> QED BY <2>1, <2>2, <3>1, <3>2
  <2>3. CASE f[2] # t
    <3>1. f[2] \in Modelled
      BY LinkFacts DEF Present
    <3> QED BY <1>8, <2>1, <2>3, <3>1
  <2> QED BY <2>2, <2>3
<1>19. ASSUME NEW f \in Present(e, t), NEW x \in e.rows[t]
       PROVE  \E q \in e.rows[f[2]] : q.who = x.meant[f[1]] /\ x.ref[f[1]] = FirstId(q)
  <2>1. PICK r \in S : x = WithoutTenant(r)
    BY <1>8
  <2>2. f \in Present(d, t) /\ f[1] # "tenant_id"
    BY <1>5, LinkFacts DEF Present
  <2>3. f[1] \in DOMAIN r.ref /\ f[1] \in DOMAIN r.meant
    BY <1>11, <2>2 DEF RowOK
  <2>4. x.ref[f[1]] = r.ref[f[1]] /\ x.meant[f[1]] = r.meant[f[1]]
    <3>1. x.ref = Without(r.ref, {"tenant_id"}) /\ x.meant = Without(r.meant, {"tenant_id"})
      BY <1>11, <2>1
    <3> QED BY <2>2, <2>3, <3>1 DEF Without
  <2> QED BY <1>18, <2>2, <2>4
<1>20. \A u \in Modelled : \A f \in Present(e, u) : \A r \in e.rows[u] :
         \E q \in e.rows[f[2]] : q.who = r.meant[f[1]] /\ r.ref[f[1]] = FirstId(q)
  BY <1>6, <1>8, <1>18, <1>19
<1>21. ASSUME NEW u \in Modelled, NEW f \in Present(e, u) PROVE LinkKey(u, f) \in e.fks
  <2>1. f \in Present(d, u) /\ (u = t => f # TenantReference)
    BY <1>5, <1>6
  <2>2. LinkKey(u, f) # TenantFk(t)
    <3>1. u = t => f[1] # "tenant_id"
      BY <2>1, LinkFacts DEF Present
    <3> QED BY <3>1 DEF LinkKey, TenantFk, ForeignKey
  <2> QED BY <2>1, <2>2 DEF UuidsOK, DropsTenantId
<1>22. \A k \in e.fks : \E u \in Modelled : \E f \in Present(e, u) : k = LinkKey(u, f)
  <2> TAKE k \in e.fks
  <2>1. k \in d.fks /\ k # TenantFk(t)
    BY DEF DropsTenantId
  <2>2. PICK u \in Modelled : \E f \in Present(d, u) : k = LinkKey(u, f)
    BY <2>1 DEF UuidsOK
  <2>3. PICK f \in Present(d, u) : k = LinkKey(u, f)
    BY <2>2
  <2> QED BY <1>5, <1>6, <1>7, <2>1, <2>3
<1>23. \A u \in Modelled : TenantReference \in Present(e, u) <=>
                           TenantReference \in Present(d, u) /\ u # t
  BY <1>5, <1>6
<1> QED BY <1>3, <1>9, <1>10, <1>15, <1>16, <1>17, <1>20, <1>21, <1>22, <1>23 DEF UuidsOK

(* Indexes are no part of the invariant of a database.                     *)
SameButIndexes(d, e) ==
  /\ DOMAIN e = Fields
  /\ e.type = d.type /\ e.rows = d.rows /\ e.fks = d.fks /\ e.seq = d.seq
  /\ e.legacyIds = d.legacyIds

(* Changing the indexes leaves the rest in order.                          *)
LEMMA IndexesApart ==
  ASSUME NEW n, NEW v, NEW d, DatabaseOK(d, n), KeysFirst(d, v), NEW e, SameButIndexes(d, e)
  PROVE  /\ DatabaseOK(e, n) /\ KeysFirst(e, v)
         /\ \A u \in Modelled : Present(e, u) = Present(d, u) /\ (HasTable(e, u) <=> HasTable(d, u))
<1>1. Shape(d) /\ ColumnsPaired(d) /\ RowsOK(d, n) /\ IdsOK(d) /\ LegacyOK(d) /\ RefsOK(d) /\ FksOK(d)
  BY DEF DatabaseOK
<1>2. /\ \A u : Present(e, u) = Present(d, u)
      /\ \A u : HasTable(e, u) <=> HasTable(d, u)
      /\ \A u : IdType(e, u) = IdType(d, u)
      /\ \A u, f : ColType(e, u, f) = ColType(d, u, f)
      /\ \A u, r, w : KnownAs(e, u, r, w) <=> KnownAs(d, u, r, w)
  BY DEF SameButIndexes, Present, HasTable, IdType, ColType, KnownAs
<1>3. Shape(e) /\ ColumnsPaired(e)
  BY <1>1, <1>2 DEF SameButIndexes, Shape, ColumnsPaired
<1>4. RowsOK(e, n)
  BY <1>1, <1>2 DEF SameButIndexes, RowsOK, RowOK
<1>5. IdsOK(e) /\ LegacyOK(e)
  BY <1>1, <1>2 DEF SameButIndexes, IdsOK, LegacyOK
<1>6. RefsOK(e)
  BY <1>1, <1>2 DEF SameButIndexes, RefsOK, Names
<1>7. FksOK(e)
  BY <1>1, <1>2 DEF SameButIndexes, FksOK
<1>8. KeysFirst(e, v)
  BY <1>1, <1>2 DEF SameButIndexes, KeysFirst
<1> QED BY <1>2, <1>3, <1>4, <1>5, <1>6, <1>7, <1>8 DEF DatabaseOK

(* Between two runs all keys have one type.                                *)
Uniform(d) == \E kind \in Kinds : \A x \in DOMAIN d.type : d.type[x] = kind

(* With keys of one type every reference has its foreign key.              *)
LEMMA UniformTypes ==
  ASSUME NEW d, NEW n, DatabaseOK(d, n), Uniform(d), NEW u \in Modelled
  PROVE  /\ HasTable(d, u) => IdType(d, u) \in Kinds
         /\ \A f \in Present(d, u) :
              /\ f[2] \in Modelled /\ HasTable(d, u) /\ HasTable(d, f[2])
              /\ ColType(d, u, f) \in Kinds
              /\ ColType(d, u, f) = IdType(d, u) /\ ColType(d, u, f) = IdType(d, f[2])
              /\ LinkKey(u, f) \in d.fks
<1>1. ASSUME NEW f \in Present(d, u)
      PROVE  /\ f[2] \in Modelled /\ HasTable(d, u) /\ HasTable(d, f[2])
             /\ Slot(u, f) \in DOMAIN d.type
  BY LinkFacts DEF DatabaseOK, ColumnsPaired, Present
<1>2. ASSUME NEW f \in Present(d, u)
      PROVE  /\ ColType(d, u, f) \in Kinds
             /\ ColType(d, u, f) = IdType(d, u) /\ ColType(d, u, f) = IdType(d, f[2])
  BY <1>1 DEF Uniform, ColType, IdType, HasTable
<1>3. ASSUME NEW f \in Present(d, u) PROVE LinkKey(u, f) \in d.fks
  BY <1>2 DEF DatabaseOK, FksOK
<1>4. HasTable(d, u) => IdType(d, u) \in Kinds
  BY DEF Uniform, IdType, HasTable
<1> QED BY <1>1, <1>2, <1>3, <1>4

(* INSERT: a row that refers to rows that are there.                       *)
InsertsRow(d, e, t, x, n) ==
  /\ HasTable(d, t) /\ DOMAIN e = Fields
  /\ e.type = d.type /\ e.fks = d.fks /\ e.legacyIds = d.legacyIds
  /\ e.rows = [d.rows EXCEPT ![t] = @ \cup {x}]
  /\ e.seq = [d.seq EXCEPT ![t] = IF @ = 0 /\ IdType(d, t) = "uuid" THEN 0 ELSE @ + 1]
  /\ DOMAIN x = RowFields /\ x.who = n + 1
  /\ IdType(d, t) = "uuid" => x.id = Uuid(n + 1) /\ x.was = Uuid(n + 1)
  /\ IdType(d, t) = "int" => x.id = Serial(d.seq[t] + 1) /\ x.was = Null
  /\ DOMAIN x.ref = {f[1] : f \in Present(d, t)}
  /\ DOMAIN x.meant = {f[1] : f \in Present(d, t)}
  /\ \A f \in Present(d, t) : \E q \in d.rows[f[2]] :
       x.ref[f[1]] = q.id /\ x.meant[f[1]] = q.who

(* An insert keeps the database in order.                                  *)
LEMMA RowInserted ==
  ASSUME NEW n \in Nat, NEW v, NEW t \in Modelled, NEW d, DatabaseOK(d, n), KeysFirst(d, v),
         Uniform(d), NEW e, NEW x, InsertsRow(d, e, t, x, n)
  PROVE  DatabaseOK(e, n + 1) /\ KeysFirst(e, v)
<1>1. Shape(d) /\ ColumnsPaired(d) /\ RowsOK(d, n) /\ IdsOK(d) /\ LegacyOK(d) /\ RefsOK(d) /\ FksOK(d)
  BY DEF DatabaseOK
<1>2. /\ \A u : Present(e, u) = Present(d, u)
      /\ \A u : HasTable(e, u) <=> HasTable(d, u)
      /\ \A u : IdType(e, u) = IdType(d, u)
      /\ \A u, f : ColType(e, u, f) = ColType(d, u, f)
      /\ \A u, r, w : KnownAs(e, u, r, w) <=> KnownAs(d, u, r, w)
  BY DEF InsertsRow, Present, HasTable, IdType, ColType, KnownAs
<1>3. /\ DOMAIN e.rows = Modelled /\ DOMAIN e.seq = Modelled
      /\ e.rows[t] = d.rows[t] \cup {x}
      /\ \A u \in Modelled : u # t => e.rows[u] = d.rows[u] /\ e.seq[u] = d.seq[u]
      /\ e.seq[t] = IF d.seq[t] = 0 /\ IdType(d, t) = "uuid" THEN 0 ELSE d.seq[t] + 1
  BY <1>1 DEF Shape, InsertsRow
<1>4. d.seq[t] \in Nat /\ IdType(d, t) \in Kinds
  BY <1>1, UniformTypes DEF Shape, InsertsRow
<1>5. /\ \A u \in Modelled : e.seq[u] \in Nat
      /\ IdType(d, t) = "int" => e.seq[t] = d.seq[t] + 1
  BY <1>1, <1>3, <1>4 DEF Shape
<1>6. Shape(e) /\ ColumnsPaired(e)
  <2>1. Shape(e)
    BY <1>1, <1>3, <1>5 DEF InsertsRow, Shape
  <2>2. ColumnsPaired(e)
    BY <1>1, <1>2 DEF ColumnsPaired
  <2> QED BY <2>1, <2>2
<1>7. RowsOK(e, n + 1)
  <2>1. \A u \in Modelled : \A r \in d.rows[u] : RowOK(e, u, r, n + 1) /\ r.who # n + 1
    BY <1>1, <1>2 DEF RowsOK, RowOK
  <2>2. RowOK(e, t, x, n + 1)
    BY <1>2, <1>4 DEF InsertsRow, RowOK, Kinds
  <2>3. IsFiniteSet(e.rows[t])
    BY <1>1, <1>3, FS_AddElement DEF RowsOK
  <2>4. \A r, s \in e.rows[t] : r.who = s.who => r = s
    BY <1>1, <1>3, <2>1 DEF RowsOK, InsertsRow
  <2>5. ASSUME NEW u \in Modelled
        PROVE  /\ IsFiniteSet(e.rows[u])
               /\ ~HasTable(e, u) => e.rows[u] = {}
               /\ \A r \in e.rows[u] : RowOK(e, u, r, n + 1)
               /\ \A r, s \in e.rows[u] : r.who = s.who => r = s
    <3>1. CASE u = t
      <4>1. HasTable(e, t)
        BY <1>2 DEF InsertsRow
      <4> QED BY <1>3, <2>1, <2>2, <2>3, <2>4, <3>1, <4>1
    <3>2. CASE u # t
      BY <1>1, <1>2, <1>3, <2>1, <3>2 DEF RowsOK
    <3> QED BY <3>1, <3>2
  <2> QED BY <2>5 DEF RowsOK
<1>8. IdsOK(e)
  <2> SUFFICES ASSUME NEW u \in Modelled, NEW r \in e.rows[u]
        PROVE  /\ IdType(d, u) = "uuid" => r.id = FirstId(r)
               /\ IdType(d, u) = "int" =>
                    /\ r.id = Serial(r.id[2]) /\ r.id[2] \in 1..e.seq[u]
                    /\ \A s \in e.rows[u] : s.id = r.id => s = r
                    /\ r.was # Null => <<u, FirstId(r), r.id>> \in e.legacyIds
                    /\ KnownAs(d, u, r, r.id)
    BY <1>2 DEF IdsOK
  <2>0. e.legacyIds = d.legacyIds
    BY DEF InsertsRow
  <2>1. CASE u # t
    BY <1>1, <1>3, <2>0, <2>1 DEF IdsOK
  <2>2. CASE u = t /\ IdType(d, t) = "uuid"
    <3>1. FirstId(x) = x.id
      BY <2>2 DEF InsertsRow, FirstId, Uuid, Null
    <3> QED BY <1>1, <1>3, <2>2, <3>1 DEF IdsOK
  <2>3. CASE u = t /\ IdType(d, t) = "int"
    <3>1. x.id = Serial(d.seq[t] + 1) /\ x.was = Null /\ x.id[2] = d.seq[t] + 1
      BY <2>3 DEF InsertsRow, Serial
    <3>2. \A s \in d.rows[t] : s.id = Serial(s.id[2]) /\ s.id[2] \in 1..d.seq[t] /\ s.id # x.id
      <4>1. \A s \in d.rows[t] : s.id = Serial(s.id[2]) /\ s.id[2] \in 1..d.seq[t]
        BY <1>1, <2>3 DEF IdsOK
      <4>2. ASSUME NEW s \in d.rows[t] PROVE s.id # x.id
        <5>1. s.id[2] \in 1..d.seq[t]
          BY <4>1
        <5>2. s.id[2] # x.id[2]
          BY <1>4, <3>1, <5>1
        <5> QED BY <5>2
      <4> QED BY <4>1, <4>2
    <3>3. KnownAs(d, t, x, x.id)
      <4>1. ASSUME NEW m \in d.legacyIds, m[1] = t, m[3] = x.id PROVE FALSE
        <5>1. m[3][2] <= d.seq[t] /\ m[3][2] \in Nat
          BY <1>1, <2>3, <4>1 DEF LegacyOK
        <5> QED BY <1>4, <3>1, <4>1, <5>1
      <4> QED BY <4>1 DEF KnownAs
    <3>4. CASE r = x
      BY <1>3, <1>4, <1>5, <2>3, <3>1, <3>2, <3>3, <3>4
    <3>5. CASE r # x
      <4>1. r \in d.rows[t]
        BY <1>3, <2>3, <3>5
      <4>2. r.id[2] \in 1..e.seq[t]
        BY <1>4, <1>5, <2>3, <3>2, <4>1
      <4>3. \A s \in e.rows[t] : s.id = r.id => s = r
        BY <1>1, <1>3, <2>3, <3>2, <4>1 DEF IdsOK
      <4> QED BY <1>1, <2>0, <2>3, <4>1, <4>2, <4>3 DEF IdsOK
    <3> QED BY <3>4, <3>5
  <2>4. IdType(d, t) = "uuid" \/ IdType(d, t) = "int"
    BY <1>4 DEF Kinds
  <2> QED BY <2>1, <2>2, <2>3, <2>4
<1>9. LegacyOK(e)
  <2> SUFFICES ASSUME NEW m \in d.legacyIds
               PROVE  /\ m = <<m[1], m[2], m[3]>> /\ m[1] \in Modelled
                      /\ m[3] = Serial(m[3][2]) /\ m[3][2] \in Nat
                      /\ HasTable(d, m[1])
                      /\ IdType(d, m[1]) = "int" => m[3][2] <= e.seq[m[1]]
    BY <1>2 DEF LegacyOK, InsertsRow
  <2>1. IdType(d, m[1]) = "int" => m[3][2] <= e.seq[m[1]]
    <3>1. IdType(d, m[1]) = "int" => m[3][2] <= d.seq[m[1]] /\ m[3][2] \in Nat /\ m[1] \in Modelled
      BY <1>1 DEF LegacyOK
    <3> QED BY <1>3, <1>4, <1>5, <3>1
  <2> QED BY <1>1, <2>1 DEF LegacyOK
<1>10. \A u \in Modelled : \A f \in Present(d, u) : d.rows[f[2]] \subseteq e.rows[f[2]]
  <2>1. \A u \in Modelled : d.rows[u] \subseteq e.rows[u]
    BY <1>3
  <2> QED BY <2>1, UniformTypes
<1>11. RefsOK(e)
  <2> SUFFICES ASSUME NEW u \in Modelled, NEW f \in Present(d, u), NEW r \in e.rows[u]
               PROVE  \E q \in e.rows[f[2]] :
                         q.who = r.meant[f[1]] /\ Names(e, u, f, r.ref[f[1]], q)
    BY <1>2 DEF RefsOK
  <2>1. CASE r \in d.rows[u]
    <3>1. PICK q \in d.rows[f[2]] : q.who = r.meant[f[1]] /\ Names(d, u, f, r.ref[f[1]], q)
      BY <1>1, <2>1 DEF RefsOK
    <3>2. Names(e, u, f, r.ref[f[1]], q)
      BY <1>2, <3>1 DEF Names
    <3> QED BY <1>10, <3>1, <3>2
  <2>2. CASE r = x /\ u = t
    <3>1. PICK q \in d.rows[f[2]] : r.ref[f[1]] = q.id /\ r.meant[f[1]] = q.who
      BY <2>2 DEF InsertsRow
    <3>2. f[2] \in Modelled /\ ColType(d, u, f) = IdType(d, f[2])
      BY UniformTypes
    <3>3. /\ IdType(d, f[2]) = "uuid" => q.id = FirstId(q)
          /\ IdType(d, f[2]) = "int" => q.id = Serial(q.id[2])
      BY <3>2, RowFacts
    <3>4. IdType(d, f[2]) = "int" => q.id[1] = "int"
      BY <3>3 DEF Serial
    <3>5. Names(e, u, f, r.ref[f[1]], q)
      BY <1>2, <3>1, <3>2, <3>3, <3>4 DEF Names
    <3> QED BY <1>10, <3>1, <3>5
  <2> QED BY <1>3, <2>1, <2>2
<1>12. FksOK(e)
  BY <1>1, <1>2 DEF FksOK, InsertsRow
<1>13. KeysFirst(e, v)
  BY <1>2 DEF KeysFirst, InsertsRow
<1> QED BY <1>6, <1>7, <1>8, <1>9, <1>11, <1>12, <1>13 DEF DatabaseOK

(* DELETE: a row no other row refers to.                                   *)
RemovesRow(d, e, t, x) ==
  /\ DOMAIN e = Fields /\ x \in d.rows[t]
  /\ e.type = d.type /\ e.fks = d.fks /\ e.legacyIds = d.legacyIds /\ e.seq = d.seq
  /\ e.rows = [d.rows EXCEPT ![t] = @ \ {x}]
  /\ \A k \in d.fks : k.parent = t => \A s \in d.rows[k.child] : s.ref[k.col] # x.id

(* A delete keeps the database in order.                                   *)
LEMMA RowRemoved ==
  ASSUME NEW n, NEW v, NEW t \in Modelled, NEW d, DatabaseOK(d, n), KeysFirst(d, v),
         Uniform(d), NEW e, NEW x, RemovesRow(d, e, t, x)
  PROVE  DatabaseOK(e, n) /\ KeysFirst(e, v)
<1>1. Shape(d) /\ ColumnsPaired(d) /\ RowsOK(d, n) /\ IdsOK(d) /\ LegacyOK(d) /\ RefsOK(d) /\ FksOK(d)
  BY DEF DatabaseOK
<1>2. /\ \A u : Present(e, u) = Present(d, u)
      /\ \A u : HasTable(e, u) <=> HasTable(d, u)
      /\ \A u : IdType(e, u) = IdType(d, u)
      /\ \A u, f : ColType(e, u, f) = ColType(d, u, f)
      /\ \A u, r, w : KnownAs(e, u, r, w) <=> KnownAs(d, u, r, w)
  BY DEF RemovesRow, Present, HasTable, IdType, ColType, KnownAs
<1>3. /\ DOMAIN e.rows = Modelled /\ e.rows[t] = d.rows[t] \ {x}
      /\ \A u \in Modelled : u # t => e.rows[u] = d.rows[u]
      /\ \A u \in Modelled : e.rows[u] \subseteq d.rows[u]
  BY <1>1 DEF Shape, RemovesRow
<1>4. Shape(e) /\ ColumnsPaired(e)
  BY <1>1, <1>2, <1>3 DEF RemovesRow, Shape, ColumnsPaired
<1>5. RowsOK(e, n)
  <2>1. \A u \in Modelled : IsFiniteSet(e.rows[u])
    BY <1>1, <1>3, FS_Subset DEF RowsOK
  <2> QED BY <1>1, <1>2, <1>3, <2>1 DEF RowsOK, RowOK
<1>6. IdsOK(e) /\ LegacyOK(e)
  BY <1>1, <1>2, <1>3 DEF IdsOK, LegacyOK, RemovesRow
<1>7. RefsOK(e)
  <2> SUFFICES ASSUME NEW u \in Modelled, NEW f \in Present(d, u), NEW r \in e.rows[u]
               PROVE  \E q \in e.rows[f[2]] :
                         q.who = r.meant[f[1]] /\ Names(e, u, f, r.ref[f[1]], q)
    BY <1>2 DEF RefsOK
  <2>1. r \in d.rows[u]
    BY <1>3
  <2>2. PICK q \in d.rows[f[2]] : q.who = r.meant[f[1]] /\ Names(d, u, f, r.ref[f[1]], q)
    BY <1>1, <2>1 DEF RefsOK
  <2>3. /\ f[2] \in Modelled /\ ColType(d, u, f) \in Kinds
        /\ ColType(d, u, f) = IdType(d, f[2]) /\ LinkKey(u, f) \in d.fks
    BY UniformTypes
  <2>4. r.ref[f[1]] = q.id
    <3>1. IdType(d, f[2]) = "uuid" => q.id = FirstId(q)
      BY <2>3, RowFacts
    <3> QED BY <2>2, <2>3, <3>1 DEF Names, Kinds
  <2>5. q \in e.rows[f[2]]
    <3>1. LinkKey(u, f).parent = f[2] /\ LinkKey(u, f).child = u /\ LinkKey(u, f).col = f[1]
      BY DEF LinkKey, ForeignKey
    <3>2. f[2] = t => q # x
      BY <2>1, <2>3, <2>4, <3>1 DEF RemovesRow
    <3> QED BY <1>3, <2>3, <3>2
  <2>6. Names(e, u, f, r.ref[f[1]], q)
    BY <1>2, <2>2 DEF Names
  <2> QED BY <2>2, <2>5, <2>6
<1>8. FksOK(e)
  BY <1>1, <1>2 DEF FksOK, RemovesRow
<1>9. KeysFirst(e, v)
  BY <1>2 DEF KeysFirst, RemovesRow
<1> QED BY <1>4, <1>5, <1>6, <1>7, <1>8, <1>9 DEF DatabaseOK

(* The shadow tables go when no integer is left.                           *)
LEMMA LegacyDropped ==
  ASSUME NEW n, NEW v, NEW d, DatabaseOK(d, n), AllUuids(d), NEW e, DOMAIN e = Fields,
         e.type = d.type, e.rows = d.rows, e.fks = d.fks, e.seq = d.seq, e.legacyIds = {}
  PROVE  DatabaseOK(e, n) /\ KeysFirst(e, v)
<1>1. Shape(d) /\ ColumnsPaired(d) /\ RowsOK(d, n) /\ IdsOK(d) /\ RefsOK(d) /\ FksOK(d)
  BY DEF DatabaseOK
<1>2. /\ \A u : Present(e, u) = Present(d, u)
      /\ \A u : HasTable(e, u) <=> HasTable(d, u)
  BY DEF Present, HasTable
<1>3. Shape(e) /\ ColumnsPaired(e)
  BY <1>1, <1>2 DEF Shape, ColumnsPaired
<1>4. RowsOK(e, n) /\ AllUuids(e)
  BY <1>1, <1>2 DEF RowsOK, RowOK, AllUuids
<1>5. ASSUME NEW u \in Modelled, NEW r \in e.rows[u] PROVE r.id = FirstId(r)
  <2>1. HasTable(d, u)
    BY <1>1 DEF RowsOK
  <2>2. IdType(d, u) = "uuid" /\ r \in d.rows[u]
    BY <1>1, <1>5, <2>1, UuidTypes
  <2> QED BY <1>1, <2>2 DEF IdsOK
<1>6. ASSUME NEW u \in Modelled, NEW f \in Present(d, u)
      PROVE  /\ LinkKey(u, f) \in e.fks
             /\ \A r \in e.rows[u] :
                  \E q \in e.rows[f[2]] : q.who = r.meant[f[1]] /\ r.ref[f[1]] = FirstId(q)
  <2>1. ColType(d, u, f) = "uuid" /\ IdType(d, f[2]) = "uuid"
    BY <1>1, UuidTypes
  <2> QED BY <1>1, <2>1 DEF RefsOK, FksOK, Names
<1>7. \A k \in e.fks : \E u \in Modelled : \E f \in Present(e, u) : k = LinkKey(u, f)
  BY <1>1, <1>2 DEF FksOK
<1>8. UuidsOK(e, n)
  BY <1>2, <1>3, <1>4, <1>5, <1>6, <1>7 DEF UuidsOK
<1> QED BY <1>8, UuidsAreOK

(***************************************************************************)
(* The state of a run.                                                     *)
(***************************************************************************)

(* The modelled tables of each revision.                                   *)
LEMMA TablesOf ==
  /\ Tables(0) = {} /\ Tables(1) = Modelled \ {"tenants"}
  /\ Tables(2) = Modelled /\ Tables(3) = Modelled /\ "tenants" \in Modelled
<1>1. "tenants" \in Modelled /\ Modelled \subseteq ToSet(InitialTables) \cup {"tenants"}
  BY MigrationsAssumption
<1>2. "tenants" \notin ToSet(InitialTables)
  BY Lists18
<1> QED BY <1>1, <1>2 DEF Tables

(* A column is the key of a table or one of its references.                *)
LEMMA ColumnKinds ==
  ASSUME NEW d, Shape(d), NEW x \in DOMAIN d.type
  PROVE  /\ x[1] \in Modelled
         /\ \/ HasTable(d, x[1]) /\ x = <<x[1], "id">>
            \/ \E f \in Present(d, x[1]) : x = Slot(x[1], f)
<1>1. x[1] \in Modelled /\ x = <<x[1], x[2]>>
  BY DEF Shape
<1>2. CASE x[2] = "id"
  BY <1>1, <1>2 DEF HasTable
<1>3. CASE \E f \in Links(x[1]) : x[2] = f[1]
  <2>1. PICK f \in Links(x[1]) : x[2] = f[1]
    BY <1>3
  <2>2. x = Slot(x[1], f)
    BY <1>1, <2>1 DEF Slot
  <2> QED BY <1>1, <2>1, <2>2 DEF Present
<1> QED BY <1>2, <1>3 DEF Shape

(* The columns of an index are there with its table.                       *)
LEMMA IndexColumns ==
  ASSUME NEW d, ColumnsPaired(d), NEW t \in Modelled, HasTable(d, t), NEW i \in IndexesOf(t)
  PROVE  /\ i.table = t /\ t # "tenants"
         /\ \E c : c \in ToSet(i.cols)
         /\ \A c \in ToSet(i.cols) : \E f \in Present(d, t) : f[1] = c /\ <<t, c>> = Slot(t, f)
<1>1. /\ i.table = t /\ \E c : c \in ToSet(i.cols)
      /\ \A c \in ToSet(i.cols) : \E f \in ToSet(References(t)) : f[1] = c
  BY IndexFacts
<1>2. \A f \in ToSet(References(t)) : f \in Present(d, t)
  BY DEF ColumnsPaired
<1>3. \A f \in Present(d, t) : t # "tenants"
  BY LinkFacts DEF Present
<1> QED BY <1>1, <1>2, <1>3 DEF Slot

(* A revision has just been committed, or a run has just begun.            *)
Start ==
  /\ Ranges /\ DatabaseOK(db, born) /\ KeysFirst(db, rev) /\ Committed
  /\ work = db /\ plan = Calls(rev, target)

(* Where a run begins or ends, the whole invariant holds.                  *)
LEMMA Started == Start => IInv
<1> SUFFICES ASSUME Start PROVE IInv
  OBVIOUS
<1>1. /\ Ranges /\ DatabaseOK(db, born) /\ KeysFirst(db, rev) /\ Committed
      /\ work = db /\ plan = Calls(rev, target)
      /\ rev \in 0..3 /\ target \in 0..3 /\ (target < rev => target = rev - 1)
  BY DEF Start, Ranges
<1>2. Shape(db) /\ ColumnsPaired(db)
  BY <1>1 DEF DatabaseOK
<1>3. \A t \in Modelled : HasTable(db, t) <=> t \in Tables(rev)
  BY <1>1 DEF Committed
<1>4. \A q \in plan : CallOK(q, rev, target)
  <2>1. CASE rev < target
    BY <1>1, <2>1, UpgradeCalls
  <2>2. CASE target < rev
    BY <1>1, <2>2, DowngradeCalls
  <2>3. CASE target = rev
    BY <1>1, <2>3 DEF Calls
  <2> QED BY <1>1, <2>1, <2>2, <2>3
<1>5. \A t \in Modelled : /\ HasTable(db, t) => IdType(db, t) = IF rev = 3 THEN "int" ELSE "uuid"
                          /\ \A f \in Present(db, t) :
                               ColType(db, t, f) = IF rev = 3 THEN "int" ELSE "uuid"
  BY <1>1 DEF Committed, HasTable, IdType, ColType, Present
<1>6. InOrder
  BY <1>1 DEF InOrder
<1>7. TablesMade
  <2>1. ASSUME NEW t \in Tables(target), ~HasTable(db, t)
        PROVE  Pending("create_table", t) \/ Pending("create_tenants", t)
    <3>1. t \in Modelled /\ t \notin Tables(rev)
      BY <1>1, <1>3, <2>1, TablesOf
    <3>2. rev < target
      BY <1>1, <2>1, <3>1, TablesOf
    <3> QED BY <1>1, <2>1, <3>1, <3>2, UpgradeMakes DEF Pending
  <2>2. ASSUME NEW t \in Modelled, HasTable(db, t), t \notin Tables(target)
        PROVE  Pending("drop_table", t)
    <3>1. \/ rev = 1 /\ target = 0 /\ t # "tenants"
          \/ rev = 2 /\ target = 1 /\ t = "tenants"
      BY <1>1, <1>3, <2>2, TablesOf
    <3> QED BY <1>1, <3>1, DowngradeMakes DEF Pending
  <2> QED BY <1>1, <2>1, <2>2 DEF TablesMade
<1>8. TypesMade
  <2>1. ASSUME target = 3, rev < 3, NEW t \in Modelled
        PROVE  Pending("convert_pk", t) /\ \A f \in Links(t) : PendingKey("convert_fk", t, f)
    BY <1>1, <2>1, UpgradeMakes DEF Pending, PendingKey
  <2>2. ASSUME target = 2, rev = 3, NEW t \in Modelled
        PROVE  Pending("restore_pk", t) /\ \A f \in Links(t) : PendingKey("restore_fk", t, f)
    BY <1>1, <2>2, DowngradeMakes DEF Pending, PendingKey
  <2>3. ASSUME target = 3, NEW t \in Modelled
        PROVE  /\ HasTable(work, t) => IdType(work, t) = "int" \/ Pending("convert_pk", t)
               /\ \A f \in Present(work, t) :
                    ColType(work, t, f) = "int" \/ PendingKey("convert_fk", t, f)
    BY <1>1, <1>5, <2>1, <2>3 DEF Present
  <2>4. ASSUME target < 3, NEW t \in Modelled
        PROVE  /\ HasTable(work, t) => IdType(work, t) = "uuid" \/ Pending("restore_pk", t)
               /\ \A f \in Present(work, t) :
                    ColType(work, t, f) = "uuid" \/ PendingKey("restore_fk", t, f)
    BY <1>1, <1>5, <2>2, <2>4 DEF Present
  <2> QED BY <2>3, <2>4 DEF TypesMade
<1>9. TenantColumnsMade
  <2> SUFFICES ASSUME NEW t \in Modelled \ {"tenants"}
               PROVE  /\ target >= 2 => \/ TenantReference \in Present(work, t)
                                        \/ Pending("add_tenant_id_column", t)
                      /\ TenantReference \in Present(work, t) =>
                           target >= 2 \/ Pending("drop_tenant_id", t)
    BY DEF TenantColumnsMade
  <2>1. TenantReference \in Present(work, t) <=> rev >= 2
    BY <1>1 DEF Committed
  <2>2. ASSUME target >= 2, rev < 2 PROVE Pending("add_tenant_id_column", t)
    BY <1>1, <2>2, UpgradeMakes DEF Pending
  <2>3. ASSUME target < 2, rev >= 2 PROVE Pending("drop_tenant_id", t)
    <3>1. rev = 2 /\ target = 1
      BY <1>1, <2>3
    <3> QED BY <1>1, <3>1, DowngradeMakes DEF Pending
  <2> QED BY <1>1, <2>1, <2>2, <2>3
<1>10. \A i : i \in db.idx <=> \E t \in Tables(rev) : i \in IndexesOf(t)
  BY <1>1 DEF Committed
<1>11. db.legacyIndexes \subseteq db.idx /\ (rev = 3 => db.legacyIndexes = db.idx)
       /\ (rev < 3 => db.legacyIndexes = {})
  BY <1>1 DEF Committed
<1>12. IndexesMade
  <2>1. ASSUME NEW i \in db.idx
        PROVE  i.table \in Modelled /\ HasTable(db, i.table) /\ i \in IndexesOf(i.table)
    <3>1. PICK t \in Tables(rev) : i \in IndexesOf(t)
      BY <1>10
    <3>2. t \in Modelled
      BY <1>1, TablesOf
    <3> QED BY <1>3, <3>1, <3>2, IndexFacts
  <2>2. \A t \in Modelled : HasTable(db, t) => \A i \in IndexesOf(t) : i \in db.idx
    BY <1>3, <1>10
  <2> QED BY <1>1, <1>11, <2>1, <2>2 DEF IndexesMade
<1>13. IndexesRemembered
  <2> SUFFICES ASSUME NEW t \in Modelled, HasTable(db, t), NEW i \in IndexesOf(t)
               PROVE  /\ rev < 3 /\ target = 3 => \A c \in ToSet(i.cols) :
                           work.type[<<t, c>>] = "int" => i \in work.legacyIndexes
                      /\ rev = 3 =>
                           \/ i \in work.legacyIndexes
                           \/ target = 2 /\ \A q \in plan : q.do # "drop_legacy"
    BY <1>1 DEF IndexesRemembered
  <2>1. ASSUME rev < 3, NEW c \in ToSet(i.cols) PROVE work.type[<<t, c>>] = "uuid"
    <3>1. PICK f \in Present(db, t) : <<t, c>> = Slot(t, f)
      BY <1>2, IndexColumns
    <3> QED BY <1>1, <1>5, <2>1, <3>1 DEF ColType
  <2>2. rev = 3 => i \in work.legacyIndexes
    BY <1>1, <1>3, <1>10, <1>11
  <2> QED BY <2>1, <2>2
<1>14. Staged
  <2>1. rev < 3 => \A x \in DOMAIN work.type : work.type[x] = "uuid"
    BY <1>1 DEF Committed
  <2>2. ASSUME NEW t \in Modelled, Pending("restore_pk", t)
        PROVE  HasTable(work, t) /\ IdType(work, t) = "int"
    <3>1. rev = 3
      BY <1>4, <2>2 DEF Pending, CallOK
    <3> QED BY <1>1, <1>3, <1>5, <3>1, TablesOf
  <2>3. rev = 3 /\ target = 2 => Pending("drop_legacy", "tenants")
    BY <1>1, TablesOf, DowngradeMakes DEF Pending
  <2>4. rev < 3 => work.legacyIndexes = {}
    BY <1>1, <1>11
  <2> QED BY <2>1, <2>2, <2>3, <2>4 DEF Staged
<1> QED BY <1>1, <1>6, <1>7, <1>8, <1>9, <1>12, <1>13, <1>14 DEF IInv

(* The same of the next state.                                             *)
LEMMA StartedNext == Start' => IInv'
BY Started, PTL

(***************************************************************************)
(* One call of a run.                                                      *)
(***************************************************************************)

(* The due call o has succeeded.                                           *)
Made(o) ==
  /\ o \in Due /\ plan' = plan \ {o}
  /\ UNCHANGED <<db, rev, born, target, failed>>

(* What every successful call keeps.                                       *)
Kept(o) ==
  /\ CallOK(o, rev, target) /\ o \in plan /\ rev # target
  /\ rev \in 0..3 /\ target \in 0..3 /\ born \in 0..MaxBorn
  /\ target < rev => target = rev - 1
  /\ DatabaseOK(work, born) /\ KeysFirst(work, rev)
  /\ Ranges' /\ DatabaseOK(db, born)' /\ KeysFirst(db, rev)' /\ Committed' /\ InOrder'

(* The calls still to make.                                                *)
Ahead(o) ==
  /\ \A q \in plan' : CallOK(q, rev, target) /\ o.at <= q.at /\ q # o
  /\ \A q \in Calls(rev, target) : q.at > o.at => q \in plan'
  /\ \A name, t : Pending(name, t) /\ (name # o.do \/ t # o.t) => Pending(name, t)'
  /\ \A name, t : Pending(name, t)' => Pending(name, t)
  /\ \A name, t, f : PendingKey(name, t, f)
        /\ (name # o.do \/ t # o.t \/ f[1] # o.col \/ f[2] # o.parent) => PendingKey(name, t, f)'

(* Where a call can be, and the calls only a downgrade from 3 makes.       *)
LEMMA CallBasics ==
  ASSUME NEW q, NEW from, NEW to, CallOK(q, from, to)
  PROVE  /\ q.at \in Nat /\ q.t \in Modelled
         /\ q.do \in {"restore_pk", "restore_fk", "drop_legacy"} => from = 3
BY DEF CallOK

(* The invariant after a call, of what the call leaves alone, and of what  *)
(* it leaves to do.                                                        *)
LEMMA CallMade ==
  ASSUME IInv, NEW o, Made(o)
  PROVE  Kept(o) /\ Ahead(o)
<1>1. /\ Ranges /\ DatabaseOK(db, born) /\ KeysFirst(db, rev) /\ Committed /\ InOrder
      /\ DatabaseOK(work, born) /\ KeysFirst(work, rev)
  BY DEF IInv
<1>2. /\ rev \in 0..3 /\ target \in 0..3 /\ born \in 0..MaxBorn
      /\ target < rev => target = rev - 1
      /\ target = rev => plan = {}
  BY <1>1 DEF Ranges, Idle
<1>3. /\ o \in plan /\ \A q \in plan : o.at <= q.at
      /\ plan' = plan \ {o} /\ plan \subseteq Calls(rev, target) /\ rev # target
      /\ db' = db /\ rev' = rev /\ target' = target /\ failed' = failed /\ born' = born
  BY <1>1, <1>2 DEF Made, Due, InOrder
<1>4. \A q \in Calls(rev, target) : CallOK(q, rev, target)
  <2>1. CASE rev < target
    BY <1>2, <2>1, UpgradeCalls
  <2>2. CASE target < rev
    BY <1>2, <2>2, DowngradeCalls
  <2> QED BY <1>2, <1>3, <2>1, <2>2
<1>5. \A c \in Calls(rev, target) : c.at \in Nat
  BY <1>4, CallBasics
<1>6. Ranges'
  BY <1>1, <1>3 DEF Ranges, Idle
<1>7. DatabaseOK(db, born)' /\ KeysFirst(db, rev)'
  BY <1>1, <1>3
<1>8. Committed'
  BY <1>1, <1>3 DEF Committed
<1>9. InOrder'
  <2>1. \A c \in Calls(rev, target) \ plan' : \A q \in plan' : c.at <= q.at
    BY <1>1, <1>3 DEF InOrder
  <2>2. plan' \subseteq Calls(rev, target)
    BY <1>3
  <2>3. Calls(rev, target)' = Calls(rev, target)
    BY <1>3
  <2> QED BY <2>1, <2>2, <2>3 DEF InOrder
<1>10. \A q \in Calls(rev, target) : q.at > o.at => q \in plan'
  <2> SUFFICES ASSUME NEW q \in Calls(rev, target), q.at > o.at PROVE q \in plan'
    OBVIOUS
  <2>1. q \notin plan => q.at <= o.at
    BY <1>1, <1>3 DEF InOrder
  <2>2. q.at \in Nat /\ o.at \in Nat
    BY <1>3, <1>5
  <2> QED BY <1>3, <2>1, <2>2
<1>11. \A name, t : Pending(name, t) /\ (name # o.do \/ t # o.t) => Pending(name, t)'
  BY <1>3 DEF Pending
<1>12. \A name, t : Pending(name, t)' => Pending(name, t)
  BY <1>3 DEF Pending
<1>13. \A name, t, f : PendingKey(name, t, f)
        /\ (name # o.do \/ t # o.t \/ f[1] # o.col \/ f[2] # o.parent) => PendingKey(name, t, f)'
  BY <1>3 DEF PendingKey
<1>14. Kept(o)
  BY <1>1, <1>2, <1>3, <1>4, <1>6, <1>7, <1>8, <1>9 DEF Kept
<1>15. Ahead(o)
  BY <1>3, <1>4, <1>10, <1>11, <1>12, <1>13 DEF Ahead
<1> QED BY <1>14, <1>15

(* A call that fails leaves the database as it was committed.              *)
LEMMA CallFailed ==
  ASSUME IInv, work' = db, plan' = {}, target' = rev, failed' \in BOOLEAN,
         UNCHANGED <<db, rev, born>>
  PROVE  IInv'
<1>1. Ranges /\ DatabaseOK(db, born) /\ KeysFirst(db, rev) /\ Committed
  BY DEF IInv
<1>2. Ranges' /\ Committed' /\ Calls(rev, target)' = {}
  BY <1>1 DEF Ranges, Idle, Committed, Calls
<1>3. Start'
  BY <1>1, <1>2 DEF Start
<1> QED BY <1>3, StartedNext

(* At revisions 0 to 2, and before the conversion of a longer run, every   *)
(* key is a uuid.                                                          *)
LEMMA StillUuids ==
  ASSUME IInv, rev < 3, \/ target < 3
                        \/ \E q \in plan : q.at < 200
  PROVE  AllUuids(work) /\ UuidsOK(work, born)
<1>1. /\ Ranges /\ DatabaseOK(work, born) /\ KeysFirst(work, rev) /\ TypesMade /\ Staged
      /\ InOrder
  BY DEF IInv
<1>2. rev \in 0..3 /\ target \in 0..3 /\ (target < rev => target = rev - 1)
      /\ (target = rev => plan = {})
  BY <1>1 DEF Ranges, Idle
<1>3. \A q \in plan : CallOK(q, rev, target)
  <2>1. CASE rev < target
    BY <1>1, <1>2, <2>1, UpgradeCalls DEF InOrder
  <2>2. CASE target < rev
    BY <1>1, <1>2, <2>2, DowngradeCalls DEF InOrder
  <2> QED BY <1>2, <2>1, <2>2
<1>4. AllUuids(work)
  <2>1. CASE target = 3
    BY <1>1, <2>1 DEF Staged, AllUuids
  <2>2. CASE target < 3
    <3> SUFFICES ASSUME NEW x \in DOMAIN work.type PROVE work.type[x] = "uuid"
      BY DEF AllUuids
    <3>1. /\ x[1] \in Modelled
          /\ \/ HasTable(work, x[1]) /\ x = <<x[1], "id">>
             \/ \E f \in Present(work, x[1]) : x = Slot(x[1], f)
      BY <1>1, ColumnKinds DEF DatabaseOK
    <3>2. \A q \in plan : q.do # "restore_pk" /\ q.do # "restore_fk"
      BY <1>2, <1>3, CallBasics
    <3>3. \A u, f : ~Pending("restore_pk", u) /\ ~PendingKey("restore_fk", u, f)
      BY <3>2 DEF Pending, PendingKey
    <3> QED BY <1>1, <2>2, <3>1, <3>2, <3>3 DEF TypesMade, IdType, ColType
  <2> QED BY <1>2, <2>1, <2>2
<1> QED BY <1>1, <1>4, UuidDatabase

(***************************************************************************)
(* The calls of the first two revisions.                                   *)
(***************************************************************************)
SchemaCalls == {"create_table", "create_tenants", "add_tenant_id_column", "drop_table",
                "drop_tenant_id"}

(* Where each of them occurs.                                              *)
LEMMA SchemaCall ==
  ASSUME NEW q, NEW from \in 0..3, NEW to \in 0..3, CallOK(q, from, to), q.do \in SchemaCalls
  PROVE  /\ from < 3 /\ (to < 3 \/ q.at < 200)
         /\ q.do = "create_table" => q.t # "tenants" /\ from < to
         /\ q.do = "create_tenants" => q.t = "tenants" /\ 2 <= to
         /\ q.do = "add_tenant_id_column" => q.t # "tenants" /\ 2 <= to
         /\ q.do = "drop_table" => to = from - 1 /\ (from = 2 => q.t = "tenants")
         /\ q.do = "drop_tenant_id" => q.t # "tenants" /\ from = 2 /\ to = 1
BY DEF CallOK, SchemaCalls

(* What such a call has before it, and what it leaves true.                *)
LEMMA SchemaStep ==
  ASSUME IInv, NEW o, Made(o), o.do \in SchemaCalls
  PROVE  /\ UuidsOK(work, born)
         /\ UuidsOK(work', born) /\ work'.legacyIndexes = work.legacyIndexes =>
              /\ DatabaseOK(work, born)' /\ KeysFirst(work, rev)'
              /\ TypesMade' /\ IndexesRemembered' /\ Staged'
<1>1. Kept(o) /\ Ahead(o)
  BY CallMade
<1>2. /\ CallOK(o, rev, target) /\ o \in plan /\ rev # target
      /\ rev \in 0..3 /\ target \in 0..3
      /\ rev' = rev /\ target' = target /\ born' = born
  BY <1>1 DEF Kept, Made
<1>3. rev < 3 /\ (target < 3 \/ o.at < 200) /\ o.at \in Nat
  BY <1>2, SchemaCall, CallBasics
<1>4. UuidsOK(work, born)
  BY <1>2, <1>3, StillUuids
<1>5. ASSUME UuidsOK(work', born), work'.legacyIndexes = work.legacyIndexes
      PROVE  /\ DatabaseOK(work, born)' /\ KeysFirst(work, rev)'
             /\ TypesMade' /\ IndexesRemembered' /\ Staged'
  <2>1. DatabaseOK(work', born) /\ KeysFirst(work', rev)
    BY <1>5, UuidsAreOK
  <2>2. AllUuids(work') /\ ColumnsPaired(work')
    BY <1>5 DEF UuidsOK
  <2>3. \A t \in Modelled : /\ HasTable(work', t) => IdType(work', t) = "uuid"
                            /\ \A f \in Present(work', t) : ColType(work', t, f) = "uuid"
    BY <2>2, UuidTypes
  <2>4. ASSUME target = 3, NEW t \in Modelled
        PROVE  Pending("convert_pk", t)' /\ \A f \in Links(t) : PendingKey("convert_fk", t, f)'
    <3>1. Step(Pos(t)) \in Nat /\ o.at < 200
      BY <1>3, <2>4, TablePlaces DEF Step
    <3>2. \A q \in Calls(rev, target) : q.at > o.at => q \in plan'
      BY <1>1 DEF Ahead
    <3>3. \E q \in Calls(rev, target) :
             q.do = "convert_pk" /\ q.t = t /\ q.at = 209 + Step(Pos(t))
      BY <1>2, <1>3, <2>4, UpgradeMakes
    <3>4. \A f \in Links(t) : \E q \in Calls(rev, target) :
             /\ q.do = "convert_fk" /\ q.t = t /\ q.col = f[1] /\ q.parent = f[2]
             /\ \E k \in 1..3 : q.at = 200 + Step(Pos(t)) + k
      BY <1>2, <1>3, <2>4, UpgradeMakes
    <3>5. Pending("convert_pk", t)'
      <4>1. PICK q \in Calls(rev, target) :
               q.do = "convert_pk" /\ q.t = t /\ q.at = 209 + Step(Pos(t))
        BY <3>3
      <4>2. q \in plan'
        BY <1>3, <3>1, <3>2, <4>1
      <4> QED BY <4>1, <4>2 DEF Pending
    <3>6. ASSUME NEW f \in Links(t) PROVE PendingKey("convert_fk", t, f)'
      <4>1. PICK q \in Calls(rev, target) :
               /\ q.do = "convert_fk" /\ q.t = t /\ q.col = f[1] /\ q.parent = f[2]
               /\ \E k \in 1..3 : q.at = 200 + Step(Pos(t)) + k
        BY <3>4
      <4>2. q \in plan'
        BY <1>3, <3>1, <3>2, <4>1
      <4> QED BY <4>1, <4>2 DEF PendingKey
    <3> QED BY <3>5, <3>6
  <2>5. TypesMade'
    BY <1>2, <2>3, <2>4 DEF TypesMade, Present
  <2>6. IndexesRemembered'
    <3> SUFFICES ASSUME NEW t \in Modelled, HasTable(work', t), NEW i \in IndexesOf(t),
                        NEW c \in ToSet(i.cols)
                 PROVE  work'.type[<<t, c>>] = "uuid"
      BY <1>2, <1>3 DEF IndexesRemembered
    <3>1. PICK f \in Present(work', t) : <<t, c>> = Slot(t, f)
      BY <2>2, IndexColumns
    <3> QED BY <2>3, <3>1 DEF ColType
  <2>7. Staged'
    <3>1. \A x \in DOMAIN work'.type : work'.type[x] = "uuid"
      BY <2>2 DEF AllUuids
    <3>2. \A t : ~Pending("restore_pk", t)'
      <4>1. \A q \in plan' : q.do # "restore_pk"
        BY <1>1, <1>2, <1>3, CallBasics DEF Ahead
      <4> QED BY <4>1 DEF Pending
    <3>3. rev < 3 /\ target < 3 => work.legacyIndexes = {}
      BY DEF IInv, Staged
    <3> QED BY <1>2, <1>3, <1>5, <3>1, <3>2, <3>3 DEF Staged
  <2> QED BY <1>2, <2>1, <2>5, <2>6, <2>7
<1> QED BY <1>4, <1>5

(* What is left to show of a successful call.                              *)
LEMMA StepComplete ==
  ASSUME IInv, NEW o, Made(o), DatabaseOK(work, born)', KeysFirst(work, rev)',
         TablesMade', TypesMade', Staged', TenantColumnsMade', IndexesMade', IndexesRemembered'
  PROVE  IInv'
<1>1. Ranges' /\ DatabaseOK(db, born)' /\ KeysFirst(db, rev)' /\ Committed' /\ InOrder'
  BY CallMade DEF Kept
<1> QED BY <1>1 DEF IInv

(* A call ends in one of two ways.                                         *)
LEMMA CallEnds ==
  ASSUME IInv, NEW o \in Due, NEW succeeds, NEW after, Execute(o, succeeds, after),
         succeeds /\ Made(o) /\ work' = after => IInv'
  PROVE  IInv'
<1>1. CASE succeeds
  BY <1>1 DEF Execute, Made
<1>2. CASE ~succeeds
  BY <1>2, CallFailed DEF Execute
<1> QED BY <1>1, <1>2

(* The tables and the tenant columns are made while calls for the others   *)
(* are ahead.                                                              *)
LEMMA CreateTableKeeps ==
  ASSUME IInv, NEW o \in Due, CreateTable(o)
  PROVE  IInv'
<1> DEFINE keys == {DefaultFkey(o.t, f) : f \in ToSet(References(o.t))}
           columns == {<<o.t, f[1]>> : f \in ToSet(References(o.t))} \cup {<<o.t, "id">>}
           succeeds == ~HasTable(work, o.t) /\ \A f \in keys : HasTable(work, f.parent)
           after == [work EXCEPT
             !.type = [x \in DOMAIN @ \cup columns |-> IF x \in columns THEN "uuid" ELSE @[x]],
             !.fks = @ \cup keys,
             !.idx = @ \cup IndexesOf(o.t)]
<1>1. o.do = "create_table" /\ Execute(o, succeeds, after)
  BY DEF CreateTable
<1>2. ASSUME succeeds, Made(o), work' = after PROVE IInv'
  <2>1. Kept(o) /\ Ahead(o)
    BY <1>2, CallMade
  <2>2. /\ o.t \in Modelled /\ o.t # "tenants" /\ rev < target
        /\ rev \in 0..3 /\ target \in 0..3 /\ target' = target /\ rev' = rev
    BY <1>1, <1>2, <2>1, CallBasics, SchemaCall DEF Kept, Made, SchemaCalls
  <2>3. UuidsOK(work, born)
    BY <1>1, <1>2, SchemaStep DEF SchemaCalls
  <2>4. Shape(work) /\ AllUuids(work) /\ DOMAIN work = Fields
    BY <2>3 DEF UuidsOK, Shape
  <2>5. /\ DOMAIN work' = Fields
        /\ work'.type = [x \in DOMAIN work.type \cup columns |->
                           IF x \in columns THEN "uuid" ELSE work.type[x]]
        /\ work'.rows = work.rows /\ work'.seq = work.seq /\ work'.legacyIds = work.legacyIds
        /\ work'.legacyIndexes = work.legacyIndexes
        /\ work'.fks = work.fks \cup keys /\ work'.idx = work.idx \cup IndexesOf(o.t)
    BY <1>2, <2>4 DEF Fields
  <2>6. MakesTable(work, work', o.t)
    <3>1. \A f \in ToSet(References(o.t)) : HasTable(work, f[2])
      <4>1. \A f : DefaultFkey(o.t, f).parent = f[2]
        BY DEF DefaultFkey, ForeignKey
      <4>2. \A f \in ToSet(References(o.t)) : HasTable(work, DefaultFkey(o.t, f).parent)
        BY <1>2
      <4> QED BY <4>1, <4>2
    <3>2. /\ DOMAIN work'.type = DOMAIN work.type \cup {<<o.t, f[1]>> : f \in ToSet(References(o.t))}
                                                  \cup {<<o.t, "id">>}
          /\ \A x \in DOMAIN work'.type : work'.type[x] = "uuid"
      BY <2>4, <2>5 DEF AllUuids
    <3> QED BY <1>2, <2>2, <2>5, <3>1, <3>2 DEF MakesTable
  <2> HIDE DEF keys, columns, succeeds, after
  <2>7. /\ UuidsOK(work', born)
        /\ \A u \in Modelled : HasTable(work', u) <=> HasTable(work, u) \/ u = o.t
        /\ \A u \in Modelled : TenantReference \in Present(work', u) <=>
                               TenantReference \in Present(work, u)
    BY <2>2, <2>3, <2>6, TableMade
  <2>8. /\ DatabaseOK(work, born)' /\ KeysFirst(work, rev)'
        /\ TypesMade' /\ IndexesRemembered' /\ Staged'
    BY <1>1, <1>2, <2>5, <2>7, SchemaStep DEF SchemaCalls
  <2>9. /\ \A name, t : Pending(name, t) /\ (name # o.do \/ t # o.t) => Pending(name, t)'
    BY <2>1 DEF Ahead
  <2>10. TablesMade /\ TenantColumnsMade /\ IndexesMade
    BY DEF IInv
  <2>11. TablesMade'
    <3>1. Tables(target) \subseteq Modelled /\ o.t \in Tables(target)
      BY <2>2, TablesOf
    <3>2. ASSUME NEW t \in Tables(target), t # o.t
          PROVE  HasTable(work', t) \/ Pending("create_table", t)' \/ Pending("create_tenants", t)'
      BY <1>1, <2>7, <2>9, <2>10, <3>1, <3>2 DEF TablesMade
    <3>3. ASSUME NEW t \in Modelled, HasTable(work', t)
          PROVE  t \in Tables(target) \/ Pending("drop_table", t)'
      BY <1>1, <2>7, <2>9, <2>10, <3>1, <3>3 DEF TablesMade
    <3> QED BY <2>2, <2>7, <3>1, <3>2, <3>3 DEF TablesMade
  <2>12. TenantColumnsMade'
    BY <1>1, <2>2, <2>7, <2>9, <2>10 DEF TenantColumnsMade
  <2>13. IndexesMade'
    <3>1. ASSUME NEW i \in work'.idx \cup work'.legacyIndexes
          PROVE  /\ i.table \in Modelled /\ HasTable(work', i.table)
                 /\ i \in IndexesOf(i.table)
      <4>1. CASE i \in IndexesOf(o.t)
        BY <2>2, <2>7, <4>1, IndexFacts
      <4>2. CASE i \in work.idx \cup work.legacyIndexes
        BY <2>7, <2>10, <4>2 DEF IndexesMade
      <4> QED BY <2>5, <4>1, <4>2
    <3>2. ASSUME NEW t \in Modelled, HasTable(work', t), NEW i \in IndexesOf(t)
          PROVE  i \in work'.idx \/ (i \in work'.legacyIndexes /\ Pending("recreate_indexes", t)')
      BY <1>1, <2>5, <2>7, <2>9, <2>10, <3>2 DEF IndexesMade
    <3> QED BY <3>1, <3>2 DEF IndexesMade
  <2> QED BY <1>2, <2>8, <2>11, <2>12, <2>13, StepComplete
<1> HIDE DEF succeeds, after
<1> QED BY <1>1, <1>2, CallEnds

(* A table is dropped when nothing else refers to it.                      *)
LEMMA DropTableKeeps ==
  ASSUME IInv, NEW o \in Due, DropTable(o)
  PROVE  IInv'
<1> DEFINE succeeds == /\ HasTable(work, o.t)
                       /\ {i \in IndexesOf(o.t) : i.name = "ix"} \subseteq work.idx
                       /\ \A f \in work.fks : f.parent # o.t \/ f.child = o.t
           after == [work EXCEPT
             !.type = Without(@, {x \in DOMAIN @ : x[1] = o.t}),
             !.rows[o.t] = {}, !.seq[o.t] = 0,
             !.fks = {f \in @ : f.child # o.t},
             !.idx = {i \in @ : i.table # o.t}]
<1>1. o.do = "drop_table" /\ Execute(o, succeeds, after)
  BY DEF DropTable
<1>2. ASSUME succeeds, Made(o), work' = after PROVE IInv'
  <2>1. Kept(o) /\ Ahead(o)
    BY <1>2, CallMade
  <2>2. /\ o.t \in Modelled /\ target = rev - 1 /\ rev < 3 /\ (rev = 2 => o.t = "tenants")
        /\ rev \in 0..3 /\ target \in 0..3 /\ target' = target /\ rev' = rev
    BY <1>1, <1>2, <2>1, CallBasics, SchemaCall DEF Kept, Made, SchemaCalls
  <2>3. UuidsOK(work, born)
    BY <1>1, <1>2, SchemaStep DEF SchemaCalls
  <2>4. Shape(work) /\ DOMAIN work = Fields
    BY <2>3 DEF UuidsOK, Shape
  <2>5. /\ DOMAIN work' = Fields
        /\ work'.type = Without(work.type, {x \in DOMAIN work.type : x[1] = o.t})
        /\ work'.rows = [work.rows EXCEPT ![o.t] = {}]
        /\ work'.seq = [work.seq EXCEPT ![o.t] = 0]
        /\ work'.legacyIds = work.legacyIds
        /\ work'.legacyIndexes = work.legacyIndexes
        /\ work'.fks = {f \in work.fks : f.child # o.t}
        /\ work'.idx = {i \in work.idx : i.table # o.t}
    BY <1>2, <2>4 DEF Fields
  <2>6. DropsTable(work, work', o.t)
    BY <1>2, <2>5 DEF DropsTable
  <2> HIDE DEF succeeds, after
  <2>7. /\ UuidsOK(work', born)
        /\ \A u \in Modelled : HasTable(work', u) <=> HasTable(work, u) /\ u # o.t
        /\ \A u \in Modelled : TenantReference \in Present(work', u) <=>
                               TenantReference \in Present(work, u) /\ u # o.t
    BY <2>2, <2>3, <2>6, TableDropped
  <2>8. /\ DatabaseOK(work, born)' /\ KeysFirst(work, rev)'
        /\ TypesMade' /\ IndexesRemembered' /\ Staged'
    BY <1>1, <1>2, <2>5, <2>7, SchemaStep DEF SchemaCalls
  <2>9. \A name, t : Pending(name, t) /\ (name # o.do \/ t # o.t) => Pending(name, t)'
    BY <2>1 DEF Ahead
  <2>10. TablesMade /\ TenantColumnsMade /\ IndexesMade /\ Staged
    BY DEF IInv
  <2>11. TablesMade'
    <3>1. Tables(target) \subseteq Modelled /\ o.t \notin Tables(target)
      BY <2>2, TablesOf
    <3> QED BY <1>1, <2>2, <2>7, <2>9, <2>10, <3>1 DEF TablesMade
  <2>12. TenantColumnsMade'
    BY <1>1, <2>2, <2>7, <2>9, <2>10 DEF TenantColumnsMade
  <2>13. IndexesMade'
    <3>0. work.legacyIndexes = {}
      BY <2>2, <2>10 DEF Staged
    <3>1. ASSUME NEW i \in work'.idx \cup work'.legacyIndexes
          PROVE  /\ i.table \in Modelled /\ HasTable(work', i.table)
                 /\ i \in IndexesOf(i.table)
      BY <2>5, <2>7, <2>10, <3>0 DEF IndexesMade
    <3>2. ASSUME NEW t \in Modelled, HasTable(work', t), NEW i \in IndexesOf(t)
          PROVE  i \in work'.idx \/ (i \in work'.legacyIndexes /\ Pending("recreate_indexes", t)')
      <4>1. i.table = t /\ t # o.t
        BY <2>7, <3>2, IndexFacts
      <4> QED BY <1>1, <2>5, <2>7, <2>9, <2>10, <3>0, <3>2, <4>1 DEF IndexesMade
    <3> QED BY <3>1, <3>2 DEF IndexesMade
  <2> QED BY <1>2, <2>8, <2>11, <2>12, <2>13, StepComplete
<1> HIDE DEF succeeds, after
<1> QED BY <1>1, <1>2, CallEnds

(* The default tenant is there with its table.                             *)
LEMMA CreateTenantsKeeps ==
  ASSUME IInv, NEW o \in Due, CreateTenants(o)
  PROVE  IInv'
<1> DEFINE after == [work EXCEPT !.type = Extended(@, <<"tenants", "id">>, "uuid"),
                                 !.rows["tenants"] = {Default}]
<1>1. o.do = "create_tenants" /\ Execute(o, ~HasTable(work, "tenants"), after)
  BY DEF CreateTenants
<1>2. ASSUME ~HasTable(work, "tenants"), Made(o), work' = after PROVE IInv'
  <2>1. Kept(o) /\ Ahead(o)
    BY <1>2, CallMade
  <2>2. /\ o.t = "tenants" /\ 2 <= target /\ born \in 0..MaxBorn
        /\ rev \in 0..3 /\ target \in 0..3 /\ target' = target /\ rev' = rev
    BY <1>1, <1>2, <2>1, SchemaCall DEF Kept, Made, SchemaCalls
  <2>3. UuidsOK(work, born)
    BY <1>1, <1>2, SchemaStep DEF SchemaCalls
  <2>4. Shape(work) /\ DOMAIN work = Fields
    BY <2>3 DEF UuidsOK, Shape
  <2>5. /\ DOMAIN work' = Fields
        /\ work'.type = Extended(work.type, <<"tenants", "id">>, "uuid")
        /\ work'.rows = [work.rows EXCEPT !["tenants"] = {Default}]
        /\ work'.seq = work.seq /\ work'.legacyIds = work.legacyIds
        /\ work'.legacyIndexes = work.legacyIndexes
        /\ work'.fks = work.fks /\ work'.idx = work.idx
    BY <1>2, <2>4 DEF Fields
  <2>6. MakesTenants(work, work')
    BY <1>2, <2>5 DEF MakesTenants
  <2> HIDE DEF after
  <2>7. /\ UuidsOK(work', born)
        /\ \A u \in Modelled : HasTable(work', u) <=> HasTable(work, u) \/ u = "tenants"
        /\ \A u \in Modelled : Present(work', u) = Present(work, u)
    BY <2>2, <2>3, <2>6, TenantsMade
  <2>8. /\ DatabaseOK(work, born)' /\ KeysFirst(work, rev)'
        /\ TypesMade' /\ IndexesRemembered' /\ Staged'
    BY <1>1, <1>2, <2>5, <2>7, SchemaStep DEF SchemaCalls
  <2>9. \A name, t : Pending(name, t) /\ (name # o.do \/ t # o.t) => Pending(name, t)'
    BY <2>1 DEF Ahead
  <2>10. TablesMade /\ TenantColumnsMade /\ IndexesMade
    BY DEF IInv
  <2>11. TablesMade'
    <3>1. Tables(target) \subseteq Modelled /\ "tenants" \in Tables(target)
      BY <2>2, TablesOf
    <3> QED BY <1>1, <2>2, <2>7, <2>9, <2>10, <3>1 DEF TablesMade
  <2>12. TenantColumnsMade'
    BY <1>1, <2>2, <2>7, <2>9, <2>10 DEF TenantColumnsMade
  <2>13. IndexesMade'
    <3>1. \A i : i \notin IndexesOf("tenants")
      <4>1. ASSUME NEW i \in IndexesOf("tenants") PROVE FALSE
        <5>1. "tenants" \in Modelled
          BY TablesOf
        <5>2. PICK c : \E f \in ToSet(References("tenants")) : f[1] = c
          BY <5>1, IndexFacts
        <5>3. ToSet(References("tenants")) \subseteq Links("tenants")
          BY <5>1, LinkFacts
        <5> QED BY <5>1, <5>2, <5>3, LinkFacts
      <4> QED BY <4>1
    <3> QED BY <1>1, <2>5, <2>7, <2>9, <2>10, <3>1 DEF IndexesMade
  <2> QED BY <1>2, <2>8, <2>11, <2>12, <2>13, StepComplete
<1> HIDE DEF after
<1> QED BY <1>1, <1>2, CallEnds

(* Each row gets the default tenant, which is there.                       *)
LEMMA AddTenantIdKeeps ==
  ASSUME IInv, NEW o \in Due, AddTenantId(o)
  PROVE  IInv'
<1> DEFINE after == [work EXCEPT !.type = Extended(@, <<o.t, "tenant_id">>, "uuid"),
                                 !.rows[o.t] = {WithTenant(r) : r \in @},
                                 !.fks = @ \cup {TenantFk(o.t)}]
<1>1. o.do = "add_tenant_id_column" /\ Execute(o, Satisfied(after, TenantFk(o.t)), after)
  BY DEF AddTenantId, WithTenant
<1>2. ASSUME Satisfied(after, TenantFk(o.t)), Made(o), work' = after PROVE IInv'
  <2>1. Kept(o) /\ Ahead(o)
    BY <1>2, CallMade
  <2>2. /\ o.t \in Modelled /\ o.t # "tenants" /\ 2 <= target /\ born \in 0..MaxBorn
        /\ rev \in 0..3 /\ target \in 0..3 /\ target' = target /\ rev' = rev
    BY <1>1, <1>2, <2>1, CallBasics, SchemaCall DEF Kept, Made, SchemaCalls
  <2>3. UuidsOK(work, born)
    BY <1>1, <1>2, SchemaStep DEF SchemaCalls
  <2>4. Shape(work) /\ DOMAIN work = Fields /\ DOMAIN work.rows = Modelled
    BY <2>3 DEF UuidsOK, Shape
  <2>5. /\ DOMAIN work' = Fields
        /\ work'.type = Extended(work.type, <<o.t, "tenant_id">>, "uuid")
        /\ work'.rows = [work.rows EXCEPT ![o.t] = {WithTenant(r) : r \in work.rows[o.t]}]
        /\ work'.seq = work.seq /\ work'.legacyIds = work.legacyIds
        /\ work'.legacyIndexes = work.legacyIndexes
        /\ work'.fks = work.fks \cup {TenantFk(o.t)} /\ work'.idx = work.idx
    BY <1>2, <2>2, <2>4 DEF Fields
  <2> HIDE DEF after
  <2>6. AddsTenantId(work, work', o.t)
    BY <1>2, <2>2, <2>5 DEF AddsTenantId
  <2>7. /\ UuidsOK(work', born)
        /\ \A u \in Modelled : HasTable(work', u) <=> HasTable(work, u)
        /\ \A u \in Modelled : TenantReference \in Present(work', u) <=>
                               TenantReference \in Present(work, u) \/ u = o.t
    BY <2>2, <2>3, <2>6, TenantIdAdded
  <2>8. /\ DatabaseOK(work, born)' /\ KeysFirst(work, rev)'
        /\ TypesMade' /\ IndexesRemembered' /\ Staged'
    BY <1>1, <1>2, <2>5, <2>7, SchemaStep DEF SchemaCalls
  <2>9. \A name, t : Pending(name, t) /\ (name # o.do \/ t # o.t) => Pending(name, t)'
    BY <2>1 DEF Ahead
  <2>10. TablesMade /\ TenantColumnsMade /\ IndexesMade
    BY DEF IInv
  <2>11. TablesMade'
    <3>1. Tables(target) \subseteq Modelled
      BY <2>2, TablesOf
    <3> QED BY <1>1, <2>2, <2>7, <2>9, <2>10, <3>1 DEF TablesMade
  <2>12. TenantColumnsMade'
    BY <1>1, <2>2, <2>7, <2>9, <2>10 DEF TenantColumnsMade
  <2>13. IndexesMade'
    BY <1>1, <2>5, <2>7, <2>9, <2>10 DEF IndexesMade
  <2> QED BY <1>2, <2>8, <2>11, <2>12, <2>13, StepComplete
<1> HIDE DEF after
<1> QED BY <1>1, <1>2, CallEnds

(* And loses it on the way down.                                           *)
LEMMA DropTenantIdKeeps ==
  ASSUME IInv, NEW o \in Due, DropTenantId(o)
  PROVE  IInv'
<1> DEFINE after == [work EXCEPT !.type = Without(@, {<<o.t, "tenant_id">>}),
                                 !.rows[o.t] = {WithoutTenant(r) : r \in @},
                                 !.fks = @ \ {TenantFk(o.t)}]
<1>1. o.do = "drop_tenant_id" /\ Execute(o, TenantFk(o.t) \in work.fks, after)
  BY DEF DropTenantId, WithoutTenant
<1>2. ASSUME TenantFk(o.t) \in work.fks, Made(o), work' = after PROVE IInv'
  <2>1. Kept(o) /\ Ahead(o)
    BY <1>2, CallMade
  <2>2. /\ o.t \in Modelled /\ o.t # "tenants" /\ rev = 2 /\ target = 1 /\ born \in 0..MaxBorn
        /\ target' = target /\ rev' = rev
    BY <1>1, <1>2, <2>1, CallBasics, SchemaCall DEF Kept, Made, SchemaCalls
  <2>3. UuidsOK(work, born)
    BY <1>1, <1>2, SchemaStep DEF SchemaCalls
  <2>4. Shape(work) /\ DOMAIN work = Fields /\ DOMAIN work.rows = Modelled
    BY <2>3 DEF UuidsOK, Shape
  <2>5. /\ DOMAIN work' = Fields
        /\ work'.type = Without(work.type, {<<o.t, "tenant_id">>})
        /\ work'.rows = [work.rows EXCEPT ![o.t] = {WithoutTenant(r) : r \in work.rows[o.t]}]
        /\ work'.seq = work.seq /\ work'.legacyIds = work.legacyIds
        /\ work'.legacyIndexes = work.legacyIndexes
        /\ work'.fks = work.fks \ {TenantFk(o.t)} /\ work'.idx = work.idx
    BY <1>2, <2>2, <2>4 DEF Fields
  <2> HIDE DEF after
  <2>6. DropsTenantId(work, work', o.t)
    BY <2>2, <2>5 DEF DropsTenantId
  <2>7. /\ UuidsOK(work', born)
        /\ \A u \in Modelled : HasTable(work', u) <=> HasTable(work, u)
        /\ \A u \in Modelled : TenantReference \in Present(work', u) <=>
                               TenantReference \in Present(work, u) /\ u # o.t
    BY <2>2, <2>3, <2>6, TenantIdDropped
  <2>8. /\ DatabaseOK(work, born)' /\ KeysFirst(work, rev)'
        /\ TypesMade' /\ IndexesRemembered' /\ Staged'
    BY <1>1, <1>2, <2>5, <2>7, SchemaStep DEF SchemaCalls
  <2>9. \A name, t : Pending(name, t) /\ (name # o.do \/ t # o.t) => Pending(name, t)'
    BY <2>1 DEF Ahead
  <2>10. TablesMade /\ TenantColumnsMade /\ IndexesMade
    BY DEF IInv
  <2>11. TablesMade'
    <3>1. Tables(target) \subseteq Modelled
      BY <2>2, TablesOf
    <3> QED BY <1>1, <2>2, <2>7, <2>9, <2>10, <3>1 DEF TablesMade
  <2>12. TenantColumnsMade'
    BY <1>1, <2>2, <2>7, <2>9, <2>10 DEF TenantColumnsMade
  <2>13. IndexesMade'
    BY <1>1, <2>5, <2>7, <2>9, <2>10 DEF IndexesMade
  <2> QED BY <1>2, <2>8, <2>11, <2>12, <2>13, StepComplete
<1> HIDE DEF after
<1> QED BY <1>1, <1>2, CallEnds

(***************************************************************************)
(* The calls of the third revision.                                        *)
(***************************************************************************)
ConversionCalls == {"convert_pk", "convert_fk", "recreate_indexes", "restore_pk",
                    "restore_fk", "drop_legacy"}

(* ALTER COLUMN ... TYPE of a key.                                         *)
LEMMA KeyRetyped ==
  ASSUME NEW d, NEW e, NEW t \in Modelled, HasTable(d, t), NEW kind,
         e.type = [d.type EXCEPT ![<<t, "id">>] = kind]
  PROVE  /\ \A u \in Modelled : Present(e, u) = Present(d, u) /\ (HasTable(e, u) <=> HasTable(d, u))
         /\ IdType(e, t) = kind
         /\ \A u \in Modelled : u # t /\ HasTable(d, u) => IdType(e, u) = IdType(d, u)
         /\ \A u \in Modelled : \A f \in Present(d, u) : ColType(e, u, f) = ColType(d, u, f)
<1>1. /\ DOMAIN e.type = DOMAIN d.type /\ <<t, "id">> \in DOMAIN d.type
      /\ e.type[<<t, "id">>] = kind
  BY DEF HasTable
<1>2. \A x \in DOMAIN d.type : x # <<t, "id">> => e.type[x] = d.type[x]
  OBVIOUS
<1>3. \A u \in Modelled : \A f \in Links(u) : Slot(u, f) # <<t, "id">>
  BY LinkFacts DEF Slot
<1> QED BY <1>1, <1>2, <1>3 DEF Present, HasTable, IdType, ColType

(* And of a column.                                                        *)
LEMMA ColumnRetyped ==
  ASSUME NEW d, NEW e, NEW t \in Modelled, NEW f \in Present(d, t), NEW kind,
         e.type = [d.type EXCEPT ![Slot(t, f)] = kind]
  PROVE  /\ \A u \in Modelled : Present(e, u) = Present(d, u) /\ (HasTable(e, u) <=> HasTable(d, u))
         /\ ColType(e, t, f) = kind
         /\ \A u \in Modelled : HasTable(d, u) => IdType(e, u) = IdType(d, u)
         /\ \A u \in Modelled : \A g \in Present(d, u) :
              u # t \/ g # f => ColType(e, u, g) = ColType(d, u, g)
<1>1. DOMAIN e.type = DOMAIN d.type /\ Slot(t, f) \in DOMAIN d.type /\ e.type[Slot(t, f)] = kind
  BY DEF Present
<1>2. \A x \in DOMAIN d.type : x # Slot(t, f) => e.type[x] = d.type[x]
  OBVIOUS
<1>3. \A u \in Modelled : <<u, "id">> # Slot(t, f)
  BY LinkFacts DEF Slot, Present
<1>4. \A u \in Modelled : \A g \in Present(d, u) : u # t \/ g # f => Slot(u, g) # Slot(t, f)
  <2> TAKE u \in Modelled
  <2> TAKE g \in Present(d, u)
  <2>1. u = t /\ g[1] = f[1] => g = f
    BY LinkFacts DEF Present
  <2> QED BY <2>1 DEF Slot
<1> QED BY <1>1, <1>2, <1>3, <1>4 DEF Present, HasTable, IdType, ColType

(* None of them makes or drops a table or the column of the tenant.        *)
LEMMA ConversionStep ==
  ASSUME IInv, NEW o, Made(o), o.do \in ConversionCalls,
         \A u \in Modelled : Present(work', u) = Present(work, u)
                             /\ (HasTable(work', u) <=> HasTable(work, u))
  PROVE  TablesMade' /\ TenantColumnsMade'
<1>1. /\ \A name, t : Pending(name, t) /\ (name # o.do \/ t # o.t) => Pending(name, t)'
      /\ target' = target /\ target \in 0..3
  BY CallMade DEF Kept, Ahead, Made
<1>2. Tables(target) \subseteq Modelled
  BY <1>1, TablesOf
<1>3. TablesMade /\ TenantColumnsMade
  BY DEF IInv
<1>4. TablesMade'
  BY <1>1, <1>2, <1>3 DEF TablesMade, ConversionCalls
<1>5. TenantColumnsMade'
  BY <1>1, <1>3 DEF TenantColumnsMade, ConversionCalls
<1> QED BY <1>4, <1>5

(* On the way up the conversion comes last.                                *)
LEMMA StagedUp ==
  ASSUME IInv, NEW o, Made(o), rev < 3, target = 3, o.at >= 200
  PROVE  Staged'
<1>1. /\ \A q \in plan' : CallOK(q, rev, target) /\ o.at <= q.at
      /\ CallOK(o, rev, target) /\ rev' = rev /\ target' = target /\ rev \in 0..3
  BY CallMade DEF Kept, Ahead, Made
<1>2. \A q \in plan' : ~(q.at < 200) /\ q.do # "restore_pk"
  BY <1>1, CallBasics
<1>3. \A t : ~Pending("restore_pk", t)'
  BY <1>2 DEF Pending
<1> QED BY <1>1, <1>2, <1>3 DEF Staged

(* On the way down the shadow tables go last.                              *)
LEMMA StagedDown ==
  ASSUME IInv, NEW o, Made(o), rev = 3, target = 2, o.at < 1000,
         \A t \in Modelled : Pending("restore_pk", t)' =>
            HasTable(work', t) /\ IdType(work', t) = "int"
  PROVE  Staged'
<1>1. /\ \A q \in Calls(rev, target) : q.at > o.at => q \in plan'
      /\ CallOK(o, rev, target) /\ rev' = rev /\ target' = target
  BY CallMade DEF Kept, Ahead, Made
<1>2. PICK q \in Calls(3, 2) : q.do = "drop_legacy" /\ q.t = "tenants" /\ q.at = 1000
  BY TablesOf, DowngradeMakes
<1>3. q \in plan'
  BY <1>1, <1>2, CallBasics
<1>4. Pending("drop_legacy", "tenants")'
  BY <1>2, <1>3 DEF Pending
<1> QED BY <1>1, <1>4 DEF Staged

(* A table's key is converted while its references to others already are.  *)
LEMMA ConvertPkKeeps ==
  ASSUME IInv, NEW o \in Due, ConvertPk(o)
  PROVE  IInv'
<1>1. o.do = "convert_pk" /\ Execute(o, HasTable(work, o.t), PkConverted(o.t))
  BY DEF ConvertPk
<1>2. ASSUME HasTable(work, o.t), Made(o), work' = PkConverted(o.t) PROVE IInv'
  <2>1. Kept(o) /\ Ahead(o)
    BY <1>2, CallMade
  <2>2. /\ o.t \in Modelled /\ rev < 3 /\ target = 3 /\ o.at = 209 + Step(Pos(o.t))
        /\ Step(Pos(o.t)) \in Nat
        /\ born \in 0..MaxBorn /\ target' = target /\ rev' = rev /\ born' = born
        /\ DatabaseOK(work, born) /\ KeysFirst(work, rev)
    <3>1. /\ CallOK(o, rev, target) /\ rev \in 0..3 /\ target \in 0..3 /\ born \in 0..MaxBorn
          /\ target' = target /\ rev' = rev /\ born' = born
          /\ DatabaseOK(work, born) /\ KeysFirst(work, rev)
      BY <1>2, <2>1 DEF Kept, Made
    <3>2. o.t \in Modelled /\ rev < 3 /\ target = 3 /\ o.at = 209 + Step(Pos(o.t))
      <4>1. o.do \in ConversionCalls
        BY <1>1 DEF ConversionCalls
      <4>2. o.t \in Modelled
        BY <3>1, CallBasics
      <4> QED BY <1>1, <3>1, <4>2 DEF CallOK
    <3> QED BY <3>1, <3>2, TablePlaces DEF Step
  <2>3. Shape(work) /\ ColumnsPaired(work) /\ DOMAIN work = Fields
    BY <2>2 DEF DatabaseOK, Shape
  <2>4. /\ DatabaseOK(work', born) /\ KeysFirst(work', rev)
        /\ work'.idx = work.idx /\ work'.legacyIndexes = work.legacyIndexes
        /\ \A u \in Modelled : Present(work', u) = Present(work, u)
                            /\ (HasTable(work', u) <=> HasTable(work, u))
        /\ IdType(work', o.t) = "int"
        /\ \A u \in Modelled : u # o.t /\ HasTable(work, u) => IdType(work', u) = IdType(work, u)
        /\ \A u \in Modelled : \A f \in Present(work, u) : ColType(work', u, f) = ColType(work, u, f)
    <3>1. CASE work.type[<<o.t, "id">>] = "uuid"
      <4> DEFINE S == work.rows[o.t]
      <4>1. work' = [work EXCEPT
               !.type[<<o.t, "id">>] = "int",
               !.rows[o.t] = {[r EXCEPT !.id = Serial(RowNumber(S, r))] : r \in S},
               !.seq[o.t] = Cardinality(S),
               !.fks = {f \in @ : f.parent # o.t},
               !.legacyIds = @ \cup {<<o.t, r.id, Serial(RowNumber(S, r))>> : r \in S}]
        BY <1>2, <3>1 DEF PkConverted
      <4>2. /\ DOMAIN work' = Fields
            /\ work'.type = [work.type EXCEPT ![<<o.t, "id">>] = "int"]
            /\ work'.rows = [work.rows EXCEPT ![o.t] =
                               {[r EXCEPT !.id = Serial(RowNumber(S, r))] : r \in S}]
            /\ work'.seq = [work.seq EXCEPT ![o.t] = Cardinality(S)]
            /\ work'.fks = {f \in work.fks : f.parent # o.t}
            /\ work'.legacyIds = work.legacyIds
                 \cup {<<o.t, r.id, Serial(RowNumber(S, r))>> : r \in S}
            /\ work'.idx = work.idx /\ work'.legacyIndexes = work.legacyIndexes
        BY <2>3, <4>1 DEF Fields
      <4>3. ConvertsKey(work, work', o.t)
        BY <1>2, <3>1, <4>2 DEF ConvertsKey, IdType
      <4>4. DatabaseOK(work', born) /\ KeysFirst(work', rev)
        BY <2>2, <4>3, KeyConverted
      <4> HIDE DEF S
      <4>5. /\ work'.type = [work.type EXCEPT ![<<o.t, "id">>] = "int"]
            /\ work'.idx = work.idx /\ work'.legacyIndexes = work.legacyIndexes
        BY <4>2
      <4>6. /\ \A u \in Modelled : Present(work', u) = Present(work, u)
                                /\ (HasTable(work', u) <=> HasTable(work, u))
            /\ IdType(work', o.t) = "int"
            /\ \A u \in Modelled : u # o.t /\ HasTable(work, u) => IdType(work', u) = IdType(work, u)
            /\ \A u \in Modelled :
                 \A f \in Present(work, u) : ColType(work', u, f) = ColType(work, u, f)
        BY <1>2, <2>2, <4>5, KeyRetyped
      <4> QED BY <4>4, <4>5, <4>6
    <3>2. CASE work.type[<<o.t, "id">>] # "uuid"
      <4>1. work' = work
        BY <1>2, <3>2 DEF PkConverted
      <4>2. IdType(work, o.t) = "int"
        BY <1>2, <2>3, <3>2 DEF Shape, HasTable, IdType
      <4> QED BY <2>2, <4>1, <4>2
    <3> QED BY <3>1, <3>2
  <2>5. TablesMade' /\ TenantColumnsMade'
    BY <1>1, <1>2, <2>4, ConversionStep DEF ConversionCalls
  <2>6. Staged'
    BY <1>2, <2>2, StagedUp
  <2>7. TypesMade /\ IndexesMade /\ IndexesRemembered
    BY DEF IInv
  <2>8. /\ \A name, t : Pending(name, t) /\ (name # o.do \/ t # o.t) => Pending(name, t)'
        /\ \A name, t, f : PendingKey(name, t, f) /\ name # o.do => PendingKey(name, t, f)'
    BY <2>1 DEF Ahead
  <2>9. TypesMade'
    BY <1>1, <2>2, <2>4, <2>7, <2>8 DEF TypesMade
  <2>10. IndexesMade'
    BY <1>1, <2>4, <2>7, <2>8 DEF IndexesMade
  <2>11. IndexesRemembered'
    <3> SUFFICES ASSUME NEW t \in Modelled, HasTable(work', t), NEW i \in IndexesOf(t),
                        NEW c \in ToSet(i.cols), work'.type[<<t, c>>] = "int"
                 PROVE  i \in work'.legacyIndexes
      BY <2>2 DEF IndexesRemembered
    <3>1. HasTable(work, t)
      BY <2>4
    <3>2. PICK f \in Present(work, t) : <<t, c>> = Slot(t, f)
      BY <2>3, <3>1, IndexColumns
    <3>3. work.type[<<t, c>>] = "int"
      BY <2>4, <3>2 DEF ColType
    <3> QED BY <2>2, <2>4, <2>7, <3>1, <3>3 DEF IndexesRemembered
  <2>12. DatabaseOK(work, born)' /\ KeysFirst(work, rev)'
    BY <2>2, <2>4
  <2> QED BY <1>2, <2>5, <2>6, <2>9, <2>10, <2>11, <2>12, StepComplete
<1> QED BY <1>1, <1>2, CallEnds

(* A column is converted before the indexes of its table are made again.   *)
LEMMA ConvertFkKeeps ==
  ASSUME IInv, NEW o \in Due, ConvertFk(o)
  PROVE  IInv'
<1> DEFINE f == <<o.col, o.parent>>
           succeeds == work.type[<<o.t, o.col>>] = "uuid" /\ Satisfied(FkConverted(o), Key(o))
<1>1. o.do = "convert_fk" /\ Execute(o, succeeds, FkConverted(o))
  BY DEF ConvertFk
<1>2. ASSUME succeeds, Made(o), work' = FkConverted(o) PROVE IInv'
  <2>1. Kept(o) /\ Ahead(o)
    BY <1>2, CallMade
  <2>2. /\ o.t \in Modelled /\ rev < 3 /\ target = 3 /\ f \in Links(o.t) /\ o.t # "tenants"
        /\ rev \in 0..3 /\ \E k \in 1..3 : o.at = 200 + Step(Pos(o.t)) + k
        /\ Step(Pos(o.t)) \in Nat
        /\ born \in 0..MaxBorn /\ target' = target /\ rev' = rev /\ born' = born
        /\ DatabaseOK(work, born) /\ KeysFirst(work, rev)
    <3>1. /\ CallOK(o, rev, target) /\ rev \in 0..3 /\ target \in 0..3 /\ born \in 0..MaxBorn
          /\ target' = target /\ rev' = rev /\ born' = born
          /\ DatabaseOK(work, born) /\ KeysFirst(work, rev)
      BY <1>2, <2>1 DEF Kept, Made
    <3>2. /\ o.t \in Modelled /\ rev < 3 /\ target = 3 /\ f \in Links(o.t)
          /\ \E k \in 1..3 : o.at = 200 + Step(Pos(o.t)) + k
      BY <1>1, <3>1 DEF CallOK
    <3>3. Step(Pos(o.t)) \in Nat
      BY <3>2, TablePlaces DEF Step
    <3>4. o.t # "tenants"
      BY <3>2, LinkFacts
    <3> QED BY <3>1, <3>2, <3>3, <3>4
  <2>3. Shape(work) /\ ColumnsPaired(work) /\ RowsOK(work, born) /\ DOMAIN work = Fields
    BY <2>2 DEF DatabaseOK, Shape
  <2>4. TypesMade /\ IndexesMade /\ IndexesRemembered
    BY DEF IInv
  <2> DEFINE S == work.rows[o.t]
             value == [r \in S |-> NewIn(work, o.parent, r.ref[o.col])]
  <2>5. /\ DOMAIN work' = Fields
        /\ work'.type = [work.type EXCEPT ![<<o.t, o.col>>] = "int"]
        /\ work'.rows = [work.rows EXCEPT ![o.t] =
                            {[r EXCEPT !.ref[o.col] = NewIn(work, o.parent, r.ref[o.col])] : r \in S}]
        /\ work'.legacyIndexes = work.legacyIndexes \cup Over(o)
        /\ work'.idx = work.idx \ Over(o)
        /\ work'.fks = {k \in work.fks : k.child # o.t \/ k.col # o.col} \cup {Key(o)}
        /\ work'.seq = work.seq /\ work'.legacyIds = work.legacyIds
    BY <1>2, <2>3 DEF FkConverted, WithColumn, Recorded, NewId, NewIn, Fields
  <2>6. f[1] = o.col /\ f[2] = o.parent /\ Slot(o.t, f) = <<o.t, o.col>> /\ Key(o) = LinkKey(o.t, f)
    BY DEF Slot, Key, LinkKey
  <2>7. Satisfied(work', Key(o)) /\ ColType(work, o.t, f) = "uuid"
    BY <1>2, <2>6 DEF ColType
  <2>8. f \in Present(work, o.t)
    <3>1. <<o.t, o.col>> \in DOMAIN work'.type
      BY <2>7 DEF Satisfied, Key, ForeignKey
    <3>2. DOMAIN work'.type = DOMAIN work.type
      BY <2>5
    <3> QED BY <2>2, <2>6, <3>1, <3>2 DEF Present
  <2>9. RewritesColumn(work, work', o.t, f, value, "int")
    <3>1. DOMAIN work'.rows = Modelled /\ \A u \in Modelled : u # o.t => work'.rows[u] = work.rows[u]
      BY <2>3, <2>5 DEF Shape
    <3>2. work'.rows[o.t] = {[r EXCEPT !.ref[o.col] = NewIn(work, o.parent, r.ref[o.col])] : r \in S}
      BY <2>2, <2>3, <2>5 DEF Shape
    <3>3. Rereferences(S, work'.rows[o.t], value, o.col)
      <4>1. IsFiniteSet(S) /\ \A r \in S : DOMAIN r = RowFields
        BY <2>2, <2>3 DEF RowsOK, RowOK
      <4>2. \A r \in S : value[r] = NewIn(work, o.parent, r.ref[o.col])
        OBVIOUS
      <4> HIDE DEF value, S
      <4> QED BY <3>2, <4>1, <4>2 DEF Rereferences
    <3> HIDE DEF value, f
    <3> QED BY <2>5, <2>6, <2>7, <2>8, <3>1, <3>3 DEF RewritesColumn
  <2>10. \A r \in S : value[r] = NewIn(work, f[2], r.ref[f[1]])
    BY <2>6
  <2> HIDE DEF value, f, succeeds
  <2>11. DatabaseOK(work', born) /\ KeysFirst(work', rev)
    BY <2>2, <2>7, <2>9, <2>10, ColumnConverted
  <2> HIDE DEF S
  <2>12. /\ \A u \in Modelled : Present(work', u) = Present(work, u)
                             /\ (HasTable(work', u) <=> HasTable(work, u))
         /\ ColType(work', o.t, f) = "int"
         /\ \A u \in Modelled : HasTable(work, u) => IdType(work', u) = IdType(work, u)
         /\ \A u \in Modelled : \A g \in Present(work, u) :
              u # o.t \/ g # f => ColType(work', u, g) = ColType(work, u, g)
    BY <2>2, <2>5, <2>6, <2>8, ColumnRetyped
  <2>13. TablesMade' /\ TenantColumnsMade'
    BY <1>1, <1>2, <2>12, ConversionStep DEF ConversionCalls
  <2>14. Staged'
    BY <1>2, <2>2, StagedUp
  <2>15. /\ \A name, t : Pending(name, t) /\ (name # o.do \/ t # o.t) => Pending(name, t)'
         /\ \A name, t, g : PendingKey(name, t, g)
              /\ (name # o.do \/ t # o.t \/ g[1] # o.col \/ g[2] # o.parent) => PendingKey(name, t, g)'
         /\ \A q \in Calls(rev, target) : q.at > o.at => q \in plan'
    BY <2>1 DEF Ahead
  <2>16. TypesMade'
    <3>1. ASSUME NEW t \in Modelled, NEW g \in Present(work, t)
          PROVE  ColType(work', t, g) = "int" \/ PendingKey("convert_fk", t, g)'
      <4>1. CASE t = o.t /\ g = f
        BY <2>12, <4>1
      <4>2. CASE t # o.t \/ g # f
        <5>1. t # o.t \/ g[1] # o.col \/ g[2] # o.parent
          BY <2>2, <2>6, <4>2, LinkFacts DEF Present
        <5>2. ColType(work, t, g) = "int" \/ PendingKey("convert_fk", t, g)
          BY <2>2, <2>4 DEF TypesMade
        <5> QED BY <1>1, <2>12, <2>15, <4>2, <5>1, <5>2
      <4> QED BY <4>1, <4>2
    <3>2. ASSUME NEW t \in Modelled, HasTable(work', t)
          PROVE  IdType(work', t) = "int" \/ Pending("convert_pk", t)'
      BY <1>1, <2>2, <2>4, <2>12, <2>15, <3>2 DEF TypesMade
    <3> QED BY <2>2, <2>12, <3>1, <3>2 DEF TypesMade
  <2>17. Pending("recreate_indexes", o.t)'
    <3>1. PICK q \in Calls(rev, target) :
              q.do = "recreate_indexes" /\ q.t = o.t /\ q.at = 208 + Step(Pos(o.t))
      BY <2>2, UpgradeMakes
    <3>2. q \in plan'
      BY <2>2, <2>15, <3>1
    <3> QED BY <3>1, <3>2 DEF Pending
  <2>18. IndexesMade'
    <3>1. ASSUME NEW i \in work'.idx \cup work'.legacyIndexes
          PROVE  /\ i.table \in Modelled /\ HasTable(work', i.table)
                 /\ i \in IndexesOf(i.table)
      <4>1. i \in work.idx \cup work.legacyIndexes
        BY <2>5 DEF Over
      <4> QED BY <2>4, <2>12, <4>1 DEF IndexesMade
    <3>2. ASSUME NEW t \in Modelled, HasTable(work', t), NEW i \in IndexesOf(t)
          PROVE  i \in work'.idx \/ (i \in work'.legacyIndexes /\ Pending("recreate_indexes", t)')
      <4>1. i \in work.idx \/ (i \in work.legacyIndexes /\ Pending("recreate_indexes", t))
        BY <2>4, <2>12, <3>2 DEF IndexesMade
      <4>2. i.table = t
        BY IndexFacts
      <4>3. i \in Over(o) => t = o.t
        BY <4>2 DEF Over
      <4> QED BY <1>1, <2>5, <2>15, <2>17, <4>1, <4>3
    <3> QED BY <3>1, <3>2 DEF IndexesMade
  <2>19. IndexesRemembered'
    <3> SUFFICES ASSUME NEW t \in Modelled, HasTable(work', t), NEW i \in IndexesOf(t),
                        NEW c \in ToSet(i.cols), work'.type[<<t, c>>] = "int"
                 PROVE  i \in work'.legacyIndexes
      BY <2>2 DEF IndexesRemembered
    <3>1. HasTable(work, t)
      BY <2>12
    <3>2. PICK g \in Present(work, t) : g[1] = c /\ <<t, c>> = Slot(t, g)
      BY <2>3, <3>1, IndexColumns
    <3>3. CASE t = o.t /\ g = f
      <4>1. i \in work.idx => i \in Over(o)
        BY <2>6, <3>2, <3>3, IndexFacts DEF Over
      <4>2. i \in work.idx \/ i \in work.legacyIndexes
        BY <2>4, <3>1 DEF IndexesMade
      <4> QED BY <2>5, <4>1, <4>2
    <3>4. CASE t # o.t \/ g # f
      <4>1. work.type[<<t, c>>] = "int"
        BY <2>12, <3>2, <3>4 DEF ColType
      <4> QED BY <2>2, <2>4, <2>5, <3>1, <4>1 DEF IndexesRemembered
    <3> QED BY <3>3, <3>4
  <2>20. DatabaseOK(work, born)' /\ KeysFirst(work, rev)'
    BY <2>2, <2>11
  <2> QED BY <1>2, <2>13, <2>14, <2>16, <2>18, <2>19, <2>20, StepComplete
<1> HIDE DEF succeeds
<1> QED BY <1>1, <1>2, CallEnds

(* The indexes that are remembered are made again.                         *)
LEMMA RecreateIndexesKeeps ==
  ASSUME IInv, NEW o \in Due, RecreateIndexes(o)
  PROVE  IInv'
<1> DEFINE again == {i \in work.legacyIndexes : i.table = o.t}
           succeeds == again \cap work.idx = {} /\ \A i \in again : Distinct(work, i)
           after == [work EXCEPT !.idx = @ \cup again]
<1>1. o.do = "recreate_indexes" /\ Execute(o, succeeds, after)
  BY DEF RecreateIndexes
<1>2. ASSUME succeeds, Made(o), work' = after PROVE IInv'
  <2>1. Kept(o) /\ Ahead(o)
    BY <1>2, CallMade
  <2>2. /\ o.t \in Modelled /\ Step(Pos(o.t)) \in Nat
        /\ \/ rev < 3 /\ target = 3 /\ o.at = 208 + Step(Pos(o.t))
           \/ rev = 3 /\ target = 2 /\ o.at = 998 - Step(Pos(o.t))
        /\ rev \in 0..3 /\ target' = target /\ rev' = rev /\ born' = born
        /\ DatabaseOK(work, born) /\ KeysFirst(work, rev)
    <3>1. /\ CallOK(o, rev, target) /\ rev \in 0..3
          /\ target' = target /\ rev' = rev /\ born' = born
          /\ DatabaseOK(work, born) /\ KeysFirst(work, rev)
      BY <1>2, <2>1 DEF Kept, Made
    <3>2. /\ o.t \in Modelled
          /\ \/ rev < 3 /\ target = 3 /\ o.at = 208 + Step(Pos(o.t))
             \/ rev = 3 /\ target = 2 /\ o.at = 998 - Step(Pos(o.t))
      BY <1>1, <3>1 DEF CallOK
    <3>3. Step(Pos(o.t)) \in Nat
      BY <3>2, TablePlaces DEF Step
    <3> QED BY <3>1, <3>2, <3>3
  <2>3. ColumnsPaired(work) /\ DOMAIN work = Fields
    BY <2>2 DEF DatabaseOK, Shape
  <2>4. /\ SameButIndexes(work, work') /\ work'.idx = work.idx \cup again
        /\ work'.legacyIndexes = work.legacyIndexes
    BY <1>2, <2>3 DEF Fields, SameButIndexes
  <2> HIDE DEF succeeds, after
  <2>5. /\ DatabaseOK(work', born) /\ KeysFirst(work', rev)
        /\ \A u \in Modelled : Present(work', u) = Present(work, u)
                            /\ (HasTable(work', u) <=> HasTable(work, u))
    BY <2>2, <2>4, IndexesApart
  <2>6. /\ \A u : IdType(work', u) = IdType(work, u)
        /\ \A u, f : ColType(work', u, f) = ColType(work, u, f)
        /\ work'.type = work.type
    BY <2>4 DEF SameButIndexes, IdType, ColType
  <2>7. TablesMade' /\ TenantColumnsMade'
    BY <1>1, <1>2, <2>5, ConversionStep DEF ConversionCalls
  <2>8. TypesMade /\ IndexesMade /\ IndexesRemembered /\ Staged
    BY DEF IInv
  <2>9. /\ \A name, t : Pending(name, t) /\ (name # o.do \/ t # o.t) => Pending(name, t)'
        /\ \A name, t : Pending(name, t)' => Pending(name, t)
        /\ \A name, t, f : PendingKey(name, t, f) /\ name # o.do => PendingKey(name, t, f)'
        /\ \A q \in plan' : q \in plan
    BY <1>2, <2>1 DEF Ahead, Made
  <2>10. Staged'
    <3>1. CASE rev < 3 /\ target = 3
      BY <1>2, <2>2, <3>1, StagedUp
    <3>2. CASE rev = 3 /\ target = 2
      <4>1. Pos(o.t) \in 1..19
        BY <2>2, TablePlaces
      <4>2. o.at < 1000
        BY <2>2, <3>2, <4>1 DEF Step
      <4>3. \A t \in Modelled : Pending("restore_pk", t)' =>
               HasTable(work', t) /\ IdType(work', t) = "int"
        BY <2>5, <2>6, <2>8, <2>9 DEF Staged
      <4> QED BY <1>2, <3>2, <4>2, <4>3, StagedDown
    <3> QED BY <2>2, <3>1, <3>2
  <2>11. TypesMade'
    BY <1>1, <2>2, <2>5, <2>6, <2>8, <2>9 DEF TypesMade
  <2>12. IndexesMade'
    <3>1. ASSUME NEW i \in work'.idx \cup work'.legacyIndexes
          PROVE  /\ i.table \in Modelled /\ HasTable(work', i.table)
                 /\ i \in IndexesOf(i.table)
      <4>1. i \in work.idx \cup work.legacyIndexes
        BY <2>4
      <4> QED BY <2>5, <2>8, <4>1 DEF IndexesMade
    <3>2. ASSUME NEW t \in Modelled, HasTable(work', t), NEW i \in IndexesOf(t)
          PROVE  i \in work'.idx \/ (i \in work'.legacyIndexes /\ Pending("recreate_indexes", t)')
      <4>1. i \in work.idx \/ (i \in work.legacyIndexes /\ Pending("recreate_indexes", t))
        BY <2>5, <2>8, <3>2 DEF IndexesMade
      <4>2. i.table = t
        BY IndexFacts
      <4>3. i \in work.legacyIndexes /\ t = o.t => i \in work'.idx
        BY <2>4, <4>2
      <4> QED BY <2>4, <2>9, <4>1, <4>3
    <3> QED BY <3>1, <3>2 DEF IndexesMade
  <2>13. IndexesRemembered'
    BY <2>2, <2>4, <2>5, <2>6, <2>8, <2>9 DEF IndexesRemembered
  <2>14. DatabaseOK(work, born)' /\ KeysFirst(work, rev)'
    BY <2>2, <2>5
  <2> QED BY <1>2, <2>7, <2>10, <2>11, <2>12, <2>13, <2>14, StepComplete
<1> HIDE DEF succeeds, after
<1> QED BY <1>1, <1>2, CallEnds

(* A key is restored while the columns that refer to it are still numbers. *)
LEMMA RestorePkKeeps ==
  ASSUME IInv, NEW o \in Due, RestorePk(o)
  PROVE  IInv'
<1>1. o.do = "restore_pk" /\ Execute(o, HasTable(work, o.t), PkRestored(o.t))
  BY DEF RestorePk
<1>2. ASSUME HasTable(work, o.t), Made(o), work' = PkRestored(o.t) PROVE IInv'
  <2>1. Kept(o) /\ Ahead(o)
    BY <1>2, CallMade
  <2>2. /\ o.t \in Modelled /\ rev = 3 /\ target = 2
        /\ o = Call(100 - Pos(o.t), "restore_pk", o.t) /\ o.at < 1000
        /\ born \in 0..MaxBorn /\ target' = target /\ rev' = rev /\ born' = born
        /\ DatabaseOK(work, born) /\ KeysFirst(work, 3) /\ o \in plan
    <3>1. /\ CallOK(o, rev, target) /\ born \in 0..MaxBorn
          /\ target' = target /\ rev' = rev /\ born' = born /\ o \in plan
          /\ DatabaseOK(work, born) /\ KeysFirst(work, rev)
      BY <1>2, <2>1 DEF Kept, Made
    <3>2. /\ o.t \in Modelled /\ rev = 3 /\ target = 2
          /\ o = Call(100 - Pos(o.t), "restore_pk", o.t)
      BY <1>1, <3>1 DEF CallOK
    <3>3. o.at < 1000
      <4>1. o.at = 100 - Pos(o.t)
        BY <3>2, CallFields
      <4> QED BY <3>2, <4>1, TablePlaces
    <3> QED BY <3>1, <3>2, <3>3
  <2>3. Shape(work) /\ ColumnsPaired(work) /\ DOMAIN work = Fields
    BY <2>2 DEF DatabaseOK, Shape
  <2>4. TypesMade /\ IndexesMade /\ IndexesRemembered /\ Staged
    BY DEF IInv
  <2>5. IdType(work, o.t) = "int"
    BY <1>1, <2>2, <2>4 DEF Staged, Pending
  <2>6. /\ DOMAIN work' = Fields
        /\ work'.type = [work.type EXCEPT ![<<o.t, "id">>] = "uuid"]
        /\ work'.rows = [work.rows EXCEPT ![o.t] =
                 {[r EXCEPT !.id = OldIn(work, o.t, r.id, Random(r))] : r \in work.rows[o.t]}]
        /\ work'.seq = [work.seq EXCEPT ![o.t] = 0]
        /\ work'.fks = {f \in work.fks : f.parent # o.t}
        /\ work'.legacyIds = work.legacyIds
        /\ work'.idx = work.idx /\ work'.legacyIndexes = work.legacyIndexes
    BY <1>2, <2>3 DEF PkRestored, OldUuid, OldIn, Fields
  <2>7. RestoresKey(work, work', o.t)
    BY <1>2, <2>5, <2>6 DEF RestoresKey
  <2>8. DatabaseOK(work', born) /\ KeysFirst(work', 3)
    BY <2>2, <2>7, KeyRestored
  <2>9. /\ \A u \in Modelled : Present(work', u) = Present(work, u)
                            /\ (HasTable(work', u) <=> HasTable(work, u))
        /\ IdType(work', o.t) = "uuid"
        /\ \A u \in Modelled : u # o.t /\ HasTable(work, u) => IdType(work', u) = IdType(work, u)
        /\ \A u \in Modelled : \A f \in Present(work, u) : ColType(work', u, f) = ColType(work, u, f)
    BY <1>2, <2>2, <2>6, KeyRetyped
  <2>10. TablesMade' /\ TenantColumnsMade'
    BY <1>1, <1>2, <2>9, ConversionStep DEF ConversionCalls
  <2>11. /\ \A name, t : Pending(name, t) /\ (name # o.do \/ t # o.t) => Pending(name, t)'
         /\ \A name, t : Pending(name, t)' => Pending(name, t)
         /\ \A name, t, f : PendingKey(name, t, f) /\ name # o.do => PendingKey(name, t, f)'
         /\ \A q \in plan' : CallOK(q, rev, target) /\ q \in plan /\ q # o
    BY <1>2, <2>1 DEF Ahead, Made
  <2>12. Staged'
    <3>1. \A q \in plan' : q.do = "restore_pk" => q.t # o.t
      <4> SUFFICES ASSUME NEW q \in plan', q.do = "restore_pk", q.t = o.t PROVE FALSE
        OBVIOUS
      <4>1. CallOK(q, rev, target) /\ q # o
        BY <2>11
      <4>2. q = Call(100 - Pos(q.t), "restore_pk", q.t)
        BY <4>1 DEF CallOK
      <4> QED BY <2>2, <4>1, <4>2
    <3>2. \A t \in Modelled : Pending("restore_pk", t)' =>
              HasTable(work', t) /\ IdType(work', t) = "int"
      <4> SUFFICES ASSUME NEW t \in Modelled, Pending("restore_pk", t)'
                   PROVE  HasTable(work', t) /\ IdType(work', t) = "int"
        OBVIOUS
      <4>1. t # o.t
        BY <3>1 DEF Pending
      <4> QED BY <2>4, <2>9, <2>11, <4>1 DEF Staged
    <3> QED BY <1>2, <2>2, <3>2, StagedDown
  <2>13. TypesMade'
    BY <1>1, <2>2, <2>4, <2>9, <2>11 DEF TypesMade
  <2>14. IndexesMade'
    BY <1>1, <2>4, <2>6, <2>9, <2>11 DEF IndexesMade
  <2>15. IndexesRemembered'
    BY <2>2, <2>4, <2>6, <2>9, <2>11 DEF IndexesRemembered
  <2>16. DatabaseOK(work, born)' /\ KeysFirst(work, rev)'
    BY <2>2, <2>8
  <2> QED BY <1>2, <2>10, <2>12, <2>13, <2>14, <2>15, <2>16, StepComplete
<1> QED BY <1>1, <1>2, CallEnds

(* A column is restored when its indexes are remembered.                   *)
LEMMA RestoreFkKeeps ==
  ASSUME IInv, NEW o \in Due, RestoreFk(o)
  PROVE  IInv'
<1> DEFINE f == <<o.col, o.parent>>
           succeeds == Satisfied(FkRestored(o), Key(o))
<1>1. o.do = "restore_fk" /\ Execute(o, succeeds, FkRestored(o))
  BY DEF RestoreFk
<1>2. ASSUME succeeds, Made(o), work' = FkRestored(o) PROVE IInv'
  <2>1. Kept(o) /\ Ahead(o)
    BY <1>2, CallMade
  <2>2. /\ o.t \in Modelled /\ rev = 3 /\ target = 2 /\ f \in Links(o.t) /\ o.t # "tenants"
        /\ \E k \in 1..3 : o.at = 990 - Step(Pos(o.t)) + k
        /\ Step(Pos(o.t)) \in Nat
        /\ born \in 0..MaxBorn /\ target' = target /\ rev' = rev /\ born' = born
        /\ DatabaseOK(work, born) /\ KeysFirst(work, 3) /\ o \in plan /\ o.at < 1000 /\ o.at \in Nat
    <3>1. /\ CallOK(o, rev, target) /\ rev \in 0..3 /\ target \in 0..3 /\ born \in 0..MaxBorn
          /\ target' = target /\ rev' = rev /\ born' = born /\ o \in plan
          /\ DatabaseOK(work, born) /\ KeysFirst(work, rev)
      BY <1>2, <2>1 DEF Kept, Made
    <3>2. /\ o.t \in Modelled /\ rev = 3 /\ target = 2 /\ f \in Links(o.t)
          /\ \E k \in 1..3 : o.at = 990 - Step(Pos(o.t)) + k
      BY <1>1, <3>1 DEF CallOK
    <3>3. Step(Pos(o.t)) \in Nat
      BY <3>2, TablePlaces DEF Step
    <3>4. o.t # "tenants"
      BY <3>2, LinkFacts
    <3>5. o.at < 1000
      <4>1. Pos(o.t) \in 1..19
        BY <3>2, TablePlaces
      <4> QED BY <3>2, <4>1 DEF Step
    <3>6. o.at \in Nat
      BY <3>1, CallBasics
    <3> QED BY <3>1, <3>2, <3>3, <3>4, <3>5, <3>6
  <2>3. Shape(work) /\ ColumnsPaired(work) /\ RowsOK(work, born) /\ DOMAIN work = Fields
    BY <2>2 DEF DatabaseOK, Shape
  <2>4. TypesMade /\ IndexesMade /\ IndexesRemembered /\ Staged
    BY DEF IInv
  <2> DEFINE S == work.rows[o.t]
             value == [r \in S |-> OldIn(work, o.parent, r.ref[o.col], NoRow)]
  <2>5. /\ DOMAIN work' = Fields
        /\ work'.type = [work.type EXCEPT ![<<o.t, o.col>>] = "uuid"]
        /\ work'.rows = [work.rows EXCEPT ![o.t] =
                            {[r EXCEPT !.ref[o.col] = OldIn(work, o.parent, r.ref[o.col], NoRow)] : r \in S}]
        /\ work'.legacyIndexes = work.legacyIndexes
        /\ work'.idx = work.idx \ Over(o)
        /\ work'.fks = {k \in work.fks : k.child # o.t \/ k.col # o.col} \cup {Key(o)}
        /\ work'.seq = work.seq /\ work'.legacyIds = work.legacyIds
    BY <1>2, <2>3 DEF FkRestored, WithColumn, OldUuid, OldIn, Fields
  <2>6. f[1] = o.col /\ f[2] = o.parent /\ Slot(o.t, f) = <<o.t, o.col>> /\ Key(o) = LinkKey(o.t, f)
    BY DEF Slot, Key, LinkKey
  <2>7. Satisfied(work', Key(o))
    BY <1>2
  <2>8. f \in Present(work, o.t)
    <3>1. <<o.t, o.col>> \in DOMAIN work'.type
      BY <2>7 DEF Satisfied, Key, ForeignKey
    <3>2. DOMAIN work'.type = DOMAIN work.type
      BY <2>5
    <3> QED BY <2>2, <2>6, <3>1, <3>2 DEF Present
  <2>9. RewritesColumn(work, work', o.t, f, value, "uuid")
    <3>1. DOMAIN work'.rows = Modelled /\ \A u \in Modelled : u # o.t => work'.rows[u] = work.rows[u]
      BY <2>3, <2>5 DEF Shape
    <3>2. work'.rows[o.t] = {[r EXCEPT !.ref[o.col] = OldIn(work, o.parent, r.ref[o.col], NoRow)] : r \in S}
      BY <2>2, <2>3, <2>5 DEF Shape
    <3>3. Rereferences(S, work'.rows[o.t], value, o.col)
      <4>1. IsFiniteSet(S) /\ \A r \in S : DOMAIN r = RowFields
        BY <2>2, <2>3 DEF RowsOK, RowOK
      <4>2. \A r \in S : value[r] = OldIn(work, o.parent, r.ref[o.col], NoRow)
        OBVIOUS
      <4> HIDE DEF value, S
      <4> QED BY <3>2, <4>1, <4>2 DEF Rereferences
    <3> HIDE DEF value, f
    <3> QED BY <2>5, <2>6, <2>7, <2>8, <3>1, <3>3 DEF RewritesColumn
  <2>10. \A r \in S : value[r] = OldIn(work, f[2], r.ref[f[1]], NoRow)
    BY <2>6
  <2> HIDE DEF value, f, succeeds
  <2>11. DatabaseOK(work', born) /\ KeysFirst(work', 3)
    BY <2>2, <2>9, <2>10, ColumnRestored
  <2> HIDE DEF S
  <2>12. /\ \A u \in Modelled : Present(work', u) = Present(work, u)
                             /\ (HasTable(work', u) <=> HasTable(work, u))
         /\ ColType(work', o.t, f) = "uuid"
         /\ \A u \in Modelled : HasTable(work, u) => IdType(work', u) = IdType(work, u)
         /\ \A u \in Modelled : \A g \in Present(work, u) :
              u # o.t \/ g # f => ColType(work', u, g) = ColType(work, u, g)
    <3>1. work'.type = [work.type EXCEPT ![Slot(o.t, f)] = "uuid"] /\ o.t \in Modelled
      BY <2>2, <2>5, <2>6
    <3> QED BY <2>8, <3>1, ColumnRetyped
  <2>13. TablesMade' /\ TenantColumnsMade'
    BY <1>1, <1>2, <2>12, ConversionStep DEF ConversionCalls
  <2>15. /\ \A name, t : Pending(name, t) /\ (name # o.do \/ t # o.t) => Pending(name, t)'
         /\ \A name, t : Pending(name, t)' => Pending(name, t)
         /\ \A name, t, g : PendingKey(name, t, g)
              /\ (name # o.do \/ t # o.t \/ g[1] # o.col \/ g[2] # o.parent) => PendingKey(name, t, g)'
         /\ \A q \in Calls(rev, target) : q.at > o.at => q \in plan'
         /\ \A q \in plan' : q \in plan
    BY <1>2, <2>1 DEF Ahead, Made
  <2>14. Staged'
    <3>1. \A t \in Modelled : Pending("restore_pk", t)' =>
              HasTable(work', t) /\ IdType(work', t) = "int"
      BY <2>4, <2>12, <2>15 DEF Staged
    <3> QED BY <1>2, <2>2, <3>1, StagedDown
  <2>16. TypesMade'
    <3>1. ASSUME NEW t \in Modelled, NEW g \in Present(work, t)
          PROVE  ColType(work', t, g) = "uuid" \/ PendingKey("restore_fk", t, g)'
      <4>1. CASE t = o.t /\ g = f
        BY <2>12, <4>1
      <4>2. CASE t # o.t \/ g # f
        <5>1. t # o.t \/ g[1] # o.col \/ g[2] # o.parent
          BY <2>2, <2>6, <4>2, LinkFacts DEF Present
        <5>2. ColType(work, t, g) = "uuid" \/ PendingKey("restore_fk", t, g)
          BY <2>2, <2>4 DEF TypesMade
        <5> QED BY <1>1, <2>12, <2>15, <4>2, <5>1, <5>2
      <4> QED BY <4>1, <4>2
    <3>2. ASSUME NEW t \in Modelled, HasTable(work', t)
          PROVE  IdType(work', t) = "uuid" \/ Pending("restore_pk", t)'
      BY <1>1, <2>2, <2>4, <2>12, <2>15, <3>2 DEF TypesMade
    <3> QED BY <2>2, <2>12, <3>1, <3>2 DEF TypesMade
  <2>17. Pending("recreate_indexes", o.t)'
    <3>1. PICK q \in Calls(3, 2) :
              q.do = "recreate_indexes" /\ q.t = o.t /\ q.at = 998 - Step(Pos(o.t))
      BY <2>2, DowngradeMakes
    <3>2. q \in plan'
      BY <2>2, <2>15, <3>1
    <3> QED BY <3>1, <3>2 DEF Pending
  <2>21. \A i \in IndexesOf(o.t) : HasTable(work, o.t) => i \in work.legacyIndexes
    <3>1. PICK q \in Calls(3, 2) : q.do = "drop_legacy" /\ q.t = "tenants" /\ q.at = 1000
      BY TablesOf, DowngradeMakes
    <3>2. o.at \in Nat
      BY <2>2
    <3>3. q \in plan
      BY <2>2, <2>15, <3>1, <3>2
    <3> QED BY <2>2, <2>4, <3>1, <3>3 DEF IndexesRemembered
  <2>18. IndexesMade'
    <3>1. ASSUME NEW i \in work'.idx \cup work'.legacyIndexes
          PROVE  /\ i.table \in Modelled /\ HasTable(work', i.table)
                 /\ i \in IndexesOf(i.table)
      <4>1. i \in work.idx \cup work.legacyIndexes
        BY <2>5 DEF Over
      <4> QED BY <2>4, <2>12, <4>1 DEF IndexesMade
    <3>2. ASSUME NEW t \in Modelled, HasTable(work', t), NEW i \in IndexesOf(t)
          PROVE  i \in work'.idx \/ (i \in work'.legacyIndexes /\ Pending("recreate_indexes", t)')
      <4>1. i \in work.idx \/ (i \in work.legacyIndexes /\ Pending("recreate_indexes", t))
        BY <2>4, <2>12, <3>2 DEF IndexesMade
      <4>2. i.table = t
        BY IndexFacts
      <4>3. i \in Over(o) => t = o.t
        BY <4>2 DEF Over
      <4>4. i \in Over(o) => i \in work.legacyIndexes
        BY <2>12, <2>21, <3>2, <4>3
      <4> QED BY <1>1, <2>5, <2>15, <2>17, <4>1, <4>3, <4>4
    <3> QED BY <3>1, <3>2 DEF IndexesMade
  <2>19. IndexesRemembered'
    BY <2>2, <2>4, <2>5, <2>12, <2>15 DEF IndexesRemembered
  <2>20. DatabaseOK(work, born)' /\ KeysFirst(work, rev)'
    BY <2>2, <2>11
  <2> QED BY <1>2, <2>13, <2>14, <2>16, <2>18, <2>19, <2>20, StepComplete
<1> HIDE DEF succeeds
<1> QED BY <1>1, <1>2, CallEnds

(* The shadow tables are dropped by the last call of the downgrade.        *)
LEMMA DropLegacyKeeps ==
  ASSUME IInv, NEW o \in Due, DropLegacy(o)
  PROVE  IInv'
<1> DEFINE after == [work EXCEPT !.legacyIds = {}, !.legacyIndexes = {}]
<1>1. o.do = "drop_legacy" /\ Execute(o, TRUE, after)
  BY DEF DropLegacy
<1>2. ASSUME Made(o), work' = after PROVE IInv'
  <2>1. Kept(o) /\ Ahead(o)
    BY <1>2, CallMade
  <2>2. /\ CallOK(o, rev, target) /\ rev' = rev /\ target' = target /\ born' = born
        /\ plan' = plan \ {o} /\ DatabaseOK(work, born)
        /\ \A q \in plan' : CallOK(q, rev, target) /\ o.at <= q.at
    BY <1>2, <2>1 DEF Kept, Ahead, Made
  <2>3. rev = 3 /\ target = 2 /\ o.at = 1000 /\ o = Call(1000, "drop_legacy", "tenants")
    BY <1>1, <2>2 DEF CallOK
  <2>4. plan' = {}
    <3> SUFFICES ASSUME NEW q \in plan' PROVE FALSE
      OBVIOUS
    <3>1. CallOK(q, 3, 2) /\ 1000 <= q.at /\ q # o
      BY <2>2, <2>3
    <3>2. q.t \in Modelled /\ Pos(q.t) \in 1..19
      BY <3>1, TablePlaces DEF CallOK
    <3>3. q.do = "restore_pk" => q.at = 100 - Pos(q.t)
      <4>1. q.do = "restore_pk" => q = Call(100 - Pos(q.t), "restore_pk", q.t)
        BY <3>1 DEF CallOK
      <4> QED BY <4>1, CallFields
    <3>4. q.do = "drop_legacy"
      BY <3>1, <3>2, <3>3 DEF CallOK, Step
    <3>5. q = Call(1000, "drop_legacy", "tenants")
      BY <3>1, <3>4 DEF CallOK
    <3> QED BY <2>3, <3>1, <3>5
  <2>5. \A q \in plan : q = o
    BY <2>2, <2>4
  <2>6. \A name, t : name # "drop_legacy" => ~Pending(name, t)
    BY <1>1, <2>5 DEF Pending
  <2>7. \A name, t, f : name # "drop_legacy" => ~PendingKey(name, t, f)
    BY <1>1, <2>5 DEF PendingKey
  <2>8. TypesMade /\ IndexesMade
    BY DEF IInv
  <2>9. Shape(work) /\ ColumnsPaired(work) /\ DOMAIN work = Fields
    BY <2>2 DEF DatabaseOK, Shape
  <2>10. \A t \in Modelled : /\ HasTable(work, t) => IdType(work, t) = "uuid"
                             /\ \A f \in Present(work, t) : ColType(work, t, f) = "uuid"
    BY <2>3, <2>6, <2>7, <2>8 DEF TypesMade
  <2>11. AllUuids(work)
    <3> SUFFICES ASSUME NEW x \in DOMAIN work.type PROVE work.type[x] = "uuid"
      BY DEF AllUuids
    <3>1. /\ x[1] \in Modelled
          /\ \/ HasTable(work, x[1]) /\ x = <<x[1], "id">>
             \/ \E f \in Present(work, x[1]) : x = Slot(x[1], f)
      BY <2>9, ColumnKinds
    <3> QED BY <2>10, <3>1 DEF IdType, ColType
  <2>12. /\ DOMAIN work' = Fields /\ work'.type = work.type /\ work'.rows = work.rows
         /\ work'.fks = work.fks /\ work'.seq = work.seq /\ work'.idx = work.idx
         /\ work'.legacyIds = {} /\ work'.legacyIndexes = {}
    BY <1>2, <2>9 DEF Fields
  <2> HIDE DEF after
  <2>13. DatabaseOK(work', born) /\ KeysFirst(work', rev)
    BY <2>2, <2>11, <2>12, LegacyDropped
  <2>14. /\ \A u : Present(work', u) = Present(work, u) /\ (HasTable(work', u) <=> HasTable(work, u))
         /\ \A u : IdType(work', u) = IdType(work, u)
         /\ \A u, f : ColType(work', u, f) = ColType(work, u, f)
    BY <2>12 DEF Present, HasTable, IdType, ColType
  <2>15. TablesMade' /\ TenantColumnsMade'
    BY <1>1, <1>2, <2>14, ConversionStep DEF ConversionCalls
  <2>16. TypesMade'
    BY <2>2, <2>3, <2>10, <2>14 DEF TypesMade
  <2>17. Staged'
    BY <2>2, <2>3, <2>4, <2>12 DEF Staged, Pending
  <2>18. IndexesMade'
    <3>1. \A i \in work.idx :
            i.table \in Modelled /\ HasTable(work, i.table) /\ i \in IndexesOf(i.table)
      BY <2>8 DEF IndexesMade
    <3>2. \A t \in Modelled : HasTable(work, t) => \A i \in IndexesOf(t) : i \in work.idx
      BY <2>6, <2>8 DEF IndexesMade
    <3> QED BY <2>12, <2>14, <3>1, <3>2 DEF IndexesMade
  <2>19. IndexesRemembered'
    BY <2>2, <2>3, <2>4 DEF IndexesRemembered
  <2>20. DatabaseOK(work, born)' /\ KeysFirst(work, rev)'
    BY <2>2, <2>13
  <2> QED BY <1>2, <2>15, <2>16, <2>17, <2>18, <2>19, <2>20, StepComplete
<1> HIDE DEF after
<1> QED BY <1>1, <1>2, CallEnds

(***************************************************************************)
(* Runs begin and end.                                                     *)
(***************************************************************************)

(* A run begins with all the calls between two revisions.                  *)
LEMMA RunBegins ==
  ASSUME IInv, NEW to \in 0..3, to # rev, to < rev => to = rev - 1, Begin(to, Calls(rev, to))
  PROVE  IInv'
<1>1. /\ Ranges /\ DatabaseOK(db, born) /\ KeysFirst(db, rev) /\ Committed /\ rev \in 0..3
  BY DEF IInv, Ranges
<1>2. /\ target' = to /\ plan' = Calls(rev, to) /\ work' = db /\ failed' = FALSE
      /\ db' = db /\ rev' = rev /\ born' = born
  BY DEF Begin
<1>3. Ranges'
  BY <1>1, <1>2 DEF Ranges, Idle
<1>4. Committed'
  BY <1>1, <1>2 DEF Committed
<1>5. (plan = Calls(rev, target))'
  <2>1. Calls(rev, target)' = Calls(rev, to)
    BY <1>2
  <2> QED BY <1>2, <2>1
<1>6. Start'
  BY <1>1, <1>2, <1>3, <1>4, <1>5 DEF Start
<1> QED BY <1>6, StartedNext

(* The three ways Alembic is run.                                          *)
LEMMA BeginKeeps ==
  ASSUME IInv, UpgradeHead \/ UpgradeOne \/ DowngradeOne
  PROVE  IInv'
<1>1. rev \in 0..3
  BY DEF IInv, Ranges
<1>2. CASE UpgradeHead
  <2>1. rev < 3 /\ Begin(3, UNION {Upgrades[k] : k \in (rev + 1)..3})
    BY <1>2 DEF UpgradeHead
  <2>2. Calls(rev, 3) = UNION {Upgrades[k] : k \in (rev + 1)..3}
    BY <2>1 DEF Calls
  <2> QED BY <1>1, <2>1, <2>2, RunBegins
<1>3. CASE UpgradeOne
  <2>1. rev < 3 /\ Begin(rev + 1, Upgrades[rev + 1])
    BY <1>3 DEF UpgradeOne
  <2>2. (rev + 1)..(rev + 1) = {rev + 1}
    BY <1>1
  <2>3. Calls(rev, rev + 1) = UNION {Upgrades[k] : k \in {rev + 1}}
    BY <1>1, <2>2 DEF Calls
  <2>4. UNION {Upgrades[k] : k \in {rev + 1}} = Upgrades[rev + 1]
    <3>1. {Upgrades[k] : k \in {rev + 1}} = {Upgrades[rev + 1]}
      BY Zenon
    <3>2. \A S : UNION {S} = S
      BY Zenon
    <3> QED BY <3>1, <3>2
  <2>5. rev + 1 \in 0..3 /\ rev + 1 # rev /\ ~(rev + 1 < rev)
    BY <1>1, <2>1
  <2>6. Begin(rev + 1, Calls(rev, rev + 1))
    BY <2>1, <2>3, <2>4
  <2> QED BY <2>5, <2>6, RunBegins
<1>4. CASE DowngradeOne
  <2>1. rev > 0 /\ Begin(rev - 1, Downgrades[rev])
    BY <1>4 DEF DowngradeOne
  <2>2. Calls(rev, rev - 1) = Downgrades[rev]
    BY <1>1 DEF Calls
  <2> QED BY <1>1, <2>1, <2>2, RunBegins
<1> QED BY <1>2, <1>3, <1>4

(* A crash before the commit loses the run and nothing else.               *)
LEMMA CrashKeeps ==
  ASSUME IInv, Crash
  PROVE  IInv'
<1>1. failed \in BOOLEAN
  BY DEF IInv, Ranges
<1> QED BY <1>1, CallFailed DEF Crash

(* A run that has made all its calls has reached its revision.             *)
LEMMA CommitKeeps ==
  ASSUME IInv, Commit
  PROVE  IInv'
<1>1. /\ target # rev /\ plan = {} /\ db' = work /\ rev' = target
      /\ work' = work /\ plan' = plan /\ target' = target /\ failed' = failed /\ born' = born
  BY DEF Commit, Idle
<1>2. /\ Ranges /\ DatabaseOK(work, born) /\ KeysFirst(work, rev) /\ TablesMade /\ TypesMade
      /\ Staged /\ TenantColumnsMade /\ IndexesMade /\ IndexesRemembered
      /\ rev \in 0..3 /\ target \in 0..3 /\ (target < rev => target = rev - 1)
  BY DEF IInv, Ranges
<1>3. \A name, t : ~Pending(name, t)
  BY <1>1 DEF Pending
<1>4. \A name, t, f : ~PendingKey(name, t, f)
  BY <1>1 DEF PendingKey
<1> DEFINE kind == IF target = 3 THEN "int" ELSE "uuid"
<1>5. \A x \in DOMAIN work.type : work.type[x] = kind
  <2> TAKE x \in DOMAIN work.type
  <2>1. /\ x[1] \in Modelled
        /\ \/ HasTable(work, x[1]) /\ x = <<x[1], "id">>
           \/ \E f \in Present(work, x[1]) : x = Slot(x[1], f)
    BY <1>2, ColumnKinds DEF DatabaseOK
  <2>2. HasTable(work, x[1]) => IdType(work, x[1]) = kind
    BY <1>2, <1>3, <2>1 DEF TypesMade
  <2>3. \A f \in Present(work, x[1]) : ColType(work, x[1], f) = kind
    BY <1>2, <1>4, <2>1 DEF TypesMade
  <2> HIDE DEF kind
  <2> QED BY <2>1, <2>2, <2>3 DEF IdType, ColType
<1>6. \A t \in Modelled :
         \A f \in Present(work, t) : ColType(work, t, f) = kind /\ IdType(work, f[2]) = kind
  <2>1. \A t \in Modelled : \A f \in Present(work, t) : HasTable(work, f[2])
    BY <1>2 DEF DatabaseOK, ColumnsPaired
  <2> HIDE DEF kind
  <2> QED BY <1>5, <2>1 DEF Present, HasTable, IdType, ColType
<1>7. target < 3 => work.legacyIds = {} /\ work.legacyIndexes = {}
  <2> SUFFICES ASSUME target < 3 PROVE work.legacyIds = {} /\ work.legacyIndexes = {}
    OBVIOUS
  <2>1. CASE rev < 3
    <3>1. UuidsOK(work, born)
      BY <2>1, StillUuids
    <3> QED BY <1>2, <2>1, <3>1 DEF UuidsOK, Staged
  <2>2. CASE rev = 3
    <3>1. target = 2
      BY <1>2, <2>2
    <3> QED BY <1>2, <1>3, <2>2, <3>1 DEF Staged
  <2> QED BY <1>2, <2>1, <2>2
<1>8. KeysFirst(work, target)
  <2>1. CASE target = 3
    BY <1>6, <2>1 DEF KeysFirst
  <2>2. CASE target < 3
    BY <1>2, <1>6, <1>7, <2>2 DEF KeysFirst
  <2> QED BY <1>2, <2>1, <2>2
<1>9. Tables(target) \subseteq Modelled
  BY <1>2, TablesOf
<1>10. {t \in Modelled : HasTable(work, t)} = Tables(target)
  BY <1>2, <1>3, <1>9 DEF TablesMade
<1>11. \A t \in Modelled \ {"tenants"} : TenantReference \in Present(work, t) <=> target >= 2
  BY <1>2, <1>3 DEF TenantColumnsMade
<1>12. \A i \in work.idx \cup work.legacyIndexes :
          i.table \in Modelled /\ HasTable(work, i.table) /\ i \in IndexesOf(i.table)
  BY <1>2 DEF IndexesMade
<1>13. \A t \in Modelled : HasTable(work, t) => \A i \in IndexesOf(t) : i \in work.idx
  BY <1>2, <1>3 DEF IndexesMade
<1>14. work.idx = UNION {IndexesOf(t) : t \in Tables(target)}
  BY <1>10, <1>12, <1>13
<1>15. work.legacyIndexes = IF target = 3 THEN work.idx ELSE {}
  <2>1. CASE target < 3
    BY <1>2, <1>7, <2>1
  <2>2. CASE target = 3
    <3>1. ASSUME NEW i \in work.idx PROVE i \in work.legacyIndexes
      <4>1. i.table \in Modelled /\ HasTable(work, i.table) /\ i \in IndexesOf(i.table)
        BY <1>12, <3>1
      <4>2. ColumnsPaired(work)
        BY <1>2 DEF DatabaseOK
      <4>3. PICK c \in ToSet(i.cols) :
               \E f \in Present(work, i.table) : <<i.table, c>> = Slot(i.table, f)
        BY <4>1, <4>2, IndexColumns
      <4>4. work.type[<<i.table, c>>] = "int"
        BY <1>6, <2>2, <4>1, <4>3 DEF ColType
      <4>5. rev < 3
        BY <1>1, <1>2, <2>2
      <4> QED BY <1>2, <2>2, <4>1, <4>4, <4>5 DEF IndexesRemembered
    <3>2. \A i \in work.legacyIndexes : i \in work.idx
      BY <1>12, <1>13
    <3> QED BY <2>2, <3>1, <3>2
  <2> QED BY <1>2, <2>1, <2>2
<1>16. Committed'
  <2>1. \A t : HasTable(db, t)' <=> HasTable(work, t)
    BY <1>1 DEF HasTable
  <2>2. \A t : Present(db, t)' = Present(work, t)
    BY <1>1 DEF Present
  <2>3. Tables(rev)' = Tables(target)
    BY <1>1 DEF Tables
  <2>4. {t \in Modelled : HasTable(db, t)}' = Tables(rev)'
    BY <1>10, <2>1, <2>3
  <2>5. (\A x \in DOMAIN db.type : db.type[x] = IF rev = 3 THEN "int" ELSE "uuid")'
    BY <1>1, <1>5
  <2>6. (\A t \in Modelled \ {"tenants"} : TenantReference \in Present(db, t) <=> rev >= 2)'
    BY <1>1, <1>11, <2>2
  <2>7. (db.idx = UNION {IndexesOf(t) : t \in Tables(rev)})'
    BY <1>1, <1>14, <2>3
  <2>8. (db.legacyIndexes = IF rev = 3 THEN db.idx ELSE {})'
    BY <1>1, <1>15
  <2> QED BY <2>4, <2>5, <2>6, <2>7, <2>8 DEF Committed
<1>17. Ranges'
  BY <1>1, <1>2 DEF Ranges, Idle
<1>18. DatabaseOK(db, born)' /\ KeysFirst(db, rev)'
  BY <1>1, <1>2, <1>8
<1>19. (work = db /\ plan = Calls(rev, target))'
  <2>1. Calls(rev, target)' = {}
    BY <1>1, <1>2 DEF Calls
  <2> QED BY <1>1, <2>1
<1>20. Start'
  BY <1>16, <1>17, <1>18, <1>19 DEF Start
<1> QED BY <1>20, StartedNext

(***************************************************************************)
(* The service between two runs.                                           *)
(***************************************************************************)

(* The database between two runs has keys of one type.                     *)
LEMMA CommittedUniform ==
  ASSUME IInv
  PROVE  Uniform(db)
<1>1. \A x \in DOMAIN db.type : db.type[x] = IF rev = 3 THEN "int" ELSE "uuid"
  BY DEF IInv, Committed
<1>2. (IF rev = 3 THEN "int" ELSE "uuid") \in Kinds
  BY DEF Kinds
<1> QED BY <1>1, <1>2 DEF Uniform

(* A column names one reference.                                           *)
LEMMA ParentOfLink ==
  ASSUME NEW t \in Modelled, NEW f \in Links(t)
  PROVE  ParentOf(t, f[1]) = f[2]
<1>1. \A g \in Links(t) : g[1] = f[1] => g = f
  BY LinkFacts
<1>2. (CHOOSE g \in Links(t) : g[1] = f[1]) = f
  BY <1>1
<1> QED BY <1>2 DEF ParentOf, Links

(* The columns a new row has a value for.                                  *)
LEMMA ColumnsPresent ==
  ASSUME NEW t \in Modelled
  PROVE  Columns(t) = {f[1] : f \in Present(db, t)}
BY DEF Columns, Present, Links, Slot

(* What a write of the service has to keep.                                *)
LEMMA ServiceWrote ==
  ASSUME IInv, Idle, DatabaseOK(db, born)', KeysFirst(db, rev)', born' \in 0..MaxBorn,
         db'.type = db.type, db'.idx = db.idx, db'.legacyIndexes = db.legacyIndexes,
         work' = db', UNCHANGED <<rev, plan, target, failed>>
  PROVE  IInv'
<1>1. Ranges /\ Committed /\ target = rev /\ plan = {}
  BY DEF IInv, Ranges, Idle
<1>2. Ranges'
  BY <1>1 DEF Ranges, Idle
<1>3. Committed'
  <2>1. \A t : HasTable(db, t)' <=> HasTable(db, t)
    BY DEF HasTable
  <2>2. \A t : Present(db, t)' = Present(db, t)
    BY DEF Present
  <2>3. Tables(rev)' = Tables(rev)
    BY DEF Tables
  <2>4. {t \in Modelled : HasTable(db, t)}' = Tables(rev)'
    BY <1>1, <2>1, <2>3 DEF Committed
  <2>5. (\A x \in DOMAIN db.type : db.type[x] = IF rev = 3 THEN "int" ELSE "uuid")'
    BY <1>1 DEF Committed
  <2>6. (\A t \in Modelled \ {"tenants"} : TenantReference \in Present(db, t) <=> rev >= 2)'
    BY <1>1, <2>2 DEF Committed
  <2>7. (db.idx = UNION {IndexesOf(t) : t \in Tables(rev)})'
    BY <1>1, <2>3 DEF Committed
  <2>8. (db.legacyIndexes = IF rev = 3 THEN db.idx ELSE {})'
    BY <1>1 DEF Committed
  <2> QED BY <2>4, <2>5, <2>6, <2>7, <2>8 DEF Committed
<1>4. (work = db /\ plan = Calls(rev, target))'
  <2>1. rev \in 0..3
    BY DEF IInv, Ranges
  <2>2. Calls(rev, target)' = {}
    BY <1>1, <2>1 DEF Calls
  <2> QED BY <1>1, <2>2
<1>5. Start'
  BY <1>2, <1>3, <1>4 DEF Start
<1> QED BY <1>5, StartedNext

(* A new row refers to rows that are there.                                *)
LEMMA InsertKeeps ==
  ASSUME IInv, NEW t \in Populated, Insert(t)
  PROVE  IInv'
<1>1. /\ t \in Modelled /\ Idle /\ HasTable(db, t) /\ born' = born + 1
      /\ UNCHANGED <<rev, plan, target, failed>>
  BY MigrationsAssumption DEF Insert
<1>2. /\ DatabaseOK(db, born) /\ KeysFirst(db, rev) /\ born \in Nat /\ born' \in 0..MaxBorn
  <2>1. DatabaseOK(db, born) /\ KeysFirst(db, rev) /\ born \in 0..MaxBorn
    BY DEF IInv, Ranges
  <2>2. born < MaxBorn /\ MaxBorn \in Nat
    BY MigrationsAssumption DEF Insert
  <2> QED BY <1>1, <2>1, <2>2
<1>3. Shape(db) /\ Uniform(db) /\ DOMAIN db = Fields
  BY <1>2, CommittedUniform DEF DatabaseOK, Shape
<1>4. PICK parents \in [Columns(t) -> UNION {db.rows[ParentOf(t, c)] : c \in Columns(t)}],
           subject \in (IF t = "casbin_rules" THEN db.rows["users"] ELSE {Default}) :
        /\ \A c \in Columns(t) : parents[c] \in db.rows[ParentOf(t, c)]
        /\ db' = [db EXCEPT !.rows[t] = @ \cup {NewRow(t, parents, subject)},
                            !.seq[t] = IF @ = 0 /\ db.type[<<t, "id">>] = "uuid"
                                       THEN 0 ELSE @ + 1]
        /\ work' = db'
  BY DEF Insert
<1> DEFINE x == NewRow(t, parents, subject)
<1>5. /\ DOMAIN db' = Fields
      /\ db'.type = db.type /\ db'.fks = db.fks /\ db'.legacyIds = db.legacyIds
      /\ db'.idx = db.idx /\ db'.legacyIndexes = db.legacyIndexes
      /\ db'.rows = [db.rows EXCEPT ![t] = @ \cup {x}]
      /\ db'.seq = [db.seq EXCEPT ![t] = IF @ = 0 /\ IdType(db, t) = "uuid" THEN 0 ELSE @ + 1]
  BY <1>3, <1>4 DEF Fields, IdType
<1>6. DOMAIN x = RowFields /\ x.who = born + 1
  BY DEF NewRow, RowFields
<1>7. /\ IdType(db, t) = "uuid" => x.id = Uuid(born + 1) /\ x.was = Uuid(born + 1)
      /\ IdType(db, t) = "int" => x.id = Serial(db.seq[t] + 1) /\ x.was = Null
  BY DEF NewRow, IdType
<1>8. /\ DOMAIN x.ref = Columns(t) /\ DOMAIN x.meant = Columns(t)
      /\ \A c \in Columns(t) : x.ref[c] = parents[c].id /\ x.meant[c] = parents[c].who
  BY DEF NewRow
<1>9. /\ DOMAIN x.ref = {f[1] : f \in Present(db, t)}
      /\ DOMAIN x.meant = {f[1] : f \in Present(db, t)}
  BY <1>1, <1>8, ColumnsPresent
<1> HIDE DEF x
<1>10. \A f \in Present(db, t) : \E q \in db.rows[f[2]] :
          x.ref[f[1]] = q.id /\ x.meant[f[1]] = q.who
  <2> TAKE f \in Present(db, t)
  <2>1. f[1] \in Columns(t)
    BY <1>1, ColumnsPresent
  <2>2. ParentOf(t, f[1]) = f[2]
    BY <1>1, ParentOfLink DEF Present
  <2>3. parents[f[1]] \in db.rows[f[2]]
    BY <1>4, <2>1, <2>2
  <2> QED BY <1>8, <2>1, <2>3
<1>11. InsertsRow(db, db', t, x, born)
  BY <1>1, <1>5, <1>6, <1>7, <1>9, <1>10 DEF InsertsRow
<1>12. DatabaseOK(db', born + 1) /\ KeysFirst(db', rev)
  BY <1>1, <1>2, <1>3, <1>11, RowInserted
<1>13. DatabaseOK(db, born)' /\ KeysFirst(db, rev)'
  BY <1>1, <1>12
<1> QED BY <1>1, <1>2, <1>4, <1>5, <1>13, ServiceWrote

(* A row that goes is referred to by none.                                 *)
LEMMA DeleteKeeps ==
  ASSUME IInv, NEW t \in Populated, Delete(t)
  PROVE  IInv'
<1>1. /\ t \in Modelled /\ Idle /\ work' = db' /\ born' = born
      /\ UNCHANGED <<rev, plan, target, failed>>
  BY MigrationsAssumption DEF Delete
<1>2. DatabaseOK(db, born) /\ KeysFirst(db, rev) /\ born \in 0..MaxBorn
  BY DEF IInv, Ranges
<1>3. Shape(db) /\ Uniform(db) /\ DOMAIN db = Fields
  BY <1>2, CommittedUniform DEF DatabaseOK, Shape
<1>4. PICK r \in db.rows[t] :
        /\ \A f \in db.fks : f.parent = t => \A s \in db.rows[f.child] : s.ref[f.col] # r.id
        /\ db' = [db EXCEPT !.rows[t] = @ \ {r}]
  BY DEF Delete
<1>5. /\ DOMAIN db' = Fields
      /\ db'.type = db.type /\ db'.fks = db.fks /\ db'.legacyIds = db.legacyIds
      /\ db'.seq = db.seq /\ db'.idx = db.idx /\ db'.legacyIndexes = db.legacyIndexes
      /\ db'.rows = [db.rows EXCEPT ![t] = @ \ {r}]
  BY <1>3, <1>4 DEF Fields
<1>6. RemovesRow(db, db', t, r)
  BY <1>4, <1>5 DEF RemovesRow
<1>7. DatabaseOK(db', born) /\ KeysFirst(db', rev)
  BY <1>1, <1>2, <1>3, <1>6, RowRemoved
<1>8. DatabaseOK(db, born)' /\ KeysFirst(db, rev)'
  BY <1>1, <1>7
<1> QED BY <1>1, <1>2, <1>5, <1>8, ServiceWrote

(***************************************************************************)
(* The invariant.                                                          *)
(***************************************************************************)

(* Before the first revision there is nothing.                             *)
LEMMA EmptyDatabase == Init => Start
<1> SUFFICES ASSUME Init PROVE Start
  OBVIOUS
<1>1. /\ db = Empty /\ work = Empty /\ rev = 0 /\ target = 0 /\ plan = {}
      /\ failed = FALSE /\ born = 0 /\ MaxBorn \in Nat
  BY MigrationsAssumption DEF Init
<1>2. /\ DOMAIN db = Fields /\ DOMAIN db.type = {} /\ db.fks = {} /\ db.idx = {}
      /\ DOMAIN db.rows = Modelled /\ DOMAIN db.seq = Modelled
      /\ \A t \in Modelled : db.rows[t] = {} /\ db.seq[t] = 0
      /\ db.legacyIds = {} /\ db.legacyIndexes = {}
  BY <1>1 DEF Empty, Fields
<1>3. /\ \A t : ~HasTable(db, t)
      /\ \A t : Present(db, t) = {}
  BY <1>2 DEF HasTable, Present
<1>4. Shape(db) /\ ColumnsPaired(db)
  BY <1>2, <1>3 DEF Shape, ColumnsPaired
<1>5. RowsOK(db, born)
  <2>1. IsFiniteSet({})
    BY FS_EmptySet
  <2> QED BY <1>2, <1>3, <2>1 DEF RowsOK
<1>6. IdsOK(db) /\ LegacyOK(db) /\ RefsOK(db) /\ FksOK(db)
  BY <1>2, <1>3 DEF IdsOK, LegacyOK, RefsOK, FksOK
<1>7. KeysFirst(db, rev)
  BY <1>2, <1>3 DEF KeysFirst
<1>8. Tables(rev) = {}
  BY <1>1, TablesOf
<1>9. Committed
  BY <1>1, <1>2, <1>3, <1>8 DEF Committed
<1>10. Ranges
  <2>1. rev \in 0..3 /\ target \in 0..3 /\ born \in 0..MaxBorn /\ ~(target < rev)
    BY <1>1
  <2>2. failed \in BOOLEAN
    BY <1>1
  <2>3. plan = {} /\ work = db
    BY <1>1
  <2> QED BY <2>1, <2>2, <2>3 DEF Ranges
<1>11. plan = Calls(rev, target)
  BY <1>1 DEF Calls
<1> QED BY <1>1, <1>4, <1>5, <1>6, <1>7, <1>9, <1>10, <1>11 DEF Start, DatabaseOK

(* One step of the chain, of the service or of neither.                    *)
LEMMA StepKeeps ==
  ASSUME IInv, [Next]_vars
  PROVE  IInv'
<1>1. CASE UpgradeHead \/ UpgradeOne \/ DowngradeOne
  BY <1>1, BeginKeeps
<1>2. CASE Commit
  BY <1>2, CommitKeeps
<1>3. CASE Crash
  BY <1>3, CrashKeeps
<1>4. ASSUME NEW o \in Due,
             \/ CreateTable(o) \/ DropTable(o)
             \/ CreateTenants(o) \/ AddTenantId(o) \/ DropTenantId(o)
             \/ ConvertPk(o) \/ ConvertFk(o) \/ RecreateIndexes(o)
             \/ RestorePk(o) \/ RestoreFk(o) \/ DropLegacy(o)
      PROVE  IInv'
  <2>1. CASE CreateTable(o)
    BY <2>1, CreateTableKeeps
  <2>2. CASE DropTable(o)
    BY <2>2, DropTableKeeps
  <2>3. CASE CreateTenants(o)
    BY <2>3, CreateTenantsKeeps
  <2>4. CASE AddTenantId(o)
    BY <2>4, AddTenantIdKeeps
  <2>5. CASE DropTenantId(o)
    BY <2>5, DropTenantIdKeeps
  <2>6. CASE ConvertPk(o)
    BY <2>6, ConvertPkKeeps
  <2>7. CASE ConvertFk(o)
    BY <2>7, ConvertFkKeeps
  <2>8. CASE RecreateIndexes(o)
    BY <2>8, RecreateIndexesKeeps
  <2>9. CASE RestorePk(o)
    BY <2>9, RestorePkKeeps
  <2>10. CASE RestoreFk(o)
    BY <2>10, RestoreFkKeeps
  <2>11. CASE DropLegacy(o)
    BY <2>11, DropLegacyKeeps
  <2> QED BY <1>4, <2>1, <2>2, <2>3, <2>4, <2>5, <2>6, <2>7, <2>8, <2>9, <2>10, <2>11
<1>5. ASSUME NEW t \in Populated, Insert(t) \/ Delete(t) PROVE IInv'
  BY <1>5, InsertKeeps, DeleteKeeps
<1>6. CASE UNCHANGED vars
  <2>1. /\ db' = db /\ rev' = rev /\ work' = work /\ plan' = plan
        /\ target' = target /\ failed' = failed /\ born' = born
    BY <1>6 DEF vars
  <2>2. Ranges' /\ Committed' /\ InOrder' /\ TablesMade' /\ TypesMade' /\ Staged'
    BY <2>1 DEF IInv, Ranges, Idle, Committed, InOrder, Calls, TablesMade, TypesMade, Staged,
                Pending, PendingKey
  <2>3. TenantColumnsMade' /\ IndexesMade' /\ IndexesRemembered'
    BY <2>1 DEF IInv, TenantColumnsMade, IndexesMade, IndexesRemembered, Pending
  <2>4. /\ DatabaseOK(db, born)' /\ KeysFirst(db, rev)'
        /\ DatabaseOK(work, born)' /\ KeysFirst(work, rev)'
    BY <2>1 DEF IInv
  <2> QED BY <2>2, <2>3, <2>4 DEF IInv
<1> QED BY <1>1, <1>2, <1>3, <1>4, <1>5, <1>6 DEF Next

(* At every statement of every run, and between two runs, the database is  *)
(* in order and the rest of the plan leads to the revision of the run.     *)
THEOREM MigrationsInvariant == Spec => []IInv
<1>1. Init => IInv
  BY EmptyDatabase, Started
<1>2. IInv /\ [Next]_vars => IInv'
  BY StepKeeps
<1> QED BY <1>1, <1>2, PTL DEF Spec

(***************************************************************************)
(* What follows for the committed database.                                *)
(***************************************************************************)

(* A reference of a row, in a database with keys of one type, is the key   *)
(* of the one row it is meant for.                                         *)
LEMMA ReferenceFound ==
  ASSUME IInv, NEW t \in Modelled, NEW f \in Present(db, t), NEW r \in db.rows[t]
  PROVE  /\ r.ref[f[1]][1] = ColType(db, t, f)
         /\ \E q \in db.rows[f[2]] :
              /\ q.who = r.meant[f[1]] /\ q.id = r.ref[f[1]]
              /\ \A p \in db.rows[f[2]] : p.id = q.id => p = q
<1>1. DatabaseOK(db, born) /\ born \in 0..MaxBorn /\ Uniform(db)
  BY CommittedUniform DEF IInv, Ranges
<1>2. /\ f[2] \in Modelled /\ ColType(db, t, f) \in Kinds
      /\ ColType(db, t, f) = IdType(db, f[2])
  BY <1>1, UniformTypes
<1>3. PICK q \in db.rows[f[2]] : q.who = r.meant[f[1]] /\ Names(db, t, f, r.ref[f[1]], q)
  BY <1>1 DEF DatabaseOK, RefsOK
<1>4. /\ RowOK(db, f[2], q, born)
      /\ IdType(db, f[2]) = "uuid" => q.id = FirstId(q)
      /\ \A s \in db.rows[f[2]] : s.who = q.who => s = q
  BY <1>1, <1>2, RowFacts
<1>5. q.id = r.ref[f[1]]
  BY <1>2, <1>3, <1>4 DEF Names, Kinds
<1>6. FirstId(q)[1] = "uuid"
  <2>1. FirstId(q) = Uuid(FirstId(q)[2])
    BY <1>1, <1>4, FirstIds DEF RowOK
  <2> QED BY <2>1 DEF Uuid
<1>7. r.ref[f[1]][1] = ColType(db, t, f)
  BY <1>2, <1>3, <1>6 DEF Names, Kinds
<1>8. ASSUME NEW p \in db.rows[f[2]], p.id = q.id PROVE p = q
  <2>1. CASE IdType(db, f[2]) = "int"
    <3>1. \A s \in db.rows[f[2]] : s.id = q.id => s = q
      BY <1>1, <1>2, <2>1 DEF DatabaseOK, IdsOK
    <3> QED BY <1>8, <3>1
  <2>2. CASE IdType(db, f[2]) = "uuid"
    <3>1. RowOK(db, f[2], p, born) /\ p.id = FirstId(p)
      BY <1>1, <1>2, <2>2, RowFacts
    <3>2. FirstId(p) = FirstId(q)
      BY <1>4, <1>8, <2>2, <3>1
    <3>3. p.who = q.who
      BY <1>1, <1>4, <3>1, <3>2, FirstIds DEF RowOK
    <3> QED BY <1>4, <3>3
  <2> QED BY <1>2, <2>1, <2>2 DEF Kinds
<1> QED BY <1>3, <1>5, <1>7, <1>8

(* The columns of a committed database are those of its tables.            *)
LEMMA ColumnOfTable ==
  ASSUME IInv, NEW x \in DOMAIN db.type
  PROVE  /\ x[1] \in Modelled /\ x[1] \in Tables(rev)
         /\ \/ x = <<x[1], "id">>
            \/ x[2] # "id" /\ \E f \in Present(db, x[1]) : x = Slot(x[1], f) /\ f[1] = x[2]
<1>1. Shape(db) /\ ColumnsPaired(db) /\ Committed
  BY DEF IInv, DatabaseOK
<1>2. /\ x[1] \in Modelled
      /\ \/ HasTable(db, x[1]) /\ x = <<x[1], "id">>
         \/ \E f \in Present(db, x[1]) : x = Slot(x[1], f)
  BY <1>1, ColumnKinds
<1>3. HasTable(db, x[1])
  BY <1>1, <1>2 DEF ColumnsPaired
<1>4. x[1] \in Tables(rev)
  BY <1>1, <1>2, <1>3 DEF Committed
<1>5. ASSUME NEW f \in Present(db, x[1]), x = Slot(x[1], f)
      PROVE  x[2] # "id" /\ f[1] = x[2]
  <2>1. f[1] # "id"
    BY <1>2, LinkFacts DEF Present
  <2>2. x[2] = f[1]
    BY <1>5 DEF Slot
  <2> QED BY <2>1, <2>2
<1> QED BY <1>2, <1>4, <1>5

(* The committed schema is the one of its revision, in every table.        *)
LEMMA TypesFollow == IInv => TypeOK
<1> SUFFICES ASSUME IInv PROVE TypeOK
  OBVIOUS
<1>1. /\ Ranges /\ Committed /\ DatabaseOK(db, born) /\ born \in 0..MaxBorn
      /\ Shape(db) /\ ColumnsPaired(db)
  BY DEF IInv, Ranges, DatabaseOK
<1>2. rev \in 0..3 /\ target \in 0..3 /\ failed \in BOOLEAN /\ born \in 0..MaxBorn
  BY <1>1 DEF Ranges
<1>3. {x[1] : x \in DOMAIN db.type} = Tables(rev)
  <2>1. \A x \in DOMAIN db.type : x[1] \in Tables(rev)
    BY ColumnOfTable
  <2>2. ASSUME NEW t \in Tables(rev) PROVE \E x \in DOMAIN db.type : x[1] = t
    <3>1. <<t, "id">> \in DOMAIN db.type
      BY <1>1, <2>2 DEF Committed, HasTable
    <3>2. <<t, "id">>[1] = t
      OBVIOUS
    <3> QED BY <3>1, <3>2
  <2> QED BY <2>1, <2>2
<1>4. ASSUME NEW x \in DOMAIN db.type PROVE db.type[x] = IF rev = 3 THEN "int" ELSE "uuid"
  BY <1>1 DEF Committed
<1>5. ASSUME NEW x \in DOMAIN db.type, NEW r \in db.rows[x[1]]
      PROVE  (IF x[2] = "id" THEN r.id ELSE r.ref[x[2]])[1] = db.type[x]
  <2>1. /\ x[1] \in Modelled
        /\ \/ x = <<x[1], "id">>
           \/ x[2] # "id" /\ \E f \in Present(db, x[1]) : x = Slot(x[1], f) /\ f[1] = x[2]
    BY ColumnOfTable
  <2>2. CASE x = <<x[1], "id">>
    <3>1. x[2] = "id" /\ IdType(db, x[1]) = db.type[x]
      BY <2>2 DEF IdType
    <3>2. RowOK(db, x[1], r, born) /\ db.type[x] \in Kinds
      BY <1>1, <1>4, <2>1, RowFacts DEF Kinds
    <3>3. CASE db.type[x] = "uuid"
      <4>1. r.id = FirstId(r)
        BY <1>1, <2>1, <3>1, <3>3, RowFacts
      <4>2. FirstId(r) = Uuid(FirstId(r)[2])
        BY <1>1, <3>2, FirstIds DEF RowOK
      <4>3. r.id[1] = "uuid"
        BY <4>1, <4>2 DEF Uuid
      <4> QED BY <3>1, <3>3, <4>3
    <3>4. CASE db.type[x] = "int"
      <4>1. r.id = Serial(r.id[2])
        BY <1>1, <2>1, <3>1, <3>4, RowFacts
      <4>2. r.id[1] = "int"
        BY <4>1 DEF Serial
      <4> QED BY <3>1, <3>4, <4>2
    <3> QED BY <3>2, <3>3, <3>4 DEF Kinds
  <2>3. ASSUME x[2] # "id", NEW f \in Present(db, x[1]), x = Slot(x[1], f), f[1] = x[2]
        PROVE  (IF x[2] = "id" THEN r.id ELSE r.ref[x[2]])[1] = db.type[x]
    <3>1. r.ref[f[1]][1] = ColType(db, x[1], f)
      BY <2>1, <2>3, ReferenceFound
    <3>2. ColType(db, x[1], f) = db.type[x]
      BY <2>3 DEF ColType
    <3> QED BY <2>3, <3>1, <3>2
  <2> QED BY <2>1, <2>2, <2>3
<1> QED BY <1>2, <1>3, <1>4, <1>5 DEF TypeOK

(* Each reference is the key of the one row it is meant for.               *)
LEMMA RefsFollow == IInv => RefsKept
<1> SUFFICES ASSUME IInv, NEW x \in DOMAIN db.type, x[2] # "id", NEW r \in db.rows[x[1]]
             PROVE  {p.who : p \in {p \in db.rows[ParentOf(x[1], x[2])] : p.id = r.ref[x[2]]}}
                      = {r.meant[x[2]]}
  BY DEF RefsKept
<1>1. /\ x[1] \in Modelled
      /\ \/ x = <<x[1], "id">>
         \/ x[2] # "id" /\ \E f \in Present(db, x[1]) : x = Slot(x[1], f) /\ f[1] = x[2]
  BY ColumnOfTable
<1>2. x # <<x[1], "id">>
  OBVIOUS
<1>3. PICK f \in Present(db, x[1]) : f[1] = x[2]
  BY <1>1, <1>2
<1>4. PICK q \in db.rows[f[2]] :
        /\ q.who = r.meant[f[1]] /\ q.id = r.ref[f[1]]
        /\ \A p \in db.rows[f[2]] : p.id = q.id => p = q
  BY <1>1, <1>3, ReferenceFound
<1>5. ParentOf(x[1], x[2]) = f[2]
  BY <1>1, <1>3, ParentOfLink DEF Present
<1>6. {p \in db.rows[ParentOf(x[1], x[2])] : p.id = r.ref[x[2]]} = {q}
  BY <1>3, <1>4, <1>5
<1> QED BY <1>3, <1>4, <1>6

(* The constraints and the indexes are those of the revision.              *)
LEMMA SchemaFollows == IInv => SchemaKept
<1> SUFFICES ASSUME IInv PROVE SchemaKept
  OBVIOUS
<1> DEFINE first == UNION {{DefaultFkey(t, f) : f \in ToSet(References(t))} : t \in Tables(rev)}
           second == IF rev > 1 THEN {TenantFk(t) : t \in ToSet(TenantTables) \cap Modelled} ELSE {}
<1>1. /\ Ranges /\ Committed /\ DatabaseOK(db, born) /\ rev \in 0..3 /\ Uniform(db)
      /\ Shape(db) /\ ColumnsPaired(db) /\ FksOK(db)
  BY CommittedUniform DEF IInv, Ranges, DatabaseOK
<1>2. Tables(rev) \subseteq Modelled
  BY <1>1, TablesOf
<1>3. ToSet(TenantTables) \cap Modelled = Modelled \ {"tenants"}
  BY Lists18, MigrationsAssumption
<1>4. \A t, f : f[1] # "tenant_id" => DefaultFkey(t, f) = LinkKey(t, f)
  BY DEF DefaultFkey, LinkKey, KeyName
<1>5. \A t : TenantFk(t) = LinkKey(t, TenantReference)
  BY DEF TenantFk, LinkKey, KeyName, TenantReference
<1>6. ASSUME NEW k \in db.fks PROVE k \in first \cup second
  <2>1. PICK t \in Modelled : \E f \in Present(db, t) : k = LinkKey(t, f)
    BY <1>1 DEF FksOK
  <2>2. PICK f \in Present(db, t) : k = LinkKey(t, f)
    BY <2>1
  <2>3. /\ f[1] = "tenant_id" <=> f = TenantReference
        /\ f = TenantReference \/ f \in ToSet(References(t))
        /\ t # "tenants"
    BY LinkFacts DEF Present
  <2>4. CASE f = TenantReference
    <3>1. rev >= 2
      BY <1>1, <2>3, <2>4 DEF Committed
    <3> QED BY <1>1, <1>3, <1>5, <2>2, <2>3, <2>4, <3>1
  <2>5. CASE f # TenantReference
    <3>1. HasTable(db, t)
      BY <1>1 DEF ColumnsPaired
    <3>2. t \in Tables(rev)
      BY <1>1, <3>1 DEF Committed
    <3>3. k = DefaultFkey(t, f)
      BY <1>4, <2>2, <2>3, <2>5
    <3> QED BY <2>3, <2>5, <3>2, <3>3
  <2> QED BY <2>4, <2>5
<1>7. ASSUME NEW k \in first PROVE k \in db.fks
  <2>1. PICK t \in Tables(rev) : \E f \in ToSet(References(t)) : k = DefaultFkey(t, f)
    BY <1>7
  <2>2. PICK f \in ToSet(References(t)) : k = DefaultFkey(t, f)
    BY <2>1
  <2>3. t \in Modelled /\ HasTable(db, t)
    BY <1>1, <1>2, <2>1 DEF Committed
  <2>4. f \in Present(db, t)
    BY <1>1, <2>3 DEF ColumnsPaired
  <2>5. f[1] # "tenant_id"
    <3>1. f \in Links(t) /\ f # TenantReference
      BY <2>3, LinkFacts
    <3> QED BY <2>3, <3>1, LinkFacts
  <2>6. LinkKey(t, f) \in db.fks
    BY <1>1, <2>3, <2>4, UniformTypes
  <2> QED BY <1>4, <2>2, <2>5, <2>6
<1>8. ASSUME NEW k \in second PROVE k \in db.fks
  <2>1. rev > 1 /\ \E t \in Modelled \ {"tenants"} : k = TenantFk(t)
    BY <1>3, <1>8
  <2>2. PICK t \in Modelled \ {"tenants"} : k = TenantFk(t)
    BY <2>1
  <2>3. rev >= 2
    BY <1>1, <2>1
  <2>4. TenantReference \in Present(db, t)
    BY <1>1, <2>3 DEF Committed
  <2>5. LinkKey(t, TenantReference) \in db.fks
    BY <1>1, <2>4, UniformTypes
  <2> QED BY <1>5, <2>2, <2>5
<1>9. db.idx = UNION {IndexesOf(t) : t \in Tables(rev)}
  BY <1>1 DEF Committed
<1>10. db.fks = first \cup second
  BY <1>6, <1>7, <1>8
<1> QED BY <1>9, <1>10 DEF SchemaKept

(* A row born with a uuid has it whenever keys are uuids.                  *)
LEMMA UuidsFollow == IInv => UuidsRestored
<1> SUFFICES ASSUME IInv, rev < 3, NEW t \in Tables(rev), NEW r \in db.rows[t], r.was # Null
             PROVE  r.id = r.was
  BY DEF UuidsRestored
<1>1. Ranges /\ Committed /\ DatabaseOK(db, born) /\ rev \in 0..3
  BY DEF IInv, Ranges
<1>2. t \in Modelled /\ HasTable(db, t)
  BY <1>1, TablesOf DEF Committed
<1>3. IdType(db, t) = "uuid"
  BY <1>1, <1>2 DEF Committed, HasTable, IdType
<1>4. r.id = FirstId(r)
  BY <1>1, <1>2, <1>3, RowFacts
<1> QED BY <1>4 DEF FirstId

(* TypeOK: every committed database has the tables, the columns and the    *)
(* types of its revision, and its values are of those types, whatever runs *)
(* of Alembic, failures, crashes and writes of the service came before.    *)
THEOREM MigrationsTyped == Spec => []TypeOK
BY MigrationsInvariant, TypesFollow, PTL

(* RefsKept: through any number of upgrades, downgrades and writes between *)
(* them, convert_fk and _restore_fk lead each reference of each row to the *)
(* one row it was meant for.                                               *)
THEOREM EveryReferenceKept == Spec => []RefsKept
BY MigrationsInvariant, RefsFollow, PTL

(* SchemaKept: foreign keys, with the names later revisions drop them by,  *)
(* and the indexes over reference columns are those of the revision.       *)
THEOREM EveryConstraintKept == Spec => []SchemaKept
BY MigrationsInvariant, SchemaFollows, PTL

(* UuidsRestored: a downgrade gives back to every row the uuid it was born *)
(* with (LEGACY_IDS), though rows were added and deleted in between.       *)
THEOREM EveryUuidRestored == Spec => []UuidsRestored
BY MigrationsInvariant, UuidsFollow, PTL
=============================================================================
