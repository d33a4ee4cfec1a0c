# A TLA+ verification project for the codebase

The repository is a FastAPI service on PostgreSQL (SQLAlchemy async sessions,
asyncpg) and Redis: accounts with JWT sessions, roles and permissions decided by
Casbin, todos, a stack of HTTP middleware, and Alembic migrations. The modules
here model the parts that keep state and whose correctness depends on what
overlaps, fails or comes in an unexpected order. Paths below are relative to the
repository's `src/` package directory unless they begin with `README.md`,
`docs/` or `alembic/`.

## 1. Inventory

| Part | State it keeps | Operations | Made correct by | Modelled in |
| --- | --- | --- | --- | --- |
| Sessions: `core/security/{jwt,providers,token_revocation}.py`, `core/middleware/auth.py`, `modules/user/application/auth/{login_user,refresh_token,logout_user}` | `user_sessions` rows (hash, expiry, revoked); denylist keys in Redis | login, refresh, logout, authenticate | rotation as a whole; revocation for good; a logged-out access token refused; every request ends | `Sessions` |
| Account lockout: `core/security/account_lockout.py`, its repository | `login_attempts` rows | ensure allowed, record failure, record success | failures in a window lock; a lock stands | `Lockout` |
| Authorization: `modules/authorization` | `roles`, `permissions`, `role_permissions`, `user_has_roles`; `casbin_rules` | create, rename, delete, assign, remove, seed, decide | the two copies of every grant agree; names used again grant nothing | `Rbac` |
| Two-factor: `core/security/two_factor_auth.py`, `modules/user/application/auth/two_factor` | three columns of `user_security` | set up, confirm, disable, e-mail code, backup code, regenerate | codes work once; an unconfirmed secret never counts | `TwoFactor` |
| Seeding: `core/seed` | the rows above, in one transaction | `make seed`, default tenant | idempotent; links and rules together | `Rbac`, in part |
| Registration: `register_user`, `UserRepository` | `users` and their profile, settings, security, role | register | one account per e-mail; all rows or none | `Registration`, `Posts`, `Accounts` |
| Request stack: `core/middleware/{tenant,metrics,csrf,idempotency,request_size}.py`, `core/dependency/rate_limit.py` | cached answers and a counter in Redis, a gauge | admit, replay, store, count | a retry does not run twice; what is replayed is true; no path forgets the gauge; everyone is answered | `Requests`, `Posts` |
| Events and e-mail: `core/events/bus.py`, `core/email` | subscriptions | publish, send with fallback | a failing handler or provider does not undo a registration; the next provider is tried | `Registration`, in part |
| Pagination: `shared/utils/cursor.py`, the `list_*_cursor` repositories and their routers | none (a cursor) | next and previous page | every row that stays is listed once | `Paging`, `Lists` |
| Todos: `modules/todo` | `todos` | create, update, delete, list | changed by their owner only; made once | `Lists`, `Posts` |
| Migrations: `alembic/versions`, `alembic/env.py` | the schema, every row's keys, two shadow tables | upgrade, downgrade | references survive; a round trip restores ids and indexes | `Migrations` |
| Tenants: `core/middleware/tenant.py`, `modules/tenants` | a context variable, `tenants` | resolve, filter | a request sees one tenant | `Requests`, in part |
| API keys: `modules/api_key` | `api_keys` | generate, validate, revoke | a revoked or expired key is refused | no, see 7 |
| Audit, error traces, tracing, logs, headers | append-only records; none | per request and per login | a failing record does not fail the request | a login's record: `Sessions`, `Lockout`; else no, see 7 |

How they interact: a request passes the middlewares from the outermost in:
request id, authentication, tenant, audit, logging, metrics, CSRF, idempotency,
CORS, CSP and security headers, request size (`core/bootstrap/middleware.py`
adds them in the reverse order); then the dependencies of the route, which are
the global rate limit and `require_permission`, which asks Casbin; then a handler
that reads through a repository, opens a unit of work, writes and commits, and
in the end publishes an event on the bus. Handlers of one process are coroutines
that interleave at every `await`; several processes share only PostgreSQL and
Redis. Alembic runs when a container starts, on the database that the service
has written. Hard behaviour, hence the models: what a handler reads *before* it
opens its unit of work and uses inside it; READ COMMITTED statements that see
each other's commits one by one; Redis outside the transaction; whole-row saves;
grants kept twice; clocks of different precision; answers stored after the
commit; pages of a table that changes; a schema rewritten in dozens of statements.
`PROJECT.json` lists each hazard at its line with the properties aimed at it.

## 2. Modules

Every module is one component: its state as variables, one action per stretch
of a handler between two points where others can come between, `Next`, `Spec`.
`MC*` modules add the symmetry TLC uses, where there is one; `*Proofs` modules
hold theorems. `Lists` extends `Paging`; `Posts` extends `Registration`, which
extends `Requests`, and instantiates `Accounts`.
Definitions marked *Mutant* are plausible bugs of the code used to show that a
property can fail; no specification uses them.

*Errors of the deployed system.* Five calls raise with the deployed driver or
schema whatever the interleaving, and would hide what the code around them
does. Each has a constant that chooses between the code as deployed (`FALSE`)
and the code with that one error repaired (`TRUE`): `AuditStores` (the audit row
of a login, a uuid for an INTEGER), `StrBinds` (the user id of a logout, a text
for an INTEGER), `Seeds` (the seeder's repositories, without a tenant),
`Renames` (a PATCH that renames, whose answer reads an expired attribute), and
`dated` in `Paging` (the creation time a `Todo` does not have). The passing runs of
`Sessions` and `Lockout` have `TRUE`: deployed, no login commits, so there is
nothing to refresh or to lock, and their safety properties hold trivially. So it
is with the tokens that `Posts` takes its callers of todos to have. `rbac_overlap`
has `Renames = FALSE`, `rbac_rows` and `lockout_audit` what is deployed. The
theorems hold for both values, but for `Renames` where section 5 says so.

**Sessions** (`Sessions.tla`). A member of `Token` is the pair of access and
refresh token that one login or refresh makes. `row` is the committed
`user_sessions` row, `denied` the expiry of the denylist key in Redis. A request
slot walks `LoginIssue, LoginCommit`; `RefreshRead, RefreshWrite, RefreshCommit`;
`AuthDecode, AuthCheck` and then `Serve` or `LogoutBegin, LogoutScan,
LogoutUpdate, LogoutDenylist, LogoutCommit`. `RefreshRead` is the read of the
stored token, without a lock, before the unit of work; `RefreshWrite` the
`merge` of the revoked entity, whose UPDATE takes the row lock when the row is
not revoked yet. The logout's UPDATE is two actions: the scan takes what is
committed when it starts, the update waits for rows in other transactions and
skips those found revoked afterwards. `Fail` is any exception, lost connection
or crash: `__aexit__`, or the server on disconnect, rolls back, Redis stays as it
is. Time is in ticks, `Ticks` to a second: the `exp` claim is cut to a second and
compared as jose does, `expires_at` keeps its precision, the TTL of SETEX is
rounded down. `AuditRaises` is the audit row of a login, in its transaction. Left
out: the permission a logout needs, the password (see Lockout). Bounds:
`Token` ids and the clock; `Room` keeps a request from starting when no id
would be left for it.

**Rbac** (`Rbac.tla`). Users, roles and permissions are nodes with a text
(`None` before creation, `Gone` after deletion: ids are serial); a row of
`user_has_roles` or `role_permissions` is a pair of nodes in `link`, a row of
`casbin_rules` counts in `rule[<<text, text>>]`: `g, user, role` and `p, role,
key`. Roles and permissions go through the same steps with the same shapes, so
one action stands for both. An operation is a read of texts by id (`...Read`)
and its writes with the commit; the assignment has one step more, since it looks
for the rule after it has inserted the link. The unique indexes over names, keys
and links are guards, the key share lock of an uncommitted link is `KeyShared`,
`rule < 2` in `Assign` is the `scalar_one_or_none` that raises on a duplicate.
`Seed` is one action because `run_seeders` is one transaction and runs while the
service does not; `Seeds` lets it commit. `Overlap` chooses between requests one
at a time and requests that overlap; `Renames` whether a PATCH that changes a name
commits. Assumptions (`RbacAssumption`): no role is named like a user id, since the Casbin matcher
compares both with the same field. Left out: the permission the administrator
needs, resources, descriptions, and tenants (every query filters by one).

**Lockout** (`Lockout.tla`). `row` is the table of one e-mail. A login passes
`EnsureAllowed`, then either counts (`RecordFailedLogin`) and inserts with the
commit (`CommitFailure`) or deletes what is there (`RecordSuccessfulLogin`,
`CommitSuccess`); any number of logins overlap. `Locked` takes the latest
`locked_until`, as `get_locked_until` does. Which branch a login takes stands for
the password; nothing else about a password matters here. Either branch also
puts an audit row into its transaction, which may make it raise (`AuditRaises`):
then `Abort` is all that is left. `Faults` turns other failures off, so that
`lockout_audit` shows this one. Bounds: `Attempt`
ids, the clock.

**TwoFactor** (`TwoFactor.tla`). `row` holds the three columns of one user.
Every operation is `Load` (read, decide, build the entity), `Reselect` (the
second read in `save_security`, which fixes the columns the flush will write)
and `Save` (UPDATE, commit, answer). TOTP secrets and e-mail codes share
`two_factor_secret`, as in the code. A code stands for knowing it; a code that
does not fit leaves no trace and has no action, nor has the TOTP check of
`verify_2fa_code`, which writes nothing. `fresh` replaces the ten-minute clock.
The router of these handlers is not registered, so the model is of the service.
`Overlap` chooses between operations one at a time and several at once.

**Requests** (`Requests.tla`). The middlewares around a POST as guards on one
phase variable, `at`: `Stray` (no tenant, or no valid token for a route that needs
one: refused outside the gauge) or `Enter`, `Csrf`, `Lookup` (idempotency), `Size`
(413, 411, and the `int()` that raises on a malformed length), `Limit` (a counter
for each route), the handler, then `Store` (SETEX, of a 201 with a key) and `Leave`
(the `finally` of the metrics). What a request asks is in `of`: the route, the
idempotency key, the Authorization header, the tenant it was taken to be of
(`Identified`: header, then host, then token) and the body, of which the address
or the title is enough. An answer is a status and the request whose row it tells
of. `RedisFails` raises with or without the write done, `Expire` is the TTL,
`Window` the end of the rate limit's window, `Die` a process that dies with all its
requests. Left out: audit and logging of requests (section 7), and the tenant's
row, which exists.

**Registration** (`Registration.tla`, on top of `Requests`). `Check` is
`get_by_email`, outside the transaction and within the tenant; `Insert` the
INSERT of the user, which waits while another transaction holds the address
and fails after its commit, with the three related rows; `Grant` is
`assign_role`; `Commit`, `CommitUnconfirmed` and `AbortRegister` the three ends of
the transaction. `Send` is one round of the loop over the providers with what each
may do: have sent or not, return or raise; what it raises ends the loop in the
bus. Then the route builds an answer that its response model refuses
(`AnswerFails`): 500, after all that was done, so a registration is never answered
201 and never stored. `rows` are uncommitted, so a crash drops them. `Accounts.tla`
is the abstract specification, with two actions: an account is opened, whole; a
mail goes to an account, a bounded number of times.

**Posts** (`Posts.tla`, on top of `Registration`). Both routes together, and the
handler of POST /todos/, the route whose 201 the idempotency middleware stores:
`Permit` (404 outside the user's tenant, 403 without the permission), `Create` or
`CreateUnconfirmed` (INSERT and COMMIT as one, since nothing waits for the row and
nobody sees it before), `AbortTodo`. A todo is named by the request that made it;
`todo` records owner, key and title. `excuse` is a history: the keys for which the
middleware could not do its work, because two requests with one were let through
together, the answer expired, or one made its todo and neither stored nor gave
its answer. Arrivals, crashes and the clocks of Redis are here too.

**Paging** (`Paging.tla`). `ApplyCursor` is WHERE and ORDER BY, `ListCursor` the
repository with its row over the limit and the reversal, `Answer` the routes with
their two cursors; `Exact` is the reference definition, which mentions neither
order nor limit plus one. The base64 text of a cursor stands for its content, and cursors
are those the routes gave out: a text that is none raises in `decode_cursor` and is
answered with an error, which changes nothing.
`NewestFirst` is the ORDER BY by ranks: the i-th row has i - 1 rows before it,
which needs no sorting algorithm and can be reasoned about by counting.

**Lists** (`Lists.tla`). The rows of `todos`, or of `roles` (`permissions` are
alike), and one client that pages through them. `Insert` gives a new row any
creation time up to now, since `created_at` is the start of a transaction that
commits later. A todo request is `ReadTodo` (the check of the owner), then
`Merge` (the SELECT of `session.merge`) and `FlushUpdate`, `FlushInsert` or
`FlushDelete`. `walk` and `before` are histories for the properties.

**Migrations** (`Migrations.tla`). The database is a record: types of the key
columns, rows, foreign keys with their names, indexes over key columns,
sequences, and the two shadow tables `_legacy_ids` and `_legacy_indexes`. A run of
Alembic is a plan, the set of calls that `upgrade()` or `downgrade()` makes, each
with its place in the source's order (`at`); the due one is the one no other comes
before. A set with places says the same as a sequence, and lets the proofs speak
of what is behind and what is ahead without an induction over sequences. Calls
work on a copy (`work`) that `Commit` publishes: `env.py` wraps a run in one
transaction, and a pending chain in the same one (`UpgradeHead`). One action
stands for one helper of the revisions and fails where PostgreSQL does: a
table that is there already or is missing, a missing column, a foreign key
without its parent row or with another type, a table another refers to, a DROP
INDEX of a name that is not there, an index that is not unique. The branches for
`api_keys` (`c1d2e3f4a5b6` 226-230, 278-279, 290-292) are left out: no revision creates
that table, so none is ever taken. Between runs `Insert` and `Delete` are the
service. An id is a pair of its type and a number; `who`, `was`, `meant` and `named`
are histories. Left out: columns that are neither keys, references nor the
subject of a rule.

## 3. Runs

| Run | Checks | Bounds, and why they are enough |
| --- | --- | --- |
| `sessions_race` | `RotationAtomic`, `SweptRevoked`, `RevokedForever`, and `RequestsEnd` under fairness | one user, two requests, three pairs, no clock: a refresh of a refresh, two refreshes of one token, a logout against either, each failing anywhere |
| `sessions_clock` | `TypeOK`, `DeniedUntilLastSecond`, `LogoutStopsLaterRefresh` | two users, two pairs, half-second ticks to one second past the expiry of the first tokens: births at a full and at a half second, so that the rounding shows |
| `rbac_serial` | `TypeOK`, `Mirror`, `DecisionsFollowTables`, `NewTextGrantsNothing` | three roles over two names, two permissions over two keys: a name is freed, used again and renamed onto |
| `rbac_overlap` | `OnlyGranted`, `UserRolesBacked` | two requests at once, three roles, one permission: one reads, the other deletes and creates again |
| `rbac_rows` | `SingleRule` is violated | as `rbac_overlap`, without a seeder |
| `lockout` | `TypeOK`, `OvershootBounded`, `LockHolds` | three logins, threshold two, a clock longer than window and lock: the bound of three unlocking failures is reached |
| `lockout_audit` | `FailuresTracked` is violated | one login, as deployed, without other failures |
| `twofactor` | `TypeOK`, `SpentCodesGone`, `OnlyLatestCodes`, `EnabledConfirmed` | two secrets, two e-mail codes, three batches, one operation at a time: set up, spend, regenerate, disable, set up again |
| `migrations` | `TypeOK`, `RefsKept`, `SchemaKept`, `UuidsRestored`, `StopsOnlyAtNewRows` | all nineteen tables; rows in six of them (two levels of references, a link table, a unique reference, a rule with a subject) and three rows besides the default tenant: two rows of one table to confuse, or a chain of three; any number of ups and downs |
| `migrations_subjects` | `SubjectsKept` is violated | a user, a role and a rule |
| `lists` | `TypeOK`, `ListedOnce`, `PagesExact`, `BackAgain`, `NextOffered`, `OnlyOwnerWrites` | four roles or two todos, limits one and two, two instants: three pages forward and back, rows with one creation time on both sides of a page border, late arrivals; two users and two requests over the todos |
| `posts` | `TypeOK`, `GaugeTrue`, `ToldTrue`, `SecondTodoExcused`, `ImplementsAccounts`, and `EveryRequestAnswered` under fairness | two requests, one key, one caller, two tenants, one address, two titles: an attempt and its retry, two rivals for one address, one key with two bodies, the two routes side by side; a window of one request, so that one may be refused; SES and then SMTP, the two providers that differ in what they raise |

Deadlock is not checked: bounded clocks, ids and requests stop every model in the
end. That no request waits for ever is `RequestsEnd` and `EveryRequestAnswered`.

*Fairness.* In `Sessions`: weak fairness of each request's next step, since the
event loop resumes a coroutine whose await is over; strong fairness of the two
actions that wait for a row lock, since PostgreSQL queues the waiters of a row.
The statements of the code that lock several rows lock them in one UPDATE, whose
waiting is one action here; two logouts of one user that lock the same rows in
different orders, a deadlock PostgreSQL resolves by failing one of them, are the
`Fail` action. In `Posts`: weak fairness of each request's next step. It is
enough for the INSERT that waits for an address: once the holder is through
(committed, aborted or dead) the address stays registered or free until the
waiter has been served, or another of the finitely many requests takes it. In
neither is there fairness of arrivals, failures, aborts, expiry, crashes or the
clock.

## 4. Findings

`PROJECT.json` holds each with the sentence of the documentation, or the assertion
of the code, it contradicts. Shown by a run:

- a failed login is not counted, since its audit row makes the transaction raise;
  neither does a right password log in (`lockout_audit`);
- a Casbin rule can come to be there twice, after which every request that looks
  for it raises (`rbac_rows`);
- the integer conversion leaves the users in `casbin_rules` with their old uuids,
  so every rule loses its user (`migrations_subjects`).

Shown by a property that no run keeps, to be checked with a `.cfg` of the same
bounds: with asyncpg a logout fails (`LogoutRevokes` of `Sessions` with
`StrBinds = FALSE`), and once its argument is repaired it does not reach a token
that a concurrent refresh is issuing (`LogoutEndsSessions` with `StrBinds = TRUE`);
overlapping failed logins reach the threshold without a lock (`ThresholdLocks` of
`Lockout`); an e-mail code overwrites the TOTP secret (`EnabledHasSecret` of
`TwoFactor`); overlapping two-factor operations bring back replaced backup codes
(`OnlyLatestCodes` with `Overlap = TRUE`).

Met while modelling, and built into the models as the code has them: a
registration is answered 500 after its commit (`AnswerFails`), so that its retry
is answered 400 for its own account; a repeated POST makes a second todo after an
overlap or a failure between commit and SETEX (`SecondTodoExcused` names the ways);
the seeder raises at its first INSERT (`Seeds`); a rename of a role is rolled back
on the async session (`Renames`); a downgrade stops at a row inserted after the
conversion that another refers to (its bound is `StopsOnlyAtNewRows`); `has_next` and
`has_prev` after paging back (`NextOffered` says what holds); the todo list that
answers 500 for want of a creation time (`Answer` with `dated = FALSE`); a todo that
an overlapping update brings back (`FlushInsert`); an SES error that keeps SMTP from
being tried (`SesOutcomes`). Outside the models: the middleware's audit rows and API
keys are never stored, and the CSRF cookie is httponly.

What overlapping requests of administrators may do to the rules is not a
finding: rules and links may come apart (`Mirror` fails under `rbac_overlap`'s
bounds), but nothing in the repository says that they do not.

## 5. Theorems

TLAPS proves, for all values of the constants within the named assumptions:

- `SessionsProofs` (from `SessionsAssumption`): `TypeOK`, `RotationAtomic`,
  `SweptRevoked`, `DeniedUntilLastSecond`, `RevokedForever`,
  `LogoutStopsLaterRefresh`. The safety properties are not inductive alone. `IInv`
  adds what a request holds in each phase (`RequestOK`: a token it works on
  exists), that after the locks of a logout every selected row is revoked or
  about to be (`ScanCovered`), and that the denylist key outlives the last second
  but one (`DenyCovered`), already between SETEX and commit. `TtlBound` is the
  arithmetic of the rounding. `RowsForward` says that no step but a commit
  touches a row, and a commit only forwards; `RevocationIsFinal` is that lemma.
- `RbacProofs` (from `RbacAssumption`): `TypeOK` in general; with `~Overlap`,
  `Mirror`, `DecisionsFollowTables` and `NewTextGrantsNothing` (from `Mirror`: a rule
  that mentions a text would be a link of a node that bears it); with `~Renames`, as deployed, and any
  overlap, `OnlyGranted` and `UserRolesBacked`. `IInv`, for the former, adds that
  links join existing nodes (`LinksExist`), that texts are unique among existing
  nodes (`Unique`), that at most one request is in flight (`Alone`) and that the
  texts it has read are still the current ones (`Current`). `Mirror` is preserved
  because a rename, a deletion or an assignment changes exactly the rules whose
  texts belong to the links it changes, which needs `Unique`. `OInv`, for the
  latter, keeps of `Current` what overlap leaves: a node whose text was read has
  it still, or is deleted (`Recalled`), and the foreign keys of a link under way
  (`Held`) rule the deletion out until the commit.
- `LockoutProofs` (from `LockoutAssumption`): `TypeOK`, `OvershootBounded`,
  `LockHolds`. `IInv` adds that rows are finite and counts, with the failures
  already committed in the window, those that have counted and will not lock:
  together at most `Max - 1` and one for each other request. For `LockHolds` the
  point is that the latest `locked_until` exists at all: locks are bounded
  (`Ceiling`), and a bounded set of naturals has a greatest member (`Greatest`).
- `TwoFactorProofs` (from `TwoFactorAssumption`): `TypeOK` in general; with
  `~Overlap`, `SpentCodesGone`, `OnlyLatestCodes` and `EnabledConfirmed`. `IInv` adds
  that one operation at a time (`Alone`) saves an entity built on the current row
  (`Exact`), that this entity satisfies the three properties of the history its
  acceptance will make (`AllSafe`), and that one-time codes are among those made
  (`AllKnown`), so that a new code is not a spent one.
- `PostsProofs` (from `RequestsAssumption` and `RegistrationAssumption`): `TypeOK`,
  `GaugeTrue`, `ToldTrue`, `SecondTodoExcused` and `ImplementsAccounts`, the
  refinement. For the accounts, `Accounted` says which rows a request holds where
  (`RowsHeld`), that no two requests hold or mail one address (`Exclusive`), and that
  an address is free while someone opens it and mails do not exceed the providers
  tried (`Opening`); with it each step is an `Open`, a `Verify` or a stutter of
  `Accounts` (`StepImplements`). For the todos, `Posted` says that what is answered
  201, about to be stored, or stored tells of a committed todo of that caller and
  title, and, of each key without an excuse (`Sound(k)`), that at most one request
  is at work on it, that nothing is stored while one is, that a todo whose request
  is through has its answer stored, and that there is at most one. A second todo
  would need a request let through, which a stored answer prevents. The gauge is an invariant of
  its own, by counting the requests under way.
- `PagingProofs` (no assumption) holds the lemmas about one page. Rows with
  distinct ids are totally ordered by (creation time, id), so ranks are distinct
  and every rank up to the number of rows occurs (`RankOrder`, `RankOnto`):
  `NewestFirst` is a sorted listing of them (`Sorted`). From it `ListCursorPage` says
  what a repository returns and `AnswerIs` what a route answers; `AnswerExact`
  is the reference definition, `AnswerNext` the next cursor, and `AnswerBack`
  the way back, by `InOrderUnique`: two sorted listings of one set are equal.
- `ListsProofs` (from `ListsAssumption`): `TypeOK`, `OnlyOwnerWrites`, `ListedOnce`,
  `PagesExact`, `NextOffered`, `BackAgain`. The owner of a todo is compared before
  the transaction; it still counts in it because a todo never changes hands, also
  when it is deleted and brought back meanwhile: all requests that work on one
  todo, and the todo while it exists, are of one user (`Owned`), and no new row
  takes the id of a deleted one (`Numbered`). `ListedOnce` is not inductive: it
  speaks of the end of a walk only. `Walked` says of every page on the way that a
  row to count on is listed already or older than the next cursor, and that what
  is listed is gone or not older than it. A new row may be older than the
  cursor, but its id is new, and a listed id never comes back, so no row is
  listed twice. `Followed` keeps that both pages are still the answers they were.

- `MigrationsProofs` (from `MigrationsAssumption`): `TypeOK`, `RefsKept`, `SchemaKept`,
  `UuidsRestored`, for every part of the schema closed under references, any rows
  and any ups, downs, failures and crashes. The properties speak of committed
  databases; a run passes through databases in which some keys and columns are
  integers and others still uuids. `DatabaseOK` says what holds of every one of
  them, committed or under way: what a reference has to be in each of the four
  combinations of types (`Names`: the number or the first uuid of the row it is
  meant for, or a number that `_legacy_ids` knows as that row), that `_legacy_ids` has
  each uuid a row was born with (`IdsOK`), and which foreign keys are there
  (`FksOK`: those whose two sides have one type). `KeysFirst` is the order of the
  conversion in terms of the database: up, a column is an integer only after the
  key it references; down, a uuid only after it. It rules out the combination in
  which a reference would be lost, and breaks if a table is converted before its
  parents or restored in one pass. What is left of the plan is tied to what is
  left to do (`TablesMade`, `TypesMade`, `TenantColumnsMade`, `IndexesMade`,
  `IndexesRemembered`, `Staged`): at an empty plan they say that the revision is
  reached, which is what `Commit` needs. Each statement has a lemma about any
  database (`KeyConverted`, `KeyRestored`, `ColumnConverted`, `ColumnRestored`,
  `TableMade`, ...) and one about its call (`ConvertPkKeeps`, ...);
  `MigrationsInvariant` puts them together.

Before each proof TLC checked the property, and the inductive invariants on the
runs' instances.

Only model-checked: `RequestsEnd` and `EveryRequestAnswered` (liveness under
fairness is beyond this prover), and `StopsOnlyAtNewRows`: that a statement cannot
fail needs more of the invariant than that nothing is lost when it does (section
6). The violated properties are TLC's.

## 6. Plan

Done: what decides who may do what (Sessions, Rbac, Lockout, TwoFactor); what
every request passes and two routes behind it (Requests, Registration, Posts);
data (Paging, Lists, Migrations); the proofs of section 5. Left, in this order:

1. The proof of `StopsOnlyAtNewRows`. Over `IInv` it needs that the parents of a
   pending table or column are made or ahead of it in the plan, that on the way
   up `_legacy_ids` has every row of a converted table, that what a unique index
   forbids is forbidden of the rows meant, and that the rows of a downgrade under
   way are those of the committed database.
2. `SessionStore`, a set of live sessions with issue, rotate and end as atomic
   steps, which `Sessions` implements under the mapping of committed rows.
3. A second process beside the first in `Requests`: one dies, the other finds the
   answer it stored, and the gauge is one of each.

An abstraction of `Rbac` by one relation of users and permissions would say no more
than `DecisionsFollowTables` does, which is proved.

## 7. Not modelled

The middleware's audit events and error traces are append-only, nothing reads them
back, and none is ever stored: the INSERT raises, and the middleware logs that
and goes on. The login handler's audit row raises where nothing swallows it, and
that is modelled (`AuditRaises`). API keys have no table in any migration, a prefix that does not
fit its column, and no commit, so no key exists for a model to be about. Tracing,
structured logging, health, CSP, security headers, CORS and the request id add
to an answer and decide nothing. Settings and bootstrap are start-up; the limits
they set are constants here. Password hashing, JWT encoding, TOTP and hashing of
tokens are treated as ideal. The profile, names and addresses of a user, and
the descriptions and resources of permissions, are data no property tells apart.
How long a step takes is not in any model, so neither is what a blocking SMTP
call does to the event loop. What a module leaves out of its component is said
with the module above and under "components" in `PROJECT.json`.

## Running

`tlc -config SessionsRace.cfg MCSessions`, and likewise `SessionsClock`; `RbacSerial`,
`RbacOverlap`, `RbacRows` with `MCRbac`; `Lockout`, `LockoutAudit` with `MCLockout`;
`TwoFactor` with `MCTwoFactor`; `Migrations`, `MigrationsSubjects` with `MCMigrations`;
`Lists` with `MCLists`; `Posts` with `MCPosts`. `tlapm` on `SessionsProofs.tla`,
`RbacProofs.tla`, `LockoutProofs.tla`, `TwoFactorProofs.tla`, `PostsProofs.tla`,
`PagingProofs.tla`, `ListsProofs.tla` and `MigrationsProofs.tla`.
