# Formal models of the NexusKit backend

TLA+ models of the stateful core of this repository, the TLC configurations
that check them on small instances, and TLAPS proofs of the theorems that hold
for instances of every size. The models are read off `src/core-service`,
`src/gateway/server.js` and the seed script; where a comment, docstring or the
integration manual says something the code does not do, section 7 tells.

Contents: 1 inventory of the system, 2 hard behaviours and what correctness
means, 3 modules and their correspondence to the code, 4 runs and bounds,
5 fairness, 6 proofs, 7 disagreements, 8 what is not modelled, 9 plan.

## 1. The system

NexusKit is the identity backend of a group of web applications. A Node
gateway (`gateway/server.js`) verifies tokens and forwards requests; one
FastAPI process or several (`core-service`) hold the users, roles, menus and
sessions; PostgreSQL stores the tables and Redis the sessions and caches.
Subsystems ("apps") report their permissions and roles through a signed
server-to-server API.

| Component | State | Operations | Interacts through | Module |
|---|---|---|---|---|
| Sessions (`domains/auth/service.py`, `core/security.py`, `domains/auth/dependencies.py`) | Redis `auth:rt:<user>:<jti>` (7 days, or 15 s once used), `auth:at:blacklist:<jti>`; `auth_users.version` | login, refresh, logout, change password, the bearer check of every request | row of the user; Redis; `check_user_app_access` | AuthSessions, SessionStore |
| Administrator operations on users (`identity/service.py:1026-1101`) | table `auth_users` | create, (de)activate, delete, reset password, force offline | `revoke_all_user_tokens` | AuthSessions |
| Permission reports (`identity/service.py:326-470`) | table `auth_permissions` of one app | three-phase alignment in one transaction | `clear_app_cache_for_users` | PermissionSync |
| Menu management (`identity/service.py:104-213, 642-695`) | the same table, as a tree | create, move, delete, subtree query, display | the same eviction | MenuTree |
| RBAC caches | Redis `menu_tree:*` (300 s); `auth:perms:*`, which nothing fills | fill on read, evict after a write | every write to roles, bindings and nodes | RbacCache |
| Role reports and roles (`identity/service.py:484-611, 748-873`) | `auth_roles`, the two link tables | three-phase report, create, update, delete, bind, assign, revoke | row locks, foreign keys, cascade to the link tables | RoleSync |
| App access (`identity/service.py:917-997`) | `auth_user_apps` | check, grant, update, revoke | consulted by login; cascades from users and apps | AppAccess |
| Apps | `auth_apps` | create, reset secret, update, delete | secrets read by the signature check | AppAccess, ServiceEntry |
| Signature check (`identity/dependencies.py:44-96`) | Redis `internal:nonce:*` (300 s) | verify window, nonce and HMAC | guards reports and internal queries | ServiceEntry |
| Gateway and trust middleware | none (clock) | choose app and service, verify the bearer, sign a time stamp; check it | HTTP headers | ServiceEntry |
| Start-up and seed (`core/lifespan.py`, `core/db.py`, `scripts/seed_data.py`) | all tables | wait for the database, create, seed | runs in each replica | StartUp |
| Departments | `auth_departments` | create, update, delete | parent of users | none |
| SDK, tracing, responses, configuration, migrations, deployment | none | formatting and scripts | | none |

## 2. What is hard, and what correctness means

The service is asynchronous: every `await` on PostgreSQL or Redis lets other
requests run, several replicas may serve at once, the only transactions are
PostgreSQL's (READ COMMITTED) and Redis pipelines, and nothing spans both
stores. So the hard behaviours are interleavings of check and write, values
read before an await and used after it, and an exception or a crash between
the commit and the Redis call that should follow it.

* *Sessions.* A replaced or ended token pair stays dead until it expires; a
  user has one session; a refresh token has one successor; ending the sessions
  is final; a password change ends what used the old password; a session that
  is over never comes back.
* *Permission reports.* A report on the table it read stores the new chains of
  nodes and no others, and the active nodes are then those reported with all
  their ancestors, whatever overlapping reports left; nobody sees a child
  without its parent; reports end.
* *Menu tree.* Moves never close a cycle; deletes leave no orphan; whatever
  part of the tree is visible is displayed in full.
* *Caches.* A cached menu tree is the current one, or at least becomes so.
* *Roles.* The bindings of a role are those its last replacement asked for;
  an assignment is not lost; a reported role is bound by its subsystem only;
  a report leaves exactly the reported roles.
* *App access.* The rows are what the last request asked for, the check admits
  accordingly, and errors have a cause.
* *Entry.* A signed call is accepted once, an old secret never; a request is
  handled under the app its headers name, and refused only for a cause.
* *Start-up.* A start fails only for a cause, seeds everything, duplicates
  nothing, and ends.

## 3. Modules

Each component has one specification module; `MC<Module>` adds symmetry sets
and named input sets for TLC, `<Module>_proofs` holds theorems. All variables
of a module are its state plus `pc` and `req` (or `job`): the label at which a
request is suspended and its local variables. An action is the code between
two awaits that matter to other requests; `Fail` is the exception or crash
that drops a request at any of them. Ghost variables are read by properties
only; each is declared as such.

### AuthSessions and SessionStore

One identity `g \in Pairs` stands for an access token, the refresh token
minted with it and the Redis record that names both. `tok[g]` are the claims,
`rtKey[g]` and `black[g]` the two Redis keys with their expiry, read through
the clock `now` (`RtStatus`, `Blacklisted`). `users[u]` is the row; `lock[u]`
the row lock of an uncommitted UPDATE. Ghosts: `stamp` numbers passwords,
`retired` holds the pairs replaced by a refresh or ended by a later login,
`ended` the logins whose sessions a completed revocation deleted,
`tok[g].after` those that had been ended when the login of `g` was made, and
`raced` the users for whom a request wrote while another one still had a write to make
that depends on what it had read before (`Open`, `Race`; a bearer check, which
only reads, races with nobody).

| Code | Actions |
|---|---|
| `login`, `_revoke_all_sessions`, `_issue_token_pair` | `LoginRead`, `LoginKeys`, `LoginCollect` (one GET per key), `LoginRevoke` (pipeline), `LoginIssue` |
| `refresh_from_token`, `refresh` | `RefreshReplay` (record missing), `RefreshAccept`, `RefreshRotate` (pipeline). "used" answers with an error and changes nothing |
| `get_current_user` | `AuthArrive`, `AuthBlacklist`, `AuthKeys`, `AuthScan`, `AuthUser`, then `Serve` |
| `change_password`, `admin_reset_password` | `PasswordWrite` after the read at `AuthUser` or `AdminArrive`, then the revocation |
| `admin_update_user` (is_active) | `SetActiveFlush` (takes the row lock), revocation, `SetActiveCommit` |
| `admin_delete_user` | revocation, then `DeleteCommit` |
| `revoke_all_user_tokens` | `RevokeKeys`, `RevokeDelete` |
| `register`, `admin_create_user` | `CreateUser` |

`SessionStore` is what the component promises, without tokens, Redis or the
steps of a request: a session begins, is renewed by one that takes its place,
and ends for good. `Session` and `Owner` are the refinement mapping (a pair is
live while its record reads "valid"), `KeepsSessions == Store!Spec` the claim.

### PermissionSync

`perms` is the committed table, `lock` the row locks (for a code that is not
stored: its unique-index entry), `job[s]` a report's items, snapshot and prune
set. `SyncRead` takes the snapshot the diff is made from, `SyncInsert`,
`SyncUpdate`, `SyncQuery`, `SyncPrune` and `SyncCommit` are the phases,
`DeadlockAbort` is PostgreSQL's detector. `Inserted` is what `_topo_sort`
reaches from the new nodes without parent, `NextLayer` one of its rounds, and
`Descendants` the recursive query; both are least closed sets rather than
recursions, so that proofs can use them. `Outcome` gives the rows the
transaction leaves over what is committed by then (only columns that differ
from the row loaded are sent). The properties of a commit are about reports
that commit on the table they read (`CommitsAsRead`), in whatever state
overlapping ones have left it. `SyncMatchesReference` compares such a commit
with a definition that mentions neither phases nor layers: a new node is
stored exactly if the whole chain of parents reported for it is new and ends
at a root (`NewChains`), so one reported below a stored node is not. The ten
compared columns are one value of `Fields`.

### MenuTree

`menus` maps each id the sequence may hand out to fresh, stored or deleted,
with its parent. `Below` is the recursive CTE; `Returns` says whether the
`UNION ALL` recursion ends, and a request whose query does not is `hung`.
`UpdateRead`, `UpdateCheck` and `UpdateWrite` are `update_menu`; `DeleteCheck`
and `DeleteWrite` are `delete_menu`, with the foreign key in `Deletable`;
`CreateMenu` is one action, since its validation (for id -1) never refuses.
`Shown` is what `_build_menu_tree` hangs below its roots. The ghost `raced`
becomes true when a create or a move writes while another move stands between
its check and its write.

### RbacCache

`member`, `grant` and `perms` are the link tables and the nodes of one app,
`tree` the cached menu trees. Readers fill `tree` in four steps (`TreeMiss` to
`TreeFill`); each writer's first action is its committed change (`AssignRole`,
`RevokeRole`, `BindRole`, `SyncRole`, `ToggleMenu`, `DeleteMenu`). Reports and
menu operations go on to look up the users and evict their trees (`AppUsers`,
`AppEvict`). The others touch no tree: binding ends with a delete of
`auth:perms` keys (`CodesEvict`), assigning and revoking with
`cache_user_permissions`, whose query cannot be compiled, so that the request
ends in an error after its commit (`CodesRead`, section 7). Nothing else
writes `auth:perms`, and nothing reads it; it is not part of the state.
Expiry of a menu tree is `TreeExpire`. `Super` is the role for which the whole
tree is shown. Ghosts: `old` marks a request that holds answers a later write
has outdated; `missed` are the users whose cached tree differs from the tables
and no request is going to correct it: filled from an outdated read, forgotten
by the endpoint, not found by the lookup, or left by a failure after the
commit. A user whose tree is current is not among them.

### RoleSync

Every operation on roles is one transaction and an action is one of its
statements, since READ COMMITTED lets each see what others have committed by
then. What a transaction has written (`rows`, `bound`, `unbound`, `drop`,
`grant`) is private to its `job` until `Commit`. `Blocks` is where PostgreSQL
makes it wait: for a row lock (`lock`), a unique key another has inserted or
deleted, or a foreign key. `SyncRead` to `SyncCheck` and `Drop` are
`sync_roles`; `AssignRead`, `See`, `Unbind`, `Bind` are
`assign_role_permissions`, `DeleteCheck` and `Drop` `delete_role`, `GrantRead`
and `GrantInsert` `assign_role_to_user`; `CreateRole`, `UpdateRole` and
`Revoke` are single statements. Ghosts: `asked` is what the last committed
replacement of a role wanted, `raced` the roles whose last replacement
overlapped another; the job's `looked`, `dirty`, `late` and `moved` record what
was replaced, assigned or renamed while it was on its way.

### ServiceEntry

The way of one request through three programs' checks: `Send` and
`GatewayBlacklist` are the gateway (route table, which has to know the path,
public paths, token, blacklist, the stamped header), `Deliver` is
GatewayTrustMiddleware with the dependency up to its first await,
`BearerBlacklist` the second blacklist check, and `NonceCheck`,
`SignatureCheck`, `NonceMark` the three awaits of `verify_app_secret`. The
client may send an `X-App-Code` of its own (`own`), or an empty one (`Blank`):
`buildProxyHeaders` spreads the client's headers first, Node keeps names that
differ in case apart, and Starlette reads the first of two, so `AppRead` is the
client's header if there is one, else the route's app. `Resolve` is
`resolve_app_code`, in which an empty header gives way to the query. The
`X-Gateway-Token` is read through a dictionary, which keeps the last, the
gateway's; an `X-Internal-Secret` counts only with the secret's value, which
the gateway does not send and no client has. A signed call (`Sign`) may be
delivered any number of times, late, by any path, or around the gateway
(`Direct`); `ResetSecret`, `DeleteApp`, `CreateApp`, `Revoke` and the clock move
meanwhile, and the clocks of gateway and callers are off by `Skews`.
`Environment` is the service's ENVIRONMENT, read once at start-up: it decides
whether the dependencies admit a bearer request without an internal secret, so
the run ServiceEntry sets "development" (where both kinds of request are
served) and ServiceEntryProduction sets "production"; the theorems hold for
both. `taken`
remembers when a call was accepted; `at`, `arrived`, `looked` and `old` are
ghosts of a request, and a refused one keeps only what it was refused for
(`Remains`).

### AppAccess

`grants` is the set of rows of `auth_user_apps`. Its key begins with a serial
id, so a pair of user and app may have several. Grant and update look
(`Look`, an error if there are two rows), write (`WriteRow` sends the columns
that differ from what was read; `InsertRow`) and read the row again
(`Refresh`); `Revoke` is one DELETE, `Check` is the query that login, `/roles`
and `/permissions` make. `CreateBegin`/`CreateApp`, `DropBegin`/`DropApp` and
`DeleteUser` are the operations on the two referenced tables, with their
cascades. Ghosts: `asked`, `raced` (pairs last written on an outdated read)
and each request's `missed`.

### StartUp

`lifespan` of several replicas: `Try` is one attempt of `wait_for_db`,
`Tables`/`CreateTables` are `init_db`, and the seed is one transaction of
`Look`, `ListPermissions` and `Insert` steps per part (`Parts`) with its
`Commit`. `rows` holds the unique names stored, `heads` counts the departments
with the head office's name, which no index makes unique. Meanwhile the
database goes away and comes back, replicas stop, Alembic creates the tables
of production, and administrators give and take names through a replica that
serves (`Take`, `Free`, `NameDept`, `RenameDept`). `meanwhile` is a ghost: who
committed while this start was seeding.

## 4. Runs, bounds and what they show

| Run | Instance | Shows |
|---|---|---|
| AuthSessionsConcurrent | 1 user, 2 pairs, 2 overlapping requests, clock to 1, 1 password change | A replaced pair is never served; for users not `raced`: a token of an ended login only after a login made since, one session, ended lineages stay ended, a deleted user has none; with a crash at any await |
| AuthSessionsSequential | 1 user, 3 pairs, 1 request at a time, clock to 3, 2 changes | `OneSuccessor`, `OldPasswordTokensDead` along longer histories; the refinement `KeepsSessions` |
| AuthSessionsLive | 1 pair, 2 overlapping requests, 2 changes | `PasswordRaisesVersion`; every request ends |
| PermissionSync | 3 codes, 2 values of the columns, 2 overlapping reports, 5 manifests | Types; `ParentsStored` at every instant; `TreeRestored`, `SyncMatchesReference`, `FieldsAligned` of a commit on the table that was read; every report ends, by commit or error |
| MenuTreeOverlap | 4 menus, 2 overlapping requests | `ParentsStored` always; `Acyclic`, `TreeShowsAll` unless `raced` |
| RbacCaches | 1 user, 2 roles (one super), 1 node, 2 requests, 3 writes of every kind, every content of the tables | Types; `TreeFresh` between requests apart from the named cases; `TreeEventuallyFresh` |
| RoleSync | 2 ids, 3 codes (one another app's, one that administrators give too), 2 nodes (one inactive), 1 user, 2 transactions, every administrator's operation | Types, `BindingsAsAsked`, `NoAssignmentLost`, `SubsystemOwnsBindings`, `RolesAsReported` |
| ServiceEntry | in development, 1 signed call, 2 requests, window 2, trust 1, clocks off by one, time to 2, 2 secrets, an own header and a query for another app than the route's | `AcceptedOnce`, `OldSecretRefused`, `HandledUnderHeader`, `RefusedForCause` |
| AppAccess | 1 user, 1 app, 2 requests, time to 1, 3 rows, 2 rows of the app | `GrantsAsAsked`, `AccessAsAsked`, `FailsForCause` |
| StartUp | 2 replicas, 2 retries, 1 further head office, 4 names administrators edit | `StartFailsForCause`, `OneHeadOffice`, `SeedComplete`, `EveryStartEnds` |
| AuthRefreshedRefused | as AuthSessionsSequential, clock to 4 | expects a violation, see section 7 |
| ServiceEntryProduction | as ServiceEntry in production, 1 request, 1 secret | expects a violation, see section 7 |

Bounds. *Users*: the session keys, locks and rows of two users never meet, nor
do the caches or grants of two, so one user has every behaviour. *Pairs*: three
let a login, a refresh and a second login follow one another; two suffice for
two overlapping requests. *Clock*: `AccessLife` 2, `RefreshLife` 3 and
`UsedLife` 1 keep the order of 15 s, the access token's life and 7 days, and
with `MaxTime` 3 every one of them runs out in the sequential run. The
concurrent one reaches the end of a used record's 15 s, and would see a
blacklist entry that does not outlive them; the expiry of the token itself is
covered there by the proofs, which hold for every clock. `MaxStamp` bounds
password changes. *Codes*: three make a chain of depth three. `ChainReports`
has the whole chain, its top alone, the chain without its middle and without
its top, and the chain with its lowest node at the root and in other columns:
nodes come new, below a stored parent, below one that is not reported, go
offline with what is below them and come back. Other manifests, cyclic ones
included, are covered by the proofs. *Menus*: a cycle through a move needs two, through two overlapping
moves below descendants three or four. *MaxWrites* (RbacCache): one write makes
an entry stale, a second interferes with its eviction, a third with a fill
after it. *Ids* (RoleSync): a role that stays and one that comes or goes; an id
is given out again only when no request remembers it, which stands for a fresh
one. `SomeReports` leaves none, one or both of the app's codes, names a node
twice, an inactive node, or a foreign code; the administrators give one of the
codes (`Given`), so that a code is taken, renamed to and reported in any order,
and bind nothing, more than the active nodes, or a node twice (`SomeRebinds`).
Two reports of both roles, taken in opposite orders, are the deadlock. *MaxRows* (AppAccess): two
overlapping first grants and one after a revocation; *MaxApps*: an app created
again after its deletion. *Window*, *Trust*, `MaxTime` (ServiceEntry): a
timestamp can be behind, inside and ahead, a nonce can expire while the
timestamp lives, and a stamp can be too old; `Paths` has one path of each kind
(public, bearer, signed), one of them below the other app's prefix. `Named` is
the caller's app, which the bearer and the signed path do not name: a signed
call is taken under the app of its header, a bearer request asks for another
app by header, query or both. *MaxRetries*:
one failure that is retried and one that is not. *Editable*: for each part of
the seed with more than one row, the name looked for and another. Arrivals are
refused only when an instance has no token, password, row or write left for
them.

Several properties are promised only where no overlap of a certain kind has
happened, because the code takes no lock across its awaits. The ghosts that
say so are part of the statement, and these are the interleavings they take
out of it. Dropping the ghost makes TLC find the failure, which for
`OneSuccessor` takes a third pair in the concurrent instance:

* `raced` of AuthSessions: a user for whom one request wrote while another
  about the same user was still going to write on what it had read. It is
  never taken back, although a later login or password change would repair
  most of what the overlap broke; so the properties under it say nothing more
  about such a user. Excluded in this way are two overlapping logins that leave
  two sessions, two refreshes with one token that both succeed, a refresh that
  survives a forced logout, two password changes that raise the version once,
  and what is issued between a deletion's revocation and its commit.
* `raced` of MenuTree (a create or move between the check and the write of
  another move) and of RoleSync (two replacements of one role's bindings,
  which leave their union); `late` of RoleSync (an assignment between the
  count of a role's users and the deletion of the role).
* `raced` and `missed` of AppAccess: two first grants, which insert two rows
  and make every later check of the pair an error until access is revoked;
  two creations of one app.
* `missed` of RbacCache: the four ways in which a tree goes stale that only
  the expiry repairs; `dirty` and `moved` of RoleSync, `meanwhile` of StartUp:
  what others changed while a transaction was on its way.

What does hold under such overlaps is stated without a ghost:
`RetiredNeverServed`, `KeepsSessions`, both `ParentsStored`, `TreeRestored`,
`TreeEventuallyFresh`, and the liveness properties.

`CHECK_DEADLOCK` is left on everywhere: no instance can stop.

## 5. Fairness

A request that started is resumed: the event loop runs every ready coroutine,
hence weak fairness of the steps of each request (`FreeStep`, `Resume`). A step
that waits for a row lock is enabled again and again, and PostgreSQL queues
waiters, hence strong fairness of `LockStep` (AuthSessionsLive) and `WaitStep`
(PermissionSync). `TreeExpire` is weakly fair because Redis drops
expired keys. A start (`Start` in StartUp) is strongly fair: its awaits return,
and an insert that waits for another replica's uncommitted key is served when
that transaction ends. Nothing is assumed about arrivals, failures, the
database's return or the clock. Liveness is checked by TLC only.

## 6. Proofs

Assumptions are the named `ASSUME`s of the modules: lifetimes are positive,
the sentinels are not members of the sets they complement, bounds are natural
numbers. Sets of users, pairs, codes, menus, roles and requests are arbitrary.
None of the invariants is inductive by itself; each proof module defines the
strengthening it uses.

`AuthSessions_proofs`
* `TypeCorrect`: `Spec => []TypeOK`.
* `RetiredRefreshRefused` and `RetiredAccessRefused`: `RetiredRefreshDead` and
  `RetiredNeverServed` hold for any number of concurrent requests and any
  lifetimes. What makes them so: a blacklist entry for a retired pair outlives
  its access token, because the entry is written with the full life no earlier
  than the token was minted; a pair a request collected from its listing is
  blacklisted by the same pipeline that deletes its record; and only
  `LoginIssue` and `RefreshRotate` write "valid", always for a pair that was
  not minted before. The strengthening also carries, for each suspended bearer
  check, that the blacklist entry it passed cannot concern a token retired
  before it arrived.
* `ImplementsSessionStore`: `Spec => KeepsSessions`, for any number of
  overlapping requests: every step is a `Begin`, a `Renew`, an `End` or a
  stutter of SessionStore, the passage of time included.
* What is promised to users who are not `raced`: `OneSessionPerUser`
  (`SingleSession`), `ExchangedOnce` (`OneSuccessor`), `EndedLoginsStayEnded`
  (`EndedLineageStaysEnded`), `GoneUsersAreOut` (`GoneUserHasNoSession`),
  `OldPasswordsRefused` (`OldPasswordTokensDead`), `EndedServedAfterNewLogin`
  (`EndedServedOnlyAfterNewLogin`) and `PasswordChangesRaiseVersion`
  (`PasswordRaisesVersion`). They speak of rows and records, and what keeps
  them is in the locals of the request that writes. `CalmInv` therefore says of
  every open request of such a user that what it has read still holds
  (`OpenInv`: the row, the listed keys, that no session is left, the pair about
  to be replaced), and of the user that there is at most one live session, of a
  login not ended and a live row, and that the version counts the password
  changes (`UserInv`). It is inductive because a write of one request while
  another of the same user is open puts the user into `raced`, every step that
  is not `Writing` changes locals and locks only (`QuietStep`), and no write
  touches another user (`OthersUndisturbed`): each write has to be looked at
  for its own user only, with no other request open.

`PermissionSync_proofs`
* `TypeCorrect`, and `NoOrphanNodes`: `ParentsStored` however reports overlap.
  `InsertedWithParent` is the argument: a node whose parent were not reached
  could be taken out of the least set. No step takes a row away.
* `ReportsRestoreTree` (`TreeRestored`), `ReportsMatchReference`
  (`SyncMatchesReference`) and `ReportsAlignFields` (`FieldsAligned`): for a
  report that commits on the table it read, for every manifest over any codes,
  and any number of other reports before it and beside it. `SyncInv` says of
  each report that its prune set is everything below its unreported nodes in
  the table with its own rows in it, if no row was added since it read.
  `InsertedIsNewChains` shows that the rounds of `_topo_sort` reach exactly the
  nodes of `NewChains`, and `PrunedHasAncestor` that a reported node is pruned
  exactly if an ancestor is not reported; it needs `DescendantsOfOne` (below
  several roots means below one of them) and that nobody is below a node that
  is not stored.

`MenuTree_proofs`
* `TypeCorrect`, and `NoOrphans`: `ParentsStored` under the full `Spec`. The
  foreign key alone carries it, the application's check does not matter.
* `UnracedAcyclic`, `UnracedTreeShowsAll`, `UnracedQueriesReturn`: for every
  number of menus and of overlapping requests, as long as no create or move
  has written between the check and the write of another move, the menus are a
  forest, all of it is displayed and every recursive query returns. The
  inductive invariant `MenuInv` adds to types and `ParentsStored` that a move
  about to be written goes to a place outside the subtree of its menu
  (`Checked`) and that no request hangs. `MoveKeepsForest` is the graph
  argument: a non-empty set in which everyone has its parent inside, after the
  move, either did so before, or contains the moved node and its new parent;
  in the second case its part outside the moved subtree is such a set already.

`RbacCache_proofs`
* `TypeCorrect` and `TreesAreFresh` (`TreeFresh`). The invariant speaks of every state, not only of quiet ones:
  an entry that differs from the tables belongs to a user who is missed, or
  is owed by some request that is still on its way to correct it;
  and what a request has read, and no write has outdated, is what the tables
  say. `LocalStep`, `CacheStep` and `WriteStep` treat alike the steps that
  change one request, a cache, or the tables.

`ServiceEntry_proofs`
* `TypeCorrect`, `CallsAcceptedOnce` (`AcceptedOnce`) and `OldSecretsRefused`
  (`OldSecretRefused`), for any window, clocks, number of calls and deliveries.
  The invariant says that the times of a request are in order, that the nonce
  of an accepted call is remembered for the window since (`Remembered`), that a
  request past the lookup saw it expired (`SawExpired`), that secrets are only
  replaced by newer ones (`KnowsSecret`) and that a call's version is at most
  the latest (`Signed`).
* `HandledAsTheHeaderSays` (`HandledUnderHeader`) and `RefusedOnlyForCause`
  (`RefusedForCause`), for any paths, headers, clocks and requests. `WayInv`
  follows a request from program to program: the app of a forwarded request is
  the one `AppRead` says, and `Resolve` changes it only where the client's
  header is empty (`Headed`), its stamp is the gateway's clock at the time it
  left (`Routed`), and a check is only reached by what demands it
  (`Admitted`). That an error has its cause when it is raised is read off the
  code; that the cause still is one afterwards (`Caused`) holds because a
  replaced secret, a blacklist entry and an accepted call are not undone, and a
  nonce is found in Redis only where its call was accepted (`Earned`).
  `NoStamp` is a constant outside the integers: a number could coincide with
  the stamp of a clock that is far enough off.

`AppAccess_proofs`
* `StoredAsAsked` (`GrantsAsAsked`), `CheckedAsAsked` (`AccessAsAsked`) and
  `FailuresHaveCause` (`FailsForCause`), for any users, apps and overlapping
  requests. The invariant adds that row ids are unique and below the counter,
  and, for a request that has missed nothing, that what it read is still stored
  (`Knows`). `LocalStep`, `Committed` and `Withdrawn` are the three effects a
  step may have on others.

`RoleSync_proofs`
* `TypeCorrect`, `BoundAsAsked` (`BindingsAsAsked`), `AssignmentsKept`
  (`NoAssignmentLost`), `BoundBySubsystem` (`SubsystemOwnsBindings`) and
  `ReportsTakeEffect` (`RolesAsReported`), for any roles, users, reports and
  overlapping requests. None is inductive: what a transaction has written is in
  its locals until it commits. The invariant says of each request where it
  stands (`Phases`), what it has locked (`Holds`) and refers to (`Refers`), how
  the codes have moved since its snapshot (`Codings`), which users it has not
  counted (`Counts`), and, for every role it has looked at and nobody has
  replaced since, what the bindings will be once it commits (`Writes`,
  `Replaces`); of two requests, that neither deletes what the other refers to
  and that no id is given out twice (`Apart`). `LocalStep` treats alike the
  steps that change one request; `CommitEffect` and `CommitKeepsJobs` are what
  a commit does to the tables and to the others.

`StartUp_proofs`
* `TypeCorrect` (of `Types`, which the module defines), `SeedsComplete`
  (`SeedComplete`), `SecondHeadOffice` (`OneHeadOffice`) and
  `StartsFailForCause` (`StartFailsForCause`), for any number of replicas,
  retries and further head offices, and any set of names the administrators
  edit. They are about the commit or the error that ends a seed, `SeedInv` is
  about the seed that is under way. A start takes the parts and their rows in
  order (`InTurn`). What it inserted is nobody else's, because the unique
  indexes make the second one wait; only the head office has no such index
  (`Apart`). While no administrator commits, the parts it is done with stay
  (`Passed`), and while nobody commits, what it did not find is not there
  (`Alone`). A head office of its own beside a stored one means that another
  committed since it looked, which a start that inserted an application has
  kept other starts from (`SecondHead`). `Left` and `PartFacts` are what the
  proofs use of the script's six parts.

Every invariant and every property of a step that a passing run checks is a
theorem. What stays with TLC is liveness, which TLAPS does not prove (section
5), and the expected violations of section 7. Induction over
data and `RECURSIVE` operators are out of reach too; no module uses them, the
recursive queries being least closed sets.

## 7. Where the repository says something else

The run AuthRefreshedRefused expects a violation of `LiveSessionUsable`: a
refresh token carries no version, so a refreshed access token gets version 1
(`auth/service.py:125`), and after any password change `get_current_user`
refuses it although the session is live. The integration manual (line 344)
tells clients to refresh and go on.

The run ServiceEntryProduction expects a violation of `ForwardedBearerServed`.
`get_current_user` takes its "Trusted internal mode (Gateway passthrough)"
(`auth/dependencies.py:61`) only for a request with `X-Internal-Secret`, which
the gateway does not send, and in production refuses everything else with the
advice to go through the gateway (line 77): the requests that did are refused
too.

Other differences the models made visible; each is part of the behaviour the
passing runs describe:

* The gateway derives the app from the route and "does not trust what the
  client sends" (`gateway/server.js:106, 222`, manual line 134), but
  `buildProxyHeaders` (line 283) spreads the client's headers first: an
  `x-app-code` the client sends reaches the service before the gateway's, and
  the request is handled under it. An empty one hands the choice to the query.
  `HandledUnderHeader` states what holds instead.
* `cache_user_permissions` says it writes the user's codes to Redis
  (`identity/service.py:216`). Its query joins `role_permissions` and then
  `user_roles`, two link tables without a foreign key between them, and gives
  no condition (lines 217-223), so SQLAlchemy raises: assigning and revoking a
  role commit and then answer with an error, and `auth:perms` is never written
  (`CodesRead`).
* The menu tree's docstring says that writes evict it. Assigning, revoking and
  binding roles do not (ghost `missed`); and the lookup of the users to evict
  starts from bindings, which a super administrator, who is shown the whole
  tree without any, need not have.
* A forced logout or password change blacklists no access token
  (`core/security.py:105`): after the next login an old one that matches the
  row's version works again until it expires (`EndedServedOnlyAfterNewLogin`).
* A new node under a parent that is already stored is silently left out of a
  report (`identity/service.py:376`), although line 341 promises to insert
  N - M in topological order. `SyncMatchesReference` states which nodes are.
* Rebinding a role evicts `auth:perms`, which holds nothing, and leaves its
  users' menu trees cached (`identity/service.py:832`).
* The manual (line 286) says a nonce can be used once within 300 s. Two
  deliveries that overlap are both accepted, and a timestamp ahead of the clock
  outlives the nonce (`AcceptedOnce` names both).
* The manual's example (section 7.2) calls the service directly;
  GatewayTrustMiddleware refuses what does not carry the gateway's stamp
  (`HandledUnderHeader`).
* Granting app access is called idempotent (`identity/router.py:411`). Two
  overlapping first grants insert two rows, after which the check fails; a
  grant for an unknown user is a server error; and a grant that finds its own
  values writes nothing, so an overlapping one may prevail (`raced`).
* "Idempotent seed: safe to call repeatedly" (`scripts/seed_data.py:137`) holds
  with the exceptions `StartFailsForCause` lists: an overlapping start, two
  departments with the head office's name, or a part whose first name was
  taken away while another of its names is stored.
* The seeded administrator gets no row in `auth_user_apps`, so login is refused
  until one is granted; `deploy/init/public.sql:310` inserts it by hand.

## 8. Not modelled, and why

JWT encoding, bcrypt, pydantic validation, pagination, logging, tracing,
configuration and error texts carry no state these properties depend on. The
SDK holds error codes and response formatting, the migrations, SQL dumps and
container files no run-time state; they were read as evidence for keys and
cascades. Redis is one instance that does not lose data. `app_code` appears as
"the app" in PermissionSync, MenuTree, RbacCache and RoleSync: the tables of
two apps share no row but the unique role code, which is modelled
(`Foreign`).

Departments are single-row writes without cache or concurrency control; their
two peculiarities are sequential (`delete_department` reads a lazy relation,
and `update_department` accepts any parent). `update_app` and the profile
fields of `admin_update_user` write display columns of one row. A null
`is_active` in a grant, which the column refuses, the foreign key by which
roles keep `delete_app` from succeeding, the gateway's CORS, rate limit, proxy
retries and documentation routes, and `init_user_default_roles`, which has no
caller, are left out.

## 9. Plan

Done: the specification modules of section 3 and the eight proof modules of
section 6. Left, in order of importance:

1. `raced` of AuthSessions per login instead of per user, so that a user counts
   again once a later login or password change has replaced what the overlap
   left; and properties of the users that stay excluded, such as how many
   sessions two overlapping logins can leave.
2. An abstract specification of the signature check, as SessionStore is one of
   the sessions: a call is answered once.
3. Departments, if `delete_department` comes to check anything.
