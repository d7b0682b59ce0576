# Atlas HQ: TLA+ models, model checks and proofs

This directory models the parts of Atlas HQ (`src/`, a Python platform for
workforce plugins on PostgreSQL) whose correctness depends on the order in which
things happen: transactions, the event outbox, booting and running plugins,
deciding who may do what, the administration of principals and grants, browser
sessions, the records of people and attendance, and reports that several plugins
contribute to. Paths below are relative to the repository root; `core/` stands for
`src/atlas_core/`, `plugins/` for `src/atlas_plugins/`.

Contents: [the system](#1-the-system) · [the modules](#2-the-modules) ·
[the runs](#3-the-runs) · [fairness](#4-fairness) · [the proofs](#5-the-proofs) ·
[disagreements found](#6-disagreements-found) ·
[what is not modelled](#7-what-is-not-modelled) · [the plan](#8-the-plan)

To check a run: `tlc -config <run>.cfg <module>`; to check the proofs of a
module: `tlapm <module>.tla`. `PROJECT.json` lists the runs, the source lines
every definition models, the hazards and the theorems.

## 1. The system

### Components

| Component | State it keeps | Operations | What makes it correct |
|---|---|---|---|
| **Unit of work** `core/infrastructure/persistence/unit_of_work.py`, `core/application/authorization.py` (`_run_mutation`), `core/infrastructure/registry/registries.py` (`_invoke_one`) | a session with its open transaction, the flags `_explicit_transaction` and `_poisoned`; one per plugin, cached by the kernel | `begin`, `commit`, `rollback`, `poison`, `finish_read`, `close`, `transactions.run`, a contract call, a management mutation | an operation is all or nothing, whatever it calls and whatever fails; nothing of it leaks into the next one |
| **Event outbox and dispatcher** `core/infrastructure/events/dispatcher.py`, `core/infrastructure/persistence/repositories.py` | the outbox rows; the subscribers of a process | `publish`, `dispatch_pending`, `_dispatch_one`, `mark_dispatched`, `record_failure`, `_register`, `_unregister` | at-least-once delivery of committed work and of nothing else; a bad subscriber harms only its own events |
| **Kernel boot** `core/kernel.py` (`boot`), `core/infrastructure/discovery/`, `core/infrastructure/registry/` | the plugin and capability registries, `_plugins`, lifecycle states, who owns a capability | discover, validate, check dependencies, register, defer | the plugins that can be brought up are registered, and own what they provide; it ends; one broken plugin does not stop the others |
| **Plugin lifecycle** `core/kernel.py` | live instances, bound contracts, transaction owners, subscriptions | `initialize`, `enable`, `disable`, `stop`, `enable_all` | a plugin that is up is served by one live instance; one that is down neither answers nor listens |
| **Authorization** `core/application/authorization.py`, `core/application/execution.py`, `core/domain/scope.py`, `core/infrastructure/persistence/authorization.py` | grants, roles, assignments, handles, confirmations | issue and resolve a handle, `authorize`, `authorize_confirmation_request`, consume a confirmation | a confirmation is used once, together with its change; nobody acts on rights he did not have; every evaluator gives the same answer |
| **Authorization management** `core/application/management.py` | principals, metadata, identities, the same grants | create, switch, prefer, grant, revoke, assign, register, link | concurrent administrators do not undo each other unnoticed |
| **Policy** `core/application/policy.py`, `core/domain/policy.py` | policy rules | register, refresh, evaluate | the most specific rule wins; the rule in force at the decision counts |
| **Core employee services** `core/application/people.py`, `organization.py`, `assignments.py`, `audit.py` | organizations, units, employees, jobs, workplaces, assignments, audit records | one guarded write each | unique numbers and codes; a row and its audit record together |
| **Workplace and attendance plugins** `plugins/workplace_operations/`, `plugins/attendance_operations/` | workplaces, memberships, attendance records | create, add, remove, record, summary, dataset | the roster, its events and the attendance agree |
| **Reporting plugins** `plugins/report_studio/` and the plugins that contribute, `src/atlas_sdk/reporting.py` | none; the bindings and the rows of others | catalogue, definition, render, compose, own report | a report holds what its reader might see, and what was there |
| **Workflow, scheduling, notification** `core/application/` | workflow definitions and cases, in memory | define, start, transition | legal transitions only |
| **Web API** `src/atlas_web/` | login sessions | login, logout, the console's routes | a session that ended serves nobody |
| **CLI, SDK, schema, demo plugins, web console** | none of their own | | |

### How they interact

- The kernel boots plugins once, then enables them; enabling binds a plugin's
  contracts to the *contract registry* and its handlers to the *dispatcher*.
- A request comes by a contract (`ContractRegistry.invoke`), by a route of the web
  API, or by the CLI. A contract runs in the plugin's cached unit of work; a web
  route runs in a unit of work of its own, in a thread of its own
  (`ThreadingHTTPServer`).
- A plugin that calls another plugin's contract enters a *second* unit of work
  while its own transaction is open.
- Events are rows that the publisher's transaction writes; `dispatch_pending`
  hands them to subscribers later, in a transaction per envelope.
- A browser session is a record in the memory of the web process; the execution
  handle behind it is a row of the database and outlives the process.
- Report Studio asks every enabled plugin for its definition and its dataset by
  contract, each in that plugin's transaction; attendance asks the workplace plugin
  for a workforce in the same way, before it writes.
- Every decision reads principals, rules, grants and roles from the database at
  READ COMMITTED, one query after the other.

### What is hard

Nested operations that share a session; commits that fail, or succeed without
anybody learning of it; rollbacks that fail; processes that die; request threads
in one cached session; two dispatching processes; subscribers that raise;
dependency graphs with cycles and plugins that contest a capability; hooks that
raise at every stage; two requests with one confirmation; rights that are withdrawn
in the middle of a decision; administrators who write what they read before their
transaction; requests in flight while their session is logged out or expires; a
retried write whose first attempt was committed; a contract bound to a plugin that
is being disabled.
`PROJECT.json` lists these hazards at their lines, with the properties that
would catch them.

## 2. The modules

Each component has a specification; where the code promises something simpler
than it does, an abstract specification states the promise and the detailed one
is shown to implement it.

| Module | Models | Promise it implements | Proofs |
|---|---|---|---|
| `UnitOfWork` | unit of work, its three kinds of owners | `AtomicOperations` | `UnitOfWorkProofs` |
| `Outbox` | outbox and dispatching processes | `EventDelivery` | `OutboxProofs` |
| `Boot` | one kernel's `boot()` | | `KernelProofs` |
| `Lifecycle` | enabling and disabling booted plugins | | `KernelProofs` |
| `Authorization` | requests that decide, confirm and change grants | `OneTimeConfirmation` | `AuthorizationProofs` |
| `Scopes` | containment and narrowing of scopes, three times | | `AdministrationProofs` |
| `Administration` | concurrent administrators | | `AdministrationProofs` |
| `Sessions` | browser sessions, handles, requests | `SessionWindow` | `SessionsProofs` |
| `Roster` | people, places, workforces, attendance | | `RosterProofs` |
| `Reports` | reports over the contracts of many plugins | | `ReportsProofs` |

`X` is the specification, `MCX` gives TLC its symmetry and its data, `XProofs`
holds the theorems. Operators whose comment starts with *Slip* are mistakes the
code does not make; no specification uses them. Put in the place of the operator
that follows them they must break a property, which shows that the property
depends on that code.

The modules meet at their edges. A decision of Core is many steps in
`Authorization`, the covering of one scope by another in `Scopes` and
`Administration`, and one step in `Reports`; a transaction is many steps in
`UnitOfWork`, and one commit in the modules above it, as `AtomicOperations`
promises; the envelopes that `Roster` commits are `Outbox`'s to deliver; the
bindings that `Reports` lists are those that `Lifecycle`'s hooks make.

### UnitOfWork

| State | Code |
|---|---|
| `explicit[u]`, `poisoned[u]` | `SqlUnitOfWork._explicit_transaction`, `_poisoned` |
| `pending[u]` | what the session has written and not committed |
| `durable` | the committed rows |
| `phase`, `written` | an operation's outcome as its caller learns it, and its writes |
| `kind`, `home`, `caller`, `thread` | how, where, from where and on which thread it runs |

`StartRun` is `SqlTransactionRunner.run`, `StartInvoke` the registry's
`_invoke_one` (which never begins a transaction), `StartMutation` and
`StartJoined` the two branches of `_run_mutation`. `BeginOrRefuse` and
`RollbackPreserving` are `begin` and the shared error path, with its note and its
`poison`. `CommitRaises` covers a commit refused by the flag, refused by the
database, and taken by the database with the answer lost. A rollback that raises
leaves it open whether the session kept its writes. `Crash` ends the process.
Writing does not look at the poison flag, because neither the repositories nor
the plugins' own persistence do.

Four switches select what the code does in which use: handlers that write before
their nested mutations, `_run_mutation` entered outside any operation (the
management service), threads that share a unit of work, and rollbacks that raise.
Free use of all four breaks the promise (section 6); each run says which it allows.

### Outbox

| State | Code |
|---|---|
| `row[e]` | the outbox row: not there, in an open transaction, pending, dispatched, rolled back |
| `failure[e]` | `attempts` and `last_error` are set |
| `bucket[p]` | `EventDispatcher._subscribers` of process `p` |
| `pc`, `batch`, `current`, `todo` | where `p` is in `dispatch_pending` and `_dispatch_one` |
| `handled` | who has handled what |

`Publish`, `PublisherCommits` and `PublisherRollsBack` are the publisher's
transaction; they come in any order, so that an older envelope may appear after a
newer one was dispatched. `Pending` is the query with its limit. `StartEnvelope`
takes the snapshot of the subscribers, whatever became of the row meanwhile.
`CallRaises` leads to `RecordFailure`, which commits separately; `MarkRaises` is a
commit that fails or whose answer is lost; `Abort` is a failure of the recording
itself, or an exception that is no `Exception`: the rest of the batch is dropped.

### Boot

| State | Code |
|---|---|
| `fault[p]`, `requires[p]`, `provides[p]` | the installed distribution and its manifest, arbitrary and fixed |
| `state[p]`, `listed`, `booted` | the lifecycle, the plugin registry, `Kernel._plugins` |
| `pending`, `deferred`, `ids`, `first`, `progress` | the loop of `boot()` |
| `providers[c]`, `owner[c]` | the capability registry; the owner that the authorization service recorded |

A plugin may have an entry point that cannot be loaded, an id that two
distributions advertise, a rejected manifest or a registration that raises.
`Discover` starts a boot; one action per outcome of a candidate in a pass follows;
the end of a pass goes on with what was deferred, fails it all when there was no
progress, or ends. The order within a pass is left open, since it is the order of
the entry points, and so is the order in which a manifest names its capabilities.

Registering a capability is two things: `Provide` adds the plugin to the registry,
`Own` makes it the owner, unless the core or another plugin is (`Foreign`): then it
raises and the plugin fails, with the capabilities it had come to (`RaiseAt`). The
database is fresh: at first only the core's capabilities have an owner (`Seeded`).
Owners left by earlier processes, or by plugins uninstalled since, are not modelled.
Contracts and events are declared by appending to lists without a check, which
cannot fail, and are left out.

### Lifecycle

`inst`, `bound`, `owner` and `subs` say, per plugin, which instance is in
`Kernel._instances`, whose contracts are bound, whether a transaction owner is
registered and whose handlers are subscribed. `enable` is a sequence of stages, one
per hook, each of which may raise; `CleanupEnable` is `_cleanup_enable`. `disable` and
`stop` are steps of their own. `enable_all` comes to the plugins in any order.
Two history variables remember the hooks that nothing protects: `torn`, the plugins
whose `on_disable` raised after they were torn down and before they were marked, and
`leaked[p]`, the instances that were still subscribed when `bind_subscriptions` raised on
a second enable: they stay on the bus until that same instance is torn down. `UpServes` and `DownSilent`
say exactly which handlers are on the bus: those of the live instance and those leaked.

### Authorization

Each request is a thread with a unit of work of its own. Its label follows the code:
`issue` (`ExecutionHandleIssuer.issue`), `resolve`, `policy`
(`PolicyService.refresh` and `evaluate`), `active`, `direct` and `role`
(`_check_unchecked`), `token` (`_confirmation_record`), `consume`
(`consume_confirmation`, `SELECT ... FOR UPDATE`), `body` and `rows` (the route),
`commit`. Each step reads what is committed at that moment. A confirmation request
decides twice, once for the route and once inside
`authorize_confirmation_request`. `Administer` is a management call outside of a
request: it switches a principal, registers a rule, or changes a grant or a role.

A confirmation is bound to actor, target and action (`Bound`); its channel and its
expiry are left out. There is one capability and one scope: who covers whom is the
business of `Scopes`.
`ever[r]` is a history variable: what was the case at some moment since `r` began.

### Scopes and Administration

`Scopes` states containment as each of the three places in the code does: `Covers`
(`covers`, for decisions), `HandleContains` (for handles) and
`GuardContains` (for the services of plugins), and the narrowing of a request.

| State | Code |
|---|---|
| `principal`, `identity` | their committed rows |
| `at[c]`, `revoked` | the rows of grants and assignments: inserted by `c`, made inactive |
| `copy[c]`, `loaded[c]`, `bound[c]` | what a change read before its transaction; what its session loaded in it |
| `lock` | the row lock that a link takes |
| `read[c]`, `at[c]`, `now` | history: when the change first read, and its place among those committed |

A change reads (`ReadForCreate`, `ReadForUpdate`, `ReadActive`, `ReadRows`,
`ReadIdentity`), begins its transaction (`LoadPrincipal`, `LoadIdentity`,
`LockIdentity`, `SelectRows`) and commits with its audit record. The write-back of an
ORM object, which touches only columns that differ from what it loaded, is `Column`.
`Fail` stands for a refused decision, a lost connection or a violated key.
`Check`, `Effective` and `GrantState` evaluate what the committed rows permit, for a
decision, for the permissions and for the console; `PermissionsPage` and `GrantsPage`
are what the two routes then answer for an organization and a workplace.

### Sessions

| State | Code |
|---|---|
| `web[s]` | the record in `_sessions`: none, live, or the tombstone of a logout |
| `handle[h]`, `stale` | the row of an execution handle; those past `expires_at` |
| `pc[r]`, `kind[r]` | where a request is in `_require_session`, `_authorized`, its route or `_logout` |
| `over` | the sessions past the time in their record |

A request reads the record under the lock (`Lookup`) and then goes on without it: the
expiry, the resolution of the session's handle (which marks an expired one inside the
transaction that the refusal rolls back: `MarkExpired`, `UndoMark`), the principal, a
handle of its own, the decision, and for some routes the handle again in the
transaction of a plugin. `Restart` loses the memory of the process and answers nobody.
`early`, `noticed`, `out`, `replay` and `troubled` are history variables.

### Roster

| State | Code |
|---|---|
| `there` | the rows of organizations, employees, workplaces, core workplaces and jobs |
| `member`, `sheet`, `status` | memberships and attendance rows, each named by the operation that inserted it |
| `pc[o]`, `seen[o]`, `was[o]` | where a call is, the row it found, and the status it read there |
| `todo[o]`, `got[o]` | the workplaces that a dataset has still to read, and what it has read |

Every call looks up, decides, and commits its row with its audit record and its event
(`Record`). What the database refuses at the commit (`OrganizationTaken`,
`EmployeeTaken`, `WorkplaceTaken`, and the keys of memberships and days) is a guard of
the commits; a retry is one more operation with the same call. Attendance first reads
the workforce in the transaction of the other plugin (`ReadWorkforce`).

### Reports

| State | Code |
|---|---|
| `bindings`, `owned` | `ContractRegistry`: bindings in their order, transaction owners |
| `granted`, `rows` | what Core grants the caller; what the plugins' tables hold |
| `queue[r]`, `found[r]`, `answers[r]` | the progress of `invoke_all` and what it collected |
| `caps[r]`, `wants[r]` | the capabilities of the request's handle; what has still to be decided |
| `moments[r]` | history: what was the case since the request's last handle |

A catalogue asks every definition; a rendering looks its definition up, issues a handle
bound to `report.render` and the capabilities of the use case, and asks every dataset;
the command line composes all datasets; a principal's own report asks nobody else.
A plugin is enabled and disabled contract by contract, the owner first or last, in the
middle of any of these; `InitialBindings` are the bindings it may begin with. `Shape`
filters and groups rows as `atlas_sdk.reporting` does, row after row, and
`GroupsAreTheRows` compares it with a definition that looks at all rows at once
(`Regroups`). Both loops, `Shape` and `Only`, are recursive functions on the number of
rows that were gone through.

## 3. The runs

All bounds are sets of model values. Every passing run is exhaustive.

| Run | Shows | Bounds, and why they are enough |
|---|---|---|
| `uow_plugins` | operations are atomic and implement `AtomicOperations` | 3 operations, 2 writes each, 2 units, 2 threads: an operation, one it calls in another unit, and a third that could inherit what they left; 2 writes to see half of an operation |
| `uow_handlers` | with everything except threads sharing a unit: owners stay atomic, nothing is left over, poison is final | 3 operations in one unit: handler, nested mutation, successor |
| `outbox_processes` | at-least-once, no phantom, good envelopes go out, implements `EventDelivery` | 2 processes, 2 envelopes, a subscriber to both and one that always fails on the first and comes and goes, limit 2, 2 transient faults: two batches that overlap, each disturbed, the failing envelope in every one |
| `boot_any_graph` | what can be brought up is registered, what fails fails for a cause, who is up owns what it provides; `boot()` ends, also a second time | every graph over 3 plugins, up to 2 of them with any fault: cycles of 1, 2 and 3, chains and diamonds; capabilities nobody contests, two plugins contest, and a plugin contests with the core; 2 boots |
| `lifecycle_hooks` | up serves or is torn down, never half; down is silent but for exactly the handlers that were leaked; `enable_all` settles | 3 plugins, which share only the loop of `enable_all`, 2 instances each: one live, one stale |
| `authorization_race` | a confirmation is used once, with its change, and whoever waits for its row gets on; implements `OneTimeConfirmation` | 3 requests, 1 confirmation: one issues it, two spend it |
| `authorization_changes` | changes are confirmed and authorized though rights move | 2 requests, 2 principals, both tables, 1 management call: a request may be disturbed by the other and by the call |
| `sessions` | nothing is served that came after its session ended or by an operator who was inactive all along, no session is lost to a mere failure, a logout is for good, every request is answered; implements `SessionWindow` | 1 session, 2 requests of any kind: a request, and the logout, expiry, deactivation, failure or restart that it races with. Sessions share only the operator and the process, so one is enough for their properties |
| `administration` | a revocation leaves nothing, what was answered stands unless something overlapped or followed, an identity is linked once, the evaluators and the pages of the console agree | 4 changes to one principal, 2 scopes of which one contains the other, 2 metadata keys: three of any kind, so that two overlap and one comes between or after them, and a fourth, a link if the others are about the identity and else the creation of the principal. The fourth lets a link, an overlapping registration and a second link all follow a first registration |
| `roster` | the events tell exactly the rows; what was removed is gone; attendance is of members and one line a day; a dataset is of its time | 4 calls of 13: the creation of the organization, the person, the workplace, or two additions, a removal and whoever reads between them; two numbers that clash, two organizations; a dataset of an organization, and one of none, which is denied |
| `reports` | what is in a report was allowed, current and of its owner; what is refused is refused for a cause; groups are the rows | 1 request of any kind; 5 plugins, two of which supply one dataset; 3 definitions; 2 changes of bindings, grants or rows, at any step. Requests share nothing that they write |
| `uow_shared` | *expects a violation*: section 6 | 2 operations on 2 threads in one unit |

The runs check what is worth asking of the system. The type invariants and the inductive
invariants that hold them (section 5) are proved; they are not listed again as
properties of runs, but for `RpInv`, which has the sections that a report must have.
The same goes for properties that another one of the run implies or that are a
conjunct of an invariant: `NoPhantomEvent`, `RequirementsRegistered`, `DownUncallable`,
`CallableOwned`, `UsedOnce`, `RoInv` and `OneOrganization`. TLC confirms
each of them when it is added to the INVARIANTS of its module's run.

Two runs check for deadlock: `administration` and `roster` have a step that says that
everything has ended (`Finished`), and nothing else may stop them. The other systems
may rest for good when there is nothing to do. That nobody waits for ever where there
is something to do is what `BootEnds`, `GoodEnvelopesGoOut`, `RequestsEnd` and
`RequestsAnswered` state.

## 4. Fairness

- `Boot!FairSpec`: `WF(Step)`, the steps of a boot that has begun. It is one call on
  one thread, and nothing it calls waits for another one. That somebody calls
  `boot()` is not assumed.
- `Outbox!FairSpec`: `WF(Dispatch(p))` for each process: `dispatch_pending` is called
  again and again, and runs on. It is not strong and not per action; which envelope
  is next is the code's choice. Transient faults are not fair, and bounded by
  `MaxFaults`; a subscriber that always raises does so for ever. Publishers are
  assumed to do nothing: the property begins with a committed row. That
  `dispatch_pending` is called again is the deployment's part (`atlas` CLI runs call
  it); without it nothing ever goes out.
- `Authorization!FairSpec`: `WF(Work(r))`: the thread of a request goes on, as long as
  it does not wait for a row. A failure is possible but not fair: the holder of a row
  lock may not be assumed to fail, it must commit or roll back by itself.

- `Sessions!FairSpec`: `WF(Serve(r))`: the thread of a request that was taken goes on;
  the process has a thread for each, and nothing in them waits for another. Logins,
  expiries, administrators and restarts are not fair. A failure of the database is
  possible at any step, and not fair.

The other modules have no liveness property. The operations of `UnitOfWork`,
`Lifecycle`, `Roster` and `Reports` end because their Python call ends, and nothing in
them waits; in `Administration` a link waits for the row of the identity, whose holder
commits or fails in its next step, which the check for deadlock covers.

## 5. The proofs

All theorems are for every value of the constants that the named assumptions allow,
which say that `None` is not a member of the sets, that numbers are numbers and that
the data have their shape. Three say more about the program: a grant has a scope that
is not empty (`Administration`); nobody but the catalogue asks for
`authorization.manage`, as no plugin in `plugins/` does, and one plugin supplies the
caller's own dataset and its definition (`Reports`).

| Module | Theorems | Inductive invariant and why it is needed |
|---|---|---|
| `UnitOfWorkProofs` | `TypeCorrect`, `PoisonFinality`, `OwnerInvariance`, `OwnersAreAtomic`, `NoLeftoverWrites`, `Invariance`, `Atomicity`, `Refinement` | `OwnerInv`: that an owner is all or nothing depends on what its session holds. `PendingIsOwn` and `OwnersComplete` say that this is what its operations wrote, and all that a running owner wrote; `OneWriter` that two operations are in one session only as a handler and the mutation it waits for; `ExplicitHasOwner` that the flag has an owner who will clear it; `JoinedIsPoisoned` that a mutation can only join a flag that was left on a poisoned session, where nothing is committed any more. `IInv` adds what makes handlers atomic too: `HandlerIsClean` and `PendingIsComplete`, which need handlers that write nothing before their nested mutations |
| `OutboxProofs` | `TypeCorrect`, `Invariance`, `NoPhantoms`, `AtLeastOnce`, `Refinement` | `OInv`: that a closed row was delivered depends on the snapshot (`SnapshotIsKept`), which depends on who is registered (`SteadyIsRegistered`); that it was committed depends on the batch (`WorkIsCommitted`) |
| `KernelProofs`, of `Boot` | `TypeCorrect`, `InvariantHolds`, `RequirementsHold`, `BringsUpWhatCanBe`, `FailsOnlyForCause`, `OwnersStand` | `BInv`: the sets of a pass partition the candidates (`NothingForgotten`), and `ids` is what was registered; a set of plugins that is closed under requirements can be deferred only while one of it can still be registered. `ClaimsInOrder` says that an owner has claimed, and that nobody takes a claim over |
| `KernelProofs`, of `Lifecycle` | `LifecycleIsTyped`, `LifecycleInvariant`, `EnablingAllSettles`, `DownIsUncallable`, `CallableIsOwned`, `DownIsSilent`, `UpIsServed` | `LInv`: bindings, owner and subscriptions are of the live instance at every stage of `enable`. `Subscribed` says that only the live instance was ever subscribed, which is what lets a tear-down find the handlers to remove |
| `AuthorizationProofs` | `RowsAreHeld`, `ConfirmationsAreUsedOnce`, `ConfirmationsAreSpentWithTheirEffect`, `ChangesAreConfirmed`, `ChangesAreAuthorized`, `Refinement` | `AInv` and more: type, *locks* (who consumed a confirmation holds its row and finds it usable), *ledger* (a confirmation is used exactly when a committed request spent it), *evidence* (what a request has read by its label was the case since it began) |
| `SessionsProofs` | `SessionInvariant`, `RequestsServedWhileActive`, `SessionsForgottenForCause`, `LogoutsAreForGood`, `Refinement` | `SInv`: `OnTheWay` says what a request that got as far as its label has seen (who passed the resolution came while the session was honoured), `Accounts` that a session that is in has a handle and that an inactive operator is noted |
| `AdministrationProofs` | `ChangesAreTyped`, `RevocationsAreComplete`, `GrantsStand`, `PrincipalsKeepTheirChanges`, `IdentitiesAreLinkedOnce`, `EvaluatorsAgree`, `ContainmentsAgree`, `NarrowIsNeverWider` | `AdInv`: `CopiesShow` says that the copy a change writes from shows everything committed when it was read, and the row its session loaded everything committed when it was loaded; so what its write undoes overlapped, and was written in between or after a load that showed another value (`WroteActive`, `WroteMetadata`). `EvaluatorsAgree` needs that only a row is active: a page that knows no row hides no permission. The last two are about operators: on scopes that are not empty the three containments are one relation, and narrowing gives nothing that the subject has not |
| `RosterProofs` | `RosterIsTyped`, `RecordedWhileMembers`, `RosterIsTold`, `RemovalsAreComplete`, `WorkforcesAreOfOneOrganization`, `SheetsShowTheRecorded`, `DatasetsAreOfTheirTime` | `RoInv`: `RowsAreMade` says which committed operation made a row and that what an operation found was such a row, `NothingTwice` that the keys hold at every moment. `SheetsShowTheRecorded` rests on both: the line of a person and a day is the one that the recording committed, and the only one |
| `ReportsProofs` | `ReportsInvariant`, `ReportsAreTyped`, `ReportsAreAllowed`, `ReportsAreCurrent`, `RefusalsHaveACause`, `GroupsAreExact`, `ShapeRegroups` | `IInv`: for each request `Placed` (which kind is where, and with which handle), `Listed` (whoever was bound at one moment has been asked or still will be), `Deciding` and `Vouched` (what a plugin decided was granted at a moment since the handle, its rows were there at one), `Told` (a section is of the answer that is kept, or of a dataset that nobody supplied at a moment), `Refused`. `Moment \in moments[r]` says that the present is among what was seen |

Three theorems of `UnitOfWorkProofs`, `OwnerInvariance`, `OwnersAreAtomic` and
`NoLeftoverWrites`, assume `~Shared`: threads do not share a unit of work. Handlers may
write before their nested mutations, mutations may be bare, and rollbacks may raise, as
in the run `uow_handlers`: whoever owns a transaction is still all or nothing.
`Invariance`, `Atomicity` and `Refinement` assume `Discipline`: besides, handlers do not
write before their nested mutations, and bare mutations do not meet failing rollbacks.
The uses that these exclude are exactly those in which the promise is broken (section
6). `TypeCorrect` and `PoisonFinality` need neither. The uses themselves are what the
code allows; which of them a deployment has is for its plugins to keep. All other
theorems hold for their specifications as they stand.

The refinement theorems follow the usual pattern: initial states map to initial
states, and each action, under the invariant, maps to a step of the abstract
specification or to a stutter. Elsewhere each action has a lemma that it keeps the
invariant, conjunct by conjunct, and the theorem combines them.

The parts of the invariant of `Reports` speak of one request by the values of its
variables. Each action lemma shows what becomes of these parts for the request that
moved, and one lemma that no part becomes false when more is seen: it is used for every
other request, and for the steps of those who change grants, rows and bindings. The
proof found that two cases of a `CASE` in `Catalogued` overlapped, of which TLC takes
the first; it is an `IF` now, in the order of the code.

`GroupsAreExact` rests on `ShapeRegroups`, which says what the loops of `Only` and `Shape`
compute for sequences of any length. That needs induction over data. The library's
induction theorems take an operator, which the installed provers cannot instantiate;
`ReportsProofs` proves induction for *sets* of numbers and of sequences instead
(`Induction`, `SequenceInduction`), from the least element that the well-foundedness of
the naturals gives, and applies it to the set of the sequences for which a fact holds.

Every invariant, action property and refinement that a passing run checks is so stated
by a theorem. Only model-checked are the four liveness properties, `BootEnds`,
`GoodEnvelopesGoOut`, `RequestsEnd` and `RequestsAnswered`, since the prover has neither
ENABLED nor reasoning from fairness, and the violation.

## 6. Disagreements found

One is a run, `uow_shared`: the kernel caches one unit of work per plugin, and threads
that call into the plugin share it. The rollback of one drops what the other wrote and
reports as committed, while `docs/PLUGIN_SDK.md` says that an operation commits on
normal return. `PROJECT.json` quotes the lines.

The others are stated as properties at the end of their modules, and no run checks
them; the constants that make TLC find each one violated are:

| Property | What happens | What is said | Constants |
|---|---|---|---|
| `UnitOfWork!HandlerCommitsOnReturn` | a nested `_run_mutation` commits a running handler's writes (`core/application/authorization.py:1094`) | the registry commits once, after the handler returned (`docs/ARCHITECTURE.md:131`) | as `uow_shared`, with 1 thread, `HandlerWrites` alone TRUE |
| `UnitOfWork!PoisonFailsClosed` | the explicit flag survives a failed rollback; the next bare mutation joins it and reports success (`unit_of_work.py:246`) | after a rollback failure later work fails closed (`docs/CORE_CONSTITUTION.md:68`) | the same, with `BareMutations` and `RollbackFails` TRUE instead |
| `Outbox!GoodEnvelopesGoOut` | as many failing envelopes as the limit fill every batch (`repositories.py:260`) | one bad subscriber cannot block the bus (`docs/EVENT_SPEC.md:79`) | as `outbox_processes`, with 1 process, `Limit = 1`, `MaxFaults = 0`, both subscribers steady |
| `Boot!EveryPluginSettled` | an entry point that cannot be loaded ends the boot (`entry_points.py:119`) | any failure during discovery marks the plugin failed and the boot continues (`docs/CORE_CONSTITUTION.md:96`) | as `boot_any_graph` |
| `Sessions!ReplayIsToldTheTruth` | a request in flight discards the tombstone of a logout; a replayed id is then unknown (`src/atlas_web/service.py:429`) | the comment at `service.py:392`: the record is kept so that a replayed id is told the truth | as `sessions`, with 3 requests |
| `Administration!PreferenceAloneIsWritten` | a preference writes back the status it read: a deactivation in between is undone (`management.py:288`) | the docstring at `management.py:266`: it writes one metadata entry | as `administration`, with `c1`, `c2` and `also` and without symmetry |

Met while modelling, and built into the properties:

- an `on_disable` that raises leaves the plugin ENABLED with nothing bound (`torn`); a
  `bind_subscriptions` that raises on a second enable leaves the FAILED plugin
  subscribed (`leaked`), although `docs/EVENT_SPEC.md` says it is unsubscribed on an
  enable failure; `enable`, `disable` and `stop` take a FAILED plugin to other states,
  although `docs/PLUGIN_SPEC.md` calls it terminal; a disabled plugin keeps its
  instance, although a comment in `kernel.py` says it is there only while enabled;
- a plugin whose registration raises halfway keeps the capabilities it had come to
  (`kernel.py:588`), and another plugin that provides one of them then fails for it;
  the registry's docstring says that a broken plugin must not silently corrupt the core;
- Report Studio's docstring says that a dataset whose provider is not installed renders
  as *not installed*; that holds at every moment but the one between the listing of the
  bindings and the call, when the registry raises and the whole report fails;
- the web console binds `report.render` and the capabilities of the use case only, so
  with the workplace plugin enabled a definition that does not declare `workplace.view`
  and `people.read` is refused: every provider is asked, and one of them denies;
- the command line's `workplace workforce` binds a handle to the principal alone, which
  contains no organization, and is always refused.

## 7. What is not modelled

- SQL, SQLAlchemy and PostgreSQL are modelled by what the code relies on: READ
  COMMITTED reads, atomic commits, row locks, unique keys, commits that may be
  ambiguous.
- Startup: migrations, `create_all`, the seeding of capabilities, roles and policies,
  the initialisation of the operator. They run once and before everything else; two
  processes that first boot at once would race on the seeding, which only the unique
  keys settle.
- Workflow definitions and cases live in the memory of one plugin's context; each
  operation is a guarded write to a dictionary. Scheduling and notification check a
  capability and return.
- The choice of the most specific policy rule; roles that plugins register; the
  in-memory twin of the authorization repository, which serves tests.
- Updates of single fields of employees and units, and the plain reads.
- Hashing, tokens, formatting, parsing, layout: manifests' text, JSON, the printed
  report, static files, HTTP. A report's contents are modelled, its print is not.
- The web console is a client of the web API; the CLI calls the kernel's operations and
  is modelled only where it composes a report. The demo plugins use the mechanisms that
  are modelled, and add nothing to them.

## 8. The plan

What is left, in this order:

1. **PolicyRules** (`core/domain/policy.py`): the choice among several rules as an
   operator, against a reference definition, and `Authorization` with it.
2. **Startup**: two processes that boot the same database, capabilities owned by
   plugins of an earlier process.
3. `Boot` and `Lifecycle` composed, so that `enable_all` follows a boot.
4. **Workflow**, once its state outlives a process.
