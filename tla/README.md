# Formal models of node-server-template

TLA+ models, TLC runs and TLAPS proofs for the NestJS / TypeORM / BullMQ
server template in this repository. They are about the code, not about its
documents: every action translates a handler under `src/`, with its guards and
its writes, and every property states something the handlers must get right
*together*. Paths below are relative to `src/`.

1. [The system](#1-the-system)
2. [The models](#2-the-models)
3. [What the runs check](#3-what-the-runs-check)
4. [Fairness](#4-fairness)
5. [Refinement](#5-refinement)
6. [What is proved](#6-what-is-proved)
7. [Where the code and its comments disagree](#7-where-the-code-and-its-comments-disagree)
8. [What is not modelled](#8-what-is-not-modelled)
9. [Plan](#9-plan)
10. [Running it](#10-running-it)

## 1. The system

Three processes share one SQL database and one Redis. Each may run in several
replicas, so everything below happens concurrently with itself.

- `apps/admin-api`: the back office (administrators, roles, menus, dictionaries, configuration, tasks);
- `apps/user-api`: the public API (registration, login, profiles, SSO);
- `apps/worker`: BullMQ processors and cron schedules.

They are built from `libs/core` (configuration, database, logger, request context),
`libs/platform` (task, queue, cache, auth, security, audit, config),
`libs/domains` (identity, access-control, system) and `libs/integrations/sso`.
State is in the tables, in Redis keys and in BullMQ's queues; a process keeps
nothing across requests but its registries. The hard behaviours come from
several statements against those stores with other requests in between: almost
nothing runs in a transaction, and a request may end after any statement.

### Components

| component | state | what is hard, and what makes it correct | module |
|---|---|---|---|
| **Task engine** `libs/platform/task` | rows of `tasks` | transactions, compare-and-set UPDATEs and unlocked read-modify-saves on one row; a task runs once at a time, not again after success, not more often than maxAttempt, and never gets stuck | `TaskEngine` |
| **Task delivery** `apps/worker/.../task`, `task-dispatch.schedule.ts` | BullMQ jobs, dispatchedAt | insert, add() and mark fail separately; jobs are retried, stalled, retained; a waiting task is consumed in the end | `TaskDelivery`, `BullJobs` |
| **Task retention** `task-retention.service.ts`, createTask | deletedAt, finishedAt, dedupKey | deletes rows it selected earlier; a deleted row keeps its key; creators of one key race | `TaskRetention` |
| **Sessions** `session.service.ts`, the APIs' auth services | `user_sessions`, passwordVersion, blacklist | check, revoke and insert are separate statements; reuse ends a family, an old password opens nothing | `Sessions`, `SessionLedger` |
| **Tokens** `libs/platform/auth` | exp, expiresAt, blacklist TTLs | three clocks with different units; one secret and one table of sessions for two applications; logged-out tokens stay out | `Tokens` |
| **Login, lockout, IP ban** `login.service.ts`, `ip-blacklist.service.ts` | failedLoginCount, lockedUntil, counters in Redis | increment, read, compare and lock are four statements, under thresholds that change; INCR without EXPIRE | `LoginGuard` |
| **Runtime configuration** `runtime-config.service.ts`, `system-config.service.ts` | rows, their entries in Redis | read-through with invalidation, negative entries, deleted keys | `RuntimeConfig` |
| **SSO** `libs/integrations/sso`, identity services | states, codes, links, accounts | registration in five writes, one-time tokens of three flows, the last way in | `Sso` |
| **SSO providers** `providers/*.ts`, normalizer | registry, one flow's locals | scopes, PKCE, nonce, id_token and userinfo of three providers, one form of profile | `Providers` |
| **Access control** `libs/domains/access-control`, `administrators.service.ts` | roles, permissions, bindings, the cache of codes | who is to be invalidated is read at another moment than the change; the last super administrator is counted before it is removed | `AccessControl` |
| **Menus** `menu.service.ts`, `menu.mapper.ts` | menus with parents | edits are read-then-save, removals count-then-delete: loops and orphans | `Menus` |
| **Dictionaries** `dictionary.service.ts` | items, the cached list | a slow reader stores an old list | `Dictionaries` |
| **Seeds** `database/seeds` | seeded rows and bindings | cut short, repeated, two at once, against soft deletion | `Seeding` |
| **Rate limit, guards, audit** `libs/platform/security`, `audit`, worker | counters, jobs, `operation_logs` | a job per request beside the answer; the row must tell the truth | `RequestPipeline`, `BullJobs` |
| **Request context** `libs/core/request-context`, audit columns, queue producer | the store of each request, stamps, ids in jobs | concurrent requests, loads before others' saves, retries and dead letters | `Context` |
| **Masking** `data-masking.util.ts` and its callers | values logged and audited | objects and arrays at any depth, decided by keys, several passes | `Masking` |
| **Exceptions and answers** `all-exceptions.filter.ts`, error codes | the registry of codes | eight libraries register in import order; branches for related exceptions | `Answers` |
| **Distributed lock** `cache.service.ts` withLock | one key | a holder that outlives its TTL releases | `Locks` |

`PROJECT.json` lists the components with their files and what is modelled of
each, every hazard at the line where it bites, and for every definition the lines
it translates.

## 2. The models

A request in flight is a record: the statement it is about to make and the locals that
outlive an `await`. One action is one statement against a shared store, with what
the handler computes around it. A request that dies, or whose statement is
rejected, simply stops there, as nothing is rolled back. A database transaction
and a Lua script are one step. Names follow the source; each definition's
comment names the method where the name does not.

History variables (named so in their modules) record what the properties speak of
and guard nothing.

### Tasks: `TaskEngine`, `TaskDelivery`, `TaskRetention`, `BullJobs`

`TaskEngine` has the rows and everything that writes them. `row[t]` holds status,
attempt and lockedAt. Time is no number: the n-th claim stamps `lockedAt = n`,
which is what the code uses lockedAt for, to tell claims apart and to order them;
`staleUpTo[t]` says which stamps are older than staleMinutes. Three kinds of
write are kept apart, since the races come from mixing them:

- `tryClaimTask` and `retryTask` run under a row lock: one step each;
- `recoverStaleTasks` selects some of the stale rows (`RecoveryScan`), then issues one UPDATE per row
  guarded by `status = PROCESSING AND locked_at = <scanned>` (`RecoverStaleTask`);
- completeTask, failTask, cancelTask and skipTask are `findOneBy`, a check in memory and
  `repo.save(entity)`: the read, TypeORM's own SELECT (`SaveLoads`) and the UPDATE of the
  columns that differ (`SaveUpdates`), with no predicate but the key.

`SplitSave = FALSE` makes the last two one step; `LiveLeaseExpiry = TRUE` lets a
claim grow stale while its worker is still busy, as a handler slower than
staleMinutes does. In `TaskEngine` any idle worker may try any row at any time,
which covers every duplicated, delayed or reordered job.

`TaskDelivery` EXTENDS it with the queue: the job whose jobId is the uid, dispatchedAt,
producers and dispatcher (`CreateAndEnqueue`, `FindPendingForDispatch`, `Enqueue`,
`MarkDispatched` and their failures), the processor (`DeliverClaims` ... `ExecuteSaves`,
`WorkerCrashes`) and BullMQ's own moves (`JobStalls`, `EvictJob`). What is assumed
of BullMQ is in the heading of `BullJobs` and of `TaskDelivery`.

`TaskRetention` EXTENDS `TaskEngine` with soft deletion, finishedAt by age, and
createTask by dedupKey (lookup, insert, conflict, second lookup). A cleanup takes
two SELECTs and then deletes by id, whatever the rows have become. Finders do not
see a deleted row, UPDATEs that are not of an entity do.

### Sessions: `Sessions`, `SessionLedger`, `Tokens`

`Sessions`: one subject (a user or an administrator; the code is the same but for
names) and the requests about it. `user` has status and passwordVersion (pv),
`session[s]` is a row with the token pair issued with it, `Accepted(s)` the access
path: blacklist, then `validateAccess`. Login, refresh (with `rotateSession` and reuse
detection), logout, logoutAll, revokeByUser, password changes of both kinds and
`update()` are modelled statement by statement. `announced`, `ended`, `reused`
and the field `proof` are history. A `save()` of a row writes revokedAt over
whatever the row has become, and `save(user)` of `update` every column it read.

`SessionLedger` is what this is for: families that are opened under the pv of
their time, closed for good, honoured while open and of the current pv (section 5).

`Tokens`: the same from the clock's side. Ticks are finer than the seconds that
`iat`, `exp` and Redis count in. It has both applications, whose access and refresh tokens
may share a secret and whose sessions are rows of one table: a row has the subject it was
inserted for and the first session of its family. What each strategy tests is there (with and
without a session validator), the session's expiresAt reckoned later than `iat`, `remember`, and the
blacklist entry whose TTL is what is left of the token.

### Logging in: `LoginGuard`, `RuntimeConfig`, `Sso`, `Providers`

`RuntimeConfig`: `loadFromDb` (GET, SELECT, SET), `set` and `delete` (read, write, DEL),
each with failing Redis calls; `suspect[k]` is the history of lost or overtaken
invalidations. `LoginGuard` EXTENDS it: `verifyCredentials` and
`recordSuspiciousActivity` take every threshold from it, so a login is a reader in the
middle of its own statements. `lapsed` and `leaked` are the history of what died
on the way or ran out.

`Sso`: accounts, links, states, codes and requests of three flows (login, bind,
administrator): authorize, callback (consume, find, match or register, link, gates,
session, code), exchange, and unlink. A registration is five writes. The provider's
answer is an identity; how an answer becomes one is `Providers`: the registry with its
check of callbacks, the authorization's scope and PKCE, the exchange, the id_token's
checks, userinfo or Graph, and the normalizer's order of fields.

### The console: `AccessControl`, `Menus`, `Dictionaries`, `Seeding`

`AccessControl`: a guard check fills the cache in three reads and a store; a change
commits and then deletes the cached codes of users it has read at some moment.
`suspect` records the five known gaps, so that `CachedCodesAreCurrent` says there is
no sixth, whatever overlaps. `Profiles` fixes which operations overlap in a behaviour.
`Menus`: edits are a read and a save, a removal a count and a transaction; `menusForUser` is two
reads and its loop, a step for each grant that is taken and each menu that is climbed to. Between the
second read and the answer nothing is awaited, so nothing else moves (`Walking`). `buildTree` shows what
hangs below its roots (`ShownIn`). `Dictionaries`
has the items of one dictionary and its cached list; `Seeding` the seeds as a sequence of
rows of four kinds, which differ in how a removal leaves them.

### Around every request: `RequestPipeline`, `Context`, `Masking`, `Answers`, `Locks`

`RequestPipeline`: the guards, the limiter's script, the handler that commits and
resolves or throws, the interceptor that adds an audit job without waiting, the job
with attempts and stalls, the row. `Context`: what the AsyncLocalStorage of each
request says when TypeORM stamps a row or a producer adds a job, and what becomes of
it in the job's runs and its dead letter. `Masking`: `redactSensitiveKeys` over
nested values along each of its callers' ways. A value is what is at each of its paths, and each call of
the function, on the whole or by itself on something inside, is an action (`RedactSensitiveKeys`, with
the calls that remain in `todo`), so that the recursion is part of the behaviour that is reasoned about. `Answers`: all
codes of all libraries with their statuses, loaded in any order, and the filter's branches. `Locks`:
`withLock`, which has no caller in the applications yet.

The `MC*` modules hold symmetry and values for TLC. `MCLogin` and `MCPlatform` run
modules side by side that share no variable: a variable `part`, chosen at the
beginning, names the one that moves, so the states of the parts add up instead of
multiplying, and each part has exactly its own behaviours.

## 3. What the runs check

| run | result | shows |
|---|---|---|
| `task_delivery_once` | pass, 1.8 million states | rows, jobs, dispatcher, two workers, an administrator and sweeps, saves in two steps and leases that expire under live workers: `attempt` never passes maxAttempt (`AttemptWithinMax`; with two overlapping cancellations it may, section 7), a stored SUCCESS is final (`SuccessIsNotRerun`), one worker per task (`ExclusiveExecution`). One job per uid and a live worker's job buy this; without the jobId (the mutant) two workers run one task |
| `task_delivery_busy` | pass, 61 000 | on a queue that evicts finished jobs, through crashes, stalls, lost adds and marks: `ProcessingEnds`, `PendingIsConsumed` |
| `task_delivery_retained` | violation | on a quiet queue a task can wait for ever (section 7) |
| `task_retention` | pass, 1.4 million | two tasks that may share a key: the calls that return for a key return one task (`SameKeySameTask`), the cleanup deletes nothing that waits or runs but what an administrator retried meanwhile (`CleanupTakesOnlyFinished`), a sweep ends only claims that have expired (`RecoveryTakesOnlyStaleClaims`) |
| `session_overlap` | pass, 529 000 | two requests at a time: what was opened before pv was increased is never accepted again (`LogoutAllIsForGood`), nor what was opened with an older password (`OldPasswordOpensNothing`); and the statements together implement the ledger (`ImplementsLedger`). The pv in the tokens does it, not the revocation |
| `session_serial` | pass, 351 000 | all operations one at a time, cut short anywhere: one live session per family, reuse ends the family, a login leaves what the policy allows |
| `session_reuse_race` | violation | `ReuseEndsFamily` with two refreshes at a time (section 7) |
| `sso` | pass, 362 000 | two users, an administrator, two identities, two flows and three requests cut short anywhere: a session is of the owner of the identity that opened it, administrators only over verified mails of theirs, flows are not mixed and give one session, a linked account keeps a credential |
| `login` | pass, 2.5 million | `LoginGuard`: cached configuration is current, full counters lock, counters expire, each unless what the property names has happened. `Tokens`: sessions of a family stay with the application that opened it, logged-out tokens stay out, sessions outlive their refresh tokens |
| `platform` | pass, 1.2 million | the console and what surrounds requests, twelve properties, one or two per module |
| `access_last_super_admin` | violation | the last active super administrator can be disabled (section 7) |
| `request_pipeline` | pass, 227 000 | no window admits more than its limit, windows end, a row never tells of a success that was not, audit jobs settle |

Each property's comment says what it means and whose promise it is. Where the code
has a gap, the property names it as a disjunct and claims there is no other
(`CachedCodesAreCurrent`, `CachedConfigIsCurrent`, `ServedListIsCurrent`,
`FullCounterLocks`, `CounterExpires`); the gaps are history variables that only
the steps which open them set, so that the mutants, which open another, are found.

Every property of a passing run has a mutant in `PROJECT.json`: a plausible bug in
one definition that the run must catch, e.g. a sweep that forgets the lock stamp in its
UPDATE (`SameStatus`), jobs without jobId (`EnqueueWithoutJobId`), a lock deleted
by anyone (`DeletedByAnyone`), a counter compared with `>` (`ComparesLate`), the openid scope
left to the configuration (`ScopeAsConfigured`).

### Bounds, and why they are enough

- **One task** in delivery: no statement there reads another row's columns to decide about
  this one, except the scan limits. That of the sweep is modelled: `RecoveryScan` takes some
  of the stale rows (`Scans`), which TLC tries with two tasks in `TaskRetention` and the proofs
  cover for any number; that of the dispatcher is not. Two tasks in `TaskRetention`, which is about keys.
- **Two workers, one administrator**: a late holder, a new holder, one administrator
  and the sweep (two administrators, who may cancel at the same time, break `AttemptWithinMax`). `MaxAttempt = 2`: one retry and one exhaustion. `MaxClaims = 4` (a bound
  of the model): two full rounds with an administrator's retry between them; in the run
  of liveness it never keeps a task from its claim, which is the last conjunct of
  `DeliveryTypeOK`. `MaxStalledCount = 1` is BullMQ's default. In `TaskRetention`
  `MaxAllClaims = 2` and a cleanup of one row: a row claimed before and after a deletion.
- **Sessions**: two requests, since each hazard is one request between two statements of
  another; two sessions, an old one and what is made of it or a login beside it; two
  increases of pv, to span one and see the next. The serial run has three sessions,
  for a limit of two and one past it.
- **Sso**: three requests let two callbacks race and a third intervene; two states
  are a flow's own and another's. A request is used once.
- **Login**: two logins; a login with an administrator who edits the threshold;
  a login with an update of the account. The counter goes to 3 with thresholds of 1 and 2 (or no
  number), at, below and past them. Only the failure threshold is edited; the other
  keys keep their defaults. Lifetimes of one and two seconds of two ticks, three ticks of time: a
  logout is reckoned before, at and after the second in which the token expires.
- **Platform**: access control in six profiles of what overlaps (`MCAccessControl`), two
  administrators, roles and permissions, one guard check; three menus, one editor and one
  user's request for them (whose loop TLC follows only where nothing else is on its way, `WalkAlone`: it
  reads nothing of that); two items and
  two values, one reader, two editors; two runs of six seeds, a row of every kind and
  bindings between and after them; two requests with two users and an id from a header or none;
  values to a depth of four, arrays of one or two, an array as the whole; all libraries' codes in every order of import;
  three providers with every configuration; three callers of one lock of two seconds.
- **Pipeline**: two requests for one place in a window, three attempts (the default of the
  queue), one stall.

The proofs are for any number. `CHECK_DEADLOCK FALSE` stands where a system may
stop: everything finished, nothing in flight, or a request that is used once. Symmetry is
used for interchangeable workers, requests and tasks, never with liveness.

## 4. Fairness

`TaskDelivery!Fairness` states only what the processes keep doing by themselves:

- weak: the cron schedules run (`FindPendingForDispatch`, `RecoveryScan`), time
  passes (`GraceEnds`, `LeaseExpires`), BullMQ checks for stalls (`JobStalls`) and hands
  out jobs (`DeliverSkips`), a handler that has a row ends or dies (`SlotStep`), an
  administrator's request ends;
- strong: what can fail now and then but is tried again by a schedule does not
  fail for ever: the `add()`, a claim when slots are free again and again, the
  sweep's UPDATE.

Nothing obliges an administrator to act, a worker to crash, an error to happen, or
other tasks to arrive. `BusySpec` adds weak fairness of `EvictJob`, i.e. enough later
jobs finish to push a retained one out. It is a separate specification because
the code does *not* guarantee it: `FairSpec` without it violates `PendingIsConsumed`.

`RequestPipeline!FairSpec` is weak throughout: a request that was admitted goes on or
is lost (`HandlerStep`), the worker takes the audit job and goes on or dies
(`WorkerStep`), and Redis drops a key whose TTL has run out (`WindowEnds`).

## 5. Refinement

- `TaskDelivery` implements `TaskEngine`: the queue is one way of many in which workers may
  be told to try a row. Proved (`DeliveryImplementsEngine`), so that every theorem about
  the engine holds behind the queue.
- `Sessions` implements `SessionLedger` (`ImplementsLedger`, with `INSTANCE SessionLedger
  WITH`): `epoch` is pv; a family is open while it has a live session *or* a refresh of it has been
  let through and will insert one; `honoured` are the families with an accepted session.
  Login's insert opens a family, the increment of pv advances the epoch, every
  revocation, expiry or death closes families or does nothing, and a rotation is unseen. The
  mapping holds for overlapping requests, which `OneLivePerFamily` and `ReuseEndsFamily`
  do not; and through an `update()`, unless it writes an old pv back. Proved too (`LedgerImplemented`).

## 6. What is proved

TLAPS checks every proof to its last leaf, for every number of tasks, workers, requests,
sessions, users, flows, readers, editors and keys, every limit and every lifetime. Nothing is
assumed but the named ASSUMEs of the modules (that bounds are naturals, that `NoRequest` is no
request, `NoUser` no user, the absent id none of the generated ones, and the like; TLC evaluates
them on every run) and what the column "assumes" says.

`TaskEngineProofs`, `TaskDeliveryProofs`, `TaskRetentionProofs`:

| theorem | assumes | says |
|---|---|---|
| `TypeCorrect` | | rows are well typed, no lock stamp is ahead of the claims |
| `RecoverySafe` | | a sweep takes a row from PROCESSING only if the claim that holds it now has expired |
| `DeliveryImplementsEngine` | | `DeliverySpec => Spec`: each step behind the queue is a step of the engine or a stutter |
| `DeliveryExclusive` | | with one job per uid, one worker per task, with two-step saves and leases that expire |
| `DeliverySuccessFinal` | | with one job per uid a stored SUCCESS is final, with two-step saves and leases that expire |
| `DeliveryAttemptBound` | `OneAdmin` | with one job per uid `attempt <= maxAttempt`, with two-step saves and leases that expire |
| `RetentionImplementsEngine` | | `RetentionSpec => Spec`: deletion, ages and keys give rows no step the engine does not have |
| `RetainedRecoverySafe` | | a sweep over rows that may be deleted ends only claims that have expired |
| `OneTaskPerKey` | | all calls that return for one dedupKey return one task |
| `CleanupSafe` | | a cleanup deletes only what has finished, or was retried since it was selected |
| `RetentionType` | | `TaskRetention` is well typed, only rows that are there are deleted |

`SessionsProofs`, `LoginProofs` (tokens, login and configuration), `SsoProofs`:

| theorem | assumes | says |
|---|---|---|
| `SessionsType` | `UpdatesApart` | sessions are well typed; a blacklisted one is a revoked one |
| `LogoutAllHolds` | `UpdatesApart` | no session of a family that existed when pv was increased is accepted again |
| `OldPasswordHolds` | `UpdatesApart` | nor one opened with a password older than the last announced change |
| `LedgerImplemented` | `UpdatesApart` | `Spec => ImplementsLedger`: however requests overlap or die, families are opened under the pv of their time, closed for good, and honoured while open and current |
| `FamiliesAreChains` | `RefreshesApart` | a family has one live session at most, `update` included |
| `ReuseEndsIt` | `RefreshesApart` | a family revoked for reuse has no live session again |
| `LoginKeepsPolicy` | `RefreshesApart`, `NothingAppears` | a login that answers leaves what the policy allows |
| `SerialSessions` | `OneSlot` | these three, the two before them and the ledger, one request at a time, cut short anywhere |
| `FamiliesAreOfOneApplication` | | what a guard lets in goes back, over any number of refreshes, to a login in that application |
| `LogoutIsFinal` | | a logged-out token is not let in again, for any lifetimes and resolution of the clock |
| `SessionsOutlastTokens` | | a live session lasts as long as its refresh token |
| `CachedConfigHolds` | | a cached configuration value is the stored one, but for the gaps it names |
| `CounterHasItsTime` | | an IP counter without expiry is one whose login is still to set it, or died before |
| `FullCounterIsLocked` | | a counter that reached every threshold in force is locked, but for the gaps it names |
| `SessionsBelongToOwners` | | whoever is signed in owns the identity that signed in |
| `AdminsNeedVerifiedEmail` | | administrators are signed in to only over verified mail of theirs |
| `FlowsStayApart` | | one flow, one session, one hand-out; none from a flow to link |
| `LinkedUsersHavePasswords` | | a linked user has a password credential |
| `SsoType` | | `Sso` is well typed |

`PlatformProofs` (the modules of the run `platform`), `RequestPipelineProofs`:

| theorem | assumes | says |
|---|---|---|
| `SuperAdminRemains` | `OneBinder` | somebody holds the super-admin role |
| `GrantsDoNotDangle` | `GrantsApart` | no grant names a role or permission that is gone |
| `CachedCodesHold` | | cached permission codes are what is granted, but for the gaps it names |
| `TreesShowGrants` | | a user is shown the granted menus with all their ancestors, in whatever order the loop walks them, through gaps and loops of parents |
| `AccessType` | | `AccessControl` is well typed |
| `ServedListHolds` | | a cached list is the enabled items as they are, with no value twice, but for the gaps it names |
| `SeedsAreWhole` | | once a run of the seeds has come to its end, and until something is removed, every row and binding is there |
| `LockHolds` | | within its time a lock is its holder's, whoever dies or releases late |
| `ActorsAreRecorded` | | a row's audit columns name who inserted it and the user who saved or updated it last |
| `TracesFollow` | | a request's id is in its answer, its job's runs and its dead letter |
| `CodesTellStatuses` | | the code and the status of an answer agree with every library's table, whichever are loaded and in whatever order |
| `NoSecretsAreKept` | | of a value of any depth a sensitive key has only the placeholder, a key for addresses or mails only masked ones, a text of its own key no token; what has nothing to hide stays |
| `ProfilesAreOfTheFlow` | | a profile names somebody, by a registered provider, under OIDC for the flow's own code |
| `RateLimitHolds` | | a window admits at most `Max` requests of a key |
| `OperationLogsAreTrue` | | the rows of a job agree, and tell of no success that was not |
| `PipelineType` | | `RequestPipeline` is well typed, counters have a TTL, rows are at most the job's runs |

Each condition names an overlap that breaks the property, and is met by the run that checks
the same property:

- `UpdatesApart` (a condition on behaviours, as the next one): nothing increases `pv` between the
  findByUid of an `update` and its save, which would write the old one back (section 7). Any number
  of updates may run, die and overlap with everything else.
- `OneAdmin`: two cancellations never overlap (section 7).
- `RefreshesApart` (a condition on behaviours, `Spec /\ []RefreshesApart => ...`): no two refreshes
  of one family overlap. Everything else may, with them and with each other. Without it
  `session_reuse_race` finds the violation of section 7.
- `NothingAppears`: between a login's SELECT of the sessions and its UPDATE no other login and no
  rotation inserts a row. One that does is not among those the login picked, and stays.
- `OneSlot`: a server that handles one request at a time. It implies these two, and in every
  behaviour `UpdatesApart` (`SlotKeepsUpdates`), which is why `session_serial` may check its
  properties without any condition.
- `OneBinder`: two requests that change bindings never overlap. With two overlapping
  `assignRoles`, each counts the other's target, and no super administrator is left.
- `GrantsApart`: no `assignPermissions` overlaps a removal of a role or permission. One that
  has looked its rows up before the removal inserts grants of what is gone afterwards.

The last two are conditions on the constant `Profiles`; every profile of `platform` meets them.

The arguments:

- *RecoverySafe.* `ScanStaleInv`: a scanned stamp was stale when scanned and stays so,
  since the threshold only grows and stamps are not used twice. The UPDATE tests the scanned
  stamp against the row, so the row's own stamp is stale.
- *DeliveryExclusive.* `ActiveInv`: a row in hand has an active job; a claim needs a waiting
  one; the stall check skips live workers.
- *DeliverySuccessFinal.* One worker per task is all that finality needs (`SuccessInv`): while a
  worker has a save in flight nobody else completes its task, so the row it loaded is not a SUCCESS
  (`OutcomeInv`) and its UPDATE cannot follow one: nobody is about to write an outcome over a stored
  one (`DoneInv`), and a row that says SUCCESS is one that was stored (`KnownInv`).
- *DeliveryAttemptBound.* `attempt <= maxAttempt` is not inductive: a claim adds one without
  looking. `CounterInv` adds that a row in a claimable status has an attempt left
  (`RowAttemptInv`); for that, a worker's save to RETRYING finds a row with an attempt left whichever
  columns it writes (`RetryInv`), one to FAILED that finds the row failed already finds its own attempt
  there (`FailInv`), a cancellation writes the status along with any old attempt (`CancelInv`), and a
  sweep's scanned attempt tells of the row's (`SweepInv`).
- *LogoutAllHolds, OldPasswordHolds.* `IInv`. Its `RowInv`: no row has a pv above the user's;
  in an ended family it is below; with the user's own pv, the password behind it is new
  enough. That is not inductive, because a refresh carries the pv it read to a row it
  inserts later: `GoodRequest` says the same of requests in flight. The gate of refresh
  establishes it, the increment in the database keeps it. `Frame`, `Inserting` and `Growing` are the
  three kinds of step: states only, one new row, larger versions.
- *LedgerImplemented.* `LedgerInv`: the rows of a family have the pv of its first row, and a refresh
  carries the pv of the row it was given. `Settles` covers the steps that add no row: none revives
  one or lets a refresh of a closed family through, so the open families shrink, which is a
  `Close`, perhaps of nothing. `Extends` covers the inserts: that of a rotation joins a family its
  own request has held open, that of a login opens one. `HonouredInv` is what is left of `Accepted`.
- *LockHolds.* `HolderInv`: a holder's token is in the key and the key outlives it. Release
  compares tokens and deletes in one script.
- *SeedsAreWhole.* `PassedInv`: what a run has passed since the last removal is live. Nothing
  but a removal makes a row other than live, and bindings are made after both of their rows.
- *ServedListHolds, CachedConfigHolds.* What is in the cache was read at some time; the invariant
  (`CacheInv`; `Current` and `EntryCurrent`) says that what a reader is *about* to store is the
  row's value too, unless an editor that has committed is still to invalidate, or did so in vain.
- *FullCounterIsLocked, CounterHasItsTime.* `ValuesInv`: every threshold a login holds was in
  force at some time; `LockInv`: who is to lock has counted that far; `CounterInv`: a counter
  that reached the least threshold belongs to a login still on its way, or the lock is there, or
  one of the named gaps is open.
- *SuperAdminRemains.* `SuperInv`: a request past its count of holders knows another holder, and
  nobody else may remove that one before it has ended.

- *RetentionImplementsEngine.* `RetentionStep`: each action of `TaskRetention` is one of the engine's
  with a stronger guard, or leaves the engine's variables alone. So `RetainedRecoverySafe`, and
  whatever is ever proved of the engine, needs no further argument.
- *OneTaskPerKey, CleanupSafe.* `RetentionInv`. `KeyInv`: one row per key, deleted or not, and what a
  creator has in hand has its key. `CleanupInv`: that a selected row has finished is not
  inductive, since a save in flight may be about to make it something else; so whatever is being saved to
  a finished row whose retention is over leaves it finished (`Settled`), and what a cleanup
  has selected stays so until it is retried. `SavesOfRows`: a save is of a row that was read.
- *FamiliesAreChains, ReuseEndsIt.* `ChainInv`. One live session per family says nothing of a
  refresh on its way; `Rotation` does: behind the gate no *other* session of the family is live,
  between the two writes none is, and the family has not been revoked. A second refresh of the
  family would break it between the first one's gate and its write, and only that: a
  logout or `update` only takes life away. `ChainFrame` covers every step that revives nothing.
- *LoginKeepsPolicy.* `PolicyInv`: what the UPDATE of a login on its way will leave live is within the
  limit. `Newest` is the count behind it: of the rows found, those that are not picked are no
  more than the limit.
- *LogoutIsFinal, SessionsOutlastTokens.* `TokensInv`: the tokens in a call's hands are
  those of a row that exists or of none yet, no two calls hold one new row (`OneCallEach`), and the
  clocks in order: a live row expires no earlier than its refresh token, a blacklist entry no earlier
  than its access token or never. `Scaling`, `SecondOf` and `SecondGrows` are the arithmetic
  of seconds and ticks, for any number of ticks in a second.
- *FamiliesAreOfOneApplication.* `FamilyInv`: a row's subject and the first row of its family are of the
  application that signed for it. A rotation copies the family, so a call past `RefreshValidates` must
  have an old session of its own application in hand (`KeepsApplication`), which only the lookup by
  subject gives it: the refresh token itself names no application.
- *The four of SSO.* `SsoInv`: an account with a password exists; the owner of a link is entitled to
  it, and stays its owner, unlinked or not (`LinkInv`, `Grows`); a state that binds names somebody
  with a password; each request is consistent with where it stands (`GoodRequest`: past the lookup it has
  the owner in hand; past the mail's comparison a matched administrator); its session is of what it
  has in hand (`GoodSession`); no two requests have one state (`OneRequestPerFlow`). None of the
  parts is inductive without the others.
- *GrantsDoNotDangle, CachedCodesHold.* `AccessInv` has what holds under no condition: types,
  `RequestsOK`, `KnownInv` (what grants name was there at some time, so that creating a row revives no
  grant) and `CachedCodesAreCurrent`; and `GrantsInv` under `GrantsApart`, which adds that the rows an
  `assignPermissions` has looked up are still there. The cached codes are then a matter of which
  steps change `Codes(a)`, and that each of them is to invalidate `a` or suspects its entry.
- *TreesShowGrants.* `WalkInv`, of the loop: a grant that exists is visible, or at the cursor, or still to be
  walked; only the parent of the menu visited last may be missing; and every set that holds the grants and
  is closed under parents holds what is visible and what the cursor is at. `LeftOutBelowLeftOut` is
  about the tree alone: what hangs below no root has a parent that does not either.
- *ActorsAreRecorded, TracesFollow.* `ContextInv`: a store has the user of its own request from its guard
  on, an entity that was loaded has the row's creator, and a job has its request's id in all
  its runs (`TraceOf`). `GeneratedIsAnId`: a generated id differs from the absent one.
- *ProfilesAreOfTheFlow.* `ProfileInv` follows one exchange: the provider is registered, the id_token is
  of the code that was redeemed, and behind the check of nonce or verifier the code is the flow's own.
- *CodesTellStatuses.* `RegistryInv`: what the registry says of a code some table says, and it knows every
  code that may be thrown. `TablesAgree` goes through all tables: no two of them contradict
  each other, so the order of import does not matter.
- *NoSecretsAreKept.* `MaskingInv`: whatever is not masked yet is inside something a remaining call is on; with
  no call left, all is masked. `BecomesMasked` is the step: what is inside the value of a call is an item
  and masked by it, or has a secret above it and goes, or is inside an object or array that the function
  calls itself on; `StaysMasked`, that a call touches nothing else. `HarmlessStays` is the other
  half: what a call takes away or replaces had something to hide.
- *RateLimitHolds.* `LimitInv`: a window's admitted requests are at most its counter, because admission
  and increment are one script, and the window is over when the counter's key is gone.
- *OperationLogsAreTrue.* `LogInv`: before the answer the audited payload is what the handler
  committed (`Truthful`), and every run writes the same payload; `RowsOfRuns` counts the rows by the
  attempts and stalls the job has had.

**Only model-checked.** Four of the runs' forty properties are stated by no theorem: `ProcessingEnds`,
`PendingIsConsumed`, `WindowsEnd` and `AuditSettles` are liveness, and the prover handles neither fairness
nor ENABLED. No module has a recursive operator: where the code loops or calls itself over data
(`menusForUser`, `redactSensitiveKeys`), a turn or a call is an action, and what would be an induction over
data is the invariant of a behaviour. That these loops end is not stated.

The type invariant is proved, under its own name, of `TaskEngine`, `TaskRetention`, `Sessions`, `Sso`,
`Tokens`, `AccessControl`, `Seeding` and `RequestPipeline`; of the other modules as far as their
inductive invariants need it.

## 7. Where the code and its comments disagree

Three runs are violations: TLC shows a behaviour of the code that a comment rules out.

1. **A waiting task may never be consumed** (`task_delivery_retained`).
   `apps/worker/src/schedules/task-dispatch.schedule.ts:15` promises that the task is consumed in
   the end ("保证任务最终被消费"). The dispatcher adds with `jobId = task.uid`; BullMQ ignores that
   while the task's *finished* job is retained (`queue.module.ts:41-42`), and the row is
   marked as dispatched all the same. Three ways there: an administrator's `retryTask` after
   the job failed; a crash, whose stalled re-run finds the row PROCESSING, skips and
   completes the job before the sweep makes the row RETRYING; a claim that the database rejects
   until the job has used its attempts.
2. **A replayed refresh token may leave its family alive** (`session_reuse_race`).
   `session.service.ts:12-14`: reuse revokes the whole family. `rotateSession` saves the old
   row and inserts the new one separately; a second refresh with the same token in
   between sees `rotated`, revokes a family with nothing left to revoke, and the first then inserts a
   live session. If both pass `validateRefreshSession` first, reuse is not even detected. A
   logout between the two statements does not reach the new session either.
3. **The last usable super administrator can be disabled** (`access_last_super_admin`).
   `administrators.service.ts:83-84`: refused when only this one enabled super administrator is
   left. `countEnabledSuperAdmins` counts bindings and does not look at the account's status.

The models are faithful to these other differences as well, where they touch them:

- *Tasks.* `cancelTask` and `completeTask` decide on an unlocked read and save without a predicate:
  a running task can be cancelled (`task.service.ts:449` says only one not yet running) and a
  cancelled one run on (`task-status.enum.ts:11`). `save()` writes the columns that differ from a
  second read, so two overlapping cancellations can break the bound on attempts: the one whose second
  read sees the task cancelled writes an old `attempt` alone, into whatever the row has become
  after a retry; if a worker's late `failTask` finds that value in a row the sweep has failed, it
  writes its own maxAttempt over the next retry's 0, and the claim after it makes it one more
  (about forty steps with maxAttempt = 2; `OneAdmin` in section 6 is what rules it out). A save can undo a deletion; a cleanup can delete what
  an administrator has just retried; a deleted task keeps its dedupKey.
- *Sessions.* `update` of either kind of subject writes back every column that differs from what it
  read: passwordVersion (`end-user.service.ts:191` relies on the increment), failedLoginCount,
  lockedUntil. A refresh issues its tokens without `remember`, and a rotation does not
  blacklist the old access token (`references/AUTH-SPEC.md:55`, `:62-63`).
- *Blacklist.* A logout in or after the second in which the token expires computes a TTL of 0, and
  `RedisService.set` with 0 sets no expiry: the entry stays for ever
  (`token-blacklist.service.ts:8`, `:21` say it goes).
- *Configuration.* `runtime-config.service.ts:72` claims immediate consistency between instances; a
  reader between its SELECT and its SET stores an old value. `SystemConfigService.set` does not check
  `valueType`, so a threshold may be no number, and then nothing is ever locked. A deleted key
  cannot be set again. `ban_seconds` of 0 bans for ever.
- *SSO.* `unlink` soft-deletes, and the unique index does not exclude deleted rows: linking the
  identity again fails, and each login with it registers an account and then fails. An unlink that
  races a bind's `save()` is undone. The random placeholder password counts as a credential
  (`external-identity.service.ts:117-118`), and does not satisfy the password policy in about 0.4 % of
  cases. A Microsoft code is tied to its flow by the state alone.
- *Access control.* Two concurrent `assignRoles` can leave no super administrator;
  `assignPermissions` that races a removal leaves a grant of a removed permission. Of two
  overlapping updates of a role, the one that read before the other's save writes the old `enabled` back
  and, as it changed nothing itself, invalidates nobody (`role.service.ts:86-94`), and an update of a
  removed permission brings it back, with the grants inserted behind its removal: one of the gaps
  `CachedCodesAreCurrent` names.
  `task:cancel` guards an endpoint and is not among the seeded permissions.
- *Seeds.* `seed.ts:9` calls a run idempotent; it fails for ever once a seeded permission or
  configuration row was soft-deleted, and two runs at once can duplicate menus. The seeded
  keys `security.login.maxAttempts` and `auth.session.maxConcurrent` are not the registered ones.
- *Rate limit.* `rate-limit.decorator.ts` says sliding window, the script counts in fixed ones.
  `keyBy: 'user'` reads the subject before any guard has set it, and so counts by IP.
- *Audit.* Login routes name their action `LOGIN`, the interceptor looks for `登录` and for a code
  that the answer gets only outside it, so such rows have no actor. A job that fails by
  stalling gets no dead letter; a dead letter is added outside the job's context and loses its
  trace. `bull-job-context.util.ts:4`, `:16` name fields that the producer does not send.
- *Audit columns.* `audit-fields.subscriber.ts:18-19`, `:112` say that `update(criteria)` passes no entity
  and stamps nothing. TypeORM 0.3 (`package.json:90`) passes the values being set as the entity, of
  `increment` too: in a request with a user such an update of an audited table sets updatedBy.
  The library is not part of the repository; `Context` models it so (`UpdatesByCriteria`).
- *Masking.* `operation-log.interceptor.ts:207` lists `code` among the masked keys; the list
  does not. `maskEmail` of a masked short address differs from it. Strings directly in lists are
  not scanned, lists in lists come out as objects.
- *Answers.* `error-codes.ts:9` gives every code a translation; 27 of 136 have none. For errors other
  than business ones, the code that is audited differs from the one in the answer. An
  HttpException with an object for a message and no errorCode is answered `SYS_UNKNOWN`.

## 8. What is not modelled

- *Below a statement.* A transaction and a Lua script are one step; isolation is the
  database's. Clocks of different processes agree to within `staleMinutes`.
- *Of modelled components:* of tasks the stages, their logs, the dispatcher's scan limit and a
  `scheduledAt` in the future; of login the keys for the counting window and the lock's length; of the seeds
  the second pass over the parents of menus (`seed-permissions.ts:292-301`); of authentication
  cookies, CSRF and the arithmetic of signatures; of profiles the nickname and avatar; of SSO the
  checks of return URLs. `PROJECT.json` says so at each component.
- *Reads that are merged:* the three of a permission check up to the roles (`CheckReadsRoles`) and the three of
  an `unlink` (`UnlinkReads`) are one step each; the comment at each says what that leaves out. A seeded row's
  bindings go by steps of their own (`RowRemoved`).
- *Unreachable code.* `TaskRetryService` is the only producer of the job it consumes, and
  `async.util`'s retry has no caller. `withLock` has none either, but is a primitive others would
  build upon, and is modelled.
- *Components that keep no state a later step reads:* the processors of user and SSO events and
  the system maintenance schedule only log; health checks ask and answer; `libs/core`'s configuration,
  database and i18n modules set up libraries.
- *No behaviour of the running system:* migrations, scripts, tools, deployment, the wording and
  translation of messages, DTO validation.

## 9. Plan

Most consequential first, of what is left:

1. `TaskRetention` behind the queue and with two-step saves, which it leaves out so far (`~SplitSave`),
   so that `DeliveryExclusive` and `DeliveryAttemptBound` hold of rows that may be deleted.
2. A further step of `SessionLedger` for an `update` that writes an old `pv` back, which names what
   it gives up, so that `LedgerImplemented` needs no `UpdatesApart`.
3. A refinement of `Sso` to atomic registration that names what a cut-short one leaves behind.
4. Tasks: the dispatcher's scan limit with more tasks than the limit; stages and logs; `scheduledAt`.

## 10. Running it

```
tlc -workers 2 -config TaskDelivery_once.cfg MCTaskDelivery        # also _busy, _retained
tlc -workers 2 -config TaskRetention.cfg MCTaskRetention
tlc -workers 2 -config Sessions_overlap.cfg MCSessions             # also _serial, _reuse_race
tlc -workers 2 -config Sso.cfg MCSso
tlc -workers 2 -config Login.cfg MCLogin
tlc -workers 2 -config Platform.cfg MCPlatform
tlc -workers 2 -config AccessControl_last.cfg MCAccessControl
tlc -workers 2 -config RequestPipeline.cfg RequestPipeline
tlapm TaskEngineProofs.tla     # and TaskDeliveryProofs, TaskRetentionProofs, SessionsProofs, LoginProofs,
                               # SsoProofs, PlatformProofs, RequestPipelineProofs
```

On two cores `login` takes about three minutes, `task_delivery_once` and `task_retention` one to
two, the other runs less. Each of the eight proof modules takes a minute or a few.
