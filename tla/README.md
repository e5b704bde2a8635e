# LTP platform: specifications and proofs

TLA+ modules of the LTP platform (an AI training platform on Kubernetes, grown out of OpenPAI),
model-checked with TLC and, in part, proved with TLAPS. Paths below are relative to the
repository.

The project follows a job: the request a user makes is stored in a database, synchronized to the
Kubernetes API server together with the secrets and the priority class it needs, run by a
controller as attempts made of a ConfigMap and pods, reported back, notified and removed. Around
it are the sessions, users and groups of rest-server, the alerts that take nodes out of service, and the
scheduler that shares the nodes between virtual clusters.
This is where the platform keeps state, where its processes run concurrently and fail
independently, and where a mistake loses or repeats something a user relies on.

| module | models | checked | proved |
|---|---|---|---|
| `DatabaseController` | write merger, poller, framework watcher, job requests of rest-server | `db_*` | types, 3 safety properties, refinement |
| `RequestSync` | what the database controller promises about one request (abstract) | through `KeepsPromise` | implemented by `DatabaseController` |
| `FrameworkController` | sync loop of the framework controller, its caches, the objects of one framework | `fc_*` | types, all six invariants of its run and `CompletedAttemptIsAccountedFor`, `MonotonicallyExposed`, refinement |
| `AttemptLifecycle` | what the framework controller promises about the attempts of a framework and their objects (abstract) | through `KeepsLifecycle` | implemented by `FrameworkController` |
| `JobAddOns` | secrets and priority class of a job, their owner, the watchdog's garbage collector | `job_addons` | types, `AddOnsComplete` |
| `UserAccounts` | users and groups of rest-server, their secrets and caches, start-up | through `RestServerSessions` | with `RestServerSessions` |
| `Tokens` | tokens of a user, their secret and cache | through `RestServerSessions` | with `RestServerSessions` |
| `RestServerSessions` | both of these in one process (composition) | `rs_*` | types, `CacheAgreesWithSecrets`, `NoDanglingReference` (without OIDC), `RestartRepairs`, `RevocationIsFinal`, `TokensKept` |
| `JobNotification` | job-status-change-notification of alert-manager | through `AlertHandling` | with `AlertHandling` |
| `AlertHandler` | webhooks of alert-manager's alert-handler, the nodes they act on | through `AlertHandling` | with `AlertHandling` |
| `AlertHandling` | both of these with the Alertmanager between them (composition) | `alerts` | types, all five invariants and `RebootTellsPods` |
| `CellAllocation` | cells of hivedscheduler: free lists, buddy split and merge, bindings, doomed bad cells | through `AffinityGroups` | |
| `AffinityGroups` | its affinity groups: placement, preemption, node failures, restarts | `cells*` | |
| `MC…` | values of the constants for TLC, one module for each that is run | | |
| `DatabaseController_proofs`, `FrameworkController_proofs`, `FrameworkLifecycle_proofs`, `JobAddOns_proofs`, `UserAccounts_proofs`, `UserGroups_proofs`, `RestServerSessions_proofs`, `AlertHandling_proofs` | the theorems and their proofs | | |

To check: `tlc -config DbRequests.cfg MCDatabaseController.tla`; each `Db*.cfg` belongs to
`MCDatabaseController`, each `Fc*.cfg` to `MCFrameworkController`, each `Rs*.cfg` to `MCRestServer`,
`JobAddOns.cfg` to `MCJobAddOns`, `Alerts.cfg` to `MCAlertHandling`, each `Cells*.cfg` to
`MCAffinityGroups`. To prove:
`tlapm M.tla` for each module `M` whose name ends in `_proofs`.
`PROJECT.json` lists every
component with its files, every hazard found while reading, at its line, with the properties that
cover it, and for every definition the lines it stands for.

# 1. Inventory

## 1.1 How the parts interact

    user ──> rest-server ──PUT/PATCH──> write merger ──> database (table Framework)
                                          │   ▲               │
                             short cut    │   │ events        │ every interval
                       (not awaited)      ▼   │ (HTTP)        ▼
      framework controller <──────── API server  <────────  poller ──mocked events──> write merger
             │                         │   ▲
             ▼                         ▼   │
     ConfigMap, pods            framework watcher, cluster-event watcher
             │
      hivedscheduler, kubelets, garbage collector

Beside this path: the watchdog removes what jobs leave behind; job-status-change-notification
polls the same table; and the node services (alert parser, issue classifier, recycler,
cluster-local-storage) pass every node through a shared table of states.

## 1.2 Database controller (`src/database-controller`)

- **Write merger** (`write-merger/handler.js`). State: the record of a framework: its snapshot
  (request with a generation annotation, and status), `subState`, `requestSynced`,
  `apiServerDeleted`, the add-on definitions. Operations: PUT and PATCH of a request, each followed
  by an un-awaited *short cut* that patches or creates the framework in the API server at once;
  POST of a watched event; after a deletion was recorded, an un-awaited clean-up. One lock per name
  serializes the handlers, not the short cuts.
- **Poller** (`poller/index.js`). State: per name one running task and at most one waiting
  (`maxPending = 1`), a queue with bounded concurrency. Every interval it selects records that are
  not synced or are completed and not deleted; it synchronizes the former, deletes the latter, and
  mocks an event when the API server refuses a request for good or no longer has the framework.
- **Framework watcher** (`watcher/framework/index.js`). Posts informer events in order per name,
  retrying for ever; exits on an informer error, losing what it holds; a new process lists what exists.
- **Cluster-event watcher, initializer, database model, add-ons**: see 1.4.
- *Hard*: events that are lost, repeated, late or mocked against requests that change meanwhile;
  the short cut racing the poller; process exits. *Correct* means: no event takes back a user's
  request; "synced" is only claimed for what the API server got; every accepted job is run and
  closed; a record never blocks the polling of others.

## 1.3 Framework controller (`src/frameworkcontroller`)

- State: none but caches. Everything lives in the API server: the `Framework` (spec and status),
  the ConfigMap that stands for the running attempt, one pod per task attempt. In memory: informer
  caches, a delaying work queue, and the *expected status* of each framework, which survives a
  failed status update.
- Operations: `syncFramework`, one call for every event, timer or retry of a key: attempt and task
  state machines (12 and 10 states), creation and deletion of the objects with confirmation,
  creation timeouts, completion policies, retry decisions with delays, and one status update at
  the end.
- *Hard*: caches that lag behind, calls whose effect is unknown, objects with the same names in
  successive attempts, deletions by others, restarts between any two calls. *Correct* means the
  guarantees of `doc/user-manual.md` (consistency guarantees 1 to 4) and of `types.go` (the status
  is monotonically exposed), and that every framework completes and leaves nothing behind.

## 1.4 Add-ons and the watchdog's collector (`common/framework.js`, `watchdog/garbage_collector.go`)

- State: up to three secrets and a priority class of a job, in the API server; the owner of each.
- Operations: create them one after the other before the framework, which fails on the first that
  fails; then make the framework the owner of the secrets, un-awaited; the watchdog lists frameworks,
  priority classes and secrets and deletes what has no framework.
- *Hard*: the three lists are taken one after the other while jobs come and go; an existing object
  (409) is accepted whoever owns it. *Correct* means: a framework that is there has its add-ons, and
  what a job left behind is collected.

## 1.5 Users, groups and tokens of rest-server (`controllers/v2/{user,group,token}.js`, `models`, `utils/manager`)

- State: one Kubernetes secret per user, per group and per user's tokens; a cache of the process in
  front of each, with a mutex per entry; cached users and groups are shared JavaScript objects.
- Operations: CRUD of users and groups, sign-in by password or OIDC, issue, verify, list and revoke
  tokens, the start-up that creates the administrator and the groups of the virtual clusters.
- *Hard*: handlers that interleave at every await, over objects they share and change in place; writes
  whose answer is lost; a PUT nobody awaits; start-up while requests are served. *Correct* means:
  caches and secrets agree, a user's groups exist, nobody loses a password or a valid token, and
  what was revoked stays revoked.

## 1.6 Notifications and alerts (`alert-manager`)

- State: the notified flags in the table of frameworks; the alerts of the Alertmanager; of the nodes,
  whether they are schedulable, their pods and reboot pods.
- Operations: a polling round that posts alerts, reads the logs of validation jobs and saves the
  flags; webhooks that cordon, uncordon, drain, reboot nodes or mail somebody.
- *Hard*: posts before saves, rows that are reset while a round runs, requests that work on several
  nodes at once, are repeated and go on after a failed answer, pods that are on their way to a node
  or still ending there while it is drained. *Correct* means: everything is told, once if nothing
  fails; failed nodes leave service; what runs on a node is told to go before the node is rebooted.

## 1.7 Cells and affinity groups (`hivedscheduler`)

- State: a tree of physical cells (leaf, node, rack …) with a free list per level, the quota of each
  virtual cluster (VC) as virtual cells, the bindings between the two, counters per level, lists of
  bad cells, and the affinity groups (gangs) with their placements. It lives in memory; after a
  restart it is rebuilt from the nodes and from annotations of the bound pods.
- Operations: filter and preempt for a waiting pod, handlers of added, changed and deleted nodes and
  pods. All of them run under one lock.
- *Hard*: the order of these calls. Cells are split, bound, merged and unbound by each of them;
  preemptions are started, overtaken, cancelled and completed; groups are moved out of their VC and
  back; bad cells are bound to VCs in advance ("doomed") so that users see that their quota is
  gone. *Correct* means: a VC can always get its cells, the books agree with each other, a running
  pod keeps its cell.

## 1.8 The other components

| component | state | operations | hard part | properties that make it correct |
|---|---|---|---|---|
| rest-server: jobs (`controllers/v2/job.js`) | none (database) | submission, list, get, start and stop, tags | check, several awaits, then act | one submission per name; only owners change a job |
| cluster-event watcher | table FrameworkEvent | upsert per event, exit on a full disk | the write is neither awaited nor retried | the last event of a uid is the one stored |
| node life cycle (`alert-parser`, `node-issue-classifier`, `node-recycler`, `cluster-local-storage`, tables of `kusto-sdk`, `postgresql-sdk`) | status and action records of nodes | 16 states with a transition table, updated by four services | check-then-insert by several writers, records with past time stamps, cordon state in Kubernetes against the table | consecutive records are allowed transitions; a schedulable node is available; no node is stuck |
| node failure detection | Redis stream, rules | ingest, evaluate, alert | acknowledgement and repetition | no event is evaluated zero times |
| model-proxy, openpai-runtime, job-exporter, copilot-chat, webportal, exports, mail scripts | none, or that of one request | | | |
| images, deployment, third-party services, paictl, contrib | configuration | | | |

# 2. Plan

In this order, the most important behaviour first. Done:

1. `RequestSync`, `DatabaseController`, `DatabaseController_proofs`.
2. `FrameworkController` for a fixed set of tasks, `FrameworkController_proofs`; `AttemptLifecycle`, which
   it implements, `FrameworkLifecycle_proofs`.
3. `JobAddOns`, `JobAddOns_proofs`.
4. `UserAccounts`, `Tokens` and their composition `RestServerSessions`, `UserAccounts_proofs`,
   `UserGroups_proofs`, `RestServerSessions_proofs`.
5. `JobNotification`, `AlertHandler`, their composition `AlertHandling`, `AlertHandling_proofs`.
6. `CellAllocation`, `AffinityGroups`.

What would come next:

7. Rescale of frameworks, deletion of the Framework object and `PodUnknown`, in `FrameworkController`.
8. `PollLoop`: several names in one round, the lock with `maxPending = 1`, the bounded queue, the
   record that makes a round throw. `EventWatcher`: one process against its table.
9. `NodeLifecycle`: transition table, the two back ends, alert parser, classifier, recycler and
   cluster-local-storage as processes, cordoning in Kubernetes (as `AlertHandler` has it).
10. `JobPath`: composition of `RequestSync` (what the API server gets) with `AttemptLifecycle` (what
    runs), for the end-to-end statement that a job runs at most one attempt at a time and ends.

# 3. DatabaseController

## 3.1 State and actions against the code

One framework name: all locks and where-clauses of the code are by name. `row` is the record,
`api` the object in the API server, `watch` the events the watcher holds, `syncs` and `deletes`
the write merger's un-awaited calls, `running`/`pending`/`mocks` the poller's tasks and mocked
failures, `submit` the submissions under way in rest-server. `reached` and `launched` are history
variables: they are never read by an action's guard and only say what the API server has held and
whether a pod ever ran.

| code | action |
|---|---|
| `handler.js` putFrameworkRequest, patchFrameworkRequest | `PutFrameworkRequest`, `PatchFrameworkRequest` (with `PutFails`) |
| `handler.js` postWatchEvents, merging the event into the record | `PostWatchEvents` in `DeliverEvent`, `DeliverEventAgain`, `PostMockedFailure`, `PostMockedDelete` |
| silent synchronization and deletion of the write merger | `SilentPatch`, `SilentCreate`, `SilentSyncFails`, `SilentDelete` |
| `poll` and the tasks of `synchronizeHandler`, `deleteHandler` | `Poll`, `PollerPatch`, `PollerCreate`, `PollerRejected`, `PollerDelete`, `PostMockedDelete`, `PollerTaskFails`, `RestartPoller` |
| informer, queue and exit of the watcher | `DeliverEvent`, `DeliverEventAgain`, `RestartWatcher` |
| `controllers/v2/job.js` duplicate check, later PUT | `CheckDuplicate`, `PutFrameworkRequest` |
| framework controller (summarized) | `LaunchAttempt`, `RetryAttempt`, `CompleteFramework` |
| others in the API server | `DeleteDirectly`, `CreateDirectly` |

Abstractions, each on the safe side of the code:

- `synchronizeRequest` is two calls, PATCH then, on 404, POST; each is an action, so anything may
  happen between them. A merge patch replaces the request.
- A failed call is one whose effect happened or not, followed by an error: the effect is the action
  of the call, the error a separate action that ends the task.
- Handlers run under the lock of the name, so reading and writing the record is one step.
- A framework is removed from the API server in one step: the propagation policy of the deletion is
  passed as a header (`common/k8s.js`), which the API server does not read, so it is a background
  deletion. The relisting of a watcher that keeps running reports deletions; only an exit loses them.
- A PUT whose answer is lost counts as accepted. Add-ons are those of `JobAddOns`; here it
  only matters whether their definitions are still in the record (`defs`), since the poller parses
  them.

## 3.2 Runs

Bounds: one or two submissions of different bodies; `Budgets` is the set of environments a run
explores, each with the submissions that are made, at most one PATCH, one retry of a framework, one
direct deletion and one restart of the watcher; which requests the API server refuses for good is a
constant. The hazards are races of one late message with one newer request, so two generations, each
with its event and its task, are what is needed; nothing counts further than to distinguish old from
new. Both `Db` runs allow deadlock: with the budget spent and the job closed the system rightly
stops.

| run | question | result |
|---|---|---|
| `db_requests` | in retain mode: are the numbering of requests, the requests of users and the promise of `RequestSync` preserved over a refused stop with a retry, over a stop with a direct deletion and lost events, and over two submissions that race, of which one is refused? | pass |
| `db_liveness` | is every job run, completed, deleted and closed in the end, when it is stopped or restarted, or when its framework is retried and deleted directly? | pass |

Disagreements with comments that can be read off the actions are in section 10.

## 3.3 Fairness

`WF(DeliverEvent)`: the watcher retries each event for ever (`alwaysRetryDecorator`). `WF(Poll)`:
`interval(poll, …, {stopOnError: false})`. `SF` on the poller's calls: an error of the API server
or of the write merger is transient, so a call that is repeated in every round succeeds at some
time. `WF(LaunchAttempt)`, `WF(CompleteFramework)`: the framework controller's own liveness, which
`FrameworkController` checks. Nothing is assumed of users, restarts, direct deletions or short cuts:
`EveryJobSettles` holds even if every short cut fails.

## 3.4 Proofs

`DatabaseController_proofs`, for every set of submitters and bodies, every set of refusable
requests, both modes and every bound, from `ConstantsAssumption` alone:

| theorem | statement |
|---|---|
| `TypeCorrect` | `Spec => []TypeOK` |
| `GenerationsAreNames` | in every copy of a request in flight, an equal generation is an equal request, and none is newer than the record |
| `SyncedMeansReached` | a record of a live job is marked synced only if the API server has held exactly its request |
| `NeverRolledBack` | a record keeps its request or moves to the next generation |
| `ImplementsRequestSync` | `DatabaseController` implements `RequestSync` under the mapping `Wanted`, `Held`, `Acked` |

None of the properties is inductive alone: that an event cannot mark a newer request as synced
depends on where its copy of the request came from. `IInv` adds that without a record nothing works
for the name (`NoRecordNoWork`), that a framework created by others excludes submissions
(`ForeignIsRefused`), that what is in the API server or on its way from it was accepted there
(`SeenWasReached`), and that every copy ever handed out is numbered consistently
(`CopiesAreNumbered`, over the history variable `reached` as well: an event may report a request
that is no longer anywhere else). It contains the invariants of `db_requests`. The proof goes handler
by handler (`ApiCallKeeps`, `EventKeeps`, `ModifyKeeps`, …), then process by process, and
`Inductive` combines them. The refinement is shown step by step: an event step acknowledges,
withdraws or stutters (`EventIsRowStep`), a call to the API server reaches (`ApiCallIsRowStep`), a
request submits or changes (`ModifyIsRowStep`).

Only model-checked: `EveryJobSettles` (liveness is outside the prover's reach). It is claimed for one
submission only. When two submissions race and the first is refused for good, TLC finds a job that
stays open: the second PUT leaves the column subState at `Completed` (it was set by
the mocked failure), so the poller deletes, finds no object (404) and posts a mocked deletion; if that post is
delayed until the second framework has been created, run, completed and reported, the record goes
back to `AttemptCreationPending`, the poller patches the same content in every round, and the API
server has nothing to report until the watcher restarts.

# 4. FrameworkController

## 4.1 State and actions against the code

One framework with one task role and a fixed set of tasks: keys of the work queue are independent,
and one worker handles a key at a time. `remote`, `exec`, `cm`, `pods` are in the API server;
`fCache`, `fNews`, `cmCache`, `podCache` are the informers' view; `queued` and `timer` the work
queue; `expected` the expected status; `worker` the sync in progress with the status it has
computed so far. A sync of the code is one function that calls the API server several times; here
it is a sequence of steps that end at those calls, so that the world can change between them:

| code (`controller.go`) | action |
|---|---|
| `syncFramework`: read caches, recover the expected status | `BeginSync`, `PushExpectedStatus` |
| `syncFrameworkState`, `getOrCleanupConfigMap`, `deleteConfigMap`, `createConfigMap` | the disjuncts of `SyncFramework` |
| `syncTaskState`, `getOrCleanupPod`, `handlePodGracefulDeletion`, `createPod` | the disjuncts of `SyncTask`, one task after the other |
| completion policies | `TriggeredCodes` over all tasks, `TriggeredCodesBy` for the task just completed |
| `ShouldRetry` | `RetryDecision` |
| `updateRemoteFrameworkStatus` | `UpdateStatus` (`UpdateSucceeds`, `UpdateFails`) |
| informer handlers, `AddAfter` | `SeeFramework`, `SeeConfigMap`, `SeePod`, `FireTimer` |
| exit of the process | `Restart` |
| kubelet, garbage collector, users (external) | `StartPod`, `EndPod`, `RemovePod`, `CollectPod`, `RemoveConfigMap`, `SetExecution`, `DeletePodByOthers`, `DeleteConfigMapByOthers` |

What the deployed configuration settles is not left open: the stateful set has one replica;
`frameworkCompletedRetainSec` is so large that retention never fires; the compression of large
frameworks does not change the status; the delay of task retries is 0; rest-server makes jobs with
the retry policies `GangJob` and `OtherJob` of the MC module, and with `minFailed = 1`, `minSucceeded`
= all tasks. The pod's graceful deletion timeout is a constant of both values.

Abstractions:

- A failed call had its effect or not. A status update succeeds only if the cache holds the latest
  object (resource version); a change of the spec not yet seen (`fNews`) makes it conflict.
- `deleteConfigMap(confirm)` of a ConfigMap that exists fails its confirmation, since the finalizer
  of foreground deletion keeps the object; a deletion that ends between the two calls is found by
  the next sync.
- The time stamps of completions are abstracted: when several tasks could have triggered the
  completion of the attempt, any of them may.
- A creation timeout of an object that is not there is always possible (time passes); one of an
  object that is there, and whose event is just late, is bounded by `timeouts`.
- A restart relists atomically, and calls of a dead process are not applied later.
- Not modelled: rescale, ExecutionCreate, deletion of the Framework object, PodUnknown.

## 4.2 Runs

The `bounds` of a framework give, by name, how many failed calls, failing pods, late timeouts,
restarts, stops, and deletions by others a behaviour may see. One of each kind at a time is enough
for the hazards, which are one stale view, one unknown outcome or one lost decision against one
following attempt; two tasks are enough for a task to fail while another is created, runs or is
torn down. Retries are bounded by the policy or, where a fancy policy retries without a limit, by the
failures that cause them.

| run | frameworks | properties | result |
|---|---|---|---|
| `fc_safety` | one task that may fail and is retried, with two of: a failing pod, a failed call, a restart of the controller; one task with a stop and a late creation timeout or a pod deleted by others; two tasks of a gang job, of which one is rejected or fails; one task that fails twice where one retry is allowed | `TypeOK`, `NoInstanceOfCompletedAttempt`, `NoPodOfCompletedTask`, `OneInstanceAtATime`, `SucceededMeansAllSucceeded`, `RetriesWithinPolicy`, `MonotonicallyExposed`, `KeepsLifecycle` | pass |
| `fc_liveness` | one task; a failure and a failed call, a ConfigMap deleted by others, or a change of the execution type by users | `EveryFrameworkCompletes`, `NothingIsLeaked` | pass |
| `fc_configmap_deleted` | one task; a ConfigMap deleted by others | `NothingRunsAfterCompletion` | violated |

`NoInstanceOfCompletedAttempt`, `NoPodOfCompletedTask`, `OneInstanceAtATime` are guarantees 2 to 4 of
the manual, checked and proved as long as nobody else deletes the ConfigMap. The manual asks for less:
such a deletion only has to be in foreground, which the default deletion of this ConfigMap is
(`frameworkcontroller/src/doc/user-manual.md:910`). `fc_configmap_deleted` shows that this is not enough. A sync
starts with the ConfigMap in its cache; others delete it and it goes, nothing belonging to it; the sync
creates a pod for it (`createPod` asks the API server for no owner that exists); the cache follows, and
the attempt is completed by force as deleted by others, while the pod runs until the garbage collector
finds that its owner is gone. `fc_liveness` shows that it does, and that nothing stays.

One behaviour to know when reading
the model: after a stop or a creation timeout that comes before the ConfigMap is in the cache,
`deleteConfigMap(confirm)` marks the ConfigMap but cannot confirm, and the sync that sees it deleting
(`ConfigMapDeleting`) completes the attempt as deleted by others, which is then retried (the stop is
applied again in the next attempt).

`KeepsLifecycle` says that every step of the controller, seen through `FullView` (number, count, phase and
code of the attempt and of the attempts of its tasks) and the owners of the objects, is a step of
`AttemptLifecycle` or invisible there. That module has no cache, sync, write or lost answer: it
says which status may follow which, and which objects may be there meanwhile. A status may run through
several states between two writes, so an attempt may be seen to go from open to over at once; but the
next attempt is never seen before the last one was seen to be over with nothing left, and no object is
created for an attempt that is not seen as open. The disjunct `Unseen` of its `Next` adds nothing to
`[Next]_vars`: it has TLC recognise the invisible steps first. That a persisted attempt that is completed
says how, and all its tasks do (`CompletedAttemptIsAccountedFor`), follows from the phases of
`AttemptLifecycle` and is proved on its own (4.4).

All these runs allow deadlock: a completed framework rests.

## 4.3 Fairness

The informer's update of the Framework wakes the controller only when the spec changed
(`controller.go:286-289`), so after its own status updates it goes on only by its timers, the events of
the ConfigMap and the pods, and the retries of failed syncs; that this is enough is what `fc_liveness`
checks.

Weak fairness of the worker, the informers, the timers, the kubelet and the garbage collector: each
is a loop that does not depend on the others. Strong fairness of `GiveUpOnConfigMap`, `GiveUpOnPod`
and `RetryFramework`: they are enabled by the passing of time, which happens however often the sync
looks too early. Failed calls and failures are finite (`bounds`), restarts and orders are not
needed to happen.

## 4.4 Proofs

`FrameworkController_proofs` assumes of the constants only what `ControllerConstants` says (a framework
has finitely many tasks, at least one) and proves for all frameworks, policies and bounds:

| theorem | property |
|---|---|
| `TypeSafety` | `TypeOK` |
| `CompletedAttemptsAreAccountedFor` | `CompletedAttemptIsAccountedFor` |
| `SuccessIsOfAllTasks` | `SucceededMeansAllSucceeded` |
| `StatusIsMonotonicallyExposed` | `MonotonicallyExposed` |
| `CompletedAttemptsAreGone` | `NoInstanceOfCompletedAttempt`, as long as `Untouched` |
| `CompletedTasksAreGone` | `NoPodOfCompletedTask`, as long as `Untouched` |
| `InstancesComeOneByOne` | `OneInstanceAtATime`, as long as `Untouched` |
| `RetriesStayWithinPolicy` (`FrameworkLifecycle_proofs`) | `RetriesWithinPolicy` |
| `ImplementsAttemptLifecycle` (`FrameworkLifecycle_proofs`) | `KeepsLifecycle`, if always `Untouched` |

`Untouched` says that nobody else has deleted a ConfigMap so far; after such a deletion the three invariants
that need it do not hold (4.2), and so neither does the refinement.

None of the properties is inductive: each speaks of the persisted status, and the next persisted
status comes from the worker's copy, decided on caches that are behind. Three invariants close the gap.

`StatusInv` is about the statuses alone. Of all that are held (`Held`: the persisted one, the expected
one and the worker's) it says that each is `Sound` (an attempt not yet created has no instance, one
that ended has a code, and so have all its tasks, and with the platform's policy success means success
of all tasks), that the expected status is the persisted one or comes after it (`ExpectedFits`: this is
what `PushExpectedStatus` after a failed write is for), and that the worker's comes after the expected
one (`WorkerFits`: while it goes through the tasks, those still to be done are as they were
persisted). One part needs the objects: a running task was seen running, in a pod whose phase does not
go back to pending even if the cache does (`RunningWasSeen`, `CacheFollows`), for otherwise its state would go back
from running to preparing. `TaskMoves` and the lemmas before it show for each action that what is
decided comes after what was there; `WritesExpose` that only what was decided is written.

`InstanceInv` ties the statuses to the objects by UID. Of every held status it says what may be in the
API server (`Fits`): after its creation was requested the ConfigMap is the one of the status or gone; an attempt that
was seen in the cache is still there or the cache has it, so that *not in the cache* means gone; a
completed attempt has none; an attempt that goes on counts on a ConfigMap that nobody deletes, so
that no pod is created under one that goes (`CountsOnConfigMap`); and the same for the pod of each task. With
`PodsOwned`, every pod belongs to the ConfigMap that is there (foreground deletion), *no ConfigMap*
means *no pod*. `CleanedIsGone` says when the worker may take an object for gone after it deleted
another one under its name. `GoneIsGone` is the heart: where the code completes an attempt because it
does not see the ConfigMap, it is not there.

`MoveInv` (`FrameworkLifecycle_proofs`) says how far the statuses that are held are apart: the expected
status is at most one move of `AttemptLifecycle` ahead of the persisted one, and so is the status
that a sync is about to write (`Written`). `StatusInv` orders them but lets whole attempts lie between
them, and then a retry could be counted once for two. While a sync goes through the tasks, those it has
done have made one move each and those left have made none, but that the attempt may have ended
under them (`Going`, `Coded`); and a retry that waits for its delay is still what the policy decides
(`Due`, without which `RetryFramework` might make one that the policy denies). `SyncFrameworkMoves` and
`SyncTaskGoes` show for each action of the sync that it is one move, `StepMoves` that only such a
move is ever persisted. `RetriesWithinPolicy` follows from the moves alone, whoever deletes what
(`MovesAreAllowed`: a counted retry is made only below the maximum).

For the refinement, each step is mapped: writes are moves of the status, and that nothing is left of
an attempt or a task that the new status shows as over is what `InstanceInv` says of that status
(`WriteIsLife`); a ConfigMap is created for the attempt that is persisted as pending (`CreateIsLife`), a pod only
by a sync whose status is not completing, and the persisted one is not later (`NewPodIsLife`); a ConfigMap goes
after its pods (`RemoveIsLife`); what informers, timers, users and restarts do is invisible
(`SurroundingsAreLife`).

Only model-checked: `EveryFrameworkCompletes`, `NothingIsLeaked` (liveness is outside the prover's reach).

# 5. JobAddOns

## 5.1 State and actions against the code

One job with any sequence `given` of add-ons. `row` is what the database says of its framework, `fw`
the framework in the API server with its uid, `addon` each add-on with its owner, `client` the
synchronizations under way, `patches` the un-awaited changes of owners, `watchdog` the round of the
collector with what its lists found.

| code | action |
|---|---|
| `common/framework.js` synchronizeModify, AddOns.create, synchronizeCreate | `PatchFramework`, `CreateAddOn` (one per step, 409 accepted), `CreateFramework`, `RefuseFramework` |
| patchSecretOwnerToFramework, not awaited | `ChangeOwner` |
| write merger's short cut, poller (who starts a synchronization, and when) | `Submit`, `ChangeRequest`, `PollUnsynced`, `DeleteFramework`, `Observe`, `Restart` |
| `garbage_collector.go` listing and removing orphans | `ListFrameworks`, `ListPriorityClasses`, `ListSecrets`, `RemoveOrphan`, `EndRound` |
| framework controller, other users, Kubernetes' collector (external) | `Complete`, `DeletedByOthers`, `KubernetesCollects` |

A call that fails had its effect or not. `raced` is a history variable: the add-ons deleted by who
decided so for an earlier framework, or for none, while this one was being created; such a deletion
cannot be told from a right one by anybody, and the code accepts it. It is a hazard without a
property (the pods of the job fail).

## 5.2 Run, fairness, proof

`job_addons`: three jobs that between them use every add-on, each with two disturbances of: a failed
call, a request that is refused for good, a restart, a change of the request, a direct deletion. Two
synchronizations at a time (the write merger's and the poller's) are what the locks of the code
allow for one state of the request. `AddOnsComplete`: a framework is never there without its add-ons.
`AddOnsCollected`: when the job is gone for good, so are they, but for user credentials that never
got an owner, a name the collector does not look for. Weak fairness of the synchronizations, the
polling, the changes of owners, the collector's rounds and Kubernetes' collector: each is a loop or
is under way; failures are bounded.

`JobAddOns_proofs` proves for every job, any number of synchronizations at a time and any budgets,
from `AddOnsAssumption`:

| theorem | statement |
|---|---|
| `TypeCorrect` | `Spec => []TypeOK`: in particular only secrets of the job ever have an owner, and it is a framework that was there |
| `FrameworkHasItsAddOns` | `Spec => []AddOnsComplete` |

The inductive invariant is `TypeOK /\ IInv`. `AddOnsComplete` alone is lost when a framework is created
by a client whose earlier add-ons were deleted meanwhile, or when a round of the collector that
found no framework goes on after one was created; `CreatedInOrder` says that a client has created the
add-ons before its present one, and `RoundIsOlder` that a round knows of no framework as old as the
present one. `AddOnsCollected` is only model-checked.

# 6. RestServerSessions: UserAccounts and Tokens

## 6.1 State and actions against the code

`userSecret`, `groupSecret`, `tokenSecret` are the secrets; `userCache` maps a user to the shared object
(`objects`) the process caches, `userList`, `groupCache`, `groupList`, `tokenCache` are the other entries of
the cache; `call` and `task` say where each request is, `request` which one it serves. A handler is
cut at the calls of the API server and at the awaits between which another handler can run.

| code | definitions |
|---|---|
| `controllers/v2/user.js`: get, create, update (two forms), delete, email, password, virtual clusters, groups, admin | `GetUser`, `Created`/`CreateUser`, `UpdateEmail`/`UpdateVCs`/`UpdateRest`, `UpdateSelf`, `DeleteUser`, `SetEmail`, `SetPassword`, `SetVCs`, `SetGroups`/`AddGroup`/`RemoveGroup`, `SetAdmin`, with `CheckGroup`, `CheckVCs`, `CheckAdmin` before them |
| `utils/manager/user/crudK8sSecret.js`: read with its cache, PUT then invalidation | `ReadUser`, `PutUser`, `DropUser` |
| `controllers/v2/group.js`, `models/v2/group.js` | `ReadForUpdate`, `ChangeGroup`, `DropGroup`, `RemoveMembers` |
| groupAndUserDataInit at start-up | `InitGrouplistInCfg`, `DeleteNonexistVCs`, `CreateDefaultAdminUser`, `CreateVCGroups`, `PurgeGroups` and what follows them |
| `controllers/v2/token.js`, authn | `SignIn`, `Login` |
| `models/token.js`: create, verify, list, revoke, batchRevoke, purge | `Create…`, `Verify…`, `Fetch`, `Store`, `ListTokens`, `Revoke…`, `DeleteAll`, `Clean` |
| `models/token.js` replace, not awaited; its rejection ends the process | `PutLands`, `PutRejected` |
| the process ends and starts again | `Restart` with `ProcessEnds` (`ProcessRestarts`) |

`RestServerSessions` composes the two: a password change goes on to revoke the browser tokens of the
user, a sign-in to create one, and an end of the process loses both caches and all calls. Passwords
are texts or hashes of texts: that a hash is hashed again, or an empty one stored, can be seen. Left
out: `history_vclist`, storage ACLs, tokens of jobs (not stored), reads that fail.

## 6.2 Runs

Three concurrent requests, 24 scripts in `MCRestServer` that bring together requests on the same user,
group or token; three users, four groups, two tokens; at most one failed or unanswered write and
one restart. Three calls are what it takes for one request to change what a second shares with a
third. Deadlock is allowed: a script ends.

| run | question | result |
|---|---|---|
| `rs_sessions` | do caches agree with the secrets when all is quiet (`CacheAgreesWithSecrets`), are there no references to groups that are gone (`NoDanglingReference`), does a start-up repair what an interrupted deletion left (`RestartRepairs`), is what was revoked gone for good (`RevocationIsFinal`), is no token lost (`TokensKept`)? | pass |
| `rs_password` | a stored password only changes when a request sets one | violated |
| `rs_token_lost` | only invalid tokens are purged | violated |

What the passing properties exempt is what the code does not promise: an entry whose write failed, a
group that is deleted while another request runs, requests served during start-up, tokens cached
alone after a restart (`partial`; the violation `rs_token_lost` is about these). `rs_password`: `getUser`
deletes the password from the object it shares with the cache, and the next update saves it so. No
fairness is stated: no property is a liveness property.

## 6.3 Proofs

`UserAccounts_proofs` and `UserGroups_proofs` hold the lemmas about users and groups (caches and
references), `RestServerSessions_proofs` those about tokens and the theorems about both, for every set of users, groups, calls and tokens, all scripts and
any budgets, from these assumptions: `AccountsAssumption` (finite sets, enough references for every
cached user and every call to hold one), `RequestsAssumption` (what the schemas of the routes let
through) and `TokensAssumption` (no two requests sign the same token; a token carries the second it was
signed in, so that two sign-ins of a user within one second are left out).

| theorem | statement |
|---|---|
| `TokensAreTyped`, `TypesAreKept` | `Spec => []AllTypesOK` |
| `RevocationsAreFinal` | `Spec => []RevocationIsFinal` |
| `TokensAreKept` | `Spec => []TokensKept` |
| `CachesAgreeWithSecrets` | `Spec => []CacheAgreesWithSecrets` |
| `NoReferenceDangles` | `Spec /\ ~OIDC => []NoDanglingReference` |
| `StartUpsRepair` | `Spec => RestartRepairs` |

The two components share only the request and the process, so each has an invariant of its own, and
a step of one leaves that of the other alone, except where a handler ends with its token operation
(`HandlerEnds`) and where the process ends.

*Tokens* (`TokenInv`). That a revoked token is gone says nothing of the copies under way: a list read
before the revocation, a PUT that nobody awaits. `TokensAreCreated` says that every copy comes from a request that
has begun to create it, `MutexHolds` and `AloneWhileOpen` that nobody reads the secret between a
write and its landing unless the overlap is recorded (`blurred`), `RevocationsHold` and
`CreationsHold` follow each revocation and each creation from its first step. A revocation keeps
its promise because the creation it is about has ended (`OpenHasBegun`, `OthersAreQuiet`), a
creation because every list read meanwhile contains the token.

*Users and groups* (`AccountInv`). When all is quiet the caches agree; on the way there they do not.
`UsersAgree`, `ListAgrees`, `GroupsAgree` claim the agreement of every entry that no flow is about, and
name the flows: `Leaving` (a deletion of the entry is still to come), `Saving` (a PUT is), `Changing`
(a handler is changing the object it shares with the cache), `Listing`. `RefsAreOwn` makes the
sharing harmless: a cached object belongs to one user, and a call that holds it serves that user. `GoneUsers` and
`GoneGroups` are what a write relies on that ends with a 404: with no secret there is no cache entry
left that the failed write should have deleted. `PlacesAreRight` ties pending PUTs and deletions to the calls
that wait for them, so that a call that answers owes nothing. `SpareIsFree` is a counting argument: the
users and the calls cannot hold all references. The proof goes handler by handler, most of them
through a few lemmas on what a step reads, changes and saves.

*References to groups* (`ReferenceInv`). A group's name can be in a user's secret, in the cache, in the
list, in the object a handler holds, in a PUT under way and in what a handler has checked and not yet
saved; `deleteGroup` looks at the list only. `RefersToLive` says of all these places that the group is
`Live`: it exists, or its deletion is not over, or the deletion has failed or overlapped another
request. Every handler keeps that because it checks a group before it gives it away (`ChecksHold`), and
what it reads of the groups is no staler (`CachedAreLive`). The step that matters is the last one of a
deletion, where the group stops being live: `LoneDeletion` says that a deletion that nothing has
overlapped is the only request running, and `Forgotten` follows it from the removal of the cache entries
through the PUTs of the members, so that at the end no place is left that holds the name; a member whose
PUT ended with a 404 is gone from the caches by `GoneUsers`. The start-up has a part of its own:
`StartUpReads` (while no request runs, what it reads is what the secrets hold, but for the users it is
about to change) gives `RepairUnderWay`: whoever refers to a group that is gone is being saved without
it. That is all `StartUpsRepair` needs, and what makes the invariant of the requests true again when
the start-up hands over to them.

`NoReferenceDangles` excludes OIDC, where the groups of a user come from a table of external names that
is refreshed every ten minutes and not when a group is deleted (`models/v2/group.js:194-215, 267-301`;
`externalName2Groupname`): a login gives groups unchecked, and the start-up does not repair
(`group.js:511-520`). The script of `rs_sessions` with two OIDC logins is checked with groups that stay.

# 7. AlertHandling: JobNotification and AlertHandler

## 7.1 State and actions against the code

| code | definitions |
|---|---|
| `job-status-change-notification/index.js`: a round, its query and the alerts of a job | `Poll` with `Due`, `Send` |
| validation jobs: logs, reports of nodes that passed and failed | `ReadLog`, `NoJobInfo`, `ReportGood`, `ReportBad`, `MailBad` |
| updateFrameworkTable, and errors that leave the handler | `Save`, `GiveUp` |
| the row as database-controller writes it | `StatusChanges`, `Retries`, `RequestChanges`, `StartsAnew` |
| the Alertmanager (external): grouping, repetition, resolution | `Fire`, `FireOutside`, `Deliver`, `Resolve`, `AnswerOk`, `AnswerFailed` |
| `alert-handler/controllers/node.js`, `mail.js`: promise chains of a request | `Check`, `Cordon`, `List`, `Evict`, `Boot`, `Uncordon`, `Lookup`, `Mail` |
| pods and their scheduler (external): decision, binding, end; ends of the processes | `PodMoves`; `NotifierRestarts`, `HandlerRestarts` |

`AlertHandling` joins them: what the notifier posts about failed nodes fires the webhook that cordons
them, what it posts about a job fires the one that mails its user; other alerts uncordon, drain or
reboot. A post, a save, a patch, an eviction, the creation of a reboot pod or a mail may fail, with or
without effect. `SyncUserLogs`, which never fails its caller, and the tagging and stopping of jobs (HTTP
calls of rest-server) are left out.

`drainNodes` and `rebootNodes` catch the error of each node inside the function that `Promise.allSettled`
waits for, so they answer 200 whatever failed (`node.js:267-289, 303-322`): `Swallows` names these
actions, `AnswerOk` counts a failed node for them as done, and `AnswerFailed` is for the others.

A pod goes through three steps. The scheduler chooses a node that is not cordoned (`podNode`); the pod
is bound to it later, cordoned or not (`bound`), and only then can `drainNode` list it; a deletion that
is answered starts the graceful end of the pod (`dying`), which `drainNode` does not wait for. The field
`late` of a task is history: the pods between choice and binding when it listed.

## 7.2 Run and fairness

`alerts`: a validation job whose two tasks disagree about two nodes, a plain job that is stopped or
retried, two other alerts, two pods; the six budgets of `MCAlertHandling` combine up to two failures,
resets, restarts, alerts and pods. One failure between a post and its save, and one late request,
are the hazards; nothing counts higher than the second of each.

| property | what it says |
|---|---|
| `NotifiedMeansAccepted` | a flag in the row is never ahead of the Alertmanager |
| `ToldOnce` | nothing is told twice unless something failed or was reset in between |
| `ResultsReported` | a validation job that is done has reported each node as what it is |
| `CordonHolds` | the nodes of an answered cordon, and each node whose drain or reboot succeeded, stay out of service until they are uncordoned; of a drain or reboot that failed nothing is claimed, its answer says nothing (section 10) |
| `DrainTellsPods` | a drain that succeeded leaves no pod on the node without an accepted deletion, but those the scheduler had chosen the node for before the list |
| `RebootTellsPods` | so does a reboot, before the pod that reboots the node is created; the pods told to go may still be running then (section 10) |
| `EndNotified` | the end of a job is notified in the end |
| `ReportedNodeCordoned` | a node that failed its validation leaves service in the end |

Weak fairness of the rounds, of the handler of each job, and of the steps for the hook of failed nodes:
the notifier's loop and Kubernetes restart what ended, the Alertmanager posts again what was not
answered. Failures are bounded by the budgets. A quiet system rests, so deadlock is allowed.

## 7.3 Proofs

`AlertHandling_proofs`, for every set of jobs, nodes, pods and groups of alerts and any budgets, from
`NotificationAssumption` and `HandlingAssumption` (finitely many results of a validation job, the two
groups the notifier fires are two, other alerts name nodes):

| theorem | statement |
|---|---|
| `TypeCorrect` | `Spec => []TypeOK` |
| `NotifiedIsAccepted` | `Spec => []NotifiedMeansAccepted` |
| `NotificationsAreNotRepeated` | `Spec => []ToldOnce` |
| `EveryNodeIsReported` | `Spec => []ResultsReported` |
| `OutOfServiceForGood` | `Spec => []CordonHolds` |
| `DrainsTellPods` | `Spec => []DrainTellsPods` |
| `RebootsTellPods` | `Spec => RebootTellsPods` |

None of the properties is inductive. The invariant `IInv` has a part for each of the two processes;
the notifier never reads what the alert-handler writes, so `NoteIInv` is inductive by itself, and
`HandlerIInv` needs of it only that the nodes reported are nodes.

For each job, `SentMeansAccepted` and `UnsavedMeansExcused` follow what was sent and not saved: a handler
between its post and its save has had its notifications accepted, and one that is neither saved nor
about to be was accepted only as often as there were excuses. That rounds do not overlap enters here:
`Poll` starts a handler only from a row no other handler is about to save. `ReportsInOrder` says how far
the report of the nodes is at each stage, so that a save after the last stage finds it complete.

For each group of alerts, `KeepsItsAction` keeps the action it was first fired with and `OneTaskPerNode`
ties an open request to its tasks. For each task, `Awaited` says that drains and reboots only run
while their request is open; `CordonedFirst` that a node past its cordon is out of service, so the
scheduler chooses it no more, and `TellsAll` that the pods it was chosen for (`Unaware`: bound or not,
and not told to go) are then among those still to be deleted or were unbound at the list. That is more
than the properties say, which speak of bound pods only: a pod bound after the list would otherwise
break them. Both end where another alert uncordons the node, which `lifted` remembers. Most steps leave
a task its part of the invariant for the same reasons (they uncordon nothing unnoticed, send no pod to a
cordoned node and take no deletion back); `Harmless` states these once.

`EndNotified` and `ReportedNodeCordoned` are liveness properties and only model-checked.

# 8. `CellAllocation` and `AffinityGroups`

## 8.1 How they correspond to the code

Every handler of `pkg/scheduler` and `pkg/algorithm` holds a lock from its first to its last line, so
an action of `AffinityGroups` is a whole handler on the memory `h` of the algorithm. What it computes
is written as operators that take the memory and return it, named as the functions of the code. A
nil pointer, an index out of range or an explicit `panic` sets `h.panic`, after which nothing more runs
(the informers let the process end; the web server goes on with whatever the handler left, which the
model does not follow, since `NeverPanics` shows that there is nothing to follow).

| code | model |
|---|---|
| `allocatePreassignedCell`, `releasePreassignedCell` and the counters they track | `AllocatePreassignedCell`, `AllocateUpwards`, `AllocateDownwards`, `Release…` |
| `removeCellFromFreeList`, `addCellToFreeList` (split, merge) | `RemoveCellFromFreeList`, `AddCellToFreeList` |
| `tryBindDoomedBadCell`, `tryUnbindDoomedBadCell` | `TryBindDoomedBadCell`, `TryUnbindDoomedBadCell` |
| `setBadCell`, `setHealthyCell`, `allocateBadCell`, `releaseBadCell` | `SetBadCell`, `SetHealthyCell`, `AllocateBadCell`, `ReleaseBadCell` |
| `bindCell`, `unbindCell`, `allocateLeafCell`, `releaseLeafCell` | `BindCell`, `UnbindFrom`, `AllocateLeafCell`, `ReleaseLeafCell` |
| intra-VC and opportunistic scheduling | `IntraVCChoices`, `OpportunisticChoices` |
| `mapVirtualPlacementToPhysical`: `buddyAlloc`, `safeRelaxedBuddyAlloc`, `mapVirtualCellsToPhysical` | the operators of the same names |
| `lazyPreemptAffinityGroup`, `tryLazyPreempt`, `revertLazyPreempt` | the same names |
| `createAllocated…`, `createPreempting…`, `allocatePreempting…`, `deletePreempting…`, `deleteAllocatedAffinityGroup` | the same names |
| `filterRoutine` | `FilterOfNewGroup`, `FilterOfExistingGroup` |
| `preemptRoutine`, `deletePod` of a waiting pod | `Preempt`, `CancelPreemption` |
| `deletePod` of a bound pod, node handlers | `DeletePod`, `NodeFails`, `NodeRecovers` |
| restart; `addNode` and `addBoundPod` while it recovers | `Crash`; `RecoverNode`, `RecoverPod` |

Abstractions: one chain of cells, no pinned cells; a pod asks for one leaf cell, so a pod of a group is
named by its leaf; Kubernetes suggests every node. Priorities of higher cells and the numbers of
used leaves, which the code keeps in step with the leaves, are computed from the leaves. The order
in which the free list offers cells, and in which Go ranges over the VCs, is left open. A pod that
was decided is bound at once: binding changes nothing the algorithm sees, and a crash may lose it.

## 8.2 Runs

Two racks of two nodes with two leaves each, the smallest tree on which a split can go through more
than one level, a buddy can be used by another VC, and a rack can be bad with a healthy node in it.
Two VCs. A *setting* gives the quotas (leaves, nodes, racks), the groups, the numbers of node
failures and of restarts:

| setting | what it is for |
|---|---|
| `Doomed`, `TwiceDoomed` | all cells are promised: every failure binds doomed bad cells, for either VC |
| `Spared` | failures while groups of one VC preempt each other, with cells to spare |
| `Opportunists` | opportunistic pods share the cells and are preempted, at once or after a reservation |
| `Rack` | gangs preempt each other inside a rack; the rack and the leaves of another VC compete |
| `LazyGroup` | a group with lazy preemption is moved out of its VC, and back if that was in vain |
| `Restart`, `FailureAndRestart` | a restart loses pods and rebuilds the rest, with an opportunist; with a failure and preemption |

`cells` explores all of them, with deadlock checked (a scheduler that has not panicked can always
take a step):

| property | what it says |
|---|---|
| `NeverPanics` | no handler hits a nil pointer, an empty list, or "VC Safety Broken" |
| `BooksAgree` | bindings go both ways and keep the tree, each leaf is under one free or assigned cell, counters and lists of bad cells say what the tree says |
| `QuotaSafe` | the free cells can always be split into all the cells the VCs have not taken |
| `OwnersAgree` | states, priorities, groups and bindings of leaves agree; no cell stays with a VC that gave it back |
| `PodsKeepTheirCells` | a bound pod's leaf is used by its group: a group goes with its last pod, not earlier |

`cells_restart` is one gang of two pods and one restart; `PodsKeepTheirCells` is violated. The pod that
creates the group on recovery is entered at index 0 whatever its index is, and is overwritten by the
pod whose index that is. When this one is deleted, no pod seems to be left, and the cells are freed
under the other.

## 8.3 What the settings leave out

The settings do not combine everything with everything, because the code does not hold these
properties in all combinations. Each of the following was found by TLC with a wider setting and read
back in the code; a setting of `cells` stays on this side of all of them, which is the scope of what
it shows.

- *Quota of a rack with a failed node.* A rack bound as doomed because of one bad node, whose other
  node then runs a job, is neither freed nor listed when the node recovers during the job: it is lost
  for its VC until a restart (`setHealthyCell` skips cells in use, `releaseLeafCell` skips doomed
  ones). The demo guide promises quota safety (`hivedscheduler/src/example/feature/README.md:10`).
- *Three priority levels.* In the filter phase a group may be given `Reserved` cells of a preemptor of
  lower priority without cancelling that preemption, although `doc/design/state-machine.md` has it
  go back; the cell then has a user and a reserving group, and the preemptor later takes it.
- *Opportunistic or lazily preempted pods on a bad node.* `releaseLeafCell` takes the leaf for one of
  the pod's VC when it was bound as doomed for another VC meanwhile.
- *Preemption of a bad node with doomed cells.* A cancelled preemption gives the leaf back without its
  binding. A cancelled preemption also leaves the victim in state `BeingPreempted`, so that a further
  pod of it writes to a nil map (the web server recovers and refuses the pod; modelled as a refusal, the
  one panic that `NeverPanics` does not count).
- *Gangs and node failures with cells of several levels.* `safeRelaxedBuddyAlloc` splits racks down to
  leaves and checks each level alone; a gang that also needs a node then panics with "free cell not
  found". It also does not reduce the number of free cells after its allocation, unlike `buddyAlloc`.
- *Recovery of gangs* (`cells_restart`), and *recovery with full quotas after a failure, or of pods that
  are delivered before the nodes*: cells that look bad at start are bound as doomed to VCs, and pods
  that run there get the virtual cell of another VC or have it unbound under them. `nodesFirst`
  assumes that the nodes come first; the informers do not promise it.

No fairness is stated: nothing here promises that a pod is scheduled.

# 9. Mutants

Every property of a passing run has a mutant in the module of the component, marked as such: a
definition changed the way a plausible bug would (a flag not reset, a generation kept, an unconfirmed
deletion, a lost timer, a list that failed taken for an empty one, a mutex not taken). TLC finds the
property violated when the mutant replaces the definition under the configuration of that run.

# 10. Disagreements without a run

Read off the code while modelling; the model has the behaviour, no run singles it out.

- `setFailed` tests `!this.getTotalRetriedCount() === 0`, which is false for every count: a framework
  that was launched and waits for a retry is mocked as failed (`common/framework.js:386`, against the
  comment at line 381; `PostMockedFailure` does so).
- A record whose definitions were cleared when it was closed is reopened by a late event of a
  re-created framework; `poll()` then throws in `new AddOns('')`, for this and all later records of
  the round (`poller/index.js:172`, against `poller/index.js:31`).
- A request made after completion is not synchronized by the poller, which deletes the framework
  instead (`PollerDelete`, against the comment at `database-controller/src/write-merger/handler.js:170`).
- The duplicate check of rest-server is not repeated under the lock, so two submissions that both
  pass `CheckDuplicate` are both accepted; `db_requests` checks that the record stays consistent.
- A delayed POST of the write merger's short cut re-creates a framework that was run and deleted
  (`common/framework.js:595`), and a deletion made while the watcher restarts is never seen
  (`watcher/framework/index.js:70`): the record then waits for ever.
- The watchdog knows no `usercred` secrets, so one that never got an owner stays
  (`poller/index.js:57` relies on the watchdog).
- The `continue` that is to keep owned secrets from collection continues the loop over the owners
  (`garbage_collector.go:156`); harmless as long as owner and name disappear together.
- A failed uncordon runs into an undefined name in its `catch` and ends the process
  (`alert-handler/controllers/node.js:183`).
- A drain or a reboot that fails on a node, its cordon included, is answered with 200 and not posted
  again: the error is caught inside `Promise.allSettled`, so `failedNodes` is always empty and the
  answers "Failed to trigger drain for nodes" and "Failed to trigger reboot for nodes" are never given
  (`node.js:267-289, 303-322`, against lines 286 and 319). `AnswerOk` does so; that an answered drain or
  reboot leaves its nodes cordoned is false, and `CordonHolds` does not say it.
- A drain that ends with the process after its cordon is posted again and then skipped, since the
  node is cordoned: its pods stay (`node.js:270-273`). `Check` does so; `DrainTellsPods` exempts `skip`.
- A reboot does not wait for the pods it deletes: `deleteNamespacedPod` is answered when their graceful
  end begins, and the reboot pod, created next, reboots after five seconds (`node.js:206-213, 306-308`
  and line 236). A pod that the scheduler had chosen the node for before the list is not even deleted.
  `RebootTellsPods` says what is left of it.

# 11. Not modelled, and why

- *Node life cycle, node failure detection, cluster-event watcher*: worth modelling, see the plan.
- *webportal, SDKs, contrib plug-ins*: a user interface and client libraries; they keep no state that
  another component relies on, every request they make is one of `MCRestServer` or of
  `DatabaseController`. They are more than half of the repository's code.
- *rest-server: storage, virtual clusters, quota, info; translation of a job protocol*: reads of
  configuration and of other services, and data; nothing of it is stored by rest-server.
- *model-proxy, openpai-runtime, job-exporter, copilot-chat, exporters and mail scripts*: stateless, or
  with the state of one request; what they do is format and forward.
- *deployment, images, paictl, third-party services*: configuration.

Liveness and `ENABLED` are out of the prover's reach and stay with TLC: `EveryJobSettles`,
`EveryFrameworkCompletes`, `NothingIsLeaked`, `AddOnsCollected`, `EndNotified`, `ReportedNodeCordoned`.
So do the invariants of `AffinityGroups`. Its operators and those of `CellAllocation` walk trees of
cells, split and merge them level by level and search placements by RECURSIVE operators, which the
provers do not read; what they compute on every tree would be an induction over data. And the
invariants do not hold for every value of the constants: 8.3 lists settings in which the code breaks
them, so there is no theorem to state without the bounds of the settings.
