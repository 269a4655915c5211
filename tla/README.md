# TLA+ models of EMCO

EMCO places composite applications on many Kubernetes clusters. A user describes a
*Deployment Intent Group* (DIG); the orchestrator turns it into an *AppContext* (a tree of
keys in etcd: apps, clusters, resources) and asks rsync to bring the clusters to that state.
This fork adds a Migration Controller that moves workloads to another cluster when one is
full, and changes the update path of rsync so that the old workload is deleted only when the
new one runs (`src/README.md`).

This directory holds TLA+ models of the parts whose behaviour over time is hard to get right,
the TLC configurations that check them on small instances, and theorems about them that TLAPS
checks for every value of the constants.

Contents: [components](#components) · [modules](#modules) · [the engine](#rsynccontext-the-engine) ·
[its promise](#appcontextlifecycle-and-rsyncrefinement) · [AppContexts and DIGs](#appcontextstore-and-diglifecycle) ·
[logical clouds](#logicalcloud) · [dependencies](#dependmanager) · [placement and migration](#hpaplacement-and-migration) ·
[notifications](#readynotify-and-statusnotify) · [the store](#referentialschema-and-resourcestore) ·
[runs](#runs) · [fairness](#fairness) · [proofs](#proofs) · [what stays with TLC](#what-stays-with-tlc) ·
[findings](#findings) · [what is left out](#what-is-left-out) · [plan](#plan)

## Components

| component | state | operations | hard part | correct when |
|---|---|---|---|---|
| rsync: event queue, main threads (`context/*.go`) | in etcd: a queue of events, status, flags and `/activecontext/` records; in memory: `Running`, `cancel`, the AppContext copy | `HandleAppContext`, `appContextRoutine`, `RestartAppContext`, `RestoreActiveContext` | handlers, main threads, cluster routines and crashes interleave; only `Context.Lock` orders some of it | one thread per AppContext; no event lost, reordered or decided twice; the state settles; clusters match states |
| rsync: state table (`types/types.go`) | none | `StateChanges` | - | used by the engine |
| rsync: cluster routines (`context/cluster.go`) | Skip bits, errors of an errgroup | apply, delete, read a resource; wait for a cluster | outages, cancellation, partial failure | an operation reports what happened |
| rsync: dependency manager (`depend/depend.go`) | maps of channels per app and cluster | wait, notify, clear | channels nobody reads; lists that shift under a loop | nobody starts early; a waiter is woken once its dependency is ready |
| rsync: ready notification (`grpc/readynotifyserver`) | maps of streams | alert, unsubscribe, notify | sends with a mutex held | no call waits for ever |
| orchestrator: DIG handlers (`module/instantiation*.go`, `update.go`, `deployment_intent_groups.go`, `state/`) | `StateInfo` of each DIG in MongoDB; AppContexts in etcd | create, approve, instantiate, terminate, stop, update, rollback, migrate, delete | read - call rsync - write, no lock, no transaction | records agree with one another, with etcd and with the clusters |
| orchestrator: scheduler (`instantiation_scheduler_helper.go`) | none | placement, migration controller, updates of other DIGs, call of rsync | nested updates, failure in the middle | nothing stays half done |
| orchestrator: status notification server (`grpc/statusnotify`) | registrations, streams, a sender with a timer per stream | register, deregister, cleanup | check before lock, closed streams | whoever registered hears of every change |
| orchestrator: MongoDB store, referential schema (`infra/db`) | documents; schema segments of all services | insert, update, find, remove; register and verify | two steps per call; services start in any order and die | no document without its parent; a schema is complete or nobody serves |
| migration controller (`src/migration`), hpa-plc | migration intents; none | filter clusters, select the apps to move | a greedy choice at its boundary | what is selected frees what is required, least important first |
| dcm: logical clouds (`dcm/pkg/module`) | state of a logical cloud, AppContexts, CloudConfigs | create, refer, instantiate, terminate, stop, update, kubeconfig, delete | races with rsync and with certificates | as for DIGs; certificates complete |
| rsync clients, connectors, status collection; orchestrator: run-time context, status queries, controllers, intents; clm, ncm, tac, workflowmgr, action controllers, ca-certs, monitor, policy, metricscollector, ref-schemas, tools | documents, watches, I/O | CRUD, aggregation | - | see `PROJECT.json`, `components`, for each one's status and reason |

How they interact. The orchestrator, dcm, ncm and ca-certs call rsync by gRPC (`InstallApp`,
`UninstallApp`, `ReadAppContext`, `UpdateApp`) with AppContext ids; the call returns once the
event is queued. From then on the two share etcd: rsync writes the AppContext's status, the
orchestrator reads it and raises the stop flag there. rsync works on its own time and on clusters
that come and go. The record of a DIG or a cloud is written after the call has returned, so it
can be ahead of or behind what rsync has done. In the other direction rsync sends a notification
on a gRPC stream whenever the status of an AppContext changed; dcm and the status notification
server of the orchestrator listen, the latter on behalf of clients of its own. While a DIG is
instantiated the scheduler asks the migration controller for clusters, and updates the DIGs whose
apps were selected to leave, with the same code and before it goes on.

## Modules

| module | role |
|---|---|
| `RsyncStates` | events, operations, statuses and the table `StateChanges` |
| `RsyncContext` | the engine of rsync, its properties and the first inductive invariant |
| `AppContextLifecycle` | abstract: what rsync promises about one AppContext |
| `RsyncRefinement` | `RsyncContext` implements `AppContextLifecycle` |
| `AppContextStore` | what controllers share: StateInfo, AppContexts in etcd, calls of rsync, and rsync as `AppContextLifecycle` promises it |
| `DigLifecycle` | the DIG handlers on top of `AppContextStore` |
| `LogicalCloud` | the handlers of a logical cloud and its certificates, on top of `AppContextStore` |
| `DependManager` | one operation of rsync in which apps wait for each other and hooks for each other |
| `HpaPlacement` | which clusters remain for an app (operators only) |
| `Migration` | scheduler, migration controller and nested updates, on top of `HpaPlacement` |
| `ReadyNotify` | rsync's server of notifications and its listeners |
| `StatusNotify` | the orchestrator's server of notifications, on top of `ReadyNotify` |
| `ReferentialSchema` | services that put a schema together from their segments |
| `ResourceStore` | documents with parents and references, on top of `ReferentialSchema` |
| `MCRsync`, `MCDig`, `MCCloud`, `MCDepend`, `MCMigration`, `MCNotify`, `MCStore` | instances for TLC |
| `RsyncContext_proofs`, `AppContextStore_proofs`, `DigLifecycle_proofs`, `LogicalCloud_proofs`, `DependManager_proofs`, `Migration_proofs`, `StatusNotify_proofs`, `ResourceStore_proofs` | theorems |

`DigLifecycle` and `LogicalCloud` do not contain the engine. They extend the abstract lifecycle,
and the engine is shown to implement that lifecycle, so the two levels meet in one module whose
actions both use.

Definitions marked *variant* are deliberately faulty forms of the definition after them. No
specification uses them; each one, put in place of its definition, makes TLC report the
property it belongs to (`PROJECT.json`, `mutants`).

## RsyncContext: the engine

An AppContext lists placements (one app on one cluster with its resources). What happens inside
a placement is below the grain of the model.

| variable | code |
|---|---|
| `queue[c]` | `AppContextQueue` under the AppContext in etcd: events with status Pending, Done, Error, Skip |
| `active` | the `/activecontext/` records |
| `stopFlag`, `pendTerm` | `StopFlagKey`, `PendingTerminateFlagKey` |
| `current`, `desired`, `status` | `CurrentStateKey`, `DesiredStateKey`, `StatusKey` |
| `running[c]`, `cancel[c]` | `Context.Running`, `Context.cancel` |
| `resSkip[c]` | Skip bits of the in-memory `CompositeAppContext` |
| `main[t]` | a goroutine in `appContextRoutine`: where it is, the queue element, the operation, whether its contexts are done, and which cluster routines have not started (`todo`), are working (`open`), or wait for pods (`await`) |
| `handler[k]` | a gRPC handler between the two etcd writes of `EnqueueToAppContext`, or between it and the second critical section |
| `toRestore` | what `RestoreActiveContext` still has to restart |
| `outbox` | calls the orchestrator may still make |
| `deployed`, `podsUp`, `reachable` | the clusters |

The actions follow the code's steps between two etcd accesses or lock operations:

* `Receive`, `HandlerQueue`, `HandlerStart`, `HandlerStartFails`, `HandlerRetry`:
  `HandleAppContext`, and `InstallApp` which terminates what it could not start. Enqueueing is one
  critical section with two etcd writes in it: `Receive` records the AppContext as active,
  `HandlerQueue` appends the event. Looking at `Running` is the next critical section;
  between the two anything may happen.
* `FindNext`, `FindNone`, `Release`, `CheckIgnored`, `CheckUnsupported`, `CheckSupported`,
  `EnterState`, `AnnounceState`, `Arm`, `LaunchOperation`, `LaunchAfterPhaseError`, `PodsConfirmed`, `PodsAbandoned`, `HandOver`,
  `HandOverQueue`, `HandOverStart`, `Wait`, `Mark`, `WriteStatus`, `WriteCurrent`, `GiveUp`: one iteration of
  `appContextRoutine`. An update compares the two AppContexts, sleeps 30 s, looks at the pods of
  each app and cluster, then calls `HandleAppContext` with `UpdateDelete` for the old
  AppContext, which may start that AppContext's thread. The desired state, the current state and the
  status are three etcd writes and three steps; so are, at the end of a thread, `Running`
  and the flags (`FindNone`) and the active record (`Release`) two.
* `Locked(c)`: the lock of `c` is held over more than one of these steps, by a handler or an update that
  has recorded `c` and not yet queued its event, or by a thread that has not yet deleted the record.
  Whoever needs the lock waits; a crash of rsync does not.
* `OpenClient` ... `Unreachable`: one cluster routine, `run` to `handleResource`. The first error
  cancels the others (errgroup); errors of deletes and reads are swallowed.
* `Stop`, `ClearStop`, `WatchStop`: the stop flag and the goroutine that polls it.
* `Crash`, `Restart`, `RestartFails`: memory is lost; each active record gets a new thread, and
  `Running` is not set.
* `PodsStart`, `ClusterDown`, `ClusterUp`: the clusters.

`Faults` says which of these a run may take: `overlap`, `crash`, `stop`, `start`, `client`,
`apply`, `delete`, `outage`, `retries`, `pods`, `phase`, `slow`. Without `overlap` the
orchestrator waits until rsync is quiescent; without `slow` every routine on a reachable
cluster has ended when the 30 s are over. `Allowed` restricts calls to those the orchestrator
makes: it terminates or updates only what it had installed.

Abstractions to know of: `Mark` joins the write of the queue element with the read of the
desired state that follows it (only the thread itself writes the desired state); etcd reads and
writes fail only when the thread's context is done; the in-memory AppContext is its set of
placements and Skip bits.

## AppContextLifecycle and RsyncRefinement

`AppContextLifecycle` forgets threads, flags and clusters. For one AppContext there is a sequence
of undecided events, a state, and what rsync is at. Only the oldest event is handled; it is
accepted in the states `StateChanges` names; the state goes to the announcing state (for
instance Instantiating) and from there to the one success or failure leave; an Update has
its predecessor cleaned up before it is decided.

`RsyncRefinement` maps the engine to it: `pending` is the sub-sequence of pending elements,
`state` is `current`, `work` follows from the pc of the AppContext's thread. The property
`ImplementsLifecycle` is the abstract specification itself. TLC checks it with overlapping calls
and failures (`rsync_events`), and it is proved for every instance in which rsync does not crash.
It does not hold over a crash (after a restart two threads may serve one AppContext, see
[findings](#findings)), so the controllers' modules assume an rsync that is not restarted.

## AppContextStore and DigLifecycle

| variable | code |
|---|---|
| `stored`, `used` | AppContexts present in etcd; ids drawn so far |
| `statusCtx` | `StatusAppContextIDKey`: which AppContext collects the status |
| `stopFlag` | as above |
| `pending`, `state`, `work` | rsync, from `AppContextLifecycle` |
| `holds` | AppContexts with resources on clusters |
| `groups`, `info` | the DIG's document and its `StateInfo` tag in MongoDB |
| `client[k]` | a REST handler after it has read the `StateInfo` |

A handler reads the `StateInfo`, then acts step by step: `Check` (status in etcd), `SetStopFlag`,
`CallRsync` or its failures, and one `Insert` per `db.Insert`. `Insert` replaces the whole
`StateInfo` by what was computed from the copy read at the beginning, which is how updates get
lost when handlers overlap. Update and Rollback make two inserts, and nothing makes them
atomic (`update.go:252` says so). `Ends` lets a handler die, or an insert fail, anywhere.

The actions with an `Rsync` prefix are the abstract lifecycle plus its effect on `holds`. Failures
of an operation leave either outcome on the cluster. The model allows a little more than the
engine does after a stop, so what holds here holds there.

`StatusShared` is `SameStatusContext` (a sentence of `state/types.go`) without AppContexts that a
Rollback fetches from a former life. A life begins after a termination, or after an approval: a DIG
that was migrated into another one may be approved again. The latter case was missing at first
and came up in an attempt to prove the property; TLC's instances are too small for it.

## LogicalCloud

One cloud of level 0 or 1, in dcm; it extends `AppContextStore` with its document (`level`, `info`),
cluster references (`refs`, those with a certificate in `certs`), user permissions (`permitted`),
CloudConfigs in rsync's database (`configs`), what each AppContext was built for and lists (`placed`,
`tree`), the certificates in it (`ready`), where a cluster reports (`label`, the tracking label of its
monitor), the goroutine that waits for an AppContext's alerts (`listener`) and the REST handlers.

* `Create` ... `Delete`, `AddReference`, `RemoveReference`, `ChangePermission`: the handlers up to
  their first change; then `CreateState`, `DeleteContexts`, `Build` or `BuildFails`, `CallRsync` or `CallFails`,
  `DeleteCloudConfigs`, `AddState` or `AddStateFails`, `Subscribe`, `PrepareGitOps`, `RemoveDocument`.
  Unlike the orchestrator dcm decides on the status rsync reports, not on the one it has recorded;
  and `addState` reads the StateInfo again, except in an update.
* A cloud whose document is stored and whose StateInfo is not (the inserts at `logicalcloud.go:80` and `:118`,
  with the private key between them, which is left out) has the level `draft`. The search for a
  cloud of that name and the insert of the document are one step.
* `NotYet`, `ProcessAlert`, `Kubeconfig`: who asks for certificates and makes CloudConfigs.
* `Report`: a monitor reports; `RsyncDeploys` labels the clusters an operation adds.
* Faults: `crash` of dcm, `call`, `namespace` (level 0 clusters without a common one), `fail`.

## DependManager

One `run(OpApply)` of rsync over the apps of an AppContext: a goroutine per app (`app`) that waits for
its dependencies, then one per cluster (`work`) that applies CRDs, pre-install hooks, main resources
and post-install hooks. `list` are the manager's maps of slices, `appCh` what an app has registered,
`buffer` the channels (capacity one), `senders` the goroutines `NotifyStatus` starts, `callback` those
of `ResourcesReady`, `tracker`, `flag`, `success` the keys in etcd, `ready` what the cluster reports.

`Receive` and `DependencyMet` are the two ends of `WaitForDependency`; `NotifyDeployed`,
`NotifyReady` and `Send` its counterpart. The manager takes a slice under the lock and loops over
it without; `ClearChannels` removes elements with `append(d[:i], d[i+1:]...)`, which moves the
elements of that same array. `list` and the notifier's position model exactly that, and the
[finding](#findings) comes from it. `Lapse` (a resource stops being ready) and `Report` are the
cluster; `Terminate` cancels.

## HpaPlacement and Migration

`HpaPlacement` has the operators of the placement controller: what an app needs, what is free, which
clusters qualify. `Migration` is the scheduler with its nested updates. A handler is a stack of
frames, as the Go code is a stack of calls: instantiating a DIG that does not fit selects apps of other
DIGs (`MigrationApps`, least important first), and updates those DIGs (`UpdateSelected`), each of
which enters the scheduler again, before it goes on (`AllUpdated`, `Deploy`, `Record`). The filter of the
hpa-plc controller is a step for each of its accesses to MongoDB, since nothing locks them: the flag of the DIG is
read (`ReadFlag`) and reset (`ResetFlag`), then the intents are read (`ReadIntents`) and reset app by
app (`ResetApp`), and then the clusters are judged (`FilterClusters`); `reading` is what it has seen. What
`MigrationApps` writes when it selects is one step. `RsyncApplies`,
`RsyncHandsOver`, `RsyncCleansUp` and `PodsRun` are rsync and the clusters, with their delays.
Amounts are small numbers; that memory is compared in bytes and booked in megabytes is not modelled
beyond `cpu` and `memory` being separate resources.

## ReadyNotify and StatusNotify

`ReadyNotify` is rsync's server: a stream per listener (`stream`), the map it is entered in
(`alertNotify`), and `rsyncStuck`: `Unsubscribe` sends on a channel with the mutex held. `StatusNotify`
adds the orchestrator's server: `statusClients` and `appContexts` (who asked for what), a goroutine
`handler` per call of StatusRegister, and a `sender` per stream with a timer that collects changes.
Faults: `rpc` (rsync cannot be reached), `rsync` (it is restarted), `twice` (a client registers again
while its first call is open, which a comment excludes).

## ReferentialSchema and ResourceStore

Each service reads the schema segments in MongoDB (`read`), adds its own (`register`) and puts
them together (`complete`), or waits for segments whose parents are missing, or gives up (`failed`).
`ResourceStore` has the documents in their order of insertion and the calls of the store, each a look and
a change: `Insert` looks for the parent, `Remove` for children and referrers. A filter made from a
key also matches everything below it, and an update takes the first match.

## Runs

All runs use the modules unchanged; `.cfg` files only give constants their values. Every bound is
a constant: `Requests` (each at most once), `MaxCrashes`, `Threads`, `Callers` for the engine;
`MaxActions`, `MaxPending`, `Clients` for controllers; `MaxSenders`, `MaxLapses`, `MaxContexts`,
`MaxChanges`, `MaxRestarts` elsewhere. Deadlock checking is off because the systems do
stop: when everything is handled and clients have nothing more to ask. Symmetry (threads and
callers, or AppContexts, clients and DIGs) is used in runs without temporal properties other than
action properties and step simulation.

| run | instance | checks |
|---|---|---|
| `rsync_events` | one AppContext, two placements on one cluster; Instantiate, Read, Terminate overlapping; client, apply and delete failures, outage, retries | `TypeOK`, `OneMainThreadUntilCrash`, `RunningHasThread`, `TerminateFlagHasThread`, `NoStrandedEvent`, `SettledState`, `HandledInOrder`, `VerdictIsFinal`, `ImplementsLifecycle` |
| `rsync_faults` | A, update to B, terminate B; two crashes, threads that cannot start, pods that never run, unreadable AppContexts, stop flag, slow applies | `PendingIsActive`, `RetainedStays` |
| `rsync_update` | A is updated to B (one app moves to cluster5) and rolled back to A, the rollback at any moment; outages; a placement both list differs; fair | `Converged`, `DeleteAfterRunning`, `EventuallyHandled` |
| `dig_serial` | two DIGs, two AppContexts, one client: every operation but Delete, at any moment of rsync's work, nothing failing | `OneOwner`, `TerminatedIsLeaving`, `KnownResources` |
| `dig_concurrent` | one DIG, two clients without a lock; crashes, failing calls, failing operations; Delete instead of Stop, Rollback, Migrate | `TypeOK`, `TerminatedIsLeaving`, `StatusShared` |
| `depend` | an app on two clusters, two apps that wait for it; hooks, failing groups, a Terminate, a lapse; fair | `ReadyOrder`, `HookOrder`, `OperationEnds` |
| `finding_lost_notification` | three apps wait for one to be deployed | `NoLostNotification`, violated |
| `cloud` | a level 1 cloud, two clusters, one over Git, two AppContexts, one client, failing calls | `ResourcesRecorded`, `StatusCollected`, `ConfigIsCertified`, `TerminatedIsLeaving` |
| `cloud_faults` | a level 0 cloud, two clients without a lock, Delete and Create again, crashes, failures | `TypeOK`, `TerminatedIsLeaving` |
| `migration` | four DIGs on two clusters, one of which fills up; one handler | `OnePlacement`, `LessImportantFirst`, `SelectionSuffices`, `UnmovableStays` |
| `notify` | two clients, three registrations, two AppContexts, dcm as a listener, restarts of rsync; fair | `TypeOK`, `ClientsCovered`, `UnsubscribeIsHeard`, `EveryClientTold` |
| `store` | five kinds, three services with two segments, restart, failing database; fair | `NoOrphan`, `KindsKept`, `SchemaSettles` |

Why the bounds are enough for these questions:

* Two threads and two callers (`rsync_events`) show every race about `Running`: a thread that exits, one that
  starts, a handler in between, a second handler; and that two are enough without a crash is a
  theorem (`OneMainThreadSafe`). With crashes there is a third.
* One AppContext with two placements shows partial failure, cancellation and a routine that
  is ahead of another. The update instance has a placement of each kind: left behind, kept, new.
* Three requests give events that wait behind one that is being worked on, in each order. Two
  crashes let rsync die again while it restores.
* Seven entries of a `StateInfo` hold create, approve, instantiate and four more, enough for an
  update and a rollback, or a terminated DIG that lives again. Two AppContexts are
  enough for two DIGs to meet through a Migrate, and for one to be replaced and fetched back.
  `MaxPending = 2` lets a Terminate wait behind an event in progress.
* A cloud's second AppContext is its first update or its second life; with three of them and one
  action fewer the same properties hold (1.4 million states, too long to be a run of its own).
* Two dependents are the most for which `OperationEnds` can hold: with three one may be
  forgotten, which is the finding.
* Four DIGs are the smallest set in which an app that must leave, an app that may not and an app
  that has no other cluster compete for the same cluster.
* Two changes and three registrations let a client ask again for something else while a change
  waits for the timer. The five kinds of `store` have a joined kind (compositeApp and version share a
  document), a reference across services and two segments that each need the other.

Where a run has one caller or one handler, there is a reason. `rsync_faults` asks what crashes leave behind; a second caller multiplies
its 2.5 million states, and `PendingIsActiveSafe` is proved for any number of callers. `migration` has one handler
because two of them break what it checks (see [findings](#findings)).

Which property goes with which run is a matter of what the code can guarantee; the hypotheses of
the [theorems](#proofs) say it precisely. `Converged` and
`EventuallyHandled` are checked without failing operations, since a failed operation is reported,
not repeated; and `Converged` speaks of placements, not of the version of their resources
(see `ModifiedIsApplied` under [findings](#findings)).

## Fairness

* `rsync_update` (`RsyncContext.FairSpec`). `EngineFairness`: the Go scheduler runs every goroutine
  that can run (weak fairness of main threads, stop watchers, handlers, restarts). A cluster
  routine or a pod check on a cluster that is reachable again and again gets through (strong
  fairness of `Routine` and `PodsConfirmed`): `waitForClusterReady` and the informer poll without
  end, and an outage may interrupt them any number of times. `ClusterFairness`: a cluster comes
  back and pods that were created come up. That is an assumption about the world. Without it rsync
  waits, as it should.
* `depend` (`DependManager.FairSpec`): weak fairness of `Progress` (some
  goroutine that can go on does, and a cluster gets ready what it is given; none of these steps comes
  back, so none is left out for ever) and of the callbacks; strong fairness of `Report`, as a report may
  have to wait for a free callback again and again.
* `notify` (`StatusNotify.FairSpec`): weak fairness of rsync's stream handler and of the sender's steps.
  Nothing is assumed about clients.
* `store` (`ResourceStore.FairSpec`): weak fairness of each service's steps; a service that waits
  polls.

Nothing is assumed about when requests arrive or clusters go down.

## Proofs

Eight modules hold theorems. They rest on the named assumptions of the modules they extend and on
nothing else: that the maps among the constants have their types, that null values are none of the
others, that faults and operations are known ones, that bounds are numbers, that apps are finitely many;
and on five that say what the code checks or guarantees: an update names the AppContext it replaces,
and `UpdateDelete` is an event rsync makes itself, never one it is called with (`RequestAssumption`, `context.go:355`), apps do
not wait for each other in a circle (`AcyclicAssumption`, `checkDependency` of the orchestrator),
segments of the schema are not circular (`SchemaAssumption`), keys are paths in the tree of resources
(`TreeAssumption`), an app belongs to one DIG and has some cluster it may be placed on
(`DigAssumption`, `AppAssumption`; apps are named within their DIG). What a theorem assumes beyond these is in its statement, as a restriction of `Faults`, of
`Operations` or of what the requests ask for, and listed here. Nothing restricts the numbers of AppContexts, threads, callers,
clusters, apps, clients, DIGs, streams or documents.

### The engine (`RsyncContext_proofs`)

| theorem | shows, for every state of `Spec` | faults excluded |
|---|---|---|
| `Invariance` | `IInv` | - |
| `TypeCorrect` | `TypeOK` | - |
| `OneMainThreadSafe` | `OneMainThreadUntilCrash` | - |
| `PendingIsActiveSafe` | `PendingIsActive` | - |
| `HandledInOrderSafe` | `HandledInOrder` | - |
| `RunningHasThreadSafe` | `RunningHasThread` | stop, pods |
| `TerminateFlagHasThreadSafe` | `TerminateFlagHasThread` | stop, pods, crash |
| `NoStrandedEventSafe` | `NoStrandedEvent` | stop, pods, start |
| `VerdictIsFinalSafe` | `VerdictIsFinal` | crash |
| `SettledStateSafe` | `SettledState` | stop, pods, crash |

The base is `IInv == TypeOK /\ Coherent /\ ThreadsAnnounced /\ InOrder /\ PendingIsActive /\ LockHeld`:

* *Type correctness* needs `Coherent`: a thread that reads `queue[main[t].ac][main[t].idx]` has an
  AppContext and an index in its queue; an Update names another AppContext; `WriteCurrent` has a state
  to write.
* *One thread until the first crash* is not inductive by itself: a second thread would start if a
  live thread were not announced by `Running`. `ThreadsAnnounced` adds that (and that nothing is
  being restored). A crash makes the premise false.
* *Order* needs that the element a thread holds has no pending one before it: true when it
  is picked, and kept because elements are only appended (behind it) or decided.
* *Pending is active*, over every crash between two writes: the AppContext is recorded as active before its event is
  queued, so a crash between the two leaves a record without an event, never an event without a record; and
  `Release` deletes the record. `LockHeld` says why that is safe: while the lock is held for the second write of an
  enqueue the record is there, and while it is held for the deletion nothing is pending and nobody is
  between the two writes. With the two writes in the other order, or without the lock, the property is false.

The other five of the table add to it:

* `NeverDone`: unless a DIG is stopped no thread finds its context done, so `GiveUp`, which leaves flags,
  events and states as they are, is never taken. This is why "stop" is excluded: with it the
  properties are false. "pods" is excluded because `PodsAbandoned` returns with `Running` set
  (`routines.go:512`); "start" because a thread that cannot be started leaves its event in the queue;
  "crash" for `TerminateFlagHasThread` because the flag stays in etcd, and for the last two because two
  threads may then work on one AppContext.
* `Awaited(c)`: the ways in which a pending event is going to be taken up: a thread, a handler
  before its second critical section, an update that hands over, a restart to come. Every step
  that removes one of them either finds nothing pending or leaves another.
* `Undecided`: until a crash the element of a thread stays pending until that thread writes its verdict.
* `StatesKept`, with `AtRest` and `Poised`: `current` and `status` agree, and announce no work, unless
  a thread of the AppContext is on its way to write both.

### The refinement (in `RsyncContext_proofs`)

`Refinement`: unless rsync crashes, `Spec => ImplementsLifecycle`, with every other fault. The invariant
is `Ready == IInv /\ NeverCrashed /\ Undecided /\ DecidedPrefix /\ DebtsKept`:

* `DecidedPrefix`: of every queue a prefix is decided and the rest pending. So the abstract queue is a
  `SubSeq`, and the lemmas on `Split` say what appending, deciding the first pending element and nothing at all
  do to it. Without this the mapping would need to know what `SelectSeq` returns, which is
  recursion over data.
* `DebtsKept`: what a thread is going to write. After success the state the event leads to is
  still recorded as desired; after a failure the error state is at hand; an event is refused without
  one only if the state does not allow it.

Each step of the engine is then one of `Submitted`, `Accept`, `HandsOver`, `Succeed`, `Fail`, `Refused`,
`Settle`, `Abandon` of the abstract specification for one AppContext, and leaves the others alone, or is a
stuttering step.

### What updates do to the clusters (end of `RsyncContext_proofs`)

| theorem | shows | faults excluded | about the requests |
|---|---|---|---|
| `RetainedStaysSafe` | `RetainedStays` | phase | - |
| | | crash | `OneWay` |
| `DeleteAfterRunningSafe` | `DeleteAfterRunning` | stop, start, client, apply, retries, phase, slow | no Terminate; `NoneDropsBrought`, `AllModified` |
| `DeleteAfterRunningInTurn` | `DeleteAfterRunning` | all but outage; overlapping calls | only Instantiate and Update; `OwnDrops`, `Rises` |
| `ConvergedSafe` | `Converged` | all but outage, slow | only Instantiate and Update; `OwnDrops`, `Rises` |

These proofs follow placements: `InHand(t)` are those the routines of a thread
have yet to deal with, and one lemma for each kind of step says what becomes of them. The
hypotheses on requests are about what the AppContexts list: `OneWay`: none both replaces
another and is replaced; `NoneDropsBrought`: what some update drops is on the list of no
AppContext that an update brings; `AllModified`: what an update keeps it modifies;
`OwnDrops`: what an update drops is only on the list of the AppContext it replaces;
`Rises`: the AppContexts can be ranked so that each update leads up, so updates do not go round in a circle.

* `RetainedStays`. `Aimed`: what a thread of an UpdateDelete has in hand is not on the list of the new AppContext,
  because `updateDeletePhase` marks all of that to be skipped before the operation starts.
  With "phase" an operation may start with the op of the event before (`routines.go:397`). `DeletesBehind` says
  what a thread that last deleted may still meet: it works for an AppContext that is terminated or
  has been replaced, and there nothing but a Terminate gets as far as an operation. `OneWay` is needed because an
  AppContext that was replaced may otherwise be the target of an Update next. TLC finds no
  counterexample to the property without it on two AppContexts, nor with a crash on these.
* `DeleteAfterRunning`. `Confirmed`: when an UpdateDelete is in a queue the pods of the new
  AppContext run, and go on running, since what a deletion may stop is `Dropped` and they are `Brought`.
  `HandsHeld`: what an Update is done with is on the clusters. `PodsConfirmed` takes the pods that are
  missing from the list of pods for running ones, so this matters: a placement that is passed over has to be
  on the clusters. `AllModified` leaves none to be passed over. It is a real hypothesis: an Update may overtake the installation of
  the AppContext it replaces, in another thread, and then it skips what is not deployed yet (see
  [findings](#findings)). `NoneDropsBrought` excludes chains: in A to B to C the deleting half of
  B's update to C may run while that of A's update to B is still going on.
* The second theorem trades these for calls that wait. `Solo`: there is one event to be worked off, or an
  UpdateDelete and the Update whose thread waits for it. `SharedThere`: what an Update leaves to the AppContext it
  replaces is on the clusters, since that one was at rest when the call came. `Sure` is `Confirmed`, down to the single
  check of a pod.
* `Converged`. `Placing` relates the state of each AppContext to the clusters. `Standing`: what is instantiated has
  what it lists, except what it leaves to an AppContext it replaces and that is still to be installed
  (`KeptBy`); whatever is on the clusters is on the list of an AppContext whose state covers it.
  `Inherited`: what an UpdateDelete retains has an heir of higher rank by then. `SkipsPlaced`, `HandsPlaced`, `VerdictsPlaced`
  follow a placement from the Skip bits through the routines to the verdict. One AppContext may leave a
  placement to a second and that one to a third; when rsync is at rest the argument goes by the
  least rank among the AppContexts that lack something they list (`LeastNatural`), which has nobody to leave it to.
* States satisfy the hypotheses: before the proofs TLC found the invariants to hold on instances that are not among
  the runs (three AppContexts in a chain of two updates, two updates of one AppContext, the same update twice,
  an update to an AppContext that is installed as well).
* None of the last three theorems covers the rollback of `rsync_update`, which goes from A to B and back:
  it is a circle, and brings what the update drops. There the two properties are TLC's.

### AppContexts, DIGs and clouds

`AppContextStore_proofs` has the lemmas both controllers need: types (`StoreInv`), what appending to a
StateInfo does, and the argument about terminations. `Doomed(c)`: a Terminate of `c` waits and will not be
passed over, or rsync is past it. It is kept by every step while nobody stops anything, since no event
but Terminate is accepted in Terminated and TerminateFailed, and a Terminate is passed over silently only in the state
Created, which `Underway(c)` excludes: rsync was told to deploy `c` before.

| theorem | shows | excluded |
|---|---|---|
| `DigLifecycle_proofs.TypeCorrect` | `TypeOK` | - |
| `StatusIsShared` | `StatusShared` | - |
| `ContextHasOneOwner` | `OneOwner` | - |
| `TerminatedIsLeavingSafe` | `TerminatedIsLeaving` | operation Stop |
| `KnownResourcesSafe` | `KnownResources` | concurrent, crash; operation Delete |
| `LogicalCloud_proofs.Invariance`, `TypeCorrect` | `Inv`, `TypeOK` | - |
| `CertificatesIssued` | `ConfigIsCertified` | - |
| `TerminatedIsLeavingSafe` | `TerminatedIsLeaving` | operation Stop |
| `ResourcesRecordedSafe` | `ResourcesRecorded` | a second client, crash, fail; operation Delete |
| `StatusCollectedSafe` | `StatusCollected` | a second client, crash, fail; operation Delete |

* Records of DIGs. With handlers that overwrite each other the record alone is no inductive subject: a
  copy read long ago may be written back. `VersionInv` therefore speaks of every *version* of a
  record (what is stored, what a handler has read, what it is going to write): each reports
  to one AppContext, and versions of different DIGs share no AppContext. A version a handler makes is
  `Inherited` from an earlier one and new AppContexts. From it follow two theorems, with any
  number of handlers and every fault. They do not say that no entry is lost: with two handlers entries are
  (see [findings](#findings)).
* `TerminatedIsLeaving`. `Promised(h)`: a handler that is going to record a termination
  works on an AppContext that is `Underway`, and `Doomed` after the call; one that records an
  instantiation makes its AppContext underway. `Kept(s)` says the same of what is recorded.
  With Stop and one client the property still holds in TLC's runs (its last disjunct is about the stop flag),
  but rsync may then ignore a Terminate and the flag be cleared later, which the argument excludes.
* `KnownResources`. `Grown(h)`: what a handler is going to write names all the record names by then, and its
  new AppContext in the end. It is false with concurrent handlers (the later insert drops the entry of
  the earlier), with a handler that dies between the call and the insert, and with Delete, which removes the record
  of AppContexts rsync may not have removed.
* Clouds. `Inv` has what a handler knows at each step (`Coherent`); `CertificateInv` adds that
  the certificates kept in references have been issued.
* `ResourcesRecorded`. `SoleInv` says of each queue (`QueueInv`) that a request to deploy comes first and
  stands alone, and that after it an AppContext is only removed; of each update (`UpdateInv`) that it is
  neither stopped nor passed over and that what it replaces goes in the end; of the handler (`Plan`) that every
  AppContext is current, being made by it, or `Past`: gone from the clusters, on its way out, stopped, or
  being replaced. The steps fall into *calm* ones, which at most queue a removal (`CalmKeeps`), the call
  that deploys (`CallMakesSole`), and what rsync does to the AppContext it works on, where deploying,
  updating and removing are three lemmas. Failing calls, stops, updates and changes of the
  permissions and references are all included, and any number of AppContexts and clusters.
* `StatusCollected`. `CollectInv`: until the second update, the clusters of the current AppContext report to
  the collector or to nobody (`Fit`). The first update is the case that matters: the clusters that stay are
  passed over and keep the label of the AppContext that is replaced, which is the collector; those that are
  `Added` get its label from the new AppContext, whose `statusCtx` names it, too. The count of updates is
  a cardinality; `UpdatesCount` says what one more entry does to it.

### Placement and migration (`Migration_proofs`)

| theorem | shows | excluded |
|---|---|---|
| `Invariance` | `IInv` | - |
| `TypeCorrect` | `TypeOK` | - |
| `OnePlacementSafe` | `OnePlacement` | a second client |
| `UnmovableStaysSafe` | `UnmovableStays` | a second client; Updates called by clients |

`IInv == TypeOK /\ ContextInv /\ RecordInv /\ StackInv /\ PinInv`. Every step keeps it and is `Steady`: an AppContext
rsync has been given (`Handed`) lists the same clusters for ever.

* With any number of handlers, `ContextInv` says that rsync is given at most one cluster for an app, and that
  one of its candidates; `StackInv`, that no two frames make one AppContext. The rest of `IInv` is about one handler.
* *One cluster for each app.* `deleteExtraClusters` brings what the controllers leave down to one, so what has to be shown is
  that they leave something. `PlaceInv(f)`, for a frame at each of its steps: before the filter an app has
  all its candidates, after it each has some but the one that is to be placed by a migration. The filter fails on an empty set,
  but it judges only the apps that leave; the others are cut down to the cluster stored with their intent.
  `PinInv` says that this cluster is one of their candidates, for every DIG that is selected: a selected DIG has an
  AppContext on the cluster that is looked at (the refresh gives its intents clusters of that one), or was
  selected before, and the flag is reset before the clusters it stands for are forgotten. `ReadInv(k)` carries this
  through the reads: what has been read holds candidates, and what has not been read still does. That is where a
  second handler comes in: it may reset an intent between two accesses of the first, and then
  `OnePlacement` is false (see [findings](#findings)).
* *What must not be moved stays.* `RoomInv` is about one handler. `AgreeInv`: all AppContexts of a DIG
  that rsync was given agree on the apps that are not movable. `HoldInv`: the intents of a selected DIG hold just the clusters of
  its recorded AppContext. `StayInv(f)`: the Update of a frame is for a DIG that was selected and has a
  record, an Instantiate for one without any AppContext rsync knows of, which `KnownInv` ensures: what
  rsync was given is recorded, or about to be. TLC has a counterexample for each of the
  two exclusions: a second handler consumes the flags of the first; and an Update called by a client may
  move every app, so that the next refresh may meet two AppContexts that differ.
* What a selection contains beyond being apps on the cluster that may leave is recursion over data
  (`SelectionsAre` is all the proofs use).

### The others

| theorem | shows | excluded |
|---|---|---|
| `DependManager_proofs.Invariance` | `TypeInv /\ HookInv /\ OrderInv` | - |
| `ReadyOrderSafe`, `HookOrderSafe` | `ReadyOrder`, `HookOrder` | - |
| `StatusNotify_proofs.TypeCorrect` | `TypeOK` | - |
| `UnsubscribeIsHeardSafe` | `UnsubscribeIsHeard` | - |
| `ClientsCoveredSafe` | `ClientsCovered` | twice |
| `ResourceStore_proofs.TypeCorrect` | `TypeOK` | - |
| `SerialInvariance` | `IInv` | concurrent |
| `NoOrphanSafe`, `KindsKeptSafe` | `NoOrphan`, `KindsKept` | concurrent |

* `ReadyOrder`. Nothing is assumed about what `ClearChannels` makes of the lists. `WasReady(on)`: app `on`
  was ready on each of its clusters. A callback in its loop, a message in a channel and a sender all imply
  it for the channel's app, because a notifier sends only to channels of its own app and kind, whichever
  elements it meets.
* `HookOrder` follows from where the routine of a cluster is (`HookInv`).
* `UnsubscribeIsHeard`. `StreamsKnown`: every stream that is served for a listener is the one in
  rsync's map, and a listener has one; `ListenersAlerted`: a listener leaves only after its first alert, and
  by then the Alert handler had entered its stream. So the handler is there to receive, unless a restart of
  rsync has broken the stream.
* `ClientsCovered`. `OneCallPerClient`: an id leads to one registration, and none is registered while a call
  is under way. This is what the comment at `statusnotifyserver.go:58` asks clients for, and false with
  "twice".
* `NoOrphan`, `KindsKept`. Documents are matched in the order of their insertion, an assumption about MongoDB
  (`mongo.go:787`, `FindOneAndUpdate` without a sort). `Ancestors`: whatever is part of a document's key has its document at or before it;
  `Distinct`: no two documents have one key; hence `FirstMatchExact`: the first match of a key that
  has a document is that document. `Prepared`: what a call has found in its first step is still there in
  its second, which is false with "concurrent" (two calls of the store may overlap).

### What stays with TLC

* Liveness under fairness: `EventuallyHandled`, `OperationEnds`, `EveryClientTold`, `SchemaSettles`. The provers
  at hand do not deal with ENABLED.
* What a recursive definition computes: `DependManager.TypeOK` (`SelectSeq` in `Cleared`) and
  `Migration.LessImportantFirst`, `Migration.SelectionSuffices` (`FoldLeft`, `SetToSeqs` over data).
* `Converged` and `DeleteAfterRunning` with rollbacks. An AppContext that comes back finds the Skip bits of its
  former life, which updates never reset; what they say about the clusters depends on how far each of the two
  AppContexts was worked off, and no rank orders them. `RetainedStays` with "phase" and crashes or rollbacks.
* `TerminatedIsLeaving` with Stop, for the reason above.
* `LogicalCloud.ResourcesRecorded` with a second client, a crash, a failing operation or Delete: TLC has a
  counterexample for each on the instance of `cloud`. `LogicalCloud.StatusCollected` is false with a second client
  or a crash, too; with failing operations or Delete TLC finds no counterexample, but the proof rests on
  `SoleInv`, which does not hold then.

## Findings

`finding_lost_notification` ends in a counterexample. `ClearChannels` (`depend.go:150`) shifts the slice
over which `NotifyStatus` loops without the lock; the element that moves to a place the loop has passed is
never notified. Of three apps that wait for one to be deployed, one then waits until the operation is
cancelled. The comment at `routines.go:1099`: "Notify dependency that app got deployed".

Further disagreements came up while modelling. Each property is defined in its module and holds in the
listed runs because these leave out the circumstance; adding the circumstance to the run and the property to
its cfg brings the counterexample back.

| property | what happens | how to see it |
|---|---|---|
| `RsyncContext.OneMainThread` | `context.go:125`: "One main thread for AppContext"; `RestartAppContext` leaves `Running` false, the next request starts a second thread | `rsync_events` with fault `crash`, `MaxCrashes = 1` |
| `RsyncContext.DeleteAfterRunning` | `src/README.md:5` promises deletion after the new workload runs; a failed apply leaves an empty pod list, which counts as "all running" (`routines.go:505`) | `rsync_update` with fault `apply` |
| `RsyncContext.DeleteAfterRunning` | the same without a fault: an update that overtakes the installation of the AppContext it replaces passes over what both list, and deletes before that runs | `rsync_update` with `Changed = {}` |
| `RsyncContext.ModifiedIsApplied` | `routines.go:1022` skips resources "that match exactly"; Skip bits set by `updateDeletePhase` are never reset, so a rollback that comes soon skips others, too | `rsync_update` |
| `DigLifecycle.SameStatusContext` | `state/types.go:12`; revisions start again with each life, a Rollback may fetch an AppContext of a former one | `dig_serial` |
| `DigLifecycle.DeletedIsGone` | `deployment_intent_groups.go:334` verifies the last AppContext only and deletes all | `dig_serial` with Delete |
| `LogicalCloud.ReferencesRemovable` | a rebuild that fails after the old AppContext was deleted leaves a cloud whose references can never be removed | `cloud_faults` with one client, `MaxActions = 4` |
| `LogicalCloud.KubeconfigsComplete` | `apply.go:1035` returns after the first cluster reached over Git | `cloud` with two of them |
| `LogicalCloud.TerminatedIsLeaving` | with two clients and Stop one clears the flag the other relies on | `cloud_faults` with Stop, `MaxActions = 4` |
| `DigLifecycle.KnownResources` | every insert replaces the whole StateInfo: of two handlers the later drops the AppContext the earlier has deployed; a handler that dies between the call of rsync and the insert leaves an AppContext nobody knows of | `dig_concurrent` without `crash` and Delete; `dig_serial` with fault `crash` |
| `Migration.OnePlacement` | `hpa-plc/internal/action/action.go:60`: two Updates of one selected DIG; one resets the intent of an app before the other reads it, which pins the app to the empty cluster name and hands rsync an AppContext with no cluster for it | `migration` with two clients, Operations `Instantiate` and `Update`, `MaxContexts = 4`; a DIG of a1 and a2 and a DIG of f, all movable; capacity 4 on x and 3 on y, f needs 3 |
| `Migration.RoomIsMade` | `migration/internal/action/action.go:198`: a second instantiation selects an app again that is already on its way out | `migration` with two clients |
| `StatusNotify.ClientsCovered` | a client that registers twice at a time is deregistered once | `notify` with fault `twice` |
| `ResourceStore.NoOrphan`, `KindsKept` | `mongo.go:900`: two overlapping calls | `store` with fault `concurrent`, two clients |
| `DependManager.DeployedOrder` | an app counts as deployed when its goroutines were launched, before anything was applied | `depend` |

Seen with the models, without a property of their own: `checkStateChange` returns false for `skip` for a
second Terminate of a terminated AppContext, so TerminateFailed is written, which the comment at
`routines.go:81` excludes; `break` after a failed phase leaves the switch
and not the loop, so the operation runs with the op of an earlier event (`routines.go:397`);
a Terminate that arrives between `CheckSupported` and `Arm` interrupts nothing (`routines.go:365`),
and one whose event has already been taken up interrupts its own deletion (`routines.go:126`);
Rollback has no check of the state; Migrate writes revision 0 on both sides, as Terminate does, so
a later Rollback cannot name what a Migrate made; Delete of an approved or updated DIG removes
the record without looking at any AppContext; a Migrate that is refused leaves its AppContext in
etcd (`update.go:92`); dcm's update looks at the status alone, so a cloud with a Terminate in the queue is
updated; `StatusDeregister` of the last client closes a stream that was never set in its copy of the record
(`statusnotifyserver.go:560`); after a restart of rsync the server never reconnects
(`statusnotifyserver.go:398`); a failed registration leaves the client's id registered; the timer sleeps
the elapsed time instead of the remaining; the registration of a schema is locked per process only, and a
changed segment is refused at an upgrade (`schema.go:195`); a cluster that qualifies only in
the first round of the migration filter stays among the candidates; the selection counts requests without replicas as
required, and limits times replicas as freed; it takes apps by cpu until cpu and memory suffice, so with both it may take one that
could stay: of A, B, C with (cpu, memory) (5, 1), (4, 1), (1, 5) it takes all three for a need of (5, 5), though A and C
suffice (`migration/internal/action/action.go:218`, `:257`; `SelectionSuffices` claims that a selection is enough, not
that it is least); a dcm that dies between the inserts of `logicalcloud.go:80` and `:118` leaves a cloud
that can neither be created, instantiated nor deleted, since `GetState` fails.

## What is left out

* In the engine, inside a placement: order of resources, CRDs, retries of one resource (hooks and
  dependencies are in `DependManager`). The structure of apps and clusters in an update (Skip bits per
  cluster) is flattened to placements.
* Failing reads and writes of etcd, other than with a done context. A queue that cannot be read is
  taken for an empty one (`queueUtils.go:93`), and a thread that gives up for such an error
  deletes the active record of an AppContext that may have pending events.
* In `DigLifecycle`: placement and action controllers (data; placement is in `Migration`), child AppContexts of
  a DIG in Terminate, validation of the logical cloud, restarts of rsync.
* In `LogicalCloud`: quotas, key-values, the PUT of a cloud, private keys, two calls of Create that both
  find no cloud of the name. In `Migration`: several intents
  per DIG; interleavings with the writes of `MigrationApps`, which is one step; the run has one handler
  (`OnePlacement` and `UnmovableStays` do not hold with two: each consumes flags and clusters the other relies on). In `StatusNotify`: the wait group of the handler, and sds, a third kind of
  listener that looks at the status before it waits for an alert. In `ResourceStore`: RemoveAll,
  RemoveTag, encryption, empty names.
* The components marked `not_modelled` in `PROJECT.json`, each with its reason. Most of the repository's
  lines are there: generated gRPC code, REST handlers and documents without behaviour of their own (clm, ncm,
  intents, istio and action controllers), git and cloud clients, command-line tools. The models map under a tenth of all
  implementation lines, and nearly all of those in which processes meet; modelling one more
  CRUD package would add lines and nothing to check. Hazards found in them are listed under `hazards`
  with a note.

## Plan

Done: the engine, its promise and the proof that it keeps it; DIGs and logical clouds on top of the promise;
dependencies, placement and migration, notifications, the store; theorems about seven of the nine.

Next:

1. `StatusCollected` with failing operations and Delete.
2. `Converged` and `DeleteAfterRunning` with rollbacks: an invariant about what Skip bits of a former life say.
3. `TerminatedIsLeaving` with Stop and one client, for DIGs and for clouds.
