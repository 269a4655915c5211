----------------------------- MODULE DependManager -----------------------------
(***************************************************************************)
(* How rsync applies the apps of one AppContext: the goroutines that       *)
(* run(OpApply) starts for every app and every cluster of an app           *)
(* (rsync/pkg/context/routines.go, cluster.go), the hooks of a Helm chart, *)
(* and the dependency manager that makes an app wait until another one is  *)
(* deployed or ready (rsync/pkg/depend/depend.go).                         *)
(*                                                                         *)
(* A dependency is the channel AddDependency makes for it.  The manager's  *)
(* lists are Go slices: ClearChannels shifts the elements of the array     *)
(* that they share with a notifier in the middle of its loop.              *)
(*                                                                         *)
(* Definitions marked "variant" are faulty forms of the definition that    *)
(* follows them; no specification uses them.                               *)
(***************************************************************************)
EXTENDS Integers, Sequences, FiniteSets

CONSTANTS
    Apps,          \* apps of the AppContext
    AppOrder,      \* the order run starts them in
    Clusters,
    ClustersOf,    \* the clusters an app is placed on
    Dependencies,  \* set of [app, on, status]: app waits until on has the status
    Groups,        \* [Apps -> SUBSET Stages]: the resources and hooks of an app
    Callbacks,     \* status callbacks that may run at a time
    Event,         \* "Instantiate" or "Update"
    Faults,        \* subset of {"fail", "terminate"}
    MaxSenders,    \* senders of a channel that are counted
    MaxLapses      \* times a cluster loses what was ready

Kinds == {"Deployed", "Ready"}

\* What a cluster routine applies, in this order.
Stages == {"crd", "pre", "main", "post"}

ASSUME PlacementAssumption ==
    /\ AppOrder \in Seq(Apps)
    /\ \A a \in Apps : \E i \in DOMAIN AppOrder : AppOrder[i] = a
    /\ ClustersOf \in [Apps -> SUBSET Clusters]

ASSUME DependencyAssumption ==
    /\ Dependencies \subseteq [app : Apps, on : Apps, status : Kinds]
    /\ Groups \in [Apps -> SUBSET Stages]
    /\ Event \in {"Instantiate", "Update"}
    /\ MaxSenders \in Nat \ {0}
    /\ MaxLapses \in Nat

\* The orchestrator's checkDependency, which refuses to make an AppContext whose
\* apps wait for each other in a circle: some numbering of the apps grows along
\* every dependency.
CheckDependency ==
    \E number \in [Apps -> 1..Cardinality(Apps)] :
        \A d \in Dependencies : number[d.app] > number[d.on]

ASSUME AcyclicAssumption == CheckDependency

VARIABLES
    op,        \* the operation: "idle", "running", "ended"
    ctx,       \* its context: "live" or "done"
    list,      \* deployedCh and readyCh: [Kinds -> [Apps -> Seq(Apps)]], as the maps see them
    appCh,     \* the channels an app still has registered
    app,       \* the goroutine of an app
    work,      \* the goroutine of an app on a cluster
    buffer,    \* channels (of capacity one) that hold a message
    senders,   \* goroutines of NotifyStatus that have not sent yet, by channel
    callback,  \* goroutines of ResourcesReady
    applied,   \* stages applied, by app and cluster
    ready,     \* stages the cluster reports as ready or succeeded
    tracker,   \* the status tracker in place: "none", "hook", "main"
    flag,      \* resourcesready of an app on a cluster, in etcd
    lapses,    \* how often main resources stopped being ready
    success,   \* stages whose readiness is recorded in etcd
    seen       \* history: placements whose main resources were ready at some time

dmVars == <<list, appCh, buffer, senders>>
clusterVars == <<applied, ready, lapses, tracker>>
vars == <<op, ctx, app, work, callback, flag, success, seen, dmVars, clusterVars>>

Placements == {pl \in Apps \X Clusters : pl[2] \in ClustersOf[pl[1]]}
Channel(k, a, on) == [app |-> a, on |-> on, status |-> k]
Registered(a) == {d \in Dependencies : d.app = a}

NoGoroutine == [pc |-> "none"]

(***************************************************************************)
(* run: AddDependency for every app in order, then a goroutine per app.    *)
(***************************************************************************)
Init ==
    /\ op = "idle"
    /\ ctx = "live"
    /\ list = [k \in Kinds |-> [a \in Apps |-> << >>]]
    /\ appCh = [a \in Apps |-> {}]
    /\ app = [a \in Apps |-> NoGoroutine]
    /\ work = [pl \in Placements |-> "none"]
    /\ buffer = {}
    /\ senders = [d \in Dependencies |-> 0]
    /\ callback = [n \in Callbacks |-> NoGoroutine]
    /\ applied = [pl \in Placements |-> {}]
    /\ ready = [pl \in Placements |-> {}]
    /\ tracker = [pl \in Placements |-> "none"]
    /\ flag = [pl \in Placements |-> FALSE]
    /\ success = [pl \in Placements |-> {}]
    /\ lapses = 0
    /\ seen = {}

Dependents(k, on) == SelectSeq(AppOrder, LAMBDA a : Channel(k, a, on) \in Dependencies)

Run ==
    /\ op = "idle"
    /\ op' = "running"
    /\ list' = [k \in Kinds |-> [on \in Apps |-> Dependents(k, on)]]
    /\ appCh' = [a \in Apps |-> Registered(a)]
    /\ app' = [a \in Apps |-> [pc |-> "start"]]
    /\ UNCHANGED <<ctx, work, buffer, senders, callback, flag, success, seen, clusterVars>>

\* What runCluster applies for an app, and in which order.  An update applies the
\* changed main resources only.
Rank == [start |-> 0, crd |-> 1, pre |-> 2, main |-> 3, post |-> 4]

StagesOf(a) == IF Event = "Instantiate" THEN Groups[a] ELSE Groups[a] \cap {"main"}

After(a, s) ==
    LET later == {t \in StagesOf(a) : Rank[t] > Rank[s]}
    IN  IF later = {} THEN "done" ELSE CHOOSE t \in later : \A u \in later : Rank[t] <= Rank[u]

(***************************************************************************)
(* WaitForDependency.  The channels are collected once; the wait ends with *)
(* the last of them or with the context, and then ClearChannels runs.      *)
(***************************************************************************)
\* What is left of a slice in the map after the entries of app a were removed
\* from a copy of its header: the elements behind an entry move up, and the
\* places at the end keep what they held.
Cleared(s, a) ==
    LET kept == SelectSeq(s, LAMBDA x : x # a)
        last == CHOOSE i \in 0..Len(s) :
                    /\ i > 0 => s[i] # a
                    /\ \A j \in (i + 1)..Len(s) : s[j] = a
    IN  [j \in 1..Len(s) |->
            IF j <= Len(kept) THEN kept[j] ELSE IF j > last THEN s[j] ELSE s[last]]

ClearChannels(a) ==
    /\ list' = [k \in Kinds |-> [on \in Apps |-> Cleared(list[k][on], a)]]
    /\ appCh' = [appCh EXCEPT ![a] = {}]

\* runApp starts the goroutines of the clusters and returns to the caller, which
\* tells the dependents that the app is deployed: NotifyAppliedStatus takes the
\* header of the list, of which only the length is its own.
Launched(a) == [pl \in Placements |-> IF pl[1] = a THEN After(pl[1], "start") ELSE work[pl]]

StartNotify(k, a) ==
    IF list[k][a] = << >> THEN [pc |-> "done"]
    ELSE [pc |-> "notify", kind |-> k, on |-> a, length |-> Len(list[k][a]), next |-> 1]

StartApp(a) ==
    /\ app[a].pc = "start"
    /\ IF appCh[a] = {}
       THEN /\ app' = [app EXCEPT ![a] = StartNotify("Deployed", a)]
            /\ work' = Launched(a)
       ELSE /\ app' = [app EXCEPT ![a] = [pc |-> "wait", cases |-> appCh[a]]]
            /\ UNCHANGED work
    /\ UNCHANGED <<op, ctx, callback, flag, success, seen, dmVars, clusterVars>>

Receive(a) ==
    /\ app[a].pc = "wait"
    /\ \E d \in app[a].cases \cap buffer :
        /\ buffer' = buffer \ {d}
        /\ app' = [app EXCEPT ![a].cases = @ \ {d}]
    /\ UNCHANGED <<op, ctx, list, appCh, senders, work, callback, flag, success, seen, clusterVars>>

\* All received: the channels are removed, the clusters start.
DependencyMet(a) ==
    /\ app[a].pc = "wait"
    /\ app[a].cases = {}
    /\ ClearChannels(a)
    /\ app' = [app EXCEPT ![a] = StartNotify("Deployed", a)]
    /\ work' = Launched(a)
    /\ UNCHANGED <<op, ctx, buffer, senders, callback, flag, success, seen, clusterVars>>

\* variant: the context is not among the cases of the select
WaitUncancelled(a) == FALSE

\* The context ends the wait; the dependents of the app are notified all the same.
WaitCancelled(a) ==
    /\ app[a].pc = "wait"
    /\ app[a].cases # {}
    /\ ctx = "done"
    /\ ClearChannels(a)
    /\ app' = [app EXCEPT ![a] = StartNotify("Deployed", a)]
    /\ UNCHANGED <<op, ctx, buffer, senders, work, callback, flag, success, seen, clusterVars>>

(***************************************************************************)
(* NotifyStatus: one goroutine per element, which blocks while the channel *)
(* holds a message.  The element is read when the loop gets to it.         *)
(***************************************************************************)
Notified(g) ==
    LET d == Channel(g.kind, list[g.kind][g.on][g.next], g.on)
    IN  [senders EXCEPT ![d] = IF @ < MaxSenders THEN @ + 1 ELSE @]

Advanced(g) == IF g.next < g.length THEN [g EXCEPT !.next = @ + 1] ELSE [pc |-> "done"]

NotifyDeployed(a) ==
    /\ app[a].pc = "notify"
    /\ senders' = Notified(app[a])
    /\ app' = [app EXCEPT ![a] = Advanced(app[a])]
    /\ UNCHANGED <<op, ctx, list, appCh, buffer, work, callback, flag, success, seen, clusterVars>>

Send(d) ==
    /\ senders[d] > 0
    /\ d \notin buffer
    /\ senders' = [senders EXCEPT ![d] = @ - 1]
    /\ buffer' = buffer \cup {d}
    /\ UNCHANGED <<op, ctx, list, appCh, app, work, callback, flag, success, seen, clusterVars>>

(***************************************************************************)
(* runCluster on one cluster: the stages of the app in their order, the    *)
(* hooks with a wait that polls what the status callback has recorded.     *)
(* Hooks are taken to be of a kind that is waited for (Job, Pod, ...).     *)
(* Getting a client is part of the first stage: both may fail.             *)
(***************************************************************************)
WaitOf(s) == IF s = "pre" THEN "prewait" ELSE "postwait"
Hook(pl) == IF work[pl] = "prewait" THEN "pre" ELSE "post"

ApplyStage(pl) ==
    /\ work[pl] \in Stages
    /\ applied' = [applied EXCEPT ![pl] = @ \cup {work[pl]}]
    /\ tracker' = [tracker EXCEPT ![pl] =
                        CASE work[pl] = "pre" -> "hook" [] work[pl] = "main" -> "main" [] OTHER -> @]
    /\ work' = [work EXCEPT ![pl] =
                    IF @ \in {"pre", "post"} THEN WaitOf(@) ELSE After(pl[1], @)]
    /\ UNCHANGED <<op, ctx, app, callback, ready, lapses, flag, success, seen, dmVars>>

\* variant: a hook is waited for until it is applied
HookReadyApplied(pl) ==
    /\ work[pl] \in {"prewait", "postwait"}
    /\ ctx = "live"
    /\ Hook(pl) \in applied[pl]
    /\ work' = [work EXCEPT ![pl] = After(pl[1], Hook(pl))]
    /\ tracker' = [tracker EXCEPT ![pl] = IF work[pl] = "prewait" THEN "none" ELSE @]
    /\ UNCHANGED <<op, ctx, app, callback, applied, ready, lapses, flag, success, seen, dmVars>>

\* The poll of WaitResourceDependency finds the hook ready.
HookReady(pl) ==
    /\ work[pl] \in {"prewait", "postwait"}
    /\ ctx = "live"
    /\ Hook(pl) \in success[pl]
    /\ work' = [work EXCEPT ![pl] = After(pl[1], Hook(pl))]
    /\ tracker' = [tracker EXCEPT ![pl] = IF work[pl] = "prewait" THEN "none" ELSE @]
    /\ UNCHANGED <<op, ctx, app, callback, applied, ready, lapses, flag, success, seen, dmVars>>

\* The first error cancels the context of all (errgroup).  An installation that
\* handled some of the main resources leaves the tracker; pre-install removes it.
FailCluster(pl) ==
    /\ \/ work[pl] \in Stages /\ ("fail" \in Faults \/ ctx = "done")
       \/ work[pl] \in {"prewait", "postwait"} /\ ctx = "done"
    /\ work' = [work EXCEPT ![pl] = "failed"]
    /\ ctx' = "done"
    /\ CASE work[pl] \in {"pre", "prewait"} -> tracker' = [tracker EXCEPT ![pl] = "none"]
         [] work[pl] = "main" /\ Event = "Instantiate" ->
                \E t \in {"main", tracker[pl]} : tracker' = [tracker EXCEPT ![pl] = t]
         [] OTHER -> UNCHANGED tracker
    /\ UNCHANGED <<op, app, callback, applied, ready, lapses, flag, success, seen, dmVars>>

\* g.Wait returns to the main thread.
End ==
    /\ op = "running"
    /\ \A a \in Apps : app[a].pc = "done"
    /\ \A pl \in Placements : work[pl] \in {"none", "done", "failed"}
    /\ op' = "ended"
    /\ UNCHANGED <<ctx, app, work, callback, flag, success, seen, dmVars, clusterVars>>

\* A Terminate of the AppContext cancels the operation that runs.
Terminate ==
    /\ "terminate" \in Faults
    /\ op = "running" /\ ctx = "live"
    /\ ctx' = "done"
    /\ UNCHANGED <<op, app, work, callback, flag, success, seen, dmVars, clusterVars>>

(***************************************************************************)
(* The cluster and its monitor.  A report stores what is ready and calls   *)
(* ResourcesReady for the AppContext that collects the status, which is    *)
(* another one when the operation is an update: its manager is not ours.   *)
(* The waits of hooks are looked up under a key they are never registered  *)
(* under, so a callback only serves the apps that wait for this one.       *)
(***************************************************************************)
BecomeReady(pl, s) ==
    /\ s \in applied[pl] \ ready[pl]
    /\ ready' = [ready EXCEPT ![pl] = @ \cup {s}]
    /\ seen' = IF s = "main" THEN seen \cup {pl} ELSE seen
    /\ UNCHANGED <<op, ctx, app, work, callback, applied, lapses, tracker, flag, success, dmVars>>

Lapse(pl) ==
    /\ lapses < MaxLapses
    /\ list["Ready"][pl[1]] # << >>
    /\ "main" \in ready[pl]
    /\ ready' = [ready EXCEPT ![pl] = @ \ {"main"}]
    /\ lapses' = lapses + 1
    /\ UNCHANGED <<op, ctx, app, work, callback, applied, tracker, flag, success, seen, dmVars>>

\* The monitor has something to tell: what is recorded is not what is the case.
Stale(pl) ==
    \/ success[pl] # ready[pl] \cap {"pre", "post"}
    \/ tracker[pl] = "main" /\ flag[pl] # ("main" \in ready[pl])

Report(pl) ==
    /\ Stale(pl)
    /\ tracker[pl] # "none"
    /\ success' = [success EXCEPT ![pl] = ready[pl] \cap {"pre", "post"}]
    /\ flag' = [flag EXCEPT ![pl] = IF tracker[pl] = "main" THEN "main" \in ready[pl] ELSE @]
    /\ IF Event = "Instantiate" /\ list["Ready"][pl[1]] # << >>
       THEN \E n \in Callbacks :
                /\ callback[n].pc \in {"none", "done"}
                /\ callback' = [callback EXCEPT ![n] = [pc |-> "check", on |-> pl[1]]]
       ELSE UNCHANGED callback
    /\ UNCHANGED <<op, ctx, app, work, seen, dmVars, clusterVars>>

\* variant: ready on one of its clusters is enough
CheckReadySomewhere(n) ==
    /\ callback[n].pc = "check"
    /\ LET on == callback[n].on
       IN  callback' = [callback EXCEPT ![n] =
                IF \E c \in ClustersOf[on] : flag[<<on, c>>]
                THEN StartNotify("Ready", on) ELSE [pc |-> "done"]]
    /\ UNCHANGED <<op, ctx, app, work, flag, success, seen, dmVars, clusterVars>>

\* ResourcesReady for an app that others wait for, when it is ready everywhere.
CheckReady(n) ==
    /\ callback[n].pc = "check"
    /\ LET on == callback[n].on
       IN  callback' = [callback EXCEPT ![n] =
                IF \A c \in ClustersOf[on] : flag[<<on, c>>]
                THEN StartNotify("Ready", on) ELSE [pc |-> "done"]]
    /\ UNCHANGED <<op, ctx, app, work, flag, success, seen, dmVars, clusterVars>>

NotifyReady(n) ==
    /\ callback[n].pc = "notify"
    /\ senders' = Notified(callback[n])
    /\ callback' = [callback EXCEPT ![n] = Advanced(callback[n])]
    /\ UNCHANGED <<op, ctx, list, appCh, app, work, buffer, flag, success, seen, clusterVars>>

AppStep(a) ==
    \/ StartApp(a) \/ Receive(a) \/ DependencyMet(a) \/ WaitCancelled(a) \/ NotifyDeployed(a)

ClusterStep(pl) == ApplyStage(pl) \/ HookReady(pl) \/ FailCluster(pl)

Next ==
    \/ Run \/ End \/ Terminate
    \/ \E a \in Apps : AppStep(a)
    \/ \E pl \in Placements : ClusterStep(pl) \/ Lapse(pl) \/ Report(pl)
    \/ \E pl \in Placements, s \in Stages : BecomeReady(pl, s)
    \/ \E n \in Callbacks : CheckReady(n) \/ NotifyReady(n)
    \/ \E d \in Dependencies : Send(d)

Spec == Init /\ [][Next]_vars

\* The scheduler runs some goroutine as long as one can go on, and a cluster gets
\* ready what it is given: none of these steps comes back, so no goroutine is left
\* out for ever.  The callbacks go on too, and what changes on a cluster is reported
\* at last, though it may have to wait for a callback again and again.
Progress ==
    \/ Run \/ End
    \/ \E a \in Apps : AppStep(a)
    \/ \E pl \in Placements : ClusterStep(pl) \/ \E s \in Stages : BecomeReady(pl, s)
    \/ \E d \in Dependencies : Send(d)

FairSpec ==
    /\ Spec
    /\ WF_vars(Progress)
    /\ WF_vars(\E n \in Callbacks : CheckReady(n) \/ NotifyReady(n))
    /\ SF_vars(\E pl \in Placements : Report(pl))

(***************************************************************************)
(* Properties.                                                             *)
(***************************************************************************)
Goroutine ==
    [pc : {"none", "start", "done"}]
        \cup [pc : {"wait"}, cases : SUBSET Dependencies]
        \cup [pc : {"check"}, on : Apps]
        \cup [pc : {"notify"}, kind : Kinds, on : Apps, length : Nat, next : Nat]

\* Every variable is in its range; in particular no element of a shifted list is
\* a dependency that does not exist.
TypeOK ==
    /\ op \in {"idle", "running", "ended"} /\ ctx \in {"live", "done"}
    /\ list \in [Kinds -> [Apps -> Seq(Apps)]]
    /\ \A k \in Kinds, on \in Apps : \A i \in DOMAIN list[k][on] :
            Channel(k, list[k][on][i], on) \in Dependencies
    /\ appCh \in [Apps -> SUBSET Dependencies]
    /\ app \in [Apps -> Goroutine] /\ callback \in [Callbacks -> Goroutine]
    /\ work \in [Placements -> Stages \cup
                    {"none", "prewait", "postwait", "done", "failed"}]
    /\ buffer \subseteq Dependencies /\ senders \in [Dependencies -> 0..MaxSenders]
    /\ applied \in [Placements -> SUBSET Stages] /\ ready \in [Placements -> SUBSET Stages]
    /\ tracker \in [Placements -> {"none", "hook", "main"}] /\ lapses \in 0..MaxLapses
    /\ flag \in [Placements -> BOOLEAN] /\ success \in [Placements -> SUBSET Stages]
    /\ seen \subseteq Placements

Started(a) == \E pl \in Placements : pl[1] = a /\ work[pl] # "none"

\* An app that waits for another one to be ready is not started on any cluster
\* before the other one was ready on each of its clusters, whatever the order of
\* reports, callbacks, goroutines and cancellations.
ReadyOrder ==
    \A d \in Dependencies : d.status = "Ready" /\ Started(d.app) =>
        \A pl \in Placements : pl[1] = d.on => pl \in seen

\* An app that waits for another one to be deployed is not started before the
\* main resources of the other one are applied on each of its clusters.
DeployedOrder ==
    \A d \in Dependencies : d.status = "Deployed" /\ Started(d.app) =>
        \A pl \in Placements : pl[1] = d.on => "main" \in applied[pl]

\* On every cluster the main resources come after the pre-install hooks succeeded,
\* and the post-install hooks after the main resources.
HookOrder ==
    \A pl \in Placements : Event = "Instantiate" =>
        /\ "main" \in applied[pl] /\ "pre" \in Groups[pl[1]] => "pre" \in ready[pl]
        /\ "post" \in applied[pl] /\ "main" \in Groups[pl[1]] => "main" \in applied[pl]

\* "Notify dependency that app got deployed" (routines.go): once an app has notified
\* its dependents, each of those that still waits has the message in its channel, or
\* a goroutine is going to send it.
NoLostNotification ==
    \A d \in Dependencies :
        /\ d.status = "Deployed"
        /\ app[d.app].pc = "wait" /\ d \in app[d.app].cases
        /\ app[d.on].pc = "done"
        => d \in buffer \/ senders[d] > 0

\* An operation comes to its end: no app waits for ever for one that gets ready,
\* for one that failed, or in a cancelled operation.
OperationEnds == op = "running" ~> op = "ended"

================================================================================
