----------------------------- MODULE LogicalCloud -----------------------------
(***************************************************************************)
(* The life of a logical cloud in the Distributed Cloud Manager            *)
(* (dcm/pkg/module).  Its REST handlers keep a StateInfo in MongoDB, make  *)
(* AppContexts and call rsync like those of the orchestrator, but they     *)
(* decide on the state rsync reports.  For a cloud of level 1 a goroutine  *)
(* (processAlert) listens for the certificates of the clusters, as rsync   *)
(* writes them into an AppContext, and stores a CloudConfig for each       *)
(* cluster the cloud refers to.                                            *)
(*                                                                         *)
(* One cloud is modelled: clouds share nothing but the clusters.           *)
(*                                                                         *)
(* Definitions marked "variant" are faulty forms of the definition that    *)
(* follows them; no specification uses them.                               *)
(***************************************************************************)
EXTENDS AppContextStore

CONSTANTS
    Clusters,
    GitOps,       \* the clusters reached over a Git repository
    Levels,       \* the levels the cloud is created with
    Clients,      \* REST handlers served at a time (a bound)
    Operations,   \* the operations clients call
    MaxActions    \* entries the StateInfo may have (a bound)

OperationKinds == {"Create", "Reference", "Permit", "Revoke", "Instantiate", "Terminate",
                   "Stop", "Update", "Delete", "Kubeconfig"}

\* crash: the manager dies
\* call: rsync cannot be reached
\* namespace: the clusters of a level 0 cloud have no namespace in common
\* fail: an operation of rsync fails
FaultKinds == {"crash", "call", "namespace", "fail"}

ASSUME ClusterAssumption == GitOps \subseteq Clusters
ASSUME LevelAssumption == Levels \subseteq {"0", "1"}
ASSUME OperationAssumption == Operations \subseteq OperationKinds
ASSUME FaultAssumption == Faults \subseteq FaultKinds
ASSUME BoundAssumption == MaxActions \in Nat

VARIABLES
    level,       \* the level of the cloud; "none" when it is not in MongoDB, "draft"
                 \* when it has no StateInfo yet
    info,        \* its StateInfo
    refs,        \* the clusters it refers to
    certs,       \* the references that hold a certificate
    permitted,   \* it has a user permission for its namespace
    configs,     \* the clusters with a CloudConfig for the cloud (level 1)
    placed,      \* placed[c]: the clusters AppContext c was built for
    tree,        \* tree[c]: the clusters listed in c in etcd
    ready,       \* ready[c]: the clusters whose status in c has a certificate
    label,       \* label[x]: the AppContext x reports to
    listener,    \* listener[c]: the goroutine subscribed to alerts of c
    client       \* client[k]: a REST handler

document == <<level, info, refs, certs, permitted>>
status   == <<placed, tree, ready, label>>
vars     == <<lifecycle, etcd, holds, document, configs, status, listener, client>>

\* Nothing but permissions can be worked on before the StateInfo is there.
Exist == level \in Levels
Current == LastContextId(info)
HasContext == Current # NoContext

-------------------------------------------------------------------------------
(* REST handlers.                                                          *)

\* A handler: the AppContext that is current and the one it makes, the clusters
\* it found referenced and the StateInfo it read.
Idle == [pc |-> "idle", op |-> "Create", ctx |-> NoContext, target |-> NoContext,
         clusters |-> {}, snap |-> NoInfo]

PCs == {"idle", "create", "drop", "build", "call", "configs", "record", "listen", "gitops", "remove"}

HandlerState ==
    [pc : PCs, op : OperationKinds, ctx : AppContexts \cup {NoContext},
     target : AppContexts \cup {NoContext}, clusters : SUBSET Clusters, snap : StateInfo]

Goes(k, handler) == client' = [client EXCEPT ![k] = handler]
Done(k) == Goes(k, Idle)
To(k, pc) == Goes(k, [client[k] EXCEPT !.pc = pc])

\* The handler of an operation, and what it reads at the beginning.
Called(k, op) == client[k].pc = "idle" /\ op \in Operations
Starts(k, op, pc) ==
    Goes(k, [Idle EXCEPT !.pc = pc, !.op = op, !.ctx = Current, !.clusters = refs, !.snap = info])

Room == Len(info.actions) < MaxActions

\* The status of the current AppContext is one of these; none can be read of an
\* AppContext that was deleted.
Reports(statuses) == Current \in stored /\ state[Current] \in statuses

Create(k) ==
    /\ Called(k, "Create") /\ level = "none"
    /\ level' = "draft"
    /\ Goes(k, [Idle EXCEPT !.pc = "create"])
    /\ UNCHANGED <<lifecycle, etcd, holds, info, refs, certs, permitted, configs, status, listener>>

\* The StateInfo is inserted whatever has become of the document, and is of no use
\* without it.
CreateState(k) ==
    /\ client[k].pc = "create"
    /\ IF level = "none" THEN UNCHANGED <<level, info>>
       ELSE /\ level' \in IF level = "draft" THEN Levels ELSE {level}
            /\ info' = WithAction(NoInfo, "Created", NoContext, 0)
    /\ Done(k)
    /\ UNCHANGED <<lifecycle, etcd, holds, refs, certs, permitted, configs, status, listener>>

AddReference(k, x) ==
    /\ Called(k, "Reference") /\ Exist /\ x \notin refs
    /\ HasContext => Reports({"Instantiated", "Terminated"})
    /\ refs' = refs \cup {x}
    /\ UNCHANGED <<lifecycle, etcd, holds, level, info, certs, permitted, configs, status, listener, client>>

RemoveReference(k, x) ==
    /\ Called(k, "Reference") /\ Exist /\ x \in refs
    /\ HasContext => Reports({"Instantiated", "Terminated", "TerminateFailed"})
    /\ refs' = refs \ {x}
    /\ certs' = certs \ {x}
    /\ UNCHANGED <<lifecycle, etcd, holds, level, info, permitted, configs, status, listener, client>>

\* User permissions come and go whatever the state of the cloud.
ChangePermission(k) ==
    /\ Called(k, IF permitted THEN "Revoke" ELSE "Permit") /\ level # "none"
    /\ permitted' = ~permitted
    /\ UNCHANGED <<lifecycle, etcd, holds, level, info, refs, certs, configs, status, listener, client>>

\* Clears the stop flag of what was stopped in state st; the handler goes on
\* only if the AppContext is in one of the statuses it read.
Resumes(k, op, st, statuses, pc) ==
    /\ IF CurrentState(info) = st THEN SetFlag(Current, FALSE) ELSE UNCHANGED stopFlag
    /\ IF Reports(statuses) THEN Starts(k, op, pc) ELSE UNCHANGED client

\* variant: one that is still being terminated, too
ReplaceableEarly == {"Terminated", "Terminating"}

\* A new instantiation replaces an AppContext in these statuses.
Replaceable == {"Terminated"}

Instantiate(k) ==
    /\ Called(k, "Instantiate") /\ Exist /\ Room
    /\ refs # {}
    /\ \/ ~HasContext /\ Starts(k, "Instantiate", "build") /\ UNCHANGED stopFlag
       \/ /\ Current \in stored
          /\ Resumes(k, "Instantiate", "TerminateStopped", Replaceable, "drop")
    /\ UNCHANGED <<lifecycle, stored, used, statusCtx, holds, document, configs, status, listener>>

Terminate(k) ==
    /\ Called(k, "Terminate") /\ Exist /\ Room
    /\ refs # {}
    /\ Current \in stored
    /\ Resumes(k, "Terminate", "InstantiateStopped", {"Instantiated", "InstantiateFailed"}, "call")
    /\ UNCHANGED <<lifecycle, stored, used, statusCtx, holds, document, configs, status, listener>>

\* Stop does not ask how far rsync is.
Stop(k) ==
    /\ Called(k, "Stop") /\ Exist /\ Room
    /\ CurrentState(info) \in {"Instantiated", "Terminated"}
    /\ Current \in stored
    /\ SetFlag(Current, TRUE)
    /\ Starts(k, "Stop", "record")
    /\ UNCHANGED <<lifecycle, stored, used, statusCtx, holds, document, configs, status, listener>>

UpdateInstantiation(k) ==
    /\ Called(k, "Update") /\ Exist /\ Room
    /\ HasContext /\ Reports({"Instantiated"})
    /\ refs # {}
    /\ Starts(k, "Update", "build")
    /\ UNCHANGED <<lifecycle, etcd, holds, document, configs, status, listener>>

Delete(k) ==
    /\ Called(k, "Delete") /\ Exist
    /\ HasContext => Reports({"Terminated", "TerminateFailed"})
    /\ Starts(k, "Delete", IF HasContext THEN "drop" ELSE "remove")
    /\ UNCHANGED <<lifecycle, etcd, holds, document, configs, status, listener>>

\* The AppContexts of the cloud a handler deletes: Delete all of them, but only
\* when the StateInfo says that the cloud was terminated.
Dropped(h) ==
    IF h.op = "Delete" /\ CurrentState(h.snap) \in {"Terminated", "TerminateStopped"}
    THEN ContextIds(h.snap)
    ELSE {h.ctx}

DeleteContexts(k) ==
    LET h == client[k] IN
    /\ h.pc = "drop"
    /\ IF h.ctx \in stored
       THEN /\ stored' = stored \ Dropped(h)
            /\ To(k, IF h.op = "Delete" THEN "remove" ELSE "build")
       ELSE Done(k) /\ UNCHANGED stored
    /\ UNCHANGED <<lifecycle, used, statusCtx, stopFlag, holds, document, configs, status, listener>>

\* MongoDB removes nothing that has children: references, permissions.
RemoveDocument(k) ==
    /\ client[k].pc = "remove"
    /\ IF refs = {} /\ ~permitted
       THEN level' = "none" /\ info' = NoInfo
       ELSE UNCHANGED <<level, info>>
    /\ Done(k)
    /\ UNCHANGED <<lifecycle, etcd, holds, refs, certs, permitted, configs, status, listener>>

\* variant: every AppContext collects its own status
CollectorItself(h, c) == c

\* An update reports to the AppContext it replaces.
Collector(h, c) == IF h.op = "Update" THEN h.ctx ELSE c

\* blindInstantiateL0 and blindInstantiateL1
Build(k) ==
    LET h == client[k] IN
    /\ h.pc = "build"
    /\ level = "1" => permitted
    /\ \E c \in AppContexts :
         /\ MakeAppContext(c)
         /\ UpdateAppContextStatusContextID(c, Collector(h, c))
         /\ placed' = [placed EXCEPT ![c] = h.clusters]
         /\ tree' = [tree EXCEPT ![c] = h.clusters]
         /\ Goes(k, [h EXCEPT !.pc = "call", !.target = c])
    /\ UNCHANGED <<lifecycle, holds, document, configs, ready, label, listener>>

BuildFails(k) ==
    /\ client[k].pc = "build"
    /\ \/ level = "1" /\ ~permitted
       \/ level = "0" /\ "namespace" \in Faults
    /\ Done(k)
    /\ UNCHANGED <<lifecycle, etcd, holds, document, configs, status, listener>>

\* variant: a Terminate makes the call of an Instantiate
RequestInstall(h) == IF h.op = "Update" THEN "Update" ELSE "Instantiate"

Request(h) == h.op

CallRsync(k) ==
    LET h == client[k] IN
    /\ h.pc = "call"
    /\ CallRsyncFor(IF h.op = "Terminate" THEN h.ctx ELSE h.target, Request(h),
                    IF h.op = "Update" THEN h.ctx ELSE NoContext)
    /\ To(k, IF h.op = "Terminate" /\ level = "1" THEN "configs" ELSE "record")
    /\ UNCHANGED <<etcd, holds, document, configs, status, listener>>

\* Nothing that was made is removed.
CallFails(k) ==
    LET h == client[k] IN
    /\ h.pc = "call"
    /\ "call" \in Faults \/ (h.op = "Terminate" /\ h.ctx \notin stored)
    /\ Done(k)
    /\ UNCHANGED <<lifecycle, etcd, holds, document, configs, status, listener>>

DeleteCloudConfigs(k) ==
    /\ client[k].pc = "configs"
    /\ configs' = configs \ client[k].clusters
    /\ To(k, "record")
    /\ UNCHANGED <<lifecycle, etcd, holds, document, status, listener>>

\* The state an operation leaves in the StateInfo.
Leaves(h) ==
    CASE h.op = "Instantiate" -> "Instantiated"
      [] h.op = "Terminate"   -> "Terminated"
      [] h.op = "Update"      -> "Updated"
      [] h.op = "Stop" -> IF CurrentState(h.snap) = "Instantiated"
                          THEN "InstantiateStopped" ELSE "TerminateStopped"

\* The AppContext an operation records.
Recorded(h) == IF h.op \in {"Instantiate", "Update"} THEN h.target ELSE h.ctx

\* addState reads the StateInfo again; an update appends to the one it read.
AddState(k) ==
    LET h == client[k]
        s == IF h.op = "Update" THEN h.snap ELSE info
        t == WithAction(s, Leaves(h), Recorded(h), LatestRevision(s) + 1)
    IN
    /\ h.pc = "record" /\ Exist
    /\ info' = IF h.op = "Update" THEN t ELSE [t EXCEPT !.statusCtx = Recorded(h)]
    /\ IF h.op \in {"Instantiate", "Update"} /\ level = "1"
       THEN To(k, "listen") ELSE Done(k)
    /\ UNCHANGED <<lifecycle, etcd, holds, level, refs, certs, permitted, configs, status, listener>>

\* The cloud is gone.  Only Instantiate removes what it made.
AddStateFails(k) ==
    LET h == client[k] IN
    /\ h.pc = "record" /\ ~Exist
    /\ stored' = IF h.op = "Instantiate" THEN stored \ {h.target} ELSE stored
    /\ Done(k)
    /\ UNCHANGED <<lifecycle, used, statusCtx, stopFlag, holds, document, configs, status, listener>>

\* callRsyncReadyNotify: an earlier subscription to the AppContext is lost.
Subscribe(k) ==
    LET h == client[k] IN
    /\ h.pc = "listen"
    /\ listener' = [listener EXCEPT ![IF h.op = "Update" THEN h.ctx ELSE h.target] = "waiting"]
    /\ IF h.op = "Instantiate" /\ h.clusters \cap GitOps # {} THEN To(k, "gitops") ELSE Done(k)
    /\ UNCHANGED <<lifecycle, etcd, holds, document, configs, status>>

\* Instantiate returns after the first cluster that is reached over Git.
PrepareGitOps(k) ==
    LET h == client[k] IN
    /\ h.pc = "gitops"
    /\ \E x \in h.clusters \cap GitOps : configs' = configs \cup {x}
    /\ Done(k)
    /\ UNCHANGED <<lifecycle, etcd, holds, document, status, listener>>

-------------------------------------------------------------------------------
(* Certificates.                                                           *)

\* variant: any status will do
HasCertificateUnseen(x) == TRUE

\* The certificate of the reference x, or of its status in the AppContext of the
\* StateInfo.
HasCertificate(x) ==
    x \in certs \/ (info.statusCtx \in stored /\ x \in ready[info.statusCtx])

\* GetClusterConfig succeeds.
Configurable(x) == info.statusCtx \in stored /\ (x \in GitOps \/ HasCertificate(x))

\* It leaves the certificate in the reference and a CloudConfig in rsync.
Configured(clusters) ==
    /\ certs' = certs \cup (clusters \ GitOps)
    /\ configs' = configs \cup clusters
    /\ UNCHANGED <<level, info, refs, permitted>>

Kubeconfig(k, x) ==
    /\ Called(k, "Kubeconfig") /\ Exist /\ level = "1"
    /\ x \in refs /\ Configurable(x)
    /\ Configured({x})
    /\ UNCHANGED <<lifecycle, etcd, holds, status, listener, client>>

\* checkAppContext: every cluster listed in c has its certificate.
CertificatesReady(c) == c \in stored /\ tree[c] \subseteq ready[c] \cup GitOps

\* The goroutine of c takes up an alert.
NotYet(c) ==
    /\ listener[c] = "alerted" /\ ~CertificatesReady(c)
    /\ listener' = [listener EXCEPT ![c] = "waiting"]
    /\ UNCHANGED <<lifecycle, etcd, holds, document, configs, status, client>>

\* It goes through the references up to the first that cannot be configured; it
\* has ended then, for good.
ProcessAlert(c) ==
    LET good == {x \in refs : Configurable(x)} IN
    /\ listener[c] = "alerted" /\ CertificatesReady(c)
    /\ \E clusters \in SUBSET good :
         /\ good = refs => clusters = refs
         /\ Configured(clusters)
    /\ listener' = [listener EXCEPT ![c] = "ended"]
    /\ UNCHANGED <<lifecycle, etcd, holds, status, client>>

\* The monitor of x reports, with the certificate once it is issued; rsync
\* alerts whoever is subscribed at that moment.
Report(x) ==
    LET c == label[x] IN
    /\ c # NoContext /\ c \in stored
    /\ x \in tree[c]
    /\ ready' \in {ready, [ready EXCEPT ![c] = @ \cup {x}]}
    /\ listener' = IF listener[c] = "waiting" THEN [listener EXCEPT ![c] = "alerted"] ELSE listener
    /\ UNCHANGED <<lifecycle, etcd, holds, document, configs, placed, tree, label, client>>

\* A restarted manager subscribes to nothing.
Restart ==
    /\ "crash" \in Faults
    /\ client' = [k \in Clients |-> Idle]
    /\ listener' = [c \in AppContexts |-> "none"]
    /\ UNCHANGED <<lifecycle, etcd, holds, document, configs, status>>

-------------------------------------------------------------------------------
(* rsync and the clusters.                                                 *)

\* The clusters an operation adds: an update passes over those that stay.
Added(c) ==
    LET e == Head(pending[c]) IN
    IF e.ev = "Update" /\ e.other \in AppContexts THEN placed[c] \ placed[e.other] ELSE placed[c]

\* rsync applies the resources: the clusters report to the AppContext that
\* collects the status of c, which lists them from now on.
RsyncDeploys(c) ==
    /\ c \in stored /\ work[c] = "busy" /\ Deploys(First(c)) /\ c \notin holds
    /\ holds' = holds \cup {c}
    /\ IF level = "0" THEN UNCHANGED <<label, tree>>
       ELSE /\ label' = [x \in Clusters |-> IF x \in Added(c) THEN statusCtx[c] ELSE label[x]]
            /\ tree' = [tree EXCEPT ![statusCtx[c]] = @ \cup Added(c)]
    /\ UNCHANGED <<lifecycle, etcd, document, configs, placed, ready, listener, client>>

\* Nobody reports of a cloud that was terminated.
RsyncRemoves(c) ==
    /\ RsyncSucceeds(c)
    /\ First(c) = "Terminate"
    /\ label' = [x \in Clusters |-> IF x \in placed[c] THEN NoContext ELSE label[x]]
    /\ UNCHANGED <<document, configs, placed, tree, ready, listener, client>>

RsyncWorks(c) ==
    /\ \/ RsyncAccepts(c) \/ RsyncRefuses(c) \/ RsyncSettles(c) \/ RsyncAbandons(c)
       \/ RsyncFails(c) /\ holds' \subseteq holds
       \/ (RsyncHandsOver(c) \/ RsyncSucceeds(c))
          /\ First(c) # "Terminate" /\ (Deploys(First(c)) => c \in holds)
    /\ UNCHANGED <<document, configs, status, listener, client>>

-------------------------------------------------------------------------------
Init ==
    /\ InitStore
    /\ level = "none"
    /\ info = NoInfo
    /\ refs = {} /\ certs = {} /\ permitted = FALSE
    /\ configs = {}
    /\ placed = [c \in AppContexts |-> {}]
    /\ tree = [c \in AppContexts |-> {}]
    /\ ready = [c \in AppContexts |-> {}]
    /\ label = [x \in Clusters |-> NoContext]
    /\ listener = [c \in AppContexts |-> "none"]
    /\ client = [k \in Clients |-> Idle]

Start(k) ==
    \/ Create(k) \/ ChangePermission(k) \/ Instantiate(k) \/ Terminate(k) \/ Stop(k)
    \/ UpdateInstantiation(k) \/ Delete(k)
    \/ \E x \in Clusters : AddReference(k, x) \/ RemoveReference(k, x) \/ Kubeconfig(k, x)

Continue(k) ==
    \/ CreateState(k) \/ DeleteContexts(k) \/ RemoveDocument(k) \/ Build(k) \/ BuildFails(k)
    \/ CallRsync(k) \/ CallFails(k) \/ DeleteCloudConfigs(k)
    \/ AddState(k) \/ AddStateFails(k) \/ Subscribe(k) \/ PrepareGitOps(k)

Next ==
    \/ \E k \in Clients : Start(k) \/ Continue(k)
    \/ \E c \in AppContexts :
          \/ NotYet(c) \/ ProcessAlert(c)
          \/ RsyncDeploys(c) \/ RsyncRemoves(c) \/ RsyncWorks(c)
    \/ \E x \in Clusters : Report(x)
    \/ Restart

Spec == Init /\ [][Next]_vars

-------------------------------------------------------------------------------
TypeOK ==
    /\ StoreTypeOK
    /\ level \in Levels \cup {"none", "draft"}
    /\ info \in StateInfo
    /\ refs \subseteq Clusters /\ certs \subseteq refs
    /\ permitted \in BOOLEAN
    /\ configs \subseteq Clusters
    /\ placed \in [AppContexts -> SUBSET Clusters]
    /\ tree \in [AppContexts -> SUBSET Clusters]
    /\ ready \in [AppContexts -> SUBSET Clusters]
    /\ label \in [Clusters -> AppContexts \cup {NoContext}]
    /\ listener \in [AppContexts -> {"none", "waiting", "alerted", "ended"}]
    /\ client \in [Clients -> HandlerState]

\* rsync is told to replace c.
Replacing(c) ==
    \E d \in AppContexts : \E i \in DOMAIN pending[d] :
        pending[d][i].ev = "Update" /\ pending[d][i].other = c

\* Whoever put resources on the clusters is the AppContext the StateInfo names
\* last, or is being replaced or removed, or is about to be recorded, or a client
\* has stopped it: the stop flag of an AppContext outlives its update.
ResourcesRecorded ==
    \A c \in holds :
        \/ Exist /\ c = Current
        \/ c \in stored /\ (Leaving(c) \/ Replacing(c) \/ stopFlag[c])
        \/ \E k \in Clients : client[k].pc = "record" /\ client[k].target = c

\* Until the cloud is updated for a second time, every cluster of the current
\* AppContext reports to the AppContext in which kubeconfigs are looked up.
Updates == Cardinality({i \in DOMAIN info.actions : info.actions[i].state = "Updated"})

StatusCollected ==
    (CurrentState(info) \in {"Instantiated", "Updated"} /\ Current \in holds /\ Updates <= 1) =>
        \A x \in placed[Current] : label[x] \in {NoContext, info.statusCtx}

\* A cluster that is not reached over Git has a CloudConfig only if it has
\* issued a certificate for the cloud, whoever asked for it and whenever.
ConfigIsCertified ==
    \A x \in configs \ GitOps : \E c \in AppContexts : x \in ready[c]

\* What a terminated cloud left on the clusters is being removed, or rsync
\* reports that this failed, or a client stops it.
TerminatedIsLeaving ==
    CurrentState(info) = "Terminated" =>
        (Current \in holds \cap stored => Leaving(Current) \/ stopFlag[Current])

\* "Cannot delete parent without deleting child references first" (mongo.go):
\* the references of a cloud that is at rest can be deleted.
ReferencesRemovable ==
    (Exist /\ HasContext /\ \A k \in Clients : client[k].pc = "idle") => Current \in stored

\* "function should know how many clusters are expected and only finish when all
\* respective certificates have been obtained and all kubeconfigs stored in
\* CloudConfig" (apply.go): when the listener of a cloud has ended, the clusters
\* of the current AppContext have their CloudConfig.
KubeconfigsComplete ==
    (/\ CurrentState(info) \in {"Instantiated", "Updated"}
     /\ \A k \in Clients : client[k].pc = "idle"
     /\ listener[info.statusCtx] = "ended")
    => placed[Current] \cap refs \subseteq configs

================================================================================
