-------------------------- MODULE LogicalCloud_proofs --------------------------
(***************************************************************************)
(* Proofs about LogicalCloud for any clusters, AppContexts, clients,       *)
(* operations and faults.  A step of a handler leaves rsync alone but for  *)
(* its call, and a step of rsync leaves the handlers alone, so the         *)
(* invariant is split into what the store, the documents, the reports of   *)
(* the clusters and the handlers keep.  The second half is about one       *)
(* handler at a time: what is on the clusters, and to which AppContext     *)
(* they report.                                                            *)
(***************************************************************************)
EXTENDS LogicalCloud, AppContextStore_proofs, FiniteSetTheorems

-------------------------------------------------------------------------------
(* The inductive invariant.                                                *)

DocumentInv ==
    /\ level \in Levels \cup {"none", "draft"}
    /\ info \in StateInfo
    /\ refs \subseteq Clusters /\ certs \subseteq refs
    /\ permitted \in BOOLEAN
    /\ configs \subseteq Clusters
    /\ Exist => Exists(info)

StatusInv ==
    /\ placed \in [AppContexts -> SUBSET Clusters]
    /\ tree \in [AppContexts -> SUBSET Clusters]
    /\ ready \in [AppContexts -> SUBSET Clusters]
    /\ label \in [Clusters -> AppContexts \cup {NoContext}]
    /\ listener \in [AppContexts -> {"none", "waiting", "alerted", "ended"}]

\* A handler at work that does not create the cloud has read a StateInfo, and only
\* some operations come to each of its steps.
Coherent(h) ==
    h.pc \notin {"idle", "create"} =>
        /\ Exists(h.snap)
        /\ h.pc = "drop" => h.op \in {"Instantiate", "Delete"}
        /\ h.pc = "build" => h.op \in {"Instantiate", "Update"}
        /\ h.pc = "call" => h.op \in {"Instantiate", "Terminate", "Update"}
        /\ h.pc = "configs" => h.op = "Terminate"
        /\ h.pc = "record" => h.op \in {"Instantiate", "Terminate", "Update", "Stop"}

HandlerInv ==
    /\ client \in [Clients -> HandlerState]
    /\ \A k \in Clients : Coherent(client[k])

Inv == StoreInv /\ DocumentInv /\ StatusInv /\ HandlerInv

\* Every certificate a reference holds was issued, too.
CertificateInv ==
    /\ ConfigIsCertified
    /\ \A x \in certs : \E c \in AppContexts : x \in ready[c]

-------------------------------------------------------------------------------
(* Handlers.                                                               *)

\* An idle handler.
LEMMA IdleType == Idle \in HandlerState /\ Coherent(Idle)
<1>1. NoInfo \in StateInfo
  BY NoInfoType
<1>2. Idle \in HandlerState
  BY <1>1 DEF Idle, HandlerState, PCs, OperationKinds
<1> QED BY <1>2 DEF Idle, Coherent

\* Only the handler that takes a step changes.
LEMMA GoesType ==
    ASSUME HandlerInv, NEW k \in Clients, NEW h \in HandlerState, Coherent(h), Goes(k, h)
    PROVE  HandlerInv'
<1>1. client' = [client EXCEPT ![k] = h] /\ client \in [Clients -> HandlerState]
  BY DEF Goes, HandlerInv
<1>2. client' \in [Clients -> HandlerState]
  BY <1>1
<1>3. \A j \in Clients : client'[j] = IF j = k THEN h ELSE client[j]
  BY <1>1
<1>4. \A j \in Clients : Coherent(client[j])'
  <2> TAKE j \in Clients
  <2>1. Coherent(client'[j])
    BY <1>3 DEF HandlerInv
  <2> QED BY <2>1 DEF Coherent, Exists
<1> QED BY <1>2, <1>4 DEF HandlerInv

\* A handler ends.
LEMMA DoneType ==
    ASSUME HandlerInv, NEW k \in Clients, Done(k)
    PROVE  HandlerInv'
  BY IdleType, GoesType DEF Done

\* A handler starts with what it reads of the cloud.
LEMMA StartsType ==
    ASSUME DocumentInv, HandlerInv, NEW k \in Clients, Exist,
           NEW op \in OperationKinds, NEW pc \in PCs, Starts(k, op, pc),
           pc = "drop" => op \in {"Instantiate", "Delete"},
           pc = "build" => op \in {"Instantiate", "Update"},
           pc = "call" => op \in {"Instantiate", "Terminate", "Update"},
           pc = "configs" => op = "Terminate",
           pc = "record" => op \in {"Instantiate", "Terminate", "Update", "Stop"}
    PROVE  HandlerInv'
<1> DEFINE h == [Idle EXCEPT !.pc = pc, !.op = op, !.ctx = Current, !.clusters = refs, !.snap = info]
<1>1. Exists(info) /\ info \in StateInfo /\ refs \subseteq Clusters
  BY DEF DocumentInv
<1>2. Current \in AppContexts \cup {NoContext}
  BY <1>1, LastActionType DEF Current
<1>3. Idle \in HandlerState
  BY IdleType
<1>4. h \in HandlerState /\ h.pc = pc /\ h.op = op /\ h.snap = info
  BY <1>1, <1>2, <1>3 DEF HandlerState
<1> HIDE DEF h
<1>5. Coherent(h)
  BY <1>1, <1>4 DEF Coherent
<1>6. Goes(k, h)
  BY DEF Starts, h
<1> QED BY <1>4, <1>5, <1>6, GoesType

\* A handler goes on to another step.
LEMMA ToType ==
    ASSUME HandlerInv, NEW k \in Clients, NEW pc \in PCs, To(k, pc), client[k].pc \notin {"idle", "create"},
           pc = "drop" => client[k].op \in {"Instantiate", "Delete"},
           pc = "build" => client[k].op \in {"Instantiate", "Update"},
           pc = "call" => client[k].op \in {"Instantiate", "Terminate", "Update"},
           pc = "configs" => client[k].op = "Terminate",
           pc = "record" => client[k].op \in {"Instantiate", "Terminate", "Update", "Stop"}
    PROVE  HandlerInv'
<1> DEFINE h == [client[k] EXCEPT !.pc = pc]
<1>1. client[k] \in HandlerState /\ Coherent(client[k])
  BY DEF HandlerInv
<1>2. h \in HandlerState /\ h.pc = pc /\ h.op = client[k].op /\ h.snap = client[k].snap
  BY <1>1 DEF HandlerState
<1>3. Goes(k, h)
  BY DEF To
<1> HIDE DEF h
<1>4. Coherent(h)
  BY <1>1, <1>2 DEF Coherent
<1> QED BY <1>2, <1>3, <1>4, GoesType

\* What a handler at work holds.
LEMMA HandlerTypes ==
    ASSUME HandlerInv, NEW k \in Clients, client[k].pc # "idle"
    PROVE  /\ client[k] \in HandlerState
           /\ client[k].op \in OperationKinds
           /\ client[k].ctx \in AppContexts \cup {NoContext}
           /\ client[k].target \in AppContexts \cup {NoContext}
           /\ client[k].clusters \subseteq Clusters
           /\ client[k].snap \in StateInfo
           /\ Coherent(client[k])
           /\ client[k].pc # "create" => Exists(client[k].snap)
<1>1. client[k] \in HandlerState /\ Coherent(client[k])
  BY DEF HandlerInv
<1> QED BY <1>1 DEF HandlerState, Coherent

-------------------------------------------------------------------------------
(* Parts of the state that a step leaves alone.                            *)

\* The documents are as they were.
LEMMA SameDocument ==
    ASSUME DocumentInv, UNCHANGED <<document, configs>>
    PROVE  DocumentInv'
<1>1. UNCHANGED <<level, info, refs, certs, permitted, configs>>
  BY DEF document
<1> QED BY <1>1 DEF DocumentInv, Exist, Exists

\* The reports of the clusters are as they were.
LEMMA SameStatus ==
    ASSUME StatusInv, UNCHANGED <<status, listener>>
    PROVE  StatusInv'
<1>1. UNCHANGED <<placed, tree, ready, label, listener>>
  BY DEF status
<1> QED BY <1>1 DEF StatusInv

\* The handlers are as they were.
LEMMA SameHandlers ==
    ASSUME HandlerInv, UNCHANGED client
    PROVE  HandlerInv'
  BY DEF HandlerInv, Coherent, Exists

\* rsync and the store are as they were, but for AppContexts removed and stop
\* flags raised or cleared.
LEMMA SameStore ==
    ASSUME StoreInv, UNCHANGED <<lifecycle, used, statusCtx, holds>>,
           stored' \subseteq stored, stopFlag' \in [AppContexts -> BOOLEAN]
    PROVE  StoreInv'
<1>1. /\ stored' \subseteq used' /\ used \subseteq used' /\ used' \subseteq AppContexts
      /\ statusCtx' \in [AppContexts -> AppContexts \cup {NoContext}]
  BY DEF StoreInv, StoreTypeOK
<1> QED BY <1>1, HandlerStoreInv

-------------------------------------------------------------------------------
(* Steps.                                                                  *)

\* References and permissions that come and go.
LEMMA EditInv ==
    ASSUME Inv, NEW k \in Clients,
           ChangePermission(k) \/ \E x \in Clusters : AddReference(k, x) \/ RemoveReference(k, x)
    PROVE  Inv'
<1> USE DEF Inv
<1>1. StoreInv' /\ StatusInv' /\ HandlerInv'
  <2>1. /\ UNCHANGED <<lifecycle, etcd, holds, status, listener, client>>
    BY DEF ChangePermission, AddReference, RemoveReference
  <2>2. stored' \subseteq stored /\ stopFlag' \in [AppContexts -> BOOLEAN]
        /\ UNCHANGED <<lifecycle, used, statusCtx, holds>>
    BY <2>1 DEF etcd, StoreInv, StoreTypeOK
  <2> QED BY <2>1, <2>2, SameStore, SameStatus, SameHandlers
<1>2. DocumentInv'
  <2>1. CASE ChangePermission(k)
    BY <2>1 DEF ChangePermission, DocumentInv, Exist, Exists
  <2>2. CASE \E x \in Clusters : AddReference(k, x)
    BY <2>2 DEF AddReference, DocumentInv, Exist, Exists
  <2>3. CASE \E x \in Clusters : RemoveReference(k, x)
    BY <2>3 DEF RemoveReference, DocumentInv, Exist, Exists
  <2> QED BY <2>1, <2>2, <2>3
<1> QED BY <1>1, <1>2

\* The document of a new cloud, and then its StateInfo.
LEMMA CreateInv ==
    ASSUME Inv, NEW k \in Clients, Create(k) \/ CreateState(k)
    PROVE  Inv'
<1> USE DEF Inv
<1>1. StoreInv' /\ StatusInv'
  <2>1. /\ UNCHANGED <<lifecycle, etcd, holds, status, listener>>
    BY DEF Create, CreateState
  <2>2. stored' \subseteq stored /\ stopFlag' \in [AppContexts -> BOOLEAN]
        /\ UNCHANGED <<lifecycle, used, statusCtx, holds>>
    BY <2>1 DEF etcd, StoreInv, StoreTypeOK
  <2> QED BY <2>1, <2>2, SameStore, SameStatus
<1>2. HandlerInv'
  <2>1. CASE Create(k)
    <3>1. PICK h : h = [Idle EXCEPT !.pc = "create"]
      OBVIOUS
    <3>2. h \in HandlerState /\ h.pc = "create"
      BY <3>1, IdleType DEF HandlerState, PCs
    <3>3. Coherent(h)
      BY <3>2 DEF Coherent
    <3>4. Goes(k, h)
      BY <2>1, <3>1 DEF Create
    <3> QED BY <3>2, <3>3, <3>4, GoesType
  <2>2. CASE CreateState(k)
    BY <2>2, DoneType DEF CreateState
  <2> QED BY <2>1, <2>2
<1>3. DocumentInv'
  <2>1. CASE Create(k)
    BY <2>1, LevelAssumption DEF Create, DocumentInv, Exist
  <2>2. CASE CreateState(k)
    <3>1. "Created" \in States /\ NoInfo \in StateInfo
      BY NoInfoType DEF States
    <3>2. NoContext \in AppContexts \cup {NoContext} /\ 0 \in Nat
      OBVIOUS
    <3>3. /\ WithAction(NoInfo, "Created", NoContext, 0) \in StateInfo
          /\ WithAction(NoInfo, "Created", NoContext, 0).actions # <<>>
      BY <3>1, <3>2, WithActionType
    <3>4. CASE level = "none"
      BY <2>2, <3>4 DEF CreateState, DocumentInv, Exist, Exists
    <3>5. CASE level # "none"
      <4>1. info' = WithAction(NoInfo, "Created", NoContext, 0) /\ level' \in Levels \cup {level}
            /\ UNCHANGED <<refs, certs, permitted, configs>>
        BY <2>2, <3>5 DEF CreateState
      <4> QED BY <3>3, <4>1 DEF DocumentInv, Exists
    <3> QED BY <3>4, <3>5
  <2> QED BY <2>1, <2>2
<1> QED BY <1>1, <1>2, <1>3

\* Setting a stop flag changes nothing else in etcd.
LEMMA FlagStore ==
    ASSUME StoreInv, UNCHANGED <<lifecycle, stored, used, statusCtx, holds>>,
           \/ UNCHANGED stopFlag
           \/ \E c : SetFlag(c, TRUE) \/ SetFlag(c, FALSE)
    PROVE  StoreInv'
<1>1. stopFlag' \in [AppContexts -> BOOLEAN]
  BY DEF SetFlag, StoreInv, StoreTypeOK
<1> QED BY <1>1, SameStore

\* The first step of a handler that works on an AppContext.
LEMMA StartInv ==
    ASSUME Inv, NEW k \in Clients,
           Instantiate(k) \/ Terminate(k) \/ Stop(k) \/ UpdateInstantiation(k) \/ Delete(k)
    PROVE  Inv'
<1> USE DEF Inv
<1>1. DocumentInv' /\ StatusInv'
  BY SameDocument, SameStatus DEF Instantiate, Terminate, Stop, UpdateInstantiation, Delete
<1>2. StoreInv'
  <2>1. UNCHANGED <<lifecycle, stored, used, statusCtx, holds>>
    BY DEF Instantiate, Terminate, Stop, UpdateInstantiation, Delete, etcd
  <2>2. \/ UNCHANGED stopFlag
        \/ \E c : SetFlag(c, TRUE) \/ SetFlag(c, FALSE)
    BY DEF Instantiate, Terminate, Stop, UpdateInstantiation, Delete, etcd, Resumes
  <2> QED BY <2>1, <2>2, FlagStore
<1>3. HandlerInv'
  <2> USE DEF OperationKinds, PCs
  <2>1. CASE UNCHANGED client
    BY <2>1, SameHandlers
  <2>2. CASE Exist /\ Starts(k, "Instantiate", "build")
    BY <2>2, StartsType
  <2>3. CASE Exist /\ Starts(k, "Instantiate", "drop")
    BY <2>3, StartsType
  <2>4. CASE Exist /\ Starts(k, "Terminate", "call")
    BY <2>4, StartsType
  <2>5. CASE Exist /\ Starts(k, "Stop", "record")
    BY <2>5, StartsType
  <2>6. CASE Exist /\ Starts(k, "Update", "build")
    BY <2>6, StartsType
  <2>7. CASE Exist /\ (Starts(k, "Delete", "drop") \/ Starts(k, "Delete", "remove"))
    BY <2>7, StartsType
  <2> QED BY <2>1, <2>2, <2>3, <2>4, <2>5, <2>6, <2>7
          DEF Instantiate, Terminate, Stop, UpdateInstantiation, Delete, Resumes
<1> QED BY <1>1, <1>2, <1>3

\* A handler that removes AppContexts, or gives up.
LEMMA DropInv ==
    ASSUME Inv, NEW k \in Clients,
           DeleteContexts(k) \/ BuildFails(k) \/ CallFails(k) \/ AddStateFails(k)
    PROVE  Inv'
<1> USE DEF Inv
<1>1. DocumentInv' /\ StatusInv'
  BY SameDocument, SameStatus DEF DeleteContexts, BuildFails, CallFails, AddStateFails
<1>2. StoreInv'
  <2>1. stored' \subseteq stored /\ UNCHANGED <<lifecycle, used, statusCtx, stopFlag, holds>>
    BY DEF DeleteContexts, BuildFails, CallFails, AddStateFails, etcd
  <2> QED BY <2>1, SameStore DEF StoreInv, StoreTypeOK
<1>3. HandlerInv'
  <2>1. CASE Done(k)
    BY <2>1, DoneType
  <2>2. CASE client[k].pc = "drop" /\ client[k].op = "Delete" /\ To(k, "remove")
    BY <2>2, ToType DEF PCs
  <2>3. CASE client[k].pc = "drop" /\ client[k].op # "Delete" /\ To(k, "build")
    <3>1. client[k].op = "Instantiate"
      BY <2>3, HandlerTypes DEF Coherent
    <3> QED BY <2>3, <3>1, ToType DEF PCs
  <2> QED BY <2>1, <2>2, <2>3 DEF DeleteContexts, BuildFails, CallFails, AddStateFails
<1> QED BY <1>1, <1>2, <1>3

\* A handler that changes nothing but documents and subscriptions.
LEMMA WriteInv ==
    ASSUME Inv, NEW k \in Clients,
           RemoveDocument(k) \/ DeleteCloudConfigs(k) \/ Subscribe(k) \/ PrepareGitOps(k)
    PROVE  Inv'
<1> USE DEF Inv
<1>1. StoreInv'
  <2>1. stored' \subseteq stored /\ UNCHANGED <<lifecycle, used, statusCtx, stopFlag, holds>>
    BY DEF RemoveDocument, DeleteCloudConfigs, Subscribe, PrepareGitOps, etcd
  <2> QED BY <2>1, SameStore DEF StoreInv, StoreTypeOK
<1>2. StatusInv'
  <2>1. CASE Subscribe(k)
    BY <2>1 DEF Subscribe, StatusInv, status
  <2>2. CASE UNCHANGED <<status, listener>>
    BY <2>2, SameStatus
  <2> QED BY <2>1, <2>2 DEF RemoveDocument, DeleteCloudConfigs, PrepareGitOps
<1>3. DocumentInv'
  <2>1. CASE RemoveDocument(k)
    <3>1. NoInfo \in StateInfo
      BY NoInfoType
    <3> QED BY <2>1, <3>1, LevelAssumption DEF RemoveDocument, DocumentInv, Exist, Exists
  <2>2. CASE DeleteCloudConfigs(k)
    BY <2>2 DEF DeleteCloudConfigs, DocumentInv, document, Exist, Exists
  <2>3. CASE Subscribe(k)
    BY <2>3, SameDocument DEF Subscribe
  <2>4. CASE PrepareGitOps(k)
    BY <2>4, ClusterAssumption DEF PrepareGitOps, DocumentInv, document, Exist, Exists
  <2> QED BY <2>1, <2>2, <2>3, <2>4
<1>4. HandlerInv'
  <2>1. CASE Done(k)
    BY <2>1, DoneType
  <2>2. CASE DeleteCloudConfigs(k)
    <3>1. client[k].op = "Terminate"
      BY <2>2, HandlerTypes DEF DeleteCloudConfigs, Coherent
    <3> QED BY <2>2, <3>1, ToType DEF DeleteCloudConfigs, PCs
  <2>3. CASE Subscribe(k) /\ To(k, "gitops")
    BY <2>3, ToType DEF Subscribe, PCs
  <2> QED BY <2>1, <2>2, <2>3 DEF RemoveDocument, Subscribe, PrepareGitOps
<1> QED BY <1>1, <1>2, <1>3, <1>4

\* A new AppContext: it may report to the one it replaces.
LEMMA BuildInv ==
    ASSUME Inv, NEW k \in Clients, Build(k)
    PROVE  Inv'
<1> USE DEF Inv
<1> DEFINE h == client[k]
<1>1. PICK c \in AppContexts :
         /\ MakeAppContext(c)
         /\ UpdateAppContextStatusContextID(c, Collector(h, c))
         /\ placed' = [placed EXCEPT ![c] = h.clusters]
         /\ tree' = [tree EXCEPT ![c] = h.clusters]
         /\ Goes(k, [h EXCEPT !.pc = "call", !.target = c])
  BY DEF Build
<1>2. /\ h \in HandlerState /\ Coherent(h) /\ h.pc = "build"
      /\ h.ctx \in AppContexts \cup {NoContext} /\ h.clusters \subseteq Clusters
      /\ h.op \in {"Instantiate", "Update"} /\ Exists(h.snap)
  BY HandlerTypes DEF Build, Coherent
<1>3. Collector(h, c) \in AppContexts \cup {NoContext}
  BY <1>2 DEF Collector
<1> HIDE DEF h
<1>4. StoreInv'
  <2>1. /\ stored' \subseteq used' /\ used \subseteq used' /\ used' \subseteq AppContexts
        /\ stopFlag' \in [AppContexts -> BOOLEAN]
    BY <1>1 DEF MakeAppContext, StoreInv, StoreTypeOK
  <2>2. statusCtx' \in [AppContexts -> AppContexts \cup {NoContext}]
    BY <1>1, <1>3 DEF UpdateAppContextStatusContextID, StoreInv, StoreTypeOK
  <2>3. UNCHANGED lifecycle /\ UNCHANGED holds
    BY DEF Build
  <2> QED BY <2>1, <2>2, <2>3, HandlerStoreInv
<1>5. DocumentInv'
  BY SameDocument DEF Build
<1>6. StatusInv'
  <2>1. UNCHANGED <<ready, label, listener>>
    BY DEF Build
  <2> QED BY <1>1, <1>2, <2>1 DEF StatusInv
<1>7. HandlerInv'
  <2> DEFINE g == [h EXCEPT !.pc = "call", !.target = c]
  <2>1. g \in HandlerState /\ g.pc = "call" /\ g.op = h.op /\ g.snap = h.snap
    BY <1>2 DEF HandlerState, PCs
  <2>2. Goes(k, g)
    BY <1>1
  <2> HIDE DEF g
  <2>3. Coherent(g)
    BY <1>2, <2>1 DEF Coherent
  <2> QED BY <2>1, <2>2, <2>3, GoesType
<1> QED BY <1>4, <1>5, <1>6, <1>7

\* The call of rsync.
LEMMA CallInv ==
    ASSUME Inv, NEW k \in Clients, CallRsync(k)
    PROVE  Inv'
<1> USE DEF Inv
<1> DEFINE h == client[k]
           other == IF h.op = "Update" THEN h.ctx ELSE NoContext
           subject == IF h.op = "Terminate" THEN h.ctx ELSE h.target
           next == IF h.op = "Terminate" /\ level = "1" THEN "configs" ELSE "record"
<1>1. /\ h.pc = "call" /\ h.op \in {"Instantiate", "Terminate", "Update"}
      /\ h.ctx \in AppContexts \cup {NoContext}
  BY HandlerTypes DEF CallRsync, Coherent
<1>2. CallRsyncFor(subject, h.op, other) /\ UNCHANGED <<etcd, holds>>
  BY DEF CallRsync, Request
<1>3. h.op \in RsyncEvents /\ other \in AppContexts \cup {NoContext}
  BY <1>1 DEF RsyncEvents
<1>4. StoreInv'
  <2> HIDE DEF h, other, subject
  <2> QED BY <1>2, <1>3, CallStoreInv
<1>5. DocumentInv' /\ StatusInv'
  BY SameDocument, SameStatus DEF CallRsync
<1>6. HandlerInv'
  <2>1. To(k, next) /\ next \in PCs /\ h.pc # "idle"
    BY <1>1 DEF CallRsync, PCs
  <2>2. /\ next \in {"configs", "record"} /\ (next = "configs" => h.op = "Terminate")
    OBVIOUS
  <2> HIDE DEF next
  <2> QED BY <1>1, <2>1, <2>2, ToType
<1> QED BY <1>4, <1>5, <1>6

\* The entry an operation leaves in the StateInfo.
LEMMA AddStateInv ==
    ASSUME Inv, NEW k \in Clients, AddState(k)
    PROVE  Inv'
<1> USE DEF Inv
<1> DEFINE h == client[k]
           s == IF h.op = "Update" THEN h.snap ELSE info
           t == WithAction(s, Leaves(h), Recorded(h), LatestRevision(s) + 1)
<1>1. /\ h.pc = "record" /\ h.op \in {"Instantiate", "Terminate", "Update", "Stop"}
      /\ Recorded(h) \in AppContexts \cup {NoContext}
      /\ h.snap \in StateInfo /\ Exists(h.snap)
  BY HandlerTypes DEF AddState, Coherent, Recorded
<1>2. info \in StateInfo /\ Exists(info)
  BY DEF AddState, DocumentInv
<1>3. Leaves(h) \in States
  BY <1>1 DEF Leaves, States
<1>4. s \in StateInfo /\ LatestRevision(s) + 1 \in Nat
  <2>1. s \in StateInfo /\ Exists(s)
    BY <1>1, <1>2
  <2> HIDE DEF s
  <2> QED BY <2>1, LastActionType
<1>5. t \in StateInfo /\ t.actions # <<>>
  <2> HIDE DEF s, h
  <2> QED BY <1>1, <1>3, <1>4, WithActionType
<1>6. info' = IF h.op = "Update" THEN t ELSE [t EXCEPT !.statusCtx = Recorded(h)]
  BY DEF AddState
<1>7. info' \in StateInfo /\ info'.actions # <<>>
  <2> HIDE DEF t, h
  <2> QED BY <1>1, <1>5, <1>6 DEF StateInfo
<1>8. DocumentInv'
  <2>1. UNCHANGED <<level, refs, certs, permitted, configs>>
    BY DEF AddState
  <2> QED BY <1>7, <2>1 DEF DocumentInv, Exist, Exists
<1>9. StatusInv'
  BY SameStatus DEF AddState
<1>10. StoreInv'
  <2>1. stored' \subseteq stored /\ UNCHANGED <<lifecycle, used, statusCtx, stopFlag, holds>>
    BY DEF AddState, etcd
  <2> QED BY <2>1, SameStore DEF StoreInv, StoreTypeOK
<1>11. HandlerInv'
  <2>1. CASE Done(k)
    BY <2>1, DoneType
  <2>2. CASE To(k, "listen")
    BY <1>1, <2>2, ToType DEF PCs
  <2> QED BY <2>1, <2>2 DEF AddState
<1> QED BY <1>8, <1>9, <1>10, <1>11

\* Certificates are stored for clusters the cloud refers to.
LEMMA ConfiguredInv ==
    ASSUME Inv, NEW S \in SUBSET refs, Configured(S),
           UNCHANGED <<lifecycle, etcd, holds, status, client>>,
           listener' \in [AppContexts -> {"none", "waiting", "alerted", "ended"}]
    PROVE  Inv'
<1> USE DEF Inv
<1>1. DocumentInv'
  BY DEF Configured, DocumentInv, Exist, Exists
<1>2. StatusInv'
  BY DEF status, StatusInv
<1>3. HandlerInv'
  BY SameHandlers
<1>4. StoreInv'
  <2>1. stored' \subseteq stored /\ UNCHANGED <<lifecycle, used, statusCtx, stopFlag, holds>>
    BY DEF etcd
  <2> QED BY <2>1, SameStore DEF StoreInv, StoreTypeOK
<1> QED BY <1>1, <1>2, <1>3, <1>4

\* Requests for kubeconfigs, and the goroutine that listens for certificates.
LEMMA CertificateStepInv ==
    ASSUME Inv,
           \/ \E k \in Clients, x \in Clusters : Kubeconfig(k, x)
           \/ \E c \in AppContexts : NotYet(c) \/ ProcessAlert(c)
    PROVE  Inv'
<1> USE DEF Inv
<1>1. CASE \E k \in Clients, x \in Clusters : Kubeconfig(k, x)
  <2>1. PICK k \in Clients, x \in Clusters : Kubeconfig(k, x)
    BY <1>1
  <2>2. {x} \in SUBSET refs /\ Configured({x})
    BY <2>1 DEF Kubeconfig
  <2>3. /\ UNCHANGED <<lifecycle, etcd, holds, status, client>>
        /\ listener' \in [AppContexts -> {"none", "waiting", "alerted", "ended"}]
    BY <2>1 DEF Kubeconfig, StatusInv
  <2> QED BY <2>2, <2>3, ConfiguredInv
<1>2. CASE \E c \in AppContexts : ProcessAlert(c)
  <2>1. PICK c \in AppContexts : ProcessAlert(c)
    BY <1>2
  <2>2. PICK S \in SUBSET {x \in refs : Configurable(x)} : Configured(S)
    BY <2>1 DEF ProcessAlert
  <2>3. /\ UNCHANGED <<lifecycle, etcd, holds, status, client>>
        /\ listener' \in [AppContexts -> {"none", "waiting", "alerted", "ended"}]
    BY <2>1 DEF ProcessAlert, StatusInv
  <2>4. S \in SUBSET refs
    OBVIOUS
  <2> QED BY <2>2, <2>3, <2>4, ConfiguredInv
<1>3. CASE \E c \in AppContexts : NotYet(c)
  <2>1. PICK c \in AppContexts : NotYet(c)
    BY <1>3
  <2>2. DocumentInv' /\ HandlerInv'
    BY <2>1, SameDocument, SameHandlers DEF NotYet
  <2>3. StatusInv'
    BY <2>1 DEF NotYet, status, StatusInv
  <2>4. StoreInv'
    <3>1. stored' \subseteq stored /\ UNCHANGED <<lifecycle, used, statusCtx, stopFlag, holds>>
      BY <2>1 DEF NotYet, etcd
    <3> QED BY <3>1, SameStore DEF StoreInv, StoreTypeOK
  <2> QED BY <2>2, <2>3, <2>4
<1> QED BY <1>1, <1>2, <1>3

\* Reports of the clusters, and a restart of the manager.
LEMMA ReportInv ==
    ASSUME Inv, (\E x \in Clusters : Report(x)) \/ Restart
    PROVE  Inv'
<1> USE DEF Inv
<1>1. UNCHANGED <<lifecycle, etcd, holds, document, configs>>
  BY DEF Report, Restart
<1>2. DocumentInv'
  BY <1>1, SameDocument
<1>3. StoreInv'
  <2>1. stored' \subseteq stored /\ UNCHANGED <<lifecycle, used, statusCtx, stopFlag, holds>>
    BY <1>1 DEF etcd
  <2> QED BY <2>1, SameStore DEF StoreInv, StoreTypeOK
<1>4. StatusInv' /\ HandlerInv'
  <2>1. CASE Restart
    <3>1. StatusInv'
      BY <2>1 DEF Restart, StatusInv, status
    <3>2. client' = [k \in Clients |-> Idle]
      BY <2>1 DEF Restart
    <3>3. HandlerInv'
      <4>1. Idle \in HandlerState /\ Coherent(Idle)
        BY IdleType
      <4>2. \A k \in Clients : Coherent(client[k])'
        BY <3>2, <4>1 DEF Coherent, Exists
      <4> QED BY <3>2, <4>1, <4>2 DEF HandlerInv
    <3> QED BY <3>1, <3>3
  <2>2. CASE \E x \in Clusters : Report(x)
    <3>1. PICK x \in Clusters : Report(x)
      BY <2>2
    <3>2. ready' \in [AppContexts -> SUBSET Clusters]
      BY <3>1 DEF Report, StatusInv
    <3>3. /\ UNCHANGED <<placed, tree, label, client>>
          /\ listener' \in [AppContexts -> {"none", "waiting", "alerted", "ended"}]
      BY <3>1 DEF Report, StatusInv
    <3> QED BY <3>2, <3>3, SameHandlers DEF StatusInv
  <2> QED BY <2>1, <2>2
<1> QED BY <1>2, <1>3, <1>4

\* rsync at work, and what the clusters report of it.
LEMMA RsyncInv ==
    ASSUME Inv, NEW c \in AppContexts, RsyncDeploys(c) \/ RsyncRemoves(c) \/ RsyncWorks(c)
    PROVE  Inv'
<1> USE DEF Inv
<1>1. UNCHANGED <<document, configs, listener, client>>
  BY DEF RsyncDeploys, RsyncRemoves, RsyncWorks
<1>2. DocumentInv' /\ HandlerInv'
  BY <1>1, SameDocument, SameHandlers
<1>3. CASE RsyncDeploys(c)
  <2>1. /\ c \in used /\ holds' = holds \cup {c}
        /\ UNCHANGED <<pending, state, work, stored, used, statusCtx, stopFlag>>
    BY <1>3 DEF RsyncDeploys, lifecycle, etcd, StoreInv, StoreTypeOK
  <2>2. StoreInv'
    BY <2>1 DEF StoreInv, StoreTypeOK, HandledIsPending
  <2>3. Added(c) \subseteq Clusters
    BY DEF Added, StatusInv
  <2>4. statusCtx[c] \in AppContexts \cup {NoContext}
    BY DEF StoreInv, StoreTypeOK
  <2>5. UNCHANGED <<placed, ready>>
    BY <1>3 DEF RsyncDeploys
  <2>6. label' \in [Clusters -> AppContexts \cup {NoContext}] /\ tree' \in [AppContexts -> SUBSET Clusters]
    <3>1. CASE UNCHANGED <<label, tree>>
      BY <3>1 DEF StatusInv
    <3>2. CASE /\ label' = [x \in Clusters |-> IF x \in Added(c) THEN statusCtx[c] ELSE label[x]]
               /\ tree' = [tree EXCEPT ![statusCtx[c]] = @ \cup Added(c)]
      BY <2>3, <2>4, <3>2 DEF StatusInv
    <3> QED BY <1>3, <3>1, <3>2 DEF RsyncDeploys
  <2> QED BY <1>1, <1>2, <2>2, <2>5, <2>6 DEF StatusInv
<1>4. CASE RsyncRemoves(c)
  <2>1. StoreInv'
    BY <1>4, RsyncStoreInv DEF RsyncRemoves, Rsync
  <2>2. StatusInv'
    BY <1>4 DEF RsyncRemoves, StatusInv
  <2> QED BY <1>2, <2>1, <2>2
<1>5. CASE RsyncWorks(c)
  <2>1. StoreInv'
    BY <1>5, RsyncStoreInv DEF RsyncWorks, Rsync
  <2>2. StatusInv'
    BY <1>5, SameStatus DEF RsyncWorks
  <2> QED BY <1>2, <2>1, <2>2
<1> QED BY <1>3, <1>4, <1>5

-------------------------------------------------------------------------------
(* The theorems.                                                           *)

\* The cloud does not exist at the beginning.
LEMMA InitInv == Init => Inv
<1> SUFFICES ASSUME Init PROVE Inv
  OBVIOUS
<1>1. StoreInv
  BY InitStoreInv DEF Init
<1>2. DocumentInv
  BY NoInfoType, LevelAssumption DEF Init, DocumentInv, Exist
<1>3. StatusInv
  BY DEF Init, StatusInv
<1>4. HandlerInv
  BY IdleType DEF Init, HandlerInv
<1> QED BY <1>1, <1>2, <1>3, <1>4 DEF Inv

\* Every step keeps the invariant.
LEMMA NextInv == Inv /\ [Next]_vars => Inv'
<1> SUFFICES ASSUME Inv, [Next]_vars PROVE Inv'
  OBVIOUS
<1>1. ASSUME NEW k \in Clients, Start(k) \/ Continue(k) PROVE Inv'
  BY <1>1, EditInv, CreateInv, StartInv, DropInv, WriteInv, BuildInv, CallInv, AddStateInv, CertificateStepInv
     DEF Start, Continue
<1>2. ASSUME NEW c \in AppContexts,
             NotYet(c) \/ ProcessAlert(c) \/ RsyncDeploys(c) \/ RsyncRemoves(c) \/ RsyncWorks(c)
      PROVE Inv'
  BY <1>2, CertificateStepInv, RsyncInv
<1>3. CASE (\E x \in Clusters : Report(x)) \/ Restart
  BY <1>3, ReportInv
<1>4. CASE UNCHANGED vars
  <2>1. UNCHANGED <<lifecycle, etcd, holds, document, configs, status, listener, client>>
    BY <1>4 DEF vars
  <2>2. StoreInv'
    <3>1. stored' \subseteq stored /\ UNCHANGED <<lifecycle, used, statusCtx, stopFlag, holds>>
      BY <2>1 DEF etcd
    <3> QED BY <3>1, SameStore DEF Inv, StoreInv, StoreTypeOK
  <2> QED BY <2>1, <2>2, SameDocument, SameStatus, SameHandlers DEF Inv
<1> QED BY <1>1, <1>2, <1>3, <1>4 DEF Next

\* The invariant of the manager of logical clouds, for any number of clusters,
\* AppContexts and handlers and any faults (dcm/pkg/module).
THEOREM Invariance == Spec => []Inv
  BY InitInv, NextInv, PTL DEF Spec

\* Every variable stays in its type: above all a handler never records a state
\* or an AppContext that does not exist, and certificates are kept only with
\* references.
THEOREM TypeCorrect == Spec => []TypeOK
<1>1. Inv => TypeOK
  BY DEF Inv, StoreInv, DocumentInv, StatusInv, HandlerInv, TypeOK
<1> QED BY <1>1, Invariance, PTL

\* A cluster that can be configured without Git has issued its certificate.
LEMMA ConfigurableIssued ==
    ASSUME Inv, CertificateInv, NEW x \in Clusters \ GitOps, Configurable(x)
    PROVE  \E c \in AppContexts : x \in ready[c]
<1>1. x \in certs \/ (info.statusCtx \in stored /\ x \in ready[info.statusCtx])
  BY DEF Configurable, HasCertificate
<1>2. stored \subseteq AppContexts
  BY DEF Inv, StoreInv, StoreTypeOK
<1> QED BY <1>1, <1>2 DEF CertificateInv

\* Storing the certificates of clusters that can be configured.
LEMMA ConfiguredIssued ==
    ASSUME Inv, CertificateInv, NEW S \in SUBSET refs, \A x \in S : Configurable(x),
           Configured(S), UNCHANGED ready
    PROVE  CertificateInv'
<1>1. \A x \in S \ GitOps : \E c \in AppContexts : x \in ready[c]
  BY ConfigurableIssued DEF Inv, DocumentInv
<1>2. certs' = certs \cup (S \ GitOps) /\ configs' = configs \cup S
  BY DEF Configured
<1> QED BY <1>1, <1>2 DEF CertificateInv, ConfigIsCertified

\* Whoever asks for a kubeconfig, in whatever state of the cloud, and whatever
\* becomes of its AppContexts: a cluster that is not reached over Git gets a
\* CloudConfig only once it has issued its certificate (GetClusterConfig,
\* processAlert and removals of references in dcm/pkg/module).
THEOREM CertificatesIssued == Spec => []ConfigIsCertified
<1>1. Init => CertificateInv
  BY DEF Init, CertificateInv, ConfigIsCertified
<1>2. Inv /\ CertificateInv /\ [Next]_vars => CertificateInv'
  <2> SUFFICES ASSUME Inv, CertificateInv, [Next]_vars PROVE CertificateInv'
    OBVIOUS
  <2>1. CASE UNCHANGED ready /\ certs' \subseteq certs /\ configs' \subseteq configs
    BY <2>1 DEF CertificateInv, ConfigIsCertified
  <2>2. ASSUME NEW k \in Clients, Start(k) PROVE CertificateInv'
    <3>1. CASE \E x \in Clusters : Kubeconfig(k, x)
      <4>1. PICK x \in Clusters : Kubeconfig(k, x)
        BY <3>1
      <4>2. {x} \in SUBSET refs /\ Configurable(x) /\ Configured({x}) /\ UNCHANGED ready
        BY <4>1 DEF Kubeconfig, status
      <4> QED BY <4>2, ConfiguredIssued
    <3>2. CASE \E x \in Clusters : AddReference(k, x) \/ RemoveReference(k, x)
      BY <2>1, <3>2 DEF AddReference, RemoveReference, status
    <3> QED BY <2>1, <2>2, <3>1, <3>2
            DEF Start, Create, ChangePermission, Instantiate, Terminate, Stop,
                UpdateInstantiation, Delete, document, status
  <2>3. ASSUME NEW k \in Clients, Continue(k) PROVE CertificateInv'
    <3>1. CASE PrepareGitOps(k)
      <4>1. UNCHANGED <<ready, certs>> /\ \E x \in GitOps : configs' = configs \cup {x}
        BY <3>1 DEF PrepareGitOps, document, status
      <4> QED BY <4>1 DEF CertificateInv, ConfigIsCertified
    <3>2. CASE RemoveDocument(k) \/ AddState(k) \/ DeleteCloudConfigs(k) \/ Build(k)
      BY <2>1, <3>2 DEF RemoveDocument, AddState, DeleteCloudConfigs, Build, document, status
    <3> QED BY <2>1, <2>3, <3>1, <3>2
            DEF Continue, CreateState, DeleteContexts, BuildFails, CallRsync, CallFails,
                AddStateFails, Subscribe, document, status
  <2>4. ASSUME NEW c \in AppContexts, ProcessAlert(c) PROVE CertificateInv'
    <3>1. PICK S \in SUBSET {x \in refs : Configurable(x)} : Configured(S)
      BY <2>4 DEF ProcessAlert
    <3>2. UNCHANGED ready
      BY <2>4 DEF ProcessAlert, status
    <3> QED BY <3>1, <3>2, ConfiguredIssued
  <2>5. ASSUME NEW c \in AppContexts,
               NotYet(c) \/ RsyncDeploys(c) \/ RsyncRemoves(c) \/ RsyncWorks(c)
        PROVE CertificateInv'
    BY <2>1, <2>5 DEF NotYet, RsyncDeploys, RsyncRemoves, RsyncWorks, document, status
  <2>6. ASSUME NEW x \in Clusters, Report(x) PROVE CertificateInv'
    <3>1. UNCHANGED <<certs, configs>>
      BY <2>6 DEF Report, document
    <3>2. \A c \in AppContexts : ready[c] \subseteq ready'[c]
      BY <2>6 DEF Report, Inv, StatusInv
    <3> QED BY <3>1, <3>2 DEF CertificateInv, ConfigIsCertified
  <2>7. CASE Restart
    BY <2>1, <2>7 DEF Restart, document, status
  <2>8. CASE UNCHANGED vars
    BY <2>1, <2>8 DEF vars, document, status
  <2> QED BY <2>2, <2>3, <2>4, <2>5, <2>6, <2>7, <2>8 DEF Next
<1>3. CertificateInv => ConfigIsCertified
  BY DEF CertificateInv
<1> QED BY <1>1, <1>2, <1>3, Invariance, PTL DEF Spec

-------------------------------------------------------------------------------
(* Terminated clouds.                                                      *)

\* What is promised of the AppContext a handler terminates, before and after its
\* call of rsync.
Promised(h) ==
    h.pc # "idle" =>
        /\ h.op \in Operations
        /\ h.op = "Terminate" /\ h.pc = "call" => h.ctx \in AppContexts /\ Underway(h.ctx)
        /\ h.op = "Terminate" /\ h.pc \in {"configs", "record"} =>
               h.ctx \in AppContexts /\ Doomed(h.ctx)

TerminatedInv ==
    /\ Unstopped
    /\ CurrentState(info) = "Terminated" => Current \in AppContexts /\ Doomed(Current)
    /\ \A k \in Clients : Promised(client[k])

\* No step brings a doomed AppContext back: handlers make new AppContexts only,
\* and rsync does not deploy what it has begun to remove.
LEMMA NoReturn ==
    ASSUME "Stop" \notin Operations, Inv, Unstopped, [Next]_vars
    PROVE  /\ Unstopped'
           /\ \A c \in AppContexts : Doomed(c) => Doomed(c)'
           /\ \A c \in AppContexts : Underway(c) => Underway(c)'
<1>1. StoreInv
  BY DEF Inv
<1> DEFINE Quiet == /\ UNCHANGED <<state, work, holds>> /\ used \subseteq used'
                    /\ \A c \in AppContexts : c \in used /\ c \in stored' => c \in stored
                    /\ \A c \in AppContexts : ~stopFlag'[c]
                    /\ \A c \in AppContexts :
                          \/ pending'[c] = pending[c]
                          \/ \E e \in PendingEvent : pending'[c] = Append(pending[c], e)
<1>2. ASSUME Quiet
      PROVE  /\ Unstopped'
             /\ \A c \in AppContexts : Doomed(c) => Doomed(c)'
             /\ \A c \in AppContexts : Underway(c) => Underway(c)'
  <2>1. Unstopped'
    BY <1>2 DEF Unstopped
  <2> QED BY <1>1, <1>2, <2>1, QueuedBehind
<1>3. UNCHANGED lifecycle => UNCHANGED <<pending, state, work>>
  BY DEF lifecycle
<1>4. UNCHANGED etcd => UNCHANGED <<stored, used, statusCtx, stopFlag>>
  BY DEF etcd
<1>5. ASSUME UNCHANGED <<lifecycle, used, holds>>, stored' \subseteq stored,
             UNCHANGED stopFlag \/ SetFlag(Current, FALSE)
      PROVE  Quiet
  <2>1. \A c \in AppContexts : ~stopFlag'[c]
    BY <1>5 DEF SetFlag, Unstopped, StoreInv, StoreTypeOK, Inv
  <2> QED BY <1>3, <1>5, <2>1
<1>6. ASSUME NEW k \in Clients, Start(k) PROVE Quiet
  <2>1. ~Stop(k)
    BY DEF Stop, Called
  <2>2. UNCHANGED <<lifecycle, stored, used, holds>> /\ (UNCHANGED stopFlag \/ SetFlag(Current, FALSE))
    BY <1>4, <1>6, <2>1 DEF Start, Create, ChangePermission, Instantiate, Terminate,
         UpdateInstantiation, Delete, AddReference, RemoveReference, Kubeconfig, Resumes
  <2> HIDE DEF Quiet
  <2> QED BY <1>5, <2>2
<1>7. ASSUME NEW k \in Clients, Continue(k) PROVE Quiet
  <2>1. CASE Build(k)
    <3>1. PICK c \in AppContexts : MakeAppContext(c)
      BY <2>1 DEF Build
    <3>2. UNCHANGED lifecycle /\ UNCHANGED holds
      BY <2>1 DEF Build
    <3> QED BY <1>3, <3>1, <3>2 DEF MakeAppContext, Unstopped
  <2>2. CASE CallRsync(k)
    <3>1. client[k].op \in {"Instantiate", "Terminate", "Update"}
      BY <2>2, HandlerTypes DEF CallRsync, Coherent, Inv
    <3>2. PICK c, other \in AppContexts \cup {NoContext} :
             CallRsyncFor(c, client[k].op, other)
      <4>1. {client[k].ctx, client[k].target} \subseteq AppContexts \cup {NoContext}
        BY <2>2, HandlerTypes DEF CallRsync, Inv
      <4> QED BY <2>2, <4>1 DEF CallRsync, Request
    <3>3. UNCHANGED <<stored, used, stopFlag, holds, state, work>>
      BY <1>4, <2>2, <3>2 DEF CallRsync, CallRsyncFor
    <3>4. [ev |-> client[k].op, other |-> other] \in PendingEvent
      BY <3>1, <3>2 DEF PendingEvent, RsyncEvents
    <3>5. pending' = [pending EXCEPT ![c] = Append(@, [ev |-> client[k].op, other |-> other])]
      BY <3>2 DEF CallRsyncFor, Submit
    <3>6. \A d \in AppContexts :
             \/ pending'[d] = pending[d]
             \/ \E e \in PendingEvent : pending'[d] = Append(pending[d], e)
      BY <1>1, <3>4, <3>5 DEF StoreInv, StoreTypeOK
    <3> QED BY <3>3, <3>6 DEF Unstopped
  <2>3. CASE ~Build(k) /\ ~CallRsync(k)
    <3>1. UNCHANGED <<lifecycle, used, holds, stopFlag>> /\ stored' \subseteq stored
      BY <1>4, <1>7, <2>3 DEF Continue, CreateState, DeleteContexts, RemoveDocument, BuildFails, CallFails,
           DeleteCloudConfigs, AddState, AddStateFails, Subscribe, PrepareGitOps
    <3> HIDE DEF Quiet
    <3> QED BY <1>5, <3>1
  <2> QED BY <2>1, <2>2, <2>3
<1>8. ASSUME NEW c \in AppContexts, RsyncDeploys(c)
      PROVE  /\ Unstopped'
             /\ \A d \in AppContexts : Doomed(d) => Doomed(d)'
             /\ \A d \in AppContexts : Underway(d) => Underway(d)'
  <2>1. /\ UNCHANGED <<pending, state, work, stored, used, stopFlag>>
        /\ work[c] = "busy" /\ c \in stored /\ holds' = holds \cup {c}
    BY <1>3, <1>4, <1>8 DEF RsyncDeploys
  <2>2. \A d \in AppContexts : TerminateWaits(d) => TerminateWaits(d)'
    BY <2>1 DEF TerminateWaits, BegunAt
  <2>3. \A d \in AppContexts : Doomed(d) => Doomed(d)'
    BY <2>1, <2>2 DEF Doomed
  <2> QED BY <2>1, <2>3 DEF Unstopped, Underway, BegunAt
<1>9. ASSUME NEW c \in AppContexts, RsyncRemoves(c) \/ RsyncWorks(c) PROVE Rsync(c)
  BY <1>9 DEF RsyncRemoves, RsyncWorks, Rsync
<1>10. ASSUME \/ \E c \in AppContexts : NotYet(c) \/ ProcessAlert(c)
              \/ \E x \in Clusters : Report(x)
              \/ Restart
              \/ UNCHANGED vars
       PROVE  Quiet
  <2>1. UNCHANGED <<lifecycle, etcd, holds>>
    BY <1>10 DEF NotYet, ProcessAlert, Report, Restart, vars
  <2> HIDE DEF Quiet
  <2> QED BY <1>4, <1>5, <2>1
<1> HIDE DEF Quiet
<1> QED BY <1>1, <1>2, <1>6, <1>7, <1>8, <1>9, <1>10, RsyncDooms DEF Next

\* What is promised stays so.
LEMMA PromisedStays ==
    ASSUME \A c \in AppContexts : Doomed(c) => Doomed(c)',
           \A c \in AppContexts : Underway(c) => Underway(c)',
           NEW h, Promised(h)
    PROVE  Promised(h)'
  BY DEF Promised

\* One handler moves.
LEMMA MoverPromised ==
    ASSUME Inv, NEW k \in Clients, NEW h, Goes(k, h), Promised(h)',
           \A j \in Clients : Promised(client[j]),
           \A c \in AppContexts : Doomed(c) => Doomed(c)',
           \A c \in AppContexts : Underway(c) => Underway(c)'
    PROVE  \A j \in Clients : Promised(client[j])'
<1> TAKE j \in Clients
<1>1. client'[j] = IF j = k THEN h ELSE client[j]
  BY DEF Goes, Inv, HandlerInv
<1>2. PICK g : g = client'[j]
  OBVIOUS
<1>3. Promised(g)'
  BY <1>1, <1>2, PromisedStays
<1> QED BY <1>2, <1>3 DEF Promised

\* A handler starts.
LEMMA StartPromised ==
    ASSUME Inv, TerminatedInv, NEW k \in Clients, Start(k),
           \A c \in AppContexts : Doomed(c) => Doomed(c)',
           \A c \in AppContexts : Underway(c) => Underway(c)'
    PROVE  \A j \in Clients : Promised(client[j])'
<1>1. CASE UNCHANGED client
  <2> TAKE j \in Clients
  <2>1. PICK g : g = client[j]
    OBVIOUS
  <2>2. Promised(g)' /\ g = client'[j]
    BY <1>1, <2>1, PromisedStays DEF TerminatedInv
  <2> QED BY <2>2 DEF Promised
<1>2. ASSUME NEW op \in Operations, NEW pc \in PCs, Starts(k, op, pc),
             op = "Terminate" => pc = "call" /\ Current \in AppContexts /\ Underway(Current)
      PROVE  \A j \in Clients : Promised(client[j])'
  <2> DEFINE h == [Idle EXCEPT !.pc = pc, !.op = op, !.ctx = Current, !.clusters = refs, !.snap = info]
  <2>1. Goes(k, h) /\ h.pc = pc /\ h.op = op /\ h.ctx = Current
    BY <1>2 DEF Starts, Idle
  <2>2. PICK g : g = h
    OBVIOUS
  <2> HIDE DEF h
  <2>3. Promised(g)
    BY <1>2, <2>1, <2>2 DEF Promised
  <2>4. Promised(g)' /\ Goes(k, g)
    BY <2>1, <2>2, <2>3, PromisedStays
  <2> QED BY <2>4, MoverPromised DEF TerminatedInv
<1>3. CASE Terminate(k) /\ ~UNCHANGED client
  <2>1. /\ "Terminate" \in Operations /\ Current \in stored
        /\ Starts(k, "Terminate", "call")
        /\ state[Current] \in {"Instantiated", "InstantiateFailed"}
    BY <1>3 DEF Terminate, Resumes, Called, Reports
  <2>2. Current \in AppContexts /\ Underway(Current)
    BY <2>1 DEF Underway, BegunAt, Inv, StoreInv, StoreTypeOK
  <2> QED BY <1>2, <1>3, <2>1, <2>2 DEF PCs
<1>4. CASE Create(k)
  <2>1. PICK h : h = [Idle EXCEPT !.pc = "create"]
    OBVIOUS
  <2>2. "Create" \in Operations /\ Goes(k, h) /\ h.pc = "create" /\ h.op = "Create"
    BY <1>4, <2>1 DEF Create, Called, Idle
  <2>3. Promised(h)'
    BY <2>2 DEF Promised
  <2> QED BY <2>2, <2>3, MoverPromised DEF TerminatedInv
<1>5. CASE ~UNCHANGED client /\ ~Terminate(k) /\ ~Create(k)
  <2>1. PICK op \in Operations \ {"Terminate"}, pc \in PCs : Starts(k, op, pc)
    BY <1>5 DEF Start, ChangePermission, Instantiate, Stop, Resumes, Called, PCs,
         UpdateInstantiation, Delete, AddReference, RemoveReference, Kubeconfig
  <2> QED BY <1>2, <2>1
<1> QED BY <1>1, <1>3, <1>4, <1>5

\* A handler goes on.
LEMMA ContinuePromised ==
    ASSUME Inv, TerminatedInv, NEW k \in Clients, Continue(k),
           \A c \in AppContexts : Doomed(c) => Doomed(c)',
           \A c \in AppContexts : Underway(c) => Underway(c)'
    PROVE  \A j \in Clients : Promised(client[j])'
<1>1. /\ client[k] \in HandlerState /\ Coherent(client[k]) /\ client[k].pc # "idle"
      /\ Promised(client[k]) /\ client[k].op \in Operations
  <2>1. client[k].pc # "idle"
    BY DEF Continue, CreateState, DeleteContexts, RemoveDocument, Build, BuildFails, CallRsync, CallFails,
           DeleteCloudConfigs, AddState, AddStateFails, Subscribe, PrepareGitOps
  <2> QED BY <2>1, HandlerTypes DEF Inv, TerminatedInv, Promised
<1>2. ASSUME NEW h, Goes(k, h), Promised(h)'
      PROVE  \A j \in Clients : Promised(client[j])'
  BY <1>2, MoverPromised DEF TerminatedInv
<1>3. CASE Done(k)
  <2>1. Promised(Idle)'
    BY DEF Promised, Idle
  <2> QED BY <1>2, <1>3, <2>1 DEF Done
<1>4. PICK c : c = client[k].ctx
  OBVIOUS
<1>5. ASSUME NEW pc \in PCs, To(k, pc),
             client[k].op = "Terminate" => pc \in {"configs", "record"} /\ c \in AppContexts /\ Doomed(c)'
      PROVE  \A j \in Clients : Promised(client[j])'
  <2>1. PICK h : h = [client[k] EXCEPT !.pc = pc]
    OBVIOUS
  <2>2. h.pc = pc /\ h.op = client[k].op /\ h.ctx = c
    BY <1>1, <1>4, <2>1 DEF HandlerState
  <2>3. Promised(h)'
    BY <1>1, <1>5, <2>2 DEF Promised
  <2> QED BY <1>2, <1>5, <2>1, <2>3 DEF To
<1>6. CASE DeleteContexts(k)
  <2>1. client[k].op # "Terminate"
    BY <1>1, <1>6 DEF DeleteContexts, Coherent
  <2> QED BY <1>3, <1>5, <1>6, <2>1 DEF DeleteContexts, PCs
<1>7. CASE Build(k)
  <2>1. client[k].op # "Terminate"
    BY <1>1, <1>7 DEF Build, Coherent
  <2>2. PICK d \in AppContexts : Goes(k, [client[k] EXCEPT !.pc = "call", !.target = d])
    BY <1>7 DEF Build
  <2>3. PICK h : h = [client[k] EXCEPT !.pc = "call", !.target = d]
    OBVIOUS
  <2>4. h.pc = "call" /\ h.op = client[k].op
    BY <1>1, <2>3 DEF HandlerState
  <2>5. Promised(h)'
    BY <1>1, <2>1, <2>4 DEF Promised
  <2> QED BY <1>2, <2>2, <2>3, <2>5
<1>8. CASE CallRsync(k)
  <2>1. CASE client[k].op = "Terminate"
    <3>1. c \in AppContexts /\ Underway(c)
      BY <1>1, <1>4, <1>8, <2>1 DEF CallRsync, Promised
    <3>2. CallRsyncFor(c, "Terminate", NoContext) /\ UNCHANGED <<etcd, holds>>
      BY <1>4, <1>8, <2>1 DEF CallRsync, Request
    <3>3. Doomed(c)'
      BY <3>1, <3>2, TerminateDooms DEF Inv
    <3>4. PICK pc \in {"configs", "record"} : To(k, pc)
      BY <1>8, <2>1 DEF CallRsync
    <3> QED BY <1>5, <3>1, <3>3, <3>4 DEF PCs
  <2>2. CASE client[k].op # "Terminate"
    BY <1>5, <1>8, <2>2 DEF CallRsync, PCs
  <2> QED BY <2>1, <2>2
<1>9. CASE DeleteCloudConfigs(k)
  <2>1. client[k].op = "Terminate" => c \in AppContexts /\ Doomed(c)
    BY <1>1, <1>4, <1>9 DEF DeleteCloudConfigs, Promised
  <2> QED BY <1>5, <1>9, <2>1 DEF DeleteCloudConfigs, PCs
<1>10. CASE AddState(k)
  BY <1>3, <1>5, <1>10 DEF AddState, PCs
<1>11. CASE Subscribe(k)
  <2>1. CASE To(k, "gitops") /\ client[k].op = "Instantiate"
    BY <1>5, <2>1 DEF PCs
  <2> QED BY <1>3, <1>11, <2>1 DEF Subscribe
<1> QED BY <1>3, <1>6, <1>7, <1>8, <1>9, <1>10, <1>11
        DEF Continue, CreateState, RemoveDocument, BuildFails, CallFails, AddStateFails, PrepareGitOps

\* The StateInfo says "Terminated" only of what is doomed.
LEMMA RecordDoomed ==
    ASSUME "Stop" \notin Operations, Inv, TerminatedInv, [Next]_vars,
           \A c \in AppContexts : Doomed(c) => Doomed(c)'
    PROVE  (CurrentState(info) = "Terminated" => Current \in AppContexts /\ Doomed(Current))'
<1>1. CASE UNCHANGED info
  <2>1. PICK d : d = Current
    OBVIOUS
  <2>2. d = Current' /\ CurrentState(info)' = CurrentState(info)
    BY <1>1, <2>1 DEF Current
  <2> QED BY <2>1, <2>2 DEF TerminatedInv
<1>2. ASSUME NEW k \in Clients, CreateState(k), ~UNCHANGED info PROVE CurrentState(info') # "Terminated"
  <2>1. info' = WithAction(NoInfo, "Created", NoContext, 0)
    BY <1>2 DEF CreateState
  <2>2. /\ LastAction(info') = [state |-> "Created", ctx |-> NoContext, rev |-> 0]
        /\ info'.actions # <<>>
    <3>1. "Created" \in States /\ NoInfo \in StateInfo /\ NoContext \in AppContexts \cup {NoContext}
      BY NoInfoType DEF States
    <3>2. 0 \in Nat
      OBVIOUS
    <3>3. /\ LastAction(WithAction(NoInfo, "Created", NoContext, 0)) =
                 [state |-> "Created", ctx |-> NoContext, rev |-> 0]
          /\ WithAction(NoInfo, "Created", NoContext, 0).actions # <<>>
      BY <3>1, <3>2, WithActionType
    <3> QED BY <2>1, <3>3
  <2> QED BY <2>2 DEF CurrentState
<1>3. ASSUME NEW k \in Clients, RemoveDocument(k)
      PROVE  UNCHANGED info \/ CurrentState(info') # "Terminated"
  BY <1>3 DEF RemoveDocument, NoInfo, CurrentState, Exists
<1>4. ASSUME NEW k \in Clients, AddState(k)
      PROVE  CurrentState(info') = "Terminated" =>
                 \E d \in AppContexts : d = LastContextId(info') /\ Doomed(d)'
  <2> DEFINE h == client[k]
             s == IF h.op = "Update" THEN h.snap ELSE info
             t == WithAction(s, Leaves(h), Recorded(h), LatestRevision(s) + 1)
  <2>1. /\ h.pc = "record" /\ h.op \in {"Instantiate", "Terminate", "Update", "Stop"}
        /\ Recorded(h) \in AppContexts \cup {NoContext}
        /\ h.snap \in StateInfo /\ Exists(h.snap) /\ Promised(h)
    BY <1>4, HandlerTypes DEF AddState, Coherent, Recorded, Inv, TerminatedInv
  <2>2. h.op # "Stop"
    BY <2>1 DEF Promised
  <2>3. Leaves(h) \in States /\ (Leaves(h) = "Terminated" <=> h.op = "Terminate")
    BY <2>1, <2>2 DEF Leaves, States
  <2>4. s \in StateInfo /\ LatestRevision(s) + 1 \in Nat
    <3>1. s \in StateInfo /\ Exists(s)
      BY <1>4, <2>1 DEF AddState, Inv, DocumentInv
    <3> HIDE DEF s
    <3> QED BY <3>1, LastActionType
  <2>5. /\ t \in StateInfo /\ t.actions # <<>>
        /\ LastAction(t) = [state |-> Leaves(h), ctx |-> Recorded(h), rev |-> LatestRevision(s) + 1]
    <3> HIDE DEF s, h
    <3> QED BY <2>1, <2>3, <2>4, WithActionType
  <2>6. info' = IF h.op = "Update" THEN t ELSE [t EXCEPT !.statusCtx = Recorded(h)]
    BY <1>4 DEF AddState
  <2>7. info'.actions = t.actions
    <3> HIDE DEF t, h
    <3> QED BY <2>5, <2>6 DEF StateInfo
  <2>8. CurrentState(info') = Leaves(h) /\ LastContextId(info') = Recorded(h)
    <3> HIDE DEF t, h, s
    <3> QED BY <2>5, <2>7 DEF CurrentState, LastContextId, LastAction, Exists
  <2>9. h.op = "Terminate" => Recorded(h) = h.ctx /\ h.ctx \in AppContexts /\ Doomed(h.ctx)
    BY <2>1 DEF Recorded, Promised
  <2>10. PICK c : c = h.ctx
    OBVIOUS
  <2>11. PICK d : d = LastContextId(info')
    OBVIOUS
  <2>12. CurrentState(info') = "Terminated" => d \in AppContexts /\ Doomed(d)'
    BY <2>3, <2>8, <2>9, <2>10, <2>11
  <2> QED BY <2>11, <2>12
<1>5. \/ UNCHANGED info
      \/ \E k \in Clients : CreateState(k) \/ RemoveDocument(k) \/ AddState(k)
  BY ZenonT(60) DEF Next, Start, Continue, Create, ChangePermission, Instantiate, Terminate, Stop, UpdateInstantiation,
         Delete, AddReference, RemoveReference, Kubeconfig, DeleteContexts, Build, BuildFails,
         CallRsync, CallFails, DeleteCloudConfigs, AddStateFails, Subscribe, PrepareGitOps,
         NotYet, ProcessAlert, RsyncDeploys, RsyncRemoves, RsyncWorks, Report, Restart, vars,
         document, Configured
<1>6. \/ UNCHANGED info
      \/ CurrentState(info') # "Terminated"
      \/ \E d \in AppContexts : d = LastContextId(info') /\ Doomed(d)'
  BY <1>2, <1>3, <1>4, <1>5
<1>7. (CurrentState(info) = "Terminated")' <=> CurrentState(info') = "Terminated"
  BY DEF CurrentState, LastAction, Exists
<1>8. Current' = LastContextId(info')
  BY DEF Current, LastContextId, LastAction
<1> QED BY <1>1, <1>6, <1>7, <1>8

\* Without Stop, however many handlers work on the cloud at a time, whatever rsync
\* makes of its events and whenever the manager dies: the resources of a cloud
\* that is recorded as terminated are leaving the clusters (Terminate in
\* dcm/pkg/module/apply.go).
THEOREM TerminatedIsLeavingSafe ==
    ASSUME "Stop" \notin Operations
    PROVE  Spec => []TerminatedIsLeaving
<1>1. Init => TerminatedInv
  BY DEF Init, InitStore, InitLifecycle, TerminatedInv, Unstopped, NoInfo, CurrentState, Exists,
         Promised, Idle
<1>2. Inv /\ TerminatedInv /\ [Next]_vars => TerminatedInv'
  <2> SUFFICES ASSUME Inv, TerminatedInv, [Next]_vars PROVE TerminatedInv'
    OBVIOUS
  <2>1. /\ Unstopped'
        /\ \A c \in AppContexts : Doomed(c) => Doomed(c)'
        /\ \A c \in AppContexts : Underway(c) => Underway(c)'
    BY NoReturn DEF TerminatedInv
  <2>2. (CurrentState(info) = "Terminated" => Current \in AppContexts /\ Doomed(Current))'
    BY <2>1, RecordDoomed
  <2>3. \A j \in Clients : Promised(client[j])'
    <3>1. CASE \E k \in Clients : Start(k)
      BY <2>1, <3>1, StartPromised
    <3>2. CASE \E k \in Clients : Continue(k)
      BY <2>1, <3>2, ContinuePromised
    <3>3. CASE Restart
      BY <3>3 DEF Restart, Promised, Idle
    <3>4. CASE UNCHANGED client
      <4> TAKE j \in Clients
      <4>1. PICK g : g = client[j]
        OBVIOUS
      <4>2. Promised(g)' /\ g = client'[j]
        BY <2>1, <3>4, <4>1, PromisedStays DEF TerminatedInv
      <4> QED BY <4>2 DEF Promised
    <3>5. \/ \E k \in Clients : Start(k) \/ Continue(k)
          \/ Restart
          \/ UNCHANGED client
      BY DEF Next, NotYet, ProcessAlert, RsyncDeploys, RsyncRemoves, RsyncWorks, Report, vars
    <3> QED BY <3>1, <3>2, <3>3, <3>4, <3>5
  <2> QED BY <2>1, <2>2, <2>3 DEF TerminatedInv
<1>3. Inv /\ TerminatedInv => TerminatedIsLeaving
  BY DoomedIsLeaving DEF Inv, TerminatedInv, TerminatedIsLeaving
<1> QED BY <1>1, <1>2, <1>3, Invariance, PTL DEF Spec

-------------------------------------------------------------------------------
(* What is on the clusters.  With one handler at a time, and an rsync whose  *)
(* operations succeed, every AppContext but the current one and the one that *)
(* is being made is gone from the clusters or on its way.                    *)

\* The one event of c is a request to deploy it.
Deploying(c) == Len(pending[c]) = 1 /\ Deploys(pending[c][1].ev)

\* rsync was told to replace d by c, and has not decided.
Updating(c, d) == Deploying(c) /\ pending[c][1].ev = "Update" /\ pending[c][1].other = d

Gone(c) == c \in used /\ c \notin holds /\ ~Deploying(c)

\* The request to deploy c is behind us.
Settled(c) == state[c] \notin {"Created", "Instantiating"}

\* c was deployed, and only a stop interrupts its removal.
Risen(c) ==
    /\ state[c] \notin {"Created", "Instantiating", "InstantiateFailed"}
    /\ state[c] \in {"Terminating", "Updating"} /\ work[c] = "idle" => stopFlag[c]

Off(c) == Gone(c) \/ (c \in stored /\ Risen(c) /\ (Leaving(c) \/ stopFlag[c]))

Past(c) == Off(c) \/ (c \in stored /\ Risen(c) /\ Replacing(c))

\* rsync has not heard of c.
Fresh(c) ==
    /\ c \in stored \ holds
    /\ state[c] = "Created" /\ work[c] = "idle" /\ pending[c] = <<>> /\ ~stopFlag[c]

\* A request to deploy c comes first and stands alone; afterwards c is only removed.
QueueInv(c) ==
    /\ ~Deploying(c) => \A i \in 1 .. Len(pending[c]) : Removes(pending[c][i].ev)
    /\ Deploying(c) => ~Settled(c) /\ work[c] \in {"idle", "busy", "handed"}
    /\ Settled(c) => work[c] \in {"idle", "busy", "Terminated", "TerminateFailed", "Updated", "UpdateFailed"}
    /\ work[c] = "handed" => Deploying(c)
    /\ work[c] = "busy" /\ ~Deploying(c) => state[c] \in {"Terminating", "Updating"}
    /\ {state[c], work[c]} \cap {"Terminated", "Updated"} # {} => c \notin holds
    /\ "Instantiated" \in {state[c], work[c]} => c \in holds
    /\ c \notin used => state[c] = "Created" /\ work[c] = "idle" /\ pending[c] = <<>> /\ ~stopFlag[c]

\* An update is not stopped or passed over, and what it replaces goes in the end.
UpdateInv(c) ==
    Deploying(c) /\ pending[c][1].ev = "Update" =>
        /\ c \in stored /\ ~stopFlag[c]
        /\ work[c] = "idle" => state[c] = "Created"
        /\ pending[c][1].other \in AppContexts
        /\ Settled(pending[c][1].other) /\ Past(pending[c][1].other)
        /\ work[c] = "handed" => Off(pending[c][1].other)

\* A step at most queues the removal of c, or takes it out of etcd once it is gone.
Calm(c) ==
    /\ state'[c] = state[c] /\ work'[c] = work[c] /\ (c \in holds' <=> c \in holds)
    /\ \/ pending'[c] = pending[c]
       \/ Settled(c) /\ \E e \in PendingEvent : Removes(e.ev) /\ pending'[c] = Append(pending[c], e)
    /\ c \in used => c \in used'
    /\ stopFlag'[c] => stopFlag[c] \/ c \in used
    /\ c \in stored => c \in stored' \/ Gone(c)

\* What a step keeps of c.
Lasting(c) ==
    /\ Gone(c) => Gone(c)'
    /\ Settled(c) => Settled(c)'
    /\ c \in stored /\ c \in stored' /\ Risen(c) => Risen(c)'
    /\ Off(c) => Off(c)'
    /\ Deploying(c)' => Deploying(c) /\ pending'[c] = pending[c]

\* The queue of an AppContext.
LEMMA QueueFacts ==
    ASSUME StoreInv, NEW c \in AppContexts
    PROVE  /\ pending[c] \in Seq(PendingEvent) /\ Len(pending[c]) \in Nat
           /\ DOMAIN pending[c] = 1 .. Len(pending[c])
           /\ Len(pending[c]) = 0 <=> pending[c] = <<>>
           /\ pending[c] # <<>> =>
                 /\ Head(pending[c]) = pending[c][1] /\ First(c) = pending[c][1].ev
                 /\ pending[c][1] \in PendingEvent /\ pending[c][1].ev \in RsyncEvents
<1>1. pending[c] \in Seq(PendingEvent)
  BY DEF StoreInv, StoreTypeOK
<1>2. /\ Len(pending[c]) \in Nat /\ DOMAIN pending[c] = 1 .. Len(pending[c])
      /\ (Len(pending[c]) = 0 <=> pending[c] = <<>>)
  BY <1>1, EmptySeq, LenProperties
<1>3. pending[c] # <<>> => Head(pending[c]) = pending[c][1] /\ Head(pending[c]) \in PendingEvent
  BY <1>1, HeadTailProperties
<1> QED BY <1>1, <1>2, <1>3 DEF First, PendingEvent

\* What rsync is to do for an AppContext in the state in which a step leaves it.
LEMMA QueueFactsNext ==
    ASSUME StoreInv', NEW c \in AppContexts
    PROVE  /\ pending'[c] \in Seq(PendingEvent) /\ Len(pending'[c]) \in Nat
           /\ DOMAIN pending'[c] = 1 .. Len(pending'[c])
           /\ Len(pending'[c]) = 0 <=> pending'[c] = <<>>
<1>1. pending'[c] \in Seq(PendingEvent)
  BY DEF StoreInv, StoreTypeOK
<1> QED BY <1>1, EmptySeq, LenProperties

\* A calm step.
LEMMA CalmKeeps ==
    ASSUME StoreInv, NEW c \in AppContexts, QueueInv(c), Calm(c)
    PROVE  /\ QueueInv(c)'
           /\ Gone(c) => Gone(c)'
           /\ Settled(c) => Settled(c)'
           /\ Deploying(c)' => Deploying(c) /\ pending'[c] = pending[c]
           /\ (stopFlag[c] => stopFlag'[c]) => Lasting(c)
           /\ Fresh(c) /\ c \in stored' /\ ~stopFlag'[c] => Fresh(c)'
<1>1. /\ pending[c] \in Seq(PendingEvent) /\ Len(pending[c]) \in Nat
      /\ DOMAIN pending[c] = 1 .. Len(pending[c])
  BY QueueFacts
<1>2. /\ Len(pending'[c]) \in Nat /\ Len(pending[c]) <= Len(pending'[c])
      /\ DOMAIN pending'[c] = 1 .. Len(pending'[c])
      /\ \A i \in 1 .. Len(pending[c]) : pending'[c][i] = pending[c][i]
      /\ \/ pending'[c] = pending[c]
         \/ Settled(c) /\ \A i \in 1 .. Len(pending'[c]) : i > Len(pending[c]) => Removes(pending'[c][i].ev)
  <2>1. CASE pending'[c] = pending[c]
    BY <1>1, <2>1
  <2>2. ASSUME NEW e \in PendingEvent, Removes(e.ev), pending'[c] = Append(pending[c], e), Settled(c)
        PROVE <1>2
    <3>1. /\ Append(pending[c], e) \in Seq(PendingEvent)
          /\ Len(pending'[c]) = Len(pending[c]) + 1
          /\ \A i \in 1 .. Len(pending[c]) : pending'[c][i] = pending[c][i]
          /\ pending'[c][Len(pending[c]) + 1] = e
      BY <1>1, <2>2, AppendProperties
    <3>2. DOMAIN pending'[c] = 1 .. Len(pending'[c])
      BY <2>2, <3>1, LenProperties
    <3>3. \A i \in 1 .. Len(pending'[c]) : i > Len(pending[c]) => i = Len(pending[c]) + 1
      BY <1>1, <3>1
    <3> QED BY <1>1, <2>2, <3>1, <3>2, <3>3
  <2> QED BY <2>1, <2>2 DEF Calm
<1>3. Settled(c) => ~Deploying(c)
  BY DEF QueueInv
<1>4. /\ Deploying(c)' <=> Deploying(c)
      /\ Deploying(c) => pending'[c] = pending[c]
  <2>1. CASE pending'[c] = pending[c]
    BY <2>1 DEF Deploying
  <2>2. CASE pending'[c] # pending[c]
    <3>1. Settled(c) /\ ~Deploying(c) /\ \A i \in 1 .. Len(pending'[c]) : i > Len(pending[c]) => Removes(pending'[c][i].ev)
      BY <1>2, <1>3, <2>2
    <3>2. ASSUME Deploying(c)' PROVE FALSE
      <4>1. Len(pending'[c]) = 1 /\ Deploys(pending'[c][1].ev)
        BY <3>2 DEF Deploying
      <4>2. CASE Len(pending[c]) = 1
        BY <1>2, <3>1, <4>1, <4>2 DEF Deploying
      <4>3. CASE Len(pending[c]) = 0
        BY <1>2, <3>1, <4>1, <4>3 DEF Deploys, Removes
      <4>4. PICK m \in Nat, n \in Nat : m = Len(pending[c]) /\ n = Len(pending'[c]) /\ m <= n
        BY <1>1, <1>2
      <4>5. m = 0 \/ m = 1
        <5>1. n = 1
          BY <4>1, <4>4
        <5>2. m <= 1
          BY <4>4, <5>1
        <5> QED BY <5>2
      <4> QED BY <4>2, <4>3, <4>4, <4>5
    <3> QED BY <3>1, <3>2
  <2> QED BY <2>1, <2>2
<1>5. ~Deploying(c)' => \A i \in 1 .. Len(pending'[c]) : Removes(pending'[c][i].ev)
  <2>1. SUFFICES ASSUME ~Deploying(c), NEW i \in 1 .. Len(pending'[c]) PROVE Removes(pending'[c][i].ev)
    BY <1>4
  <2>2. CASE i \in 1 .. Len(pending[c])
    BY <1>2, <2>1, <2>2 DEF QueueInv
  <2>3. CASE i > Len(pending[c])
    BY <1>1, <1>2, <2>1, <2>3
  <2> QED BY <1>1, <1>2, <2>2, <2>3
<1>6. /\ state'[c] = state[c] /\ work'[c] = work[c] /\ (c \in holds' <=> c \in holds)
      /\ c \in used => c \in used'
      /\ stopFlag'[c] => stopFlag[c] \/ c \in used
  BY DEF Calm
<1>7. (Settled(c)' <=> Settled(c)) /\ (Gone(c) => Gone(c)')
  BY <1>4, <1>6 DEF Settled, Gone
<1>8. c \notin used' => state'[c] = "Created" /\ work'[c] = "idle" /\ pending'[c] = <<>> /\ ~stopFlag'[c]
  <2>1. c \notin used' => ~Settled(c)
    BY <1>6 DEF QueueInv, Settled
  <2> QED BY <1>2, <1>6, <2>1 DEF QueueInv
<1>9. QueueInv(c)'
  BY <1>4, <1>5, <1>6, <1>7, <1>8 DEF QueueInv
<1>10. ASSUME stopFlag[c] => stopFlag'[c] PROVE Lasting(c)
  <2>1. c \in stored /\ Risen(c) => Risen(c)'
    BY <1>6, <1>10 DEF Risen
  <2>2. Leaving(c) => Leaving(c)'
    <3>1. CASE \E i \in DOMAIN pending[c] : Removes(pending[c][i].ev)
      <4>1. PICK i \in 1 .. Len(pending[c]) : Removes(pending[c][i].ev)
        BY <1>1, <3>1
      <4>2. i \in DOMAIN pending'[c] /\ pending'[c][i] = pending[c][i]
        BY <1>1, <1>2
      <4> QED BY <4>1, <4>2 DEF Leaving
    <3> QED BY <1>6, <3>1 DEF Leaving
  <2>3. Off(c) => Off(c)'
    BY <1>7, <1>10, <2>1, <2>2 DEF Off, Calm
  <2> QED BY <1>4, <1>7, <2>1, <2>3 DEF Lasting
<1>11. Fresh(c) /\ c \in stored' /\ ~stopFlag'[c] => Fresh(c)'
  <2>1. Fresh(c) => pending'[c] = pending[c]
    BY DEF Fresh, Calm, Settled
  <2> QED BY <1>6, <2>1 DEF Fresh
<1> QED BY <1>4, <1>7, <1>9, <1>10, <1>11

\* Only the first event of a queue is an Update.
LEMMA UpdatingIs ==
    ASSUME StoreInv, \A e \in AppContexts : QueueInv(e), NEW c \in AppContexts
    PROVE  Replacing(c) <=> \E e \in AppContexts : Updating(e, c)
<1>1. ASSUME NEW e \in AppContexts, NEW i \in DOMAIN pending[e],
             pending[e][i].ev = "Update", pending[e][i].other = c
      PROVE  Updating(e, c)
  <2>1. DOMAIN pending[e] = 1 .. Len(pending[e]) /\ Len(pending[e]) \in Nat
    BY QueueFacts
  <2>2. Deploying(e)
    BY <1>1, <2>1 DEF QueueInv, Removes
  <2>3. i = 1
    BY <1>1, <2>1, <2>2 DEF Deploying
  <2> QED BY <1>1, <2>2, <2>3 DEF Updating
<1>2. ASSUME NEW e \in AppContexts, Updating(e, c) PROVE Replacing(c)
  <2>1. 1 \in DOMAIN pending[e]
    BY <1>2, QueueFacts DEF Updating, Deploying
  <2> QED BY <1>2, <2>1 DEF Updating, Replacing
<1> QED BY <1>1, <1>2 DEF Replacing

\* The same after a step.
LEMMA UpdatingReplaces ==
    ASSUME StoreInv', NEW c \in AppContexts, NEW e \in AppContexts, Updating(e, c)'
    PROVE  Replacing(c)'
<1>1. 1 \in DOMAIN pending'[e]
  BY QueueFactsNext DEF Updating, Deploying
<1> QED BY <1>1 DEF Updating, Replacing

\* What is past stays so, if its update is not decided too early.
LEMMA PastKeeps ==
    ASSUME StoreInv, StoreInv', \A e \in AppContexts : QueueInv(e),
           NEW c \in AppContexts, Lasting(c), Past(c), c \in stored => c \in stored' \/ Gone(c),
           \A e \in AppContexts : Updating(e, c) => Updating(e, c)' \/ Off(c)
    PROVE  Past(c)'
<1>1. CASE Off(c)
  BY <1>1 DEF Lasting, Past
<1>2. CASE ~Off(c)
  <2>1. c \in stored /\ Risen(c) /\ Replacing(c) /\ ~Gone(c)
    BY <1>2 DEF Past, Off
  <2>2. PICK e \in AppContexts : Updating(e, c)
    BY <2>1, UpdatingIs
  <2>3. Replacing(c)'
    BY <1>2, <2>2, UpdatingReplaces
  <2> QED BY <2>1, <2>3 DEF Lasting, Past
<1> QED BY <1>1, <1>2

\* A request to update lasts, if it is neither stopped nor passed over.
LEMMA UpdateKeeps ==
    ASSUME StoreInv', NEW c \in AppContexts, UpdateInv(c), Lasting(c),
           c \in stored => c \in stored' \/ Gone(c),
           stopFlag'[c] => stopFlag[c] \/ ~(Deploying(c) /\ pending[c][1].ev = "Update"),
           \A d \in AppContexts : Updating(c, d) =>
               /\ Lasting(d) /\ (d \in stored => d \in stored' \/ Gone(d))
               /\ work'[c] = "idle" => state'[c] = "Created"
               /\ work'[c] = "handed" => Off(d)'
    PROVE  UpdateInv(c)'
<1> SUFFICES ASSUME Deploying(c)', pending'[c][1].ev = "Update" PROVE UpdateInv(c)'
  BY DEF UpdateInv
<1>1. Deploying(c) /\ pending'[c] = pending[c]
  BY DEF Lasting
<1>2. PICK d \in AppContexts : d = pending[c][1].other
  BY <1>1 DEF UpdateInv
<1>3. /\ c \in stored /\ ~stopFlag[c] /\ Settled(d) /\ Past(d)
      /\ pending'[c][1].other = d /\ Updating(c, d) /\ Updating(c, d)'
  BY <1>1, <1>2 DEF UpdateInv, Updating
<1>4. c \in stored' /\ ~stopFlag'[c]
  BY <1>1, <1>3 DEF Gone
<1>5. Settled(d)'
  BY <1>3 DEF Lasting
<1>6. Past(d)'
  <2>1. Replacing(d)'
    BY <1>3, UpdatingReplaces
  <2> QED BY <1>3, <2>1 DEF Lasting, Past, Off
<1> QED BY <1>1, <1>2, <1>3, <1>4, <1>5, <1>6 DEF UpdateInv

\* What rsync does to the AppContext d it works on.
RsyncStep(d) == RsyncDeploys(d) \/ RsyncRemoves(d) \/ RsyncWorks(d)

\* Its steps, when none of its operations fails.
LEMMA RsyncCases ==
    ASSUME "fail" \notin Faults, StoreInv, NEW d \in AppContexts, RsyncStep(d), UpdateInv(d), QueueInv(d)
    PROVE  /\ UNCHANGED <<stored, used, stopFlag>>
           /\ \/ RsyncAccepts(d) /\ UNCHANGED holds
              \/ /\ work[d] = "busy" /\ pending[d] # <<>> /\ First(d) = "Update"
                 /\ Head(pending[d]).other \in AppContexts
                 /\ Submit(Head(pending[d]).other, "UpdateDelete", d)
                 /\ work' = [work EXCEPT ![d] = "handed"] /\ UNCHANGED state
                 /\ holds' = holds \cup {d}
              \/ RsyncSucceeds(d) /\ pending[d] # <<>>
              \/ RsyncRefuses(d) /\ UNCHANGED holds
              \/ RsyncSettles(d) /\ UNCHANGED holds
              \/ RsyncAbandons(d) /\ UNCHANGED holds
              \/ /\ UNCHANGED <<pending, state, work>> /\ holds' = holds \cup {d}
                 /\ d \in stored /\ work[d] = "busy" /\ pending[d] # <<>> /\ Deploys(First(d))
<1>1. UNCHANGED <<stored, used, stopFlag>>
  BY DEF RsyncStep, RsyncDeploys, RsyncRemoves, RsyncWorks, RsyncAccepts, RsyncHandsOver, RsyncSucceeds,
         RsyncFails, RsyncRefuses, RsyncSettles, RsyncAbandons, etcd
<1>2. work[d] \in {"busy", "handed"} => pending[d] # <<>>
  BY DEF StoreInv, HandledIsPending
<1>3. CASE RsyncDeploys(d)
  BY <1>1, <1>2, <1>3 DEF RsyncDeploys, lifecycle
<1>4. CASE RsyncRemoves(d)
  BY <1>1, <1>2, <1>4 DEF RsyncRemoves, RsyncSucceeds, Succeed, Ended
<1>5. CASE RsyncWorks(d)
  <2>1. ~RsyncFails(d)
    BY DEF RsyncFails
  <2>2. CASE RsyncHandsOver(d)
    <3>1. work[d] = "busy" /\ pending[d] # <<>> /\ First(d) = "Update"
      BY <1>2, <2>2 DEF RsyncHandsOver, HandsOver
    <3>2. Head(pending[d]) = pending[d][1] /\ First(d) = pending[d][1].ev
      BY <3>1, QueueFacts
    <3>3. 1 \in 1 .. Len(pending[d])
      BY <3>1, QueueFacts
    <3>4. Deploying(d)
      BY <3>1, <3>2, <3>3 DEF QueueInv, Removes
    <3>5. Head(pending[d]).other \in AppContexts
      BY <3>1, <3>2, <3>4 DEF UpdateInv
    <3>6. HandsOver(d) /\ ~UNCHANGED pending /\ holds' = holds \cup {d}
      BY <2>2, <3>5 DEF RsyncHandsOver
    <3> QED BY <1>1, <3>1, <3>5, <3>6 DEF HandsOver
  <2>3. CASE ~RsyncHandsOver(d)
    <3>1. RsyncAccepts(d) \/ RsyncRefuses(d) \/ RsyncSettles(d) \/ RsyncAbandons(d) \/ RsyncSucceeds(d)
      BY <1>5, <2>1, <2>3 DEF RsyncWorks
    <3>2. CASE RsyncSucceeds(d)
      BY <1>1, <1>2, <3>2 DEF RsyncSucceeds, Succeed, Ended
    <3> QED BY <1>1, <3>1, <3>2 DEF RsyncAccepts, RsyncRefuses, RsyncSettles, RsyncAbandons
  <2> QED BY <2>2, <2>3
<1> QED BY <1>3, <1>4, <1>5 DEF RsyncStep

\* What remains of a queue of removals, and of one with a request to deploy.
LEMMA TailKeeps ==
    ASSUME StoreInv, NEW d \in AppContexts, QueueInv(d), pending[d] # <<>>, pending'[d] = Tail(pending[d])
    PROVE  /\ ~Deploying(d)'
           /\ \A i \in 1 .. Len(pending'[d]) : Removes(pending'[d][i].ev)
           /\ Deploying(d) <=> Deploys(First(d))
           /\ ~Deploying(d) <=> Removes(First(d))
           /\ Len(pending[d]) > 1 => Removes(pending[d][2].ev)
<1>1. /\ pending[d] \in Seq(PendingEvent) /\ Len(pending[d]) \in Nat /\ Len(pending[d]) # 0
      /\ First(d) = pending[d][1].ev
  BY QueueFacts
<1>2. /\ Len(pending'[d]) = Len(pending[d]) - 1
      /\ \A i \in 1 .. Len(pending[d]) - 1 : pending'[d][i] = pending[d][i + 1]
  BY <1>1, HeadTailProperties
<1>3. Deploys(First(d)) => ~Removes(First(d))
  BY DEF Deploys, Removes
<1>4. /\ Deploying(d) <=> Deploys(First(d))
      /\ ~Deploying(d) <=> Removes(First(d))
      /\ Len(pending[d]) > 1 => Removes(pending[d][2].ev)
  <2>1. 1 \in 1 .. Len(pending[d])
    BY <1>1
  <2>2. CASE Deploying(d)
    BY <1>1, <1>3, <2>2 DEF Deploying
  <2>3. CASE ~Deploying(d)
    <3>1. Removes(First(d))
      BY <1>1, <2>1, <2>3 DEF QueueInv
    <3>2. Len(pending[d]) > 1 => 2 \in 1 .. Len(pending[d])
      BY <1>1
    <3> QED BY <1>3, <2>3, <3>1, <3>2 DEF QueueInv
  <2> QED BY <2>2, <2>3
<1>5. \A i \in 1 .. Len(pending'[d]) : Removes(pending'[d][i].ev)
  <2>1. CASE Deploying(d)
    <3>1. Len(pending'[d]) = 0
      BY <1>2, <2>1 DEF Deploying
    <3> QED BY <3>1
  <2>2. CASE ~Deploying(d)
    <3> TAKE i \in 1 .. Len(pending'[d])
    <3>1. i \in 1 .. Len(pending[d]) - 1
      BY <1>2
    <3>2. PICK l \in 1 .. Len(pending[d]) : l = i + 1
      BY <1>1, <3>1
    <3>3. pending'[d][i] = pending[d][l]
      BY <1>2, <3>1, <3>2
    <3> QED BY <2>2, <3>3 DEF QueueInv
  <2> QED BY <2>1, <2>2
<1>6. ~Deploying(d)'
  <2> SUFFICES ASSUME Deploying(d)' PROVE FALSE
    OBVIOUS
  <2>1. Len(pending'[d]) = 1 /\ Deploys(pending'[d][1].ev)
    BY DEF Deploying
  <2>2. Removes(pending'[d][1].ev)
    BY <1>5, <2>1
  <2> QED BY <2>1, <2>2 DEF Deploys, Removes
<1> QED BY <1>4, <1>5, <1>6

\* An AppContext that is to be deployed is none of those that go.
LEMMA DeployingLasting ==
    ASSUME NEW d \in AppContexts, QueueInv(d), Deploying(d), Deploying(d)' => pending'[d] = pending[d]
    PROVE  Lasting(d)
  BY DEF QueueInv, Lasting, Gone, Settled, Risen, Off

\* The states of an AppContext that is removed.
LEMMA RemovalStates ==
    ASSUME NEW e \in RsyncEvents, Removes(e)
    PROVE  /\ RunningState(e) \in {"Terminating", "Updating"}
           /\ DesiredState(e) \in {"Terminated", "Updated"}
           /\ ErrorState(e) \in {"TerminateFailed", "UpdateFailed"}
           /\ SourceStates(e) \subseteq AppContextStatuses
           /\ "Instantiated" \in SourceStates(e)
  BY DEF Removes, RunningState, DesiredState, ErrorState, SourceStates, AppContextStatuses

\* The states of an AppContext that is deployed.
LEMMA DeployStates ==
    ASSUME NEW e \in RsyncEvents, Deploys(e)
    PROVE  /\ RunningState(e) = "Instantiating"
           /\ DesiredState(e) = "Instantiated"
           /\ ErrorState(e) = "InstantiateFailed"
           /\ "Created" \in SourceStates(e)
  BY DEF Deploys, RunningState, DesiredState, ErrorState, SourceStates

\* rsync works on an AppContext it is to deploy.
LEMMA DeployOwn ==
    ASSUME "fail" \notin Faults, StoreInv, NEW d \in AppContexts, RsyncStep(d), UpdateInv(d), QueueInv(d),
           Deploying(d)
    PROVE  /\ QueueInv(d)'
           /\ Deploying(d)' => pending'[d] = pending[d]
           /\ pending[d][1].ev = "Update" /\ work'[d] = "idle" => state'[d] = "Created"
<1>1. UNCHANGED <<stored, used, stopFlag>>
  BY RsyncCases
<1>2. /\ pending[d] # <<>> /\ First(d) = pending[d][1].ev /\ Deploys(First(d)) /\ First(d) \in RsyncEvents
      /\ Head(pending[d]) = pending[d][1] /\ Len(pending[d]) = 1
      /\ state \in [AppContexts -> AppContextStatuses] /\ work \in [AppContexts -> Works]
      /\ pending \in [AppContexts -> Seq(PendingEvent)]
  BY QueueFacts DEF Deploying, StoreInv, StoreTypeOK
<1>3. /\ RunningState(First(d)) = "Instantiating" /\ DesiredState(First(d)) = "Instantiated"
      /\ ErrorState(First(d)) = "InstantiateFailed" /\ "Created" \in SourceStates(First(d))
      /\ First(d) # "Terminate" /\ ~Removes(First(d))
  BY <1>2, DeployStates DEF Deploys, Removes
<1>4. ~Settled(d) /\ work[d] \in {"idle", "busy", "handed"} /\ d \in used
  <2>1. d \in used
    BY <1>2 DEF QueueInv
  <2> QED BY <2>1 DEF QueueInv
<1>5. state[d] \in {"Created", "Instantiating"}
  BY <1>4 DEF Settled
<1>6. CASE pending'[d] = pending[d]
  <2>1. /\ state'[d] \in {"Created", "Instantiating"} /\ work'[d] \in {"idle", "busy", "handed"}
        /\ pending[d][1].ev = "Update" /\ work'[d] = "idle" => state'[d] = "Created"
    <3>1. CASE RsyncAccepts(d)
      BY <1>2, <1>3, <3>1 DEF RsyncAccepts, Accept
    <3>2. CASE work' = [work EXCEPT ![d] = "handed"] /\ UNCHANGED state
      BY <1>2, <1>5, <3>2
    <3>3. CASE RsyncSucceeds(d) \/ RsyncRefuses(d)
      <4>1. pending'[d] = Tail(pending[d])
        BY <1>2, <3>3 DEF RsyncSucceeds, RsyncRefuses, Succeed, Refused, Decide
      <4>2. Len(Tail(pending[d])) = 0
        BY <1>2, HeadTailProperties
      <4> QED BY <1>2, <1>6, <4>1, <4>2
    <3>4. CASE RsyncSettles(d)
      BY <1>4, <3>4 DEF RsyncSettles, Settle, AppContextStatuses
    <3>5. CASE RsyncAbandons(d)
      BY <1>1, <1>2, <1>5, <3>5 DEF RsyncAbandons, Abandon, UpdateInv
    <3>6. CASE UNCHANGED <<pending, state, work>>
      BY <1>2, <1>4, <1>5, <3>6 DEF UpdateInv
    <3> QED BY RsyncCases, <3>1, <3>2, <3>3, <3>4, <3>5, <3>6
  <2>2. Deploying(d)' /\ ~Settled(d)'
    BY <1>6, <2>1 DEF Deploying, Settled
  <2>3. QueueInv(d)'
    BY <1>1, <1>4, <2>1, <2>2 DEF QueueInv
  <2> QED BY <1>6, <2>1, <2>3
<1>7. CASE pending'[d] = Tail(pending[d])
  <2>1. ~Deploying(d)' /\ \A i \in 1 .. Len(pending'[d]) : Removes(pending'[d][i].ev)
    BY <1>2, <1>7, TailKeeps
  <2>2. /\ state'[d] = state[d] /\ work'[d] \in {"Instantiated", "InstantiateFailed", "idle"}
        /\ work'[d] = "Instantiated" => d \in holds'
        /\ pending[d][1].ev = "Update" => work'[d] # "idle"
    <3>1. CASE RsyncSucceeds(d)
      BY <1>2, <1>3, <3>1 DEF RsyncSucceeds, Succeed, Decide
    <3>2. CASE RsyncRefuses(d)
      <4>1. state'[d] = state[d] /\ work[d] = "idle"
        BY <1>2, <3>2 DEF RsyncRefuses, Refused, Decide
      <4>2. CASE Ignored(d)
        BY <1>3, <3>2, <4>1, <4>2 DEF RsyncRefuses
      <4>3. CASE ~Ignored(d)
        BY <1>2, <1>3, <3>2, <4>1, <4>3 DEF RsyncRefuses, UpdateInv
      <4> QED BY <4>2, <4>3
    <3>3. CASE ~RsyncSucceeds(d) /\ ~RsyncRefuses(d)
      <4>1. pending'[d] = pending[d]
        <5>1. CASE /\ First(d) = "Update" /\ Head(pending[d]).other \in AppContexts
                   /\ Submit(Head(pending[d]).other, "UpdateDelete", d)
          <6>1. Head(pending[d]).other # d
            BY <1>2, <1>4, <5>1 DEF UpdateInv
          <6> QED BY <1>2, <5>1, <6>1 DEF Submit
        <5> QED BY RsyncCases, <3>3, <5>1
              DEF RsyncAccepts, Accept, RsyncSettles, Settle, RsyncAbandons, Abandon
      <4>2. Len(Tail(pending[d])) = 0
        BY <1>2, HeadTailProperties
      <4> QED BY <1>2, <1>7, <4>1, <4>2
    <3> QED BY <3>1, <3>2, <3>3
  <2>3. ~Settled(d)'
    BY <1>5, <2>2 DEF Settled
  <2>4. QueueInv(d)'
    BY <1>1, <1>4, <1>5, <2>1, <2>2, <2>3 DEF QueueInv
  <2> QED BY <2>1, <2>2, <2>4
<1>8. pending'[d] = pending[d] \/ pending'[d] = Tail(pending[d])
  <2>1. CASE /\ First(d) = "Update" /\ Head(pending[d]).other \in AppContexts
             /\ Submit(Head(pending[d]).other, "UpdateDelete", d)
    <3>1. Head(pending[d]).other # d
      BY <1>2, <1>4, <2>1 DEF UpdateInv
    <3> QED BY <1>2, <2>1, <3>1 DEF Submit
  <2>2. CASE RsyncSucceeds(d) \/ RsyncRefuses(d)
    BY <1>2, <2>2 DEF RsyncSucceeds, RsyncRefuses, Succeed, Refused, Decide
  <2> QED BY RsyncCases, <2>1, <2>2
        DEF RsyncAccepts, Accept, RsyncSettles, Settle, RsyncAbandons, Abandon
<1> QED BY <1>6, <1>7, <1>8

\* What rsync does to an AppContext it is not to deploy.
LEMMA RemovalCases ==
    ASSUME "fail" \notin Faults, StoreInv, NEW d \in AppContexts, RsyncStep(d), UpdateInv(d), QueueInv(d),
           ~Deploying(d)
    PROVE  /\ holds' \subseteq holds
           /\ \/ RsyncAccepts(d) \/ RsyncSucceeds(d) \/ RsyncRefuses(d) \/ RsyncSettles(d) \/ RsyncAbandons(d)
<1>1. pending[d] # <<>> => Removes(First(d))
  <2> SUFFICES ASSUME pending[d] # <<>> PROVE Removes(First(d))
    OBVIOUS
  <2>1. First(d) = pending[d][1].ev /\ 1 \in 1 .. Len(pending[d])
    BY QueueFacts
  <2> QED BY <2>1 DEF QueueInv
<1>2. ~Removes("Update") /\ (Removes(First(d)) => ~Deploys(First(d)))
  BY DEF Removes, Deploys
<1>3. CASE RsyncSucceeds(d) /\ pending[d] # <<>>
  BY <1>1, <1>2, <1>3 DEF RsyncSucceeds
<1>4. CASE ~RsyncSucceeds(d)
  BY RsyncCases, <1>1, <1>2, <1>4
<1> QED BY RsyncCases, <1>3, <1>4

\* rsync works on an AppContext it is not to deploy.
LEMMA RemoveOwn ==
    ASSUME "fail" \notin Faults, StoreInv, NEW d \in AppContexts, RsyncStep(d), UpdateInv(d), QueueInv(d),
           ~Deploying(d)
    PROVE  QueueInv(d)' /\ ~Deploying(d)' /\ Lasting(d)
<1>1. UNCHANGED <<stored, used, stopFlag>> /\ holds' \subseteq holds
  BY RsyncCases, RemovalCases
<1>2. /\ pending \in [AppContexts -> Seq(PendingEvent)] /\ d \in AppContexts
      /\ state \in [AppContexts -> AppContextStatuses] /\ work \in [AppContexts -> Works]
      /\ DOMAIN pending[d] = 1 .. Len(pending[d]) /\ Len(pending[d]) \in Nat
      /\ work[d] \in {"busy", "handed"} => pending[d] # <<>>
  BY QueueFacts DEF StoreInv, StoreTypeOK, HandledIsPending
<1>3. pending[d] # <<>> =>
        /\ First(d) \in RsyncEvents /\ Removes(First(d)) /\ ~Deploys(First(d)) /\ d \in used
        /\ 1 \in DOMAIN pending[d] /\ Removes(pending[d][1].ev)
        /\ RunningState(First(d)) \in {"Terminating", "Updating"}
        /\ DesiredState(First(d)) \in {"Terminated", "Updated"}
        /\ ErrorState(First(d)) \in {"TerminateFailed", "UpdateFailed"}
  <2> HAVE pending[d] # <<>>
  <2>1. First(d) = pending[d][1].ev /\ 1 \in 1 .. Len(pending[d]) /\ First(d) \in RsyncEvents
    BY QueueFacts
  <2>2. Removes(First(d)) /\ d \in used
    BY <2>1 DEF QueueInv
  <2> QED BY <1>2, <2>1, <2>2, RemovalStates DEF Removes, Deploys
<1>4. work[d] # "handed"
  BY DEF QueueInv
<1>5. Gone(d) /\ ~Deploying(d)' => Gone(d)'
  BY <1>1 DEF Gone
<1>6. CASE RsyncAccepts(d)
  <2>1. /\ state'[d] \in {"Terminating", "Updating"} /\ work'[d] = "busy" /\ pending' = pending
        /\ work[d] = "idle" /\ pending[d] # <<>>
    BY <1>2, <1>3, <1>6 DEF RsyncAccepts, Accept
  <2>2. ~Deploying(d)' /\ Settled(d)' /\ Risen(d)' /\ Leaving(d)'
    BY <1>3, <2>1 DEF Deploying, Settled, Risen, Leaving
  <2>3. QueueInv(d)'
    BY <1>1, <1>3, <2>1, <2>2 DEF QueueInv
  <2> QED BY <1>1, <1>5, <2>1, <2>2, <2>3 DEF Lasting, Off
<1>7. CASE RsyncSucceeds(d)
  <2>1. pending[d] # <<>> /\ work[d] = "busy"
    BY <1>2, <1>4, <1>7 DEF RsyncSucceeds, Succeed, Ended
  <2>2. /\ state'[d] = state[d] /\ work'[d] \in {"Terminated", "Updated"} /\ d \notin holds'
        /\ pending'[d] = Tail(pending[d])
    BY <1>2, <1>3, <1>7, <2>1 DEF RsyncSucceeds, Succeed, Decide
  <2>3. ~Deploying(d)' /\ \A i \in 1 .. Len(pending'[d]) : Removes(pending'[d][i].ev)
    BY <2>1, <2>2, TailKeeps
  <2>4. state[d] \in {"Terminating", "Updating"}
    BY <2>1 DEF QueueInv
  <2>5. QueueInv(d)'
    BY <1>1, <1>3, <2>1, <2>2, <2>3, <2>4 DEF QueueInv, Settled
  <2>6. Gone(d)' /\ Settled(d)' /\ Risen(d)'
    BY <1>1, <1>3, <2>1, <2>2, <2>3, <2>4 DEF Gone, Settled, Risen
  <2> QED BY <2>3, <2>5, <2>6 DEF Lasting, Off
<1>8. CASE RsyncRefuses(d)
  <2>1. pending[d] # <<>> /\ work[d] = "idle" /\ d \in stored
    BY <1>8 DEF RsyncRefuses, Refused
  <2>2. /\ state'[d] = state[d] /\ pending'[d] = Tail(pending[d]) /\ UNCHANGED holds
        /\ work'[d] \in {"TerminateFailed", "UpdateFailed", "idle"}
        /\ work'[d] = "idle" => ~Ignored(d) /\ state[d] \notin SourceStates(First(d))
    BY <1>2, <1>3, <1>8, <2>1 DEF RsyncRefuses, Refused, Decide
  <2>3. ~Deploying(d)' /\ \A i \in 1 .. Len(pending'[d]) : Removes(pending'[d][i].ev)
    BY <2>1, <2>2, TailKeeps
  <2>4. QueueInv(d)'
    BY <1>1, <1>3, <2>1, <2>2, <2>3 DEF QueueInv, Settled
  <2>5. Risen(d) => Risen(d)'
    BY <1>1, <2>1, <2>2 DEF Risen
  <2>6. Risen(d) /\ work'[d] = "idle" => Off(d)'
    <3> SUFFICES ASSUME Risen(d), work'[d] = "idle" PROVE Off(d)'
      OBVIOUS
    <3>1. ~stopFlag[d] /\ state[d] \notin SourceStates(First(d))
      BY <2>2 DEF Ignored
    <3>2. state[d] \notin {"Created", "Instantiating", "InstantiateFailed", "Terminating", "Updating", "Instantiated"}
      BY <1>3, <2>1, <3>1, RemovalStates DEF Risen
    <3>3. state[d] \in {"Terminated", "TerminateFailed", "Updated", "UpdateFailed"}
      BY <1>2, <3>2 DEF AppContextStatuses
    <3>4. CASE state[d] \in {"Terminated", "Updated"}
      <4>1. d \notin holds'
        BY <2>2, <3>4 DEF QueueInv
      <4> QED BY <1>1, <1>3, <2>1, <2>3, <4>1 DEF Off, Gone
    <3>5. CASE state[d] \in {"TerminateFailed", "UpdateFailed"}
      BY <1>1, <2>1, <2>2, <2>5, <3>5 DEF Off, Leaving
    <3> QED BY <3>3, <3>4, <3>5
  <2>7. Risen(d) => Off(d)'
    BY <1>1, <2>1, <2>2, <2>5, <2>6 DEF Off, Leaving
  <2>8. Settled(d) => Settled(d)'
    BY <2>2 DEF Settled
  <2> QED BY <1>5, <2>3, <2>4, <2>5, <2>7, <2>8 DEF Lasting, Off
<1>9. CASE RsyncSettles(d)
  <2>1. /\ state'[d] = work[d] /\ work'[d] = "idle" /\ pending' = pending /\ UNCHANGED holds
        /\ work[d] \in AppContextStatuses
    BY <1>2, <1>9 DEF RsyncSettles, Settle
  <2>2. ~Deploying(d)'
    BY <2>1 DEF Deploying
  <2>3. Settled(d) => work[d] \in {"Terminated", "TerminateFailed", "Updated", "UpdateFailed"}
    BY <2>1 DEF QueueInv, AppContextStatuses
  <2>4. d \in used
    BY <2>1 DEF QueueInv, AppContextStatuses
  <2>5. QueueInv(d)'
    BY <1>1, <2>1, <2>2, <2>4 DEF QueueInv, Settled
  <2>6. Settled(d) => Settled(d)' /\ Risen(d)' /\ (Gone(d)' \/ Leaving(d)')
    <3> SUFFICES ASSUME Settled(d) PROVE Settled(d)' /\ Risen(d)' /\ (Gone(d)' \/ Leaving(d)')
      OBVIOUS
    <3>1. Settled(d)' /\ Risen(d)'
      BY <2>1, <2>3 DEF Settled, Risen
    <3>2. CASE work[d] \in {"Terminated", "Updated"}
      BY <1>1, <2>1, <2>2, <2>4, <3>1, <3>2 DEF QueueInv, Gone
    <3>3. CASE work[d] \in {"TerminateFailed", "UpdateFailed"}
      BY <2>1, <3>1, <3>3 DEF Leaving
    <3> QED BY <2>3, <3>1, <3>2, <3>3
  <2>7. Risen(d) => Settled(d)
    BY DEF Risen, Settled
  <2> QED BY <1>1, <1>5, <2>2, <2>5, <2>6, <2>7 DEF Lasting, Off
<1>10. CASE RsyncAbandons(d)
  <2>1. /\ UNCHANGED <<pending, state, holds>> /\ work'[d] = "idle" /\ (stopFlag[d] \/ d \notin stored)
        /\ work[d] # "idle"
    BY <1>2, <1>10 DEF RsyncAbandons, Abandon
  <2>2. ~Deploying(d)'
    BY <2>1 DEF Deploying
  <2>3. d \in used
    BY <2>1 DEF QueueInv
  <2>4. QueueInv(d)'
    BY <1>1, <2>1, <2>2, <2>3 DEF QueueInv, Settled
  <2>5. Settled(d) => Settled(d)'
    BY <2>1 DEF Settled
  <2>6. d \in stored /\ Risen(d) => Risen(d)' /\ Off(d)'
    BY <1>1, <2>1 DEF Risen, Off
  <2> QED BY <1>5, <2>2, <2>4, <2>5, <2>6 DEF Lasting, Off
<1> QED BY RemovalCases, <1>6, <1>7, <1>8, <1>9, <1>10

\* What rsync does for another AppContext.
LEMMA RsyncOther ==
    ASSUME "fail" \notin Faults, StoreInv, NEW d \in AppContexts, RsyncStep(d), UpdateInv(d), QueueInv(d),
           NEW c \in AppContexts, c # d, QueueInv(c)
    PROVE  Calm(c) /\ UNCHANGED <<stored, used, stopFlag>>
<1>1. /\ UNCHANGED <<stored, used, stopFlag>>
      /\ pending \in [AppContexts -> Seq(PendingEvent)]
      /\ state \in [AppContexts -> AppContextStatuses] /\ work \in [AppContexts -> Works]
  BY RsyncCases DEF StoreInv, StoreTypeOK
<1>2. CASE /\ First(d) = "Update" /\ pending[d] # <<>>
           /\ Head(pending[d]).other \in AppContexts
           /\ Submit(Head(pending[d]).other, "UpdateDelete", d)
           /\ work' = [work EXCEPT ![d] = "handed"] /\ UNCHANGED state
           /\ holds' = holds \cup {d}
  <2>1. PICK x \in AppContexts : x = Head(pending[d]).other
    BY <1>2
  <2>2. Head(pending[d]) = pending[d][1] /\ First(d) = pending[d][1].ev /\ 1 \in 1 .. Len(pending[d])
    BY <1>2, QueueFacts
  <2>3. Deploying(d)
    BY <1>2, <2>2 DEF QueueInv, Removes
  <2>4. Settled(x)
    BY <1>2, <2>1, <2>2, <2>3 DEF UpdateInv
  <2> DEFINE e == [ev |-> "UpdateDelete", other |-> d]
  <2>5. e \in PendingEvent /\ Removes(e.ev)
    BY DEF PendingEvent, RsyncEvents, Removes
  <2>6. pending' = [pending EXCEPT ![x] = Append(@, e)]
    BY <1>2, <2>1 DEF Submit
  <2>7. pending'[c] = pending[c] \/ (Settled(c) /\ pending'[c] = Append(pending[c], e))
    BY <1>1, <2>4, <2>6
  <2> HIDE DEF e
  <2> QED BY <1>1, <1>2, <2>5, <2>7 DEF Calm
<1>3. CASE RsyncSucceeds(d) \/ RsyncRefuses(d)
  BY <1>1, <1>3 DEF RsyncSucceeds, RsyncRefuses, Succeed, Refused, Decide, Calm
<1>4. CASE RsyncAccepts(d) \/ RsyncSettles(d) \/ RsyncAbandons(d)
  BY <1>1, <1>4 DEF RsyncAccepts, Accept, RsyncSettles, Settle, RsyncAbandons, Abandon, Calm
<1>5. CASE UNCHANGED <<pending, state, work>> /\ holds' = holds \cup {d}
  BY <1>1, <1>5 DEF Calm
<1> QED BY RsyncCases, <1>1, <1>2, <1>3, <1>4, <1>5

\* rsync decides an update only after it has handed over what is replaced, and
\* then that is on its way.
LEMMA UpdateOwn ==
    ASSUME "fail" \notin Faults, StoreInv, StoreInv', NEW d \in AppContexts, RsyncStep(d), QueueInv(d),
           UpdateInv(d), NEW x \in AppContexts, Updating(d, x), Lasting(x)
    PROVE  /\ Updating(d, x)' \/ Off(x)
           /\ work'[d] = "handed" => Off(x)'
<1>1. /\ Deploying(d) /\ pending[d] # <<>> /\ First(d) = "Update" /\ Head(pending[d]).other = x
      /\ Head(pending[d]) = pending[d][1] /\ DOMAIN pending[d] = {1} /\ pending[d][1].ev = "Update"
      /\ UNCHANGED <<stored, used, stopFlag>>
  BY QueueFacts, RsyncCases DEF Updating, Deploying
<1>2. /\ pending \in [AppContexts -> Seq(PendingEvent)]
      /\ state \in [AppContexts -> AppContextStatuses] /\ work \in [AppContexts -> Works]
  BY DEF StoreInv, StoreTypeOK
<1>3. /\ d \in stored /\ ~stopFlag[d] /\ Settled(x) /\ Past(x)
      /\ work[d] = "idle" => state[d] = "Created"
      /\ work[d] = "handed" => Off(x)
      /\ d # x
  BY <1>1 DEF UpdateInv, Updating, QueueInv
<1>4. CASE Submit(x, "UpdateDelete", d) /\ work' = [work EXCEPT ![d] = "handed"]
  <2>1. pending'[d] = pending[d]
    BY <1>2, <1>3, <1>4 DEF Submit
  <2>2. Leaving(x)'
    <3> DEFINE e == [ev |-> "UpdateDelete", other |-> d]
    <3>1. pending'[x] = Append(pending[x], e) /\ e \in PendingEvent /\ e.ev = "UpdateDelete"
      BY <1>2, <1>4 DEF Submit, PendingEvent, RsyncEvents
    <3> HIDE DEF e
    <3>2. /\ Len(pending'[x]) = Len(pending[x]) + 1 /\ pending'[x][Len(pending[x]) + 1] = e
          /\ Len(pending[x]) \in Nat /\ pending'[x] \in Seq(PendingEvent)
      BY <1>2, <3>1, AppendProperties, QueueFacts
    <3>3. Len(pending[x]) + 1 \in DOMAIN pending'[x]
      BY <3>2, LenProperties
    <3>4. PICK l \in DOMAIN pending'[x] : l = Len(pending[x]) + 1
      BY <3>3
    <3> QED BY <3>1, <3>2, <3>4 DEF Leaving, Removes
  <2>3. Off(x)'
    BY <1>1, <1>3, <2>2 DEF Lasting, Past, Off
  <2> QED BY <2>1, <2>3 DEF Updating, Deploying
<1>5. CASE RsyncSucceeds(d)
  <2>1. work[d] = "handed" /\ work'[d] = "Instantiated"
    BY <1>1, <1>2, <1>5 DEF RsyncSucceeds, Succeed, Ended, Decide, DesiredState
  <2> QED BY <1>3, <2>1
<1>6. CASE RsyncRefuses(d)
  <2>1. work[d] = "idle" /\ state[d] \in SourceStates("Update")
    BY <1>3, <1>6 DEF RsyncRefuses, Refused, SourceStates
  <2>2. ~Ignored(d)
    BY <1>1, <1>3 DEF Ignored
  <2> QED BY <1>1, <1>6, <2>1, <2>2 DEF RsyncRefuses
<1>7. CASE UNCHANGED pending /\ (work'[d] = "handed" => work[d] = "handed")
  BY <1>3, <1>7 DEF Updating, Deploying, Lasting
<1>8. RsyncAccepts(d) \/ RsyncSettles(d) \/ RsyncAbandons(d) =>
          UNCHANGED pending /\ (work'[d] = "handed" => work[d] = "handed")
  BY <1>2 DEF RsyncAccepts, Accept, RsyncSettles, Settle, RsyncAbandons, Abandon
<1> QED BY RsyncCases, <1>1, <1>4, <1>5, <1>6, <1>7, <1>8

\* A step of rsync.
LEMMA RsyncKeeps ==
    ASSUME "fail" \notin Faults, StoreInv, StoreInv', \A c \in AppContexts : QueueInv(c) /\ UpdateInv(c),
           NEW d \in AppContexts, RsyncStep(d)
    PROVE  /\ UNCHANGED <<stored, used, stopFlag>>
           /\ \A c \in AppContexts :
                 /\ QueueInv(c)' /\ UpdateInv(c)' /\ Lasting(c)
                 /\ Past(c) => Past(c)'
                 /\ Fresh(c) => Fresh(c)'
<1>1. UNCHANGED <<stored, used, stopFlag>>
  BY RsyncCases
<1>2. \A c \in AppContexts : c # d => Calm(c)
  BY RsyncOther
<1>3. ASSUME NEW c \in AppContexts PROVE QueueInv(c)' /\ Lasting(c) /\ (Fresh(c) => Fresh(c)')
  <2>1. CASE c # d
    BY <1>1, <1>2, <2>1, CalmKeeps DEF Fresh
  <2>2. CASE c = d /\ Deploying(d)
    <3>1. QueueInv(d)' /\ (Deploying(d)' => pending'[d] = pending[d])
      BY <2>2, DeployOwn
    <3>2. Lasting(d)
      BY <2>2, <3>1, DeployingLasting
    <3>3. ~Fresh(d)
      BY <2>2, QueueFacts DEF Fresh, Deploying
    <3> QED BY <2>2, <3>1, <3>2, <3>3
  <2>3. CASE c = d /\ ~Deploying(d)
    <3>1. QueueInv(d)' /\ Lasting(d)
      BY <2>3, RemoveOwn
    <3>2. ~Fresh(d)
      BY RsyncCases DEF Fresh, RsyncAccepts, Accept, RsyncRefuses, Refused, RsyncSettles, Settle,
            RsyncAbandons, Abandon, AppContextStatuses
    <3> QED BY <2>3, <3>1, <3>2
  <2> QED BY <2>1, <2>2, <2>3
<1>4. ASSUME NEW e \in AppContexts, NEW x \in AppContexts, Updating(e, x)
      PROVE  /\ Updating(e, x)' \/ Off(x)
             /\ work'[e] = "idle" => state'[e] = "Created"
             /\ work'[e] = "handed" => Off(x)'
  <2>1. CASE e # d
    <3>1. pending'[e] = pending[e] /\ work'[e] = work[e] /\ state'[e] = state[e]
      BY <1>2, <1>4, <2>1 DEF Calm, Updating, QueueInv
    <3> QED BY <1>3, <1>4, <3>1 DEF Updating, Deploying, UpdateInv, Lasting
  <2>2. CASE e = d
    <3>1. work'[d] = "idle" => state'[d] = "Created"
      BY <1>4, <2>2, DeployOwn DEF Updating
    <3> QED BY <1>3, <1>4, <2>2, <3>1, UpdateOwn
  <2> QED BY <2>1, <2>2
<1>5. ASSUME NEW c \in AppContexts PROVE UpdateInv(c)'
  BY <1>1, <1>3, <1>4, UpdateKeeps
<1>6. ASSUME NEW c \in AppContexts, Past(c) PROVE Past(c)'
  BY <1>1, <1>3, <1>4, <1>6, PastKeeps
<1> QED BY <1>1, <1>3, <1>5, <1>6

-------------------------------------------------------------------------------
(* The one handler.                                                        *)

\* A step of the handler: all but the AppContext it is making is calm.
LEMMA HandlerKeeps ==
    ASSUME StoreInv, StoreInv', \A c \in AppContexts : QueueInv(c) /\ UpdateInv(c),
           \A c \in AppContexts : Calm(c) \/ Fresh(c),
           \A c, d \in AppContexts : Updating(c, d) =>
               (stopFlag'[c] => stopFlag[c]) /\ (stopFlag[d] => stopFlag'[d])
    PROVE  \A c \in AppContexts : Calm(c) =>
               /\ QueueInv(c)' /\ UpdateInv(c)'
               /\ Gone(c) => Gone(c)'
               /\ Settled(c) => Settled(c)'
               /\ Deploying(c)' => Deploying(c) /\ pending'[c] = pending[c]
               /\ Fresh(c) /\ c \in stored' /\ ~stopFlag'[c] => Fresh(c)'
               /\ (stopFlag[c] => stopFlag'[c]) => Lasting(c) /\ (Past(c) => Past(c)')
<1> SUFFICES ASSUME NEW c \in AppContexts, Calm(c)
             PROVE  /\ QueueInv(c)' /\ UpdateInv(c)'
                    /\ Gone(c) => Gone(c)'
                    /\ Settled(c) => Settled(c)'
                    /\ Deploying(c)' => Deploying(c) /\ pending'[c] = pending[c]
                    /\ Fresh(c) /\ c \in stored' /\ ~stopFlag'[c] => Fresh(c)'
                    /\ (stopFlag[c] => stopFlag'[c]) => Lasting(c) /\ (Past(c) => Past(c)')
  OBVIOUS
<1>1. /\ QueueInv(c)'
      /\ Gone(c) => Gone(c)'
      /\ Settled(c) => Settled(c)'
      /\ Deploying(c)' => Deploying(c) /\ pending'[c] = pending[c]
      /\ (stopFlag[c] => stopFlag'[c]) => Lasting(c)
      /\ Fresh(c) /\ c \in stored' /\ ~stopFlag'[c] => Fresh(c)'
  BY CalmKeeps
<1>2. \A d \in AppContexts : Calm(d) /\ d \in stored => d \in stored' \/ Gone(d)
  BY DEF Calm
<1>3. ASSUME NEW e \in AppContexts, NEW d \in AppContexts, Updating(e, d)
      PROVE  /\ Calm(e) /\ Calm(d) /\ Lasting(d)
             /\ pending'[e] = pending[e] /\ work'[e] = work[e] /\ state'[e] = state[e]
             /\ e \in stored /\ ~stopFlag[e]
  <2>1. e \in stored /\ ~stopFlag[e] /\ Settled(d) /\ Deploying(e)
    BY <1>3 DEF Updating, UpdateInv
  <2>2. ~Fresh(d) /\ ~Fresh(e)
    BY <2>1, QueueFacts DEF Fresh, Settled, Deploying
  <2>3. Calm(e) /\ Calm(d)
    BY <2>2
  <2>4. Lasting(d)
    BY <1>3, <2>3, CalmKeeps
  <2> QED BY <2>1, <2>3, <2>4 DEF Calm, QueueInv
<1>4. UpdateInv(c)'
  <2>1. CASE Deploying(c) /\ pending[c][1].ev = "Update"
    <3>1. PICK d \in AppContexts : Updating(c, d)
      BY <2>1 DEF UpdateInv, Updating
    <3>2. Lasting(c) /\ (stopFlag'[c] => stopFlag[c])
      BY <1>1, <1>3, <3>1
    <3>3. ASSUME NEW x \in AppContexts, Updating(c, x)
          PROVE  /\ Lasting(x) /\ (x \in stored => x \in stored' \/ Gone(x))
                 /\ work'[c] = "idle" => state'[c] = "Created"
                 /\ work'[c] = "handed" => Off(x)'
      BY <1>2, <1>3, <3>3 DEF Updating, UpdateInv, Lasting
    <3> QED BY <1>2, <3>2, <3>3, UpdateKeeps
  <2>2. CASE ~(Deploying(c) /\ pending[c][1].ev = "Update")
    BY <1>1, <2>2 DEF UpdateInv
  <2> QED BY <2>1, <2>2
<1>5. (stopFlag[c] => stopFlag'[c]) /\ Past(c) => Past(c)'
  <2>1. \A e \in AppContexts : Updating(e, c) => Updating(e, c)'
    BY <1>3 DEF Updating, Deploying
  <2> QED BY <1>1, <1>2, <2>1, PastKeeps
<1> QED BY <1>1, <1>4, <1>5

\* A handler that has made an AppContext and not recorded it.
Makes(h) == h.op \in {"Instantiate", "Update"} /\ h.pc \in {"call", "record"}

\* The handler h has seen that what it replaces or terminates was deployed or is
\* gone, and nobody else touches the AppContext it makes.
HandlerPlan(h) ==
    h.pc # "idle" =>
        /\ h.op \in Operations /\ h.pc # "remove"
        /\ IF h.pc = "create" THEN level = "draft" ELSE Exist
        /\ h.pc \in {"drop", "build", "call", "configs", "record"} =>
              /\ h.ctx = Current
              /\ h.op = "Instantiate" => h.ctx = NoContext \/ Gone(h.ctx)
              /\ h.op = "Update" => h.ctx \in stored /\ Risen(h.ctx) /\ h.snap = info
              /\ h.op = "Terminate" => h.ctx \in used /\ Settled(h.ctx)
              /\ h.op = "Stop" => CurrentState(info) # "Updated"
        /\ Makes(h) => h.target \in used /\ h.target # h.ctx
        /\ Makes(h) /\ h.pc = "call" => Fresh(h.target)
        /\ Makes(h) /\ h.pc = "record" =>
              /\ h.op = "Update" => Past(h.ctx)
              /\ h.op = "Instantiate" /\ Deploying(h.target) => pending[h.target][1].ev = "Instantiate"

\* Every AppContext is recorded, about to be, or past; the one that is recorded is
\* not being replaced, but for the update that h is about to record.
RecordPlan(h) ==
    /\ Exist => Current \in used \cup {NoContext}
    /\ \A c \in used : (Exist /\ c = Current) \/ (Makes(h) /\ h.target = c) \/ Past(c)
    /\ \A c, d \in AppContexts : Updating(c, d) =>
          /\ Exist /\ d = Current => h.op = "Update" /\ h.pc = "record" /\ h.target = c /\ h.ctx = d
          /\ Makes(h) => h.target # d
    /\ \A c \in AppContexts :
          Exist /\ c = Current /\ CurrentState(info) # "Updated" /\ Deploying(c) =>
              pending[c][1].ev = "Instantiate"

Plan(h) == HandlerPlan(h) /\ RecordPlan(h)

SoleInv ==
    /\ \A c \in AppContexts : QueueInv(c) /\ UpdateInv(c)
    /\ \A k \in Clients : Plan(client[k])

\* What is current after a step that leaves the StateInfo alone.
LEMMA SameInfo ==
    ASSUME UNCHANGED <<level, info>>
    PROVE  /\ Exist' = Exist /\ Current' = Current
           /\ CurrentState(info)' = CurrentState(info)
  BY DEF Exist, Current, LastContextId, LastAction, CurrentState, Exists

\* The plan of a handler outlives the steps of rsync and of the clusters.
LEMMA PlanStays ==
    ASSUME StoreInv, NEW h, Plan(h), UNCHANGED <<level, info, stored, used, stopFlag>>,
           \A c \in AppContexts : Lasting(c) /\ (Past(c) => Past(c)') /\ (Fresh(c) => Fresh(c)')
    PROVE  Plan(h)'
<1>1. /\ Exist' = Exist /\ Current' = Current
      /\ CurrentState(info)' = CurrentState(info)
  BY SameInfo
<1>2. stored \subseteq used /\ used \subseteq AppContexts
  BY DEF StoreInv, StoreTypeOK
<1>3. \A c \in AppContexts :
         /\ Gone(c) => Gone(c)'
         /\ Settled(c) => Settled(c)'
         /\ c \in stored /\ Risen(c) => Risen(c)'
         /\ Deploying(c)' => Deploying(c) /\ pending'[c] = pending[c]
         /\ Past(c) => Past(c)'
         /\ Fresh(c) => Fresh(c)'
  BY DEF Lasting
<1>4. Gone(h.ctx) => h.ctx \in AppContexts
  BY <1>2 DEF Gone
<1>5. HandlerPlan(h)'
  BY <1>1, <1>2, <1>3, <1>4 DEF Plan, HandlerPlan, Makes
<1>6. \A c, d \in AppContexts : Updating(c, d)' => Updating(c, d)
  BY <1>3 DEF Updating
<1>7. RecordPlan(h)'
  BY <1>1, <1>2, <1>3, <1>6 DEF Plan, RecordPlan, Makes
<1> QED BY <1>5, <1>7 DEF Plan

\* Steps that touch neither etcd, nor rsync, nor the StateInfo, nor handlers.
LEMMA AsideKeeps ==
    ASSUME Inv, Inv', SoleInv, UNCHANGED <<lifecycle, etcd, holds, level, info, client>>
    PROVE  SoleInv'
<1>1. StoreInv /\ StoreInv' /\ \A c \in AppContexts : QueueInv(c) /\ UpdateInv(c)
  BY DEF Inv, SoleInv
<1>2. UNCHANGED <<pending, state, work, stored, used, stopFlag, holds, level, info, client>>
  BY DEF lifecycle, etcd
<1>3. \A c \in AppContexts : Calm(c)
  BY <1>2 DEF Calm
<1>4. \A c \in AppContexts :
         /\ QueueInv(c)' /\ UpdateInv(c)' /\ Lasting(c)
         /\ Past(c) => Past(c)'
         /\ Fresh(c) => Fresh(c)'
  BY <1>1, <1>2, <1>3, HandlerKeeps DEF Fresh
<1>5. ASSUME NEW k \in Clients PROVE Plan(client[k])'
  <2>1. PICK h : h = client[k]
    OBVIOUS
  <2>2. Plan(h)' /\ h = client'[k]
    BY <1>1, <1>2, <1>4, <1>5, <2>1, PlanStays DEF SoleInv
  <2> QED BY <2>2
<1> QED BY <1>4, <1>5 DEF SoleInv

\* A step of rsync.
LEMMA RsyncSole ==
    ASSUME "fail" \notin Faults, Inv, Inv', SoleInv, NEW d \in AppContexts, RsyncStep(d)
    PROVE  SoleInv'
<1>1. StoreInv /\ StoreInv' /\ \A c \in AppContexts : QueueInv(c) /\ UpdateInv(c)
  BY DEF Inv, SoleInv
<1>2. UNCHANGED <<level, info, client>>
  BY DEF RsyncStep, RsyncDeploys, RsyncRemoves, RsyncWorks, document
<1>3. /\ UNCHANGED <<stored, used, stopFlag>>
      /\ \A c \in AppContexts :
            /\ QueueInv(c)' /\ UpdateInv(c)' /\ Lasting(c)
            /\ Past(c) => Past(c)'
            /\ Fresh(c) => Fresh(c)'
  BY <1>1, RsyncKeeps
<1>4. ASSUME NEW k \in Clients PROVE Plan(client[k])'
  <2>1. PICK h : h = client[k]
    OBVIOUS
  <2>2. Plan(h)' /\ h = client'[k]
    BY <1>1, <1>2, <1>3, <1>4, <2>1, PlanStays DEF SoleInv
  <2> QED BY <2>2
<1> QED BY <1>3, <1>4 DEF SoleInv

\* A handler that starts, one that goes on and one that ends.
LEMMA HandlerFields ==
    ASSUME HandlerInv, NEW k \in Clients, NEW op, NEW pc
    PROVE  /\ Starts(k, op, pc) =>
                 /\ client'[k].pc = pc /\ client'[k].op = op
                 /\ client'[k].ctx = Current /\ client'[k].snap = info
           /\ To(k, pc) =>
                 /\ client'[k].pc = pc /\ client'[k].op = client[k].op
                 /\ client'[k].ctx = client[k].ctx /\ client'[k].target = client[k].target
                 /\ client'[k].snap = client[k].snap
           /\ Done(k) => client'[k].pc = "idle"
<1>1. client \in [Clients -> HandlerState] /\ client[k] \in HandlerState
  BY DEF HandlerInv
<1>2. /\ DOMAIN client[k] = {"pc", "op", "ctx", "target", "clusters", "snap"}
  BY <1>1 DEF HandlerState
<1>3. ASSUME NEW h, Goes(k, h) PROVE client'[k] = h
  BY <1>1, <1>3 DEF Goes
<1>4. Starts(k, op, pc) =>
          client'[k] = [Idle EXCEPT !.pc = pc, !.op = op, !.ctx = Current, !.clusters = refs, !.snap = info]
  BY <1>3 DEF Starts
<1>5. To(k, pc) => client'[k] = [client[k] EXCEPT !.pc = pc]
  BY <1>3 DEF To
<1>6. Done(k) => client'[k] = Idle
  BY <1>3 DEF Done
<1>7. Idle.pc = "idle"
  BY DEF Idle
<1> QED BY <1>2, <1>4, <1>5, <1>6, <1>7 DEF Idle

\* The handler starts: it may raise or clear the stop flag of the AppContext that
\* is current.
LEMMA StartSole ==
    ASSUME Inv, Inv', SoleInv, NEW k \in Clients, \A j \in Clients : j = k,
           Instantiate(k) \/ Terminate(k) \/ Stop(k) \/ UpdateInstantiation(k)
    PROVE  SoleInv'
<1>1. /\ StoreInv /\ StoreInv' /\ HandlerInv
      /\ \A c \in AppContexts : QueueInv(c) /\ UpdateInv(c)
  BY DEF Inv, SoleInv
<1>2. PICK h : h = client[k] /\ Plan(h) /\ h.pc = "idle" /\ Exist
  BY DEF SoleInv, Instantiate, Terminate, Stop, UpdateInstantiation, Called
<1>3. UNCHANGED <<pending, state, work, stored, used, holds, level, info>>
  BY DEF Instantiate, Terminate, Stop, UpdateInstantiation, lifecycle, document, etcd
<1>4. stored \subseteq used /\ used \subseteq AppContexts /\ stopFlag \in [AppContexts -> BOOLEAN]
  BY <1>1 DEF StoreInv, StoreTypeOK
<1>5. \/ UNCHANGED stopFlag
      \/ SetFlag(Current, FALSE)
      \/ SetFlag(Current, TRUE) /\ Current \in used /\ CurrentState(info) # "Updated"
  BY <1>4 DEF Instantiate, Terminate, Stop, UpdateInstantiation, Resumes, etcd
<1>6. \A c \in AppContexts :
         /\ c # Current => stopFlag'[c] = stopFlag[c]
         /\ stopFlag'[c] => stopFlag[c] \/ (c = Current /\ c \in used /\ CurrentState(info) # "Updated")
  BY <1>4, <1>5 DEF SetFlag
<1>7. \A c \in AppContexts : Calm(c)
  BY <1>3, <1>6 DEF Calm
<1>8. \A c, d \in AppContexts : Updating(c, d) =>
          (stopFlag'[c] => stopFlag[c]) /\ (stopFlag[d] => stopFlag'[d])
  BY <1>2, <1>6 DEF Plan, RecordPlan, Updating
<1>9. \A c \in AppContexts :
         /\ QueueInv(c)' /\ UpdateInv(c)'
         /\ Gone(c) => Gone(c)'
         /\ Settled(c) => Settled(c)'
         /\ Deploying(c)' => Deploying(c) /\ pending'[c] = pending[c]
         /\ c # Current => (Past(c) => Past(c)')
  BY <1>1, <1>6, <1>7, <1>8, HandlerKeeps
<1>10. /\ Exist' = Exist /\ Current' = Current
       /\ CurrentState(info)' = CurrentState(info)
  BY <1>3, SameInfo
<1>11. ~Makes(h) /\ h.pc # "record"
  BY <1>2 DEF Makes
<1>12. \A c, d \in AppContexts : Updating(c, d)' => Updating(c, d) /\ d # Current
  BY <1>2, <1>9, <1>11 DEF Updating, Plan, RecordPlan
<1>13. ASSUME NEW g, ~Makes(g) PROVE RecordPlan(g)'
  <2>1. ~Makes(g)'
    BY <1>13 DEF Makes
  <2> QED BY <1>2, <1>3, <1>4, <1>9, <1>10, <1>11, <1>12, <2>1 DEF Plan, RecordPlan
<1>14. PICK g : g = client'[k]
  OBVIOUS
<1>15. HandlerPlan(g)' /\ ~Makes(g)
  <2>1. CASE UNCHANGED client
    BY <1>2, <1>14, <2>1 DEF HandlerPlan, Makes
  <2>2. CASE ~HasContext /\ Starts(k, "Instantiate", "build") /\ "Instantiate" \in Operations
    <3>1. g.pc = "build" /\ g.op = "Instantiate" /\ g.ctx = Current /\ Current = NoContext
      BY <1>1, <1>14, <2>2, HandlerFields DEF HasContext
    <3> QED BY <1>2, <1>10, <2>2, <3>1 DEF HandlerPlan, Makes
  <2>3. CASE Reports(Replaceable) /\ Starts(k, "Instantiate", "drop") /\ "Instantiate" \in Operations
    <3>1. g.pc = "drop" /\ g.op = "Instantiate" /\ g.ctx = Current
      BY <1>1, <1>14, <2>3, HandlerFields
    <3>2. PICK c \in AppContexts : c = Current /\ c \in stored /\ state[c] = "Terminated"
      BY <1>4, <2>3 DEF Reports, Replaceable
    <3>3. Gone(c)
      BY <1>1, <1>4, <3>2 DEF QueueInv, Settled, Gone
    <3>4. Gone(c)' /\ g.ctx = c
      BY <1>9, <3>1, <3>2, <3>3
    <3>5. Gone(g.ctx)'
      BY <3>4
    <3> QED BY <1>2, <1>10, <2>3, <3>1, <3>5 DEF HandlerPlan, Makes
  <2>4. CASE Reports({"Instantiated", "InstantiateFailed"}) /\ Starts(k, "Terminate", "call") /\ "Terminate" \in Operations
    <3>1. g.pc = "call" /\ g.op = "Terminate" /\ g.ctx = Current
      BY <1>1, <1>14, <2>4, HandlerFields
    <3>2. Current \in stored /\ Current \in used /\ Current \in AppContexts /\ Settled(Current)
      BY <1>4, <2>4 DEF Reports, Settled
    <3>3. g.ctx \in used' /\ Settled(g.ctx)'
      BY <1>3, <1>9, <3>1, <3>2
    <3> QED BY <1>2, <1>10, <2>4, <3>1, <3>3 DEF HandlerPlan, Makes
  <2>5. CASE CurrentState(info) # "Updated" /\ Starts(k, "Stop", "record") /\ "Stop" \in Operations
    <3>1. g.pc = "record" /\ g.op = "Stop" /\ g.ctx = Current
      BY <1>1, <1>14, <2>5, HandlerFields
    <3> QED BY <1>2, <1>10, <2>5, <3>1 DEF HandlerPlan, Makes
  <2>6. CASE Reports({"Instantiated"}) /\ Starts(k, "Update", "build") /\ "Update" \in Operations
    <3>1. g.pc = "build" /\ g.op = "Update" /\ g.ctx = Current /\ g.snap = info
      BY <1>1, <1>14, <2>6, HandlerFields
    <3>2. PICK c \in AppContexts : c = g.ctx /\ c \in stored /\ state[c] = "Instantiated"
      BY <1>4, <2>6, <3>1 DEF Reports
    <3>3. c \in stored' /\ Risen(c)'
      BY <1>3, <3>2 DEF Risen
    <3> QED BY <1>2, <1>3, <1>10, <2>6, <3>1, <3>2, <3>3 DEF HandlerPlan, Makes
  <2> QED BY <2>1, <2>2, <2>3, <2>4, <2>5, <2>6
          DEF Instantiate, Terminate, Stop, UpdateInstantiation, Resumes, Called
<1>16. Plan(g)'
  BY <1>13, <1>15 DEF Plan
<1>17. \A j \in Clients : Plan(client[j])'
  BY <1>14, <1>16
<1> QED BY <1>9, <1>17 DEF SoleInv

\* The handler goes on, or gives up, and leaves rsync and the StateInfo alone; what
\* it deletes is gone.
LEMMA ContinueSole ==
    ASSUME Inv, Inv', SoleInv, NEW k \in Clients, \A j \in Clients : j = k, "Delete" \notin Operations,
           \/ DeleteContexts(k) \/ BuildFails(k) \/ CallFails(k)
           \/ DeleteCloudConfigs(k) \/ Subscribe(k) \/ PrepareGitOps(k)
    PROVE  SoleInv'
<1>1. /\ StoreInv /\ StoreInv' /\ HandlerInv
      /\ \A c \in AppContexts : QueueInv(c) /\ UpdateInv(c)
  BY DEF Inv, SoleInv
<1>2. PICK h : h = client[k] /\ Plan(h) /\ h.pc \notin {"idle", "create"} /\ Coherent(h)
  BY <1>1 DEF SoleInv, HandlerInv, DeleteContexts, BuildFails, CallFails, DeleteCloudConfigs, Subscribe, PrepareGitOps
<1>3. UNCHANGED <<pending, state, work, used, stopFlag, holds, level, info>>
  BY DEF DeleteContexts, BuildFails, CallFails, DeleteCloudConfigs, Subscribe, PrepareGitOps,
         lifecycle, document, etcd
<1>4. stored \subseteq used /\ used \subseteq AppContexts
  BY <1>1 DEF StoreInv, StoreTypeOK
<1>5. Exist /\ h.op \in Operations /\ h.op # "Delete"
  BY <1>2 DEF Plan, HandlerPlan
<1>6. \A c \in stored : c \in stored' \/ Gone(c)
  <2>1. CASE DeleteContexts(k) /\ h.ctx \in stored
    <3>1. stored' = stored \ {h.ctx} /\ h.pc = "drop" /\ h.op = "Instantiate"
      BY <1>2, <1>5, <2>1 DEF DeleteContexts, Dropped, Coherent
    <3>2. Gone(h.ctx)
      BY <1>2, <1>4, <2>1, <3>1, ContextAssumption DEF Plan, HandlerPlan
    <3> QED BY <3>1, <3>2
  <2>2. CASE stored' = stored
    BY <2>2
  <2> QED BY <1>2, <2>1, <2>2
          DEF DeleteContexts, BuildFails, CallFails, DeleteCloudConfigs, Subscribe, PrepareGitOps, etcd
<1>7. \A c \in AppContexts : Calm(c)
  BY <1>3, <1>6 DEF Calm
<1>8. \A c \in AppContexts :
         /\ QueueInv(c)' /\ UpdateInv(c)'
         /\ Gone(c) => Gone(c)'
         /\ Settled(c) => Settled(c)'
         /\ Deploying(c)' => Deploying(c) /\ pending'[c] = pending[c]
         /\ Past(c) => Past(c)'
  BY <1>1, <1>3, <1>7, HandlerKeeps
<1>9. /\ Exist' = Exist /\ Current' = Current
      /\ CurrentState(info)' = CurrentState(info)
  BY <1>3, SameInfo
<1>10. Makes(h) => Past(h.target) /\ h.pc = "call"
  <2> SUFFICES ASSUME Makes(h) PROVE Past(h.target) /\ h.pc = "call"
    OBVIOUS
  <2>1. h.pc = "call"
    BY <1>2 DEF Makes, DeleteContexts, BuildFails, CallFails, DeleteCloudConfigs, Subscribe, PrepareGitOps
  <2>2. PICK t \in AppContexts : t = h.target /\ t \in used /\ Fresh(t)
    BY <1>2, <1>4, <2>1 DEF Plan, HandlerPlan
  <2>3. Gone(t)
    BY <1>1, <2>2, QueueFacts DEF Fresh, Gone, Deploying
  <2> QED BY <2>1, <2>2, <2>3 DEF Past, Off
<1>11. \A c, d \in AppContexts : Updating(c, d)' => Updating(c, d) /\ d # Current
  <2>1. h.pc # "record"
    BY <1>2 DEF DeleteContexts, BuildFails, CallFails, DeleteCloudConfigs, Subscribe, PrepareGitOps
  <2> QED BY <1>2, <1>5, <1>8, <2>1 DEF Updating, Plan, RecordPlan
<1>12. ASSUME NEW g, ~Makes(g) PROVE RecordPlan(g)'
  <2>1. ~Makes(g)'
    BY <1>12 DEF Makes
  <2>2. \A c \in used : (Exist /\ c = Current) \/ Past(c)
    BY <1>2, <1>10 DEF Plan, RecordPlan
  <2> QED BY <1>2, <1>3, <1>4, <1>8, <1>9, <1>11, <2>1, <2>2 DEF Plan, RecordPlan
<1>13. PICK g : g = client'[k]
  OBVIOUS
<1>14. HandlerPlan(g)' /\ ~Makes(g)
  <2>1. CASE Done(k)
    <3>1. g.pc = "idle"
      BY <1>1, <1>13, <2>1, HandlerFields
    <3> QED BY <3>1 DEF HandlerPlan, Makes
  <2>2. CASE DeleteContexts(k) /\ To(k, "build")
    <3>1. g.pc = "build" /\ g.op = h.op /\ g.ctx = h.ctx /\ h.pc = "drop" /\ h.op = "Instantiate"
      BY <1>1, <1>2, <1>5, <1>13, <2>2, HandlerFields DEF DeleteContexts, Coherent
    <3>2. h.ctx = Current /\ (h.ctx = NoContext \/ Gone(h.ctx))
      BY <1>2, <3>1 DEF Plan, HandlerPlan
    <3>3. Gone(h.ctx) => h.ctx \in AppContexts
      BY <1>4 DEF Gone
    <3>4. g.ctx = NoContext \/ Gone(g.ctx)'
      BY <1>8, <3>1, <3>2, <3>3
    <3> QED BY <1>5, <1>9, <3>1, <3>2, <3>4 DEF HandlerPlan, Makes
  <2>3. CASE DeleteCloudConfigs(k)
    <3>1. To(k, "record")
      BY <2>3 DEF DeleteCloudConfigs
    <3>2. g.pc = "record" /\ g.op = h.op /\ g.ctx = h.ctx /\ h.pc = "configs" /\ h.op = "Terminate"
      BY <1>1, <1>2, <1>13, <2>3, <3>1, HandlerFields DEF DeleteCloudConfigs, Coherent
    <3>3. h.ctx = Current /\ h.ctx \in used /\ Settled(h.ctx)
      BY <1>2, <3>2 DEF Plan, HandlerPlan
    <3>4. g.ctx \in used' /\ Settled(g.ctx)'
      BY <1>3, <1>4, <1>8, <3>2, <3>3
    <3> QED BY <1>5, <1>9, <3>2, <3>3, <3>4 DEF HandlerPlan, Makes
  <2>4. CASE To(k, "gitops")
    <3>1. g.pc = "gitops" /\ g.op = h.op
      BY <1>1, <1>2, <1>13, <2>4, HandlerFields
    <3> QED BY <1>5, <1>9, <3>1 DEF HandlerPlan, Makes
  <2> QED BY <1>2, <1>5, <2>1, <2>2, <2>3, <2>4
          DEF DeleteContexts, BuildFails, CallFails, Subscribe, PrepareGitOps
<1>15. Plan(g)'
  BY <1>12, <1>14 DEF Plan
<1>16. \A j \in Clients : Plan(client[j])'
  BY <1>13, <1>15
<1> QED BY <1>8, <1>16 DEF SoleInv

\* The handler makes an AppContext nobody has heard of.
LEMMA BuildSole ==
    ASSUME Inv, Inv', SoleInv, NEW k \in Clients, \A j \in Clients : j = k, Build(k)
    PROVE  SoleInv'
<1>1. /\ StoreInv /\ StoreInv' /\ HandlerInv
      /\ \A c \in AppContexts : QueueInv(c) /\ UpdateInv(c)
  BY DEF Inv, SoleInv
<1>2. PICK h : h = client[k] /\ Plan(h) /\ h.pc = "build" /\ h.op \in {"Instantiate", "Update"}
  BY <1>1 DEF SoleInv, HandlerInv, Build, Coherent
<1>3. PICK t \in AppContexts : MakeAppContext(t) /\ Goes(k, [h EXCEPT !.pc = "call", !.target = t])
  BY <1>2 DEF Build
<1>4. /\ UNCHANGED <<pending, state, work, stopFlag, holds, level, info>>
      /\ t \notin used /\ used' = used \cup {t} /\ stored' = stored \cup {t}
  BY <1>3 DEF Build, MakeAppContext, lifecycle, document
<1>5. stored \subseteq used /\ used \subseteq AppContexts /\ holds \subseteq used
  BY <1>1 DEF StoreInv, StoreTypeOK
<1>6. \A c \in AppContexts : Calm(c)
  BY <1>4 DEF Calm
<1>7. \A c \in AppContexts :
         /\ QueueInv(c)' /\ UpdateInv(c)' /\ Lasting(c)
         /\ Gone(c) => Gone(c)'
         /\ Deploying(c)' => Deploying(c) /\ pending'[c] = pending[c]
         /\ Past(c) => Past(c)'
  BY <1>1, <1>4, <1>6, HandlerKeeps
<1>8. /\ Exist' = Exist /\ Current' = Current
      /\ CurrentState(info)' = CurrentState(info)
  BY <1>4, SameInfo
<1>9. Fresh(t)' /\ ~Settled(t)
  BY <1>1, <1>4, <1>5 DEF QueueInv, Fresh, Settled
<1>10. /\ Exist /\ h.op \in Operations /\ h.ctx = Current /\ ~Makes(h)
       /\ h.ctx = NoContext \/ h.ctx \in used
       /\ h.op = "Instantiate" => h.ctx = NoContext \/ Gone(h.ctx)
       /\ h.op = "Update" => h.ctx \in stored /\ Risen(h.ctx) /\ h.snap = info
  BY <1>2, <1>5 DEF Plan, HandlerPlan, Gone, Makes
<1>11. PICK g : g = client'[k]
  OBVIOUS
<1>12. /\ g.pc = "call" /\ g.op = h.op /\ g.ctx = h.ctx /\ g.snap = h.snap /\ g.target = t
  <2>1. client' = [client EXCEPT ![k] = [h EXCEPT !.pc = "call", !.target = t]]
    BY <1>3 DEF Goes
  <2>2. client \in [Clients -> HandlerState] /\ h \in HandlerState
    BY <1>1, <1>2 DEF HandlerInv
  <2>3. g = [h EXCEPT !.pc = "call", !.target = t]
    BY <1>11, <2>1, <2>2
  <2> QED BY <2>2, <2>3 DEF HandlerState
<1>13. Makes(g) /\ Makes(g)'
  BY <1>2, <1>12 DEF Makes
<1>14. HandlerPlan(g)'
  <2>1. h.op = "Instantiate" => h.ctx = NoContext \/ Gone(h.ctx)'
    BY <1>5, <1>7, <1>10 DEF Gone
  <2>2. h.op = "Update" => h.ctx \in stored' /\ Risen(h.ctx)'
    BY <1>4, <1>5, <1>7, <1>10 DEF Lasting
  <2>3. t \in used' /\ t # h.ctx
    BY <1>4, <1>10, ContextAssumption
  <2> QED BY <1>2, <1>4, <1>8, <1>9, <1>10, <1>12, <2>1, <2>2, <2>3 DEF HandlerPlan
<1>15. \A c, d \in AppContexts : Updating(c, d)' => d # Current /\ d # t
  <2> SUFFICES ASSUME NEW c \in AppContexts, NEW d \in AppContexts, Updating(c, d)'
               PROVE  d # Current /\ d # t
    OBVIOUS
  <2>1. Updating(c, d) /\ Settled(d)
    BY <1>1, <1>7 DEF Updating, UpdateInv
  <2>2. d # Current
    BY <1>2, <1>10, <2>1 DEF Plan, RecordPlan
  <2> QED BY <1>9, <2>1, <2>2
<1>16. RecordPlan(g)'
  BY <1>2, <1>4, <1>5, <1>7, <1>8, <1>10, <1>12, <1>13, <1>15 DEF Plan, RecordPlan
<1>17. Plan(g)'
  BY <1>14, <1>16 DEF Plan
<1>18. \A j \in Clients : Plan(client[j])'
  BY <1>11, <1>17
<1> QED BY <1>7, <1>18 DEF SoleInv

\* The call that has an AppContext removed that was deployed.
LEMMA TerminateCalm ==
    ASSUME Inv, NEW k \in Clients, CallRsync(k), client[k].op = "Terminate", HandlerPlan(client[k])
    PROVE  \A c \in AppContexts : Calm(c)
<1>1. PICK d : d = client[k].ctx
  OBVIOUS
<1>2. CallRsyncFor(d, "Terminate", NoContext) /\ client[k].pc = "call"
  BY <1>1 DEF CallRsync, Request
<1>3. UNCHANGED <<state, work, stored, used, stopFlag, holds>>
  BY <1>2 DEF CallRsync, CallRsyncFor, etcd
<1>4. pending \in [AppContexts -> Seq(PendingEvent)]
  BY DEF Inv, StoreInv, StoreTypeOK
<1>5. Settled(d)
  BY <1>1, <1>2 DEF HandlerPlan
<1> TAKE c \in AppContexts
<1> DEFINE e == [ev |-> "Terminate", other |-> NoContext]
<1>6. e \in PendingEvent /\ Removes(e.ev)
  BY DEF PendingEvent, RsyncEvents, Removes
<1>7. pending' = [pending EXCEPT ![d] = Append(@, e)]
  BY <1>2 DEF CallRsyncFor, Submit
<1>8. pending'[c] = pending[c] \/ (c = d /\ pending'[c] = Append(pending[c], e))
  BY <1>4, <1>7
<1> HIDE DEF e
<1> QED BY <1>3, <1>5, <1>6, <1>8 DEF Calm

\* The call that has an AppContext deployed nobody has heard of.
LEMMA CallIs ==
    ASSUME Inv, NEW k \in Clients, CallRsync(k), client[k].op # "Terminate",
           NEW h, h = client[k], HandlerPlan(h)
    PROVE  \E t \in AppContexts :
              /\ t = h.target /\ t \in used /\ Fresh(t)
              /\ \A c \in AppContexts : c # t => pending'[c] = pending[c]
              /\ Len(pending'[t]) = 1 /\ pending'[t][1].ev = h.op
              /\ pending'[t][1].other = IF h.op = "Update" THEN h.ctx ELSE NoContext
<1>1. h.pc = "call" /\ h.op \in {"Instantiate", "Update"}
  BY DEF CallRsync, Inv, HandlerInv, Coherent
<1>2. PICK o : o = IF h.op = "Update" THEN h.ctx ELSE NoContext
  OBVIOUS
<1>3. CallRsyncFor(h.target, h.op, o)
  BY <1>1, <1>2 DEF CallRsync, Request
<1>4. used \subseteq AppContexts /\ pending \in [AppContexts -> Seq(PendingEvent)]
  BY DEF Inv, StoreInv, StoreTypeOK
<1>5. PICK t \in AppContexts : t = h.target /\ t \in used /\ Fresh(t)
  BY <1>1, <1>4 DEF HandlerPlan, Makes
<1> DEFINE e == [ev |-> h.op, other |-> o]
<1>6. pending' = [pending EXCEPT ![t] = Append(@, e)] /\ e.ev = h.op /\ e.other = o
  BY <1>3, <1>5 DEF CallRsyncFor, Submit
<1> HIDE DEF e
<1>7. pending[t] = <<>>
  BY <1>5 DEF Fresh
<1>8. pending'[t] = <<e>>
  BY <1>4, <1>6, <1>7
<1>9. \A c \in AppContexts : c # t => pending'[c] = pending[c]
  BY <1>4, <1>6
<1>10. Len(<<e>>) = 1 /\ <<e>>[1] = e
  OBVIOUS
<1> QED BY <1>2, <1>5, <1>6, <1>8, <1>9, <1>10

\* The handler has an AppContext removed that was deployed.
LEMMA CallTerminateSole ==
    ASSUME Inv, Inv', SoleInv, NEW k \in Clients, \A j \in Clients : j = k, CallRsync(k),
           client[k].op = "Terminate"
    PROVE  SoleInv'
<1>1. /\ StoreInv /\ StoreInv' /\ HandlerInv
      /\ \A c \in AppContexts : QueueInv(c) /\ UpdateInv(c)
  BY DEF Inv, SoleInv
<1>2. PICK h : h = client[k] /\ Plan(h) /\ h.pc = "call" /\ h.op = "Terminate"
  BY DEF SoleInv, CallRsync
<1>3. CallRsyncFor(h.ctx, "Terminate", NoContext)
  BY <1>2 DEF CallRsync, Request
<1>4. UNCHANGED <<state, work, stored, used, stopFlag, holds, level, info>>
  BY <1>3 DEF CallRsync, CallRsyncFor, document, etcd
<1>5. /\ stored \subseteq used /\ used \subseteq AppContexts
      /\ pending \in [AppContexts -> Seq(PendingEvent)]
  BY <1>1 DEF StoreInv, StoreTypeOK
<1>6. Exist /\ h.op \in Operations /\ h.ctx = Current /\ h.ctx \in used /\ Settled(h.ctx) /\ ~Makes(h)
  BY <1>2 DEF Plan, HandlerPlan, Makes
<1>7. \A c \in AppContexts : Calm(c)
  BY TerminateCalm DEF SoleInv, Plan
<1>8. \A c \in AppContexts :
         /\ QueueInv(c)' /\ UpdateInv(c)'
         /\ Settled(c) => Settled(c)'
         /\ Deploying(c)' => Deploying(c) /\ pending'[c] = pending[c]
         /\ Past(c) => Past(c)'
  BY <1>1, <1>4, <1>7, HandlerKeeps
<1>9. /\ Exist' = Exist /\ Current' = Current
      /\ CurrentState(info)' = CurrentState(info)
  BY <1>4, SameInfo
<1>10. PICK g : g = client'[k]
  OBVIOUS
<1>11. g.pc \in {"configs", "record"} /\ g.op = "Terminate" /\ g.ctx = h.ctx
  <2>1. To(k, "configs") \/ To(k, "record")
    BY DEF CallRsync
  <2> QED BY <1>1, <1>2, <1>10, <2>1, HandlerFields
<1>12. ~Makes(g) /\ ~Makes(g)'
  BY <1>11 DEF Makes
<1>13. HandlerPlan(g)'
  <2>1. g.ctx \in used' /\ Settled(g.ctx)'
    BY <1>4, <1>5, <1>6, <1>8, <1>11
  <2> QED BY <1>2, <1>6, <1>9, <1>11, <1>12, <2>1 DEF HandlerPlan
<1>14. \A c, d \in AppContexts : Updating(c, d)' => d # Current
  BY <1>2, <1>6, <1>8 DEF Updating, Plan, RecordPlan
<1>15. RecordPlan(g)'
  BY <1>2, <1>4, <1>5, <1>6, <1>8, <1>9, <1>12, <1>14 DEF Plan, RecordPlan
<1>16. Plan(g)'
  BY <1>13, <1>15 DEF Plan
<1>17. \A j \in Clients : Plan(client[j])'
  BY <1>10, <1>16
<1> QED BY <1>8, <1>17 DEF SoleInv

\* The handler has the AppContext it made deployed.
LEMMA CallMakesSole ==
    ASSUME Inv, Inv', SoleInv, NEW k \in Clients, \A j \in Clients : j = k, CallRsync(k),
           client[k].op # "Terminate"
    PROVE  SoleInv'
<1>1. /\ StoreInv /\ StoreInv' /\ HandlerInv
      /\ \A c \in AppContexts : QueueInv(c) /\ UpdateInv(c)
  BY DEF Inv, SoleInv
<1>2. PICK h : h = client[k] /\ Plan(h) /\ h.pc = "call" /\ h.op \in {"Instantiate", "Update"}
  BY <1>1 DEF SoleInv, HandlerInv, CallRsync, Coherent
<1>3. PICK o : o = IF h.op = "Update" THEN h.ctx ELSE NoContext
  OBVIOUS
<1>4. CallRsyncFor(h.target, h.op, o)
  BY <1>2, <1>3 DEF CallRsync, Request
<1>5. UNCHANGED <<state, work, stored, used, stopFlag, holds, level, info>>
  BY <1>4 DEF CallRsync, CallRsyncFor, document, etcd
<1>6. /\ stored \subseteq used /\ used \subseteq AppContexts
      /\ pending \in [AppContexts -> Seq(PendingEvent)]
  BY <1>1 DEF StoreInv, StoreTypeOK
<1>7. /\ Exist /\ h.op \in Operations /\ h.ctx = Current /\ Makes(h) /\ h.target # h.ctx
      /\ h.op = "Instantiate" => h.ctx = NoContext \/ Gone(h.ctx)
      /\ h.op = "Update" => h.ctx \in stored /\ Risen(h.ctx) /\ h.snap = info
  BY <1>2 DEF Plan, HandlerPlan, Makes
<1>8. PICK t \in AppContexts :
         /\ t = h.target /\ t \in used /\ Fresh(t)
         /\ \A c \in AppContexts : c # t => pending'[c] = pending[c]
         /\ Len(pending'[t]) = 1 /\ pending'[t][1].ev = h.op
         /\ pending'[t][1].other = IF h.op = "Update" THEN h.ctx ELSE NoContext
  BY <1>2, CallIs DEF Plan
<1>9. /\ \A c \in AppContexts : c # t => pending'[c] = pending[c]
      /\ Len(pending'[t]) = 1 /\ pending'[t][1].ev = h.op /\ pending'[t][1].other = o
  BY <1>3, <1>8
<1>10. \A c \in AppContexts : c # t => Calm(c)
  BY <1>5, <1>9 DEF Calm
<1>11. \A c \in AppContexts : c # t =>
         /\ QueueInv(c)' /\ UpdateInv(c)' /\ Lasting(c)
         /\ Deploying(c)' => Deploying(c) /\ pending'[c] = pending[c]
         /\ Past(c) => Past(c)'
  BY <1>1, <1>5, <1>8, <1>10, HandlerKeeps
<1>12. /\ Exist' = Exist /\ Current' = Current
       /\ CurrentState(info)' = CurrentState(info)
  BY <1>5, SameInfo
<1>13. Deploying(t)' /\ ~Settled(t)' /\ work'[t] = "idle" /\ state'[t] = "Created" /\ ~stopFlag'[t]
       /\ t \in stored'
  BY <1>2, <1>5, <1>8, <1>9 DEF Deploying, Deploys, Fresh, Settled
<1>14. QueueInv(t)'
  BY <1>5, <1>8, <1>13 DEF QueueInv
<1>15. h.op = "Update" => \E d \in AppContexts :
          d = h.ctx /\ d = o /\ d # t /\ Settled(d)' /\ Past(d)' /\ d \in stored' /\ Risen(d)'
  <2> SUFFICES ASSUME h.op = "Update"
               PROVE  \E d \in AppContexts :
                        d = h.ctx /\ d = o /\ d # t /\ Settled(d)' /\ Past(d)' /\ d \in stored' /\ Risen(d)'
    OBVIOUS
  <2>1. PICK d \in AppContexts : d = h.ctx /\ d \in stored /\ Risen(d)
    BY <1>6, <1>7
  <2>2. d \in stored' /\ Risen(d)' /\ Settled(d)'
    BY <1>5, <1>7, <1>8, <1>11, <2>1 DEF Lasting, Risen, Settled
  <2>3. Updating(t, d)'
    BY <1>3, <1>9, <1>13, <2>1 DEF Updating
  <2>4. Replacing(d)'
    BY <1>1, <2>3, UpdatingReplaces
  <2> QED BY <1>3, <1>7, <1>8, <2>1, <2>2, <2>4 DEF Past
<1>16. UpdateInv(t)'
  <2>1. CASE h.op = "Update"
    BY <1>9, <1>13, <1>15, <2>1 DEF UpdateInv
  <2>2. CASE h.op # "Update"
    BY <1>9, <2>2 DEF UpdateInv
  <2> QED BY <2>1, <2>2
<1>17. PICK g : g = client'[k]
  OBVIOUS
<1>18. /\ g.pc = "record" /\ g.op = h.op /\ g.ctx = h.ctx /\ g.snap = h.snap /\ g.target = t
       /\ Makes(g) /\ Makes(g)'
  <2>1. To(k, "record")
    BY <1>2 DEF CallRsync
  <2> QED BY <1>1, <1>2, <1>8, <1>17, <2>1, HandlerFields DEF Makes
<1>19. HandlerPlan(g)'
  <2>1. h.op = "Instantiate" => h.ctx = NoContext \/ Gone(h.ctx)'
    BY <1>6, <1>7, <1>8, <1>11 DEF Gone, Lasting
  <2>2. h.op = "Update" => h.ctx \in stored' /\ Risen(h.ctx)' /\ Past(h.ctx)'
    BY <1>15
  <2> QED BY <1>2, <1>5, <1>7, <1>8, <1>9, <1>12, <1>18, <2>1, <2>2 DEF HandlerPlan
<1>20. \A c, d \in AppContexts : Updating(c, d)' =>
          \/ d # Current /\ d # t
          \/ c = t /\ d = h.ctx /\ h.op = "Update"
  <2> SUFFICES ASSUME NEW c \in AppContexts, NEW d \in AppContexts, Updating(c, d)'
               PROVE  \/ d # Current /\ d # t
                      \/ c = t /\ d = h.ctx /\ h.op = "Update"
    OBVIOUS
  <2>1. CASE c = t
    BY <1>3, <1>9, <2>1 DEF Updating
  <2>2. CASE c # t
    <3>1. Updating(c, d)
      BY <1>11, <2>2 DEF Updating
    <3> QED BY <1>2, <1>7, <1>8, <3>1 DEF Plan, RecordPlan
  <2> QED BY <2>1, <2>2
<1>21. RecordPlan(g)'
  BY <1>2, <1>5, <1>6, <1>7, <1>8, <1>11, <1>12, <1>18, <1>20 DEF Plan, RecordPlan
<1>22. Plan(g)'
  BY <1>19, <1>21 DEF Plan
<1>23. \A j \in Clients : Plan(client[j])'
  BY <1>17, <1>22
<1> QED BY <1>11, <1>14, <1>16, <1>23 DEF SoleInv

\* The updates of a cloud can be counted.
LEMMA UpdatesType ==
    ASSUME info \in StateInfo
    PROVE  Updates \in Nat
<1> DEFINE U == {i \in DOMAIN info.actions : info.actions[i].state = "Updated"}
           n == Len(info.actions)
<1>1. n \in Nat /\ U \subseteq 1 .. n
  BY ActionTypes
<1>2. IsFiniteSet(1 .. n)
  BY <1>1, FS_Interval
<1>3. IsFiniteSet(U)
  BY <1>1, <1>2, FS_Subset
<1>4. Updates = Cardinality(U)
  BY DEF Updates
<1> HIDE DEF U
<1> QED BY <1>3, <1>4, FS_CardinalityType

\* How often the cloud was updated, with one more entry.
LEMMA UpdatesCount ==
    ASSUME NEW st \in States, NEW c \in AppContexts \cup {NoContext}, NEW r \in Nat, info \in StateInfo,
           info'.actions = WithAction(info, st, c, r).actions
    PROVE  Updates \in Nat /\ Updates' = IF st = "Updated" THEN Updates + 1 ELSE Updates
<1> DEFINE U == {i \in DOMAIN info.actions : info.actions[i].state = "Updated"}
           t == WithAction(info, st, c, r)
           n == Len(info.actions)
<1>1. /\ t \in StateInfo /\ Len(t.actions) = n + 1
      /\ \A i \in 1 .. n : t.actions[i] = info.actions[i]
      /\ LastAction(t).state = st
  BY WithActionType
<1>2. n \in Nat /\ DOMAIN info.actions = 1 .. n /\ DOMAIN t.actions = 1 .. n + 1
  BY <1>1, ActionTypes
<1>3. t.actions[n + 1].state = st
  BY <1>1 DEF LastAction
<1>4. IsFiniteSet(U) /\ Cardinality(U) \in Nat /\ n + 1 \notin U
  <2>1. IsFiniteSet(1 .. n) /\ U \subseteq 1 .. n
    BY <1>2, FS_Interval
  <2>2. IsFiniteSet(U)
    BY <2>1, FS_Subset
  <2> HIDE DEF U
  <2>3. n + 1 \notin 1 .. n
    BY <1>2
  <2> QED BY <2>1, <2>2, <2>3, FS_CardinalityType
<1>5. {i \in DOMAIN t.actions : t.actions[i].state = "Updated"} = IF st = "Updated" THEN U \cup {n + 1} ELSE U
  <2> HIDE DEF t, n
  <2>1. 1 .. n + 1 = (1 .. n) \cup {n + 1}
    BY <1>2
  <2> QED BY <1>1, <1>2, <1>3, <2>1
<1>6. Updates = Cardinality(U)
  BY DEF Updates
<1>7. Updates' = Cardinality({i \in DOMAIN t.actions : t.actions[i].state = "Updated"})
  BY DEF Updates
<1>8. Cardinality(U \cup {n + 1}) = Cardinality(U) + 1
  <2> HIDE DEF U, n
  <2> QED BY <1>4, FS_AddElement
<1> HIDE DEF U
<1> QED BY <1>4, <1>5, <1>6, <1>7, <1>8

\* What is read of the StateInfo after an operation was recorded in it.
LEMMA RecordedIs ==
    ASSUME Inv, NEW k \in Clients, AddState(k), NEW h, h = client[k], HandlerPlan(h)
    PROVE  /\ CurrentState(info)' = Leaves(h) /\ Current' = Recorded(h)
           /\ info'.statusCtx = IF h.op = "Update" THEN info.statusCtx ELSE Recorded(h)
           /\ Updates \in Nat /\ Updates' = IF h.op = "Update" THEN Updates + 1 ELSE Updates
<1>1. /\ h.pc = "record" /\ Exist /\ h.op \in {"Instantiate", "Terminate", "Update", "Stop"}
      /\ h.ctx \in AppContexts \cup {NoContext} /\ h.target \in AppContexts \cup {NoContext}
      /\ h.op = "Update" => h.snap = info
  BY HandlerTypes DEF AddState, Inv, HandlerInv, Coherent, HandlerPlan
<1>2. info \in StateInfo /\ Exists(info)
  BY <1>1 DEF Inv, DocumentInv
<1> DEFINE t == WithAction(info, Leaves(h), Recorded(h), LatestRevision(info) + 1)
<1>3. info' = IF h.op = "Update" THEN t ELSE [t EXCEPT !.statusCtx = Recorded(h)]
  BY <1>1 DEF AddState
<1>4. LatestRevision(info) + 1 \in Nat
  BY <1>2, LastActionType
<1>5. /\ Leaves(h) \in States /\ Recorded(h) \in AppContexts \cup {NoContext}
      /\ Leaves(h) = "Updated" <=> h.op = "Update"
  BY <1>1 DEF Leaves, States, Recorded
<1>6. /\ t \in StateInfo /\ t.actions # <<>> /\ t.statusCtx = info.statusCtx
      /\ LastAction(t).state = Leaves(h) /\ LastAction(t).ctx = Recorded(h)
  BY <1>2, <1>4, <1>5, WithActionType
<1>7. /\ info'.actions = t.actions
      /\ info'.statusCtx = IF h.op = "Update" THEN info.statusCtx ELSE Recorded(h)
  <2> HIDE DEF t
  <2> QED BY <1>3, <1>6 DEF StateInfo
<1>8. Updates \in Nat /\ Updates' = IF h.op = "Update" THEN Updates + 1 ELSE Updates
  <2>1. PICK st \in States, c \in AppContexts \cup {NoContext}, r \in Nat :
           st = Leaves(h) /\ c = Recorded(h) /\ r = LatestRevision(info) + 1
    BY <1>4, <1>5
  <2>2. info'.actions = WithAction(info, st, c, r).actions
    BY <1>7, <2>1
  <2>3. Updates \in Nat /\ Updates' = IF st = "Updated" THEN Updates + 1 ELSE Updates
    BY <1>2, <2>2, UpdatesCount
  <2> QED BY <1>5, <2>1, <2>3
<1> HIDE DEF t
<1> QED BY <1>6, <1>7, <1>8 DEF CurrentState, Current, LastContextId, LastAction, Exists

\* The handler records what it has done.
LEMMA RecordSole ==
    ASSUME Inv, Inv', SoleInv, NEW k \in Clients, \A j \in Clients : j = k, AddState(k)
    PROVE  SoleInv'
<1>1. /\ StoreInv /\ StoreInv' /\ HandlerInv
      /\ \A c \in AppContexts : QueueInv(c) /\ UpdateInv(c)
  BY DEF Inv, SoleInv
<1>2. PICK h : /\ h = client[k] /\ Plan(h) /\ h.pc = "record" /\ Exist
               /\ h.op \in {"Instantiate", "Terminate", "Update", "Stop"}
               /\ h.snap \in StateInfo /\ Exists(h.snap)
               /\ h.ctx \in AppContexts \cup {NoContext} /\ h.target \in AppContexts \cup {NoContext}
  <2>1. client[k].pc = "record"
    BY DEF AddState
  <2> QED BY <1>1, <2>1, HandlerTypes DEF SoleInv, HandlerInv, AddState, Coherent
<1>3. UNCHANGED <<pending, state, work, stored, used, stopFlag, holds, level>>
  BY DEF AddState, lifecycle, etcd
<1>4. stored \subseteq used /\ used \subseteq AppContexts
  BY <1>1 DEF StoreInv, StoreTypeOK
<1>5. \A c \in AppContexts : Calm(c)
  BY <1>3 DEF Calm
<1>6. \A c \in AppContexts :
         /\ QueueInv(c)' /\ UpdateInv(c)'
         /\ Gone(c) => Gone(c)'
         /\ Deploying(c)' => Deploying(c) /\ pending'[c] = pending[c]
         /\ Past(c) => Past(c)'
  BY <1>1, <1>3, <1>5, HandlerKeeps
<1>7. CurrentState(info)' = Leaves(h) /\ Current' = Recorded(h)
  BY <1>2, RecordedIs DEF Plan
<1>8. Exist' /\ h.op \in Operations
  BY <1>2, <1>3 DEF Exist, Plan, HandlerPlan
<1>9. PICK g : g = client'[k]
  OBVIOUS
<1>10. HandlerPlan(g)' /\ ~Makes(g)'
  <2>1. Done(k) \/ To(k, "listen")
    BY DEF AddState
  <2>2. g.pc = "idle" \/ (g.pc = "listen" /\ g.op = h.op)
    BY <1>1, <1>2, <1>9, <2>1, HandlerFields
  <2> QED BY <1>8, <2>2 DEF HandlerPlan, Makes
<1>11. \A c, d \in AppContexts : Updating(c, d)' => Updating(c, d)
  BY <1>6 DEF Updating
<1>12. CASE h.op \in {"Instantiate", "Update"}
  <2>1. /\ Current' = h.target /\ h.target \in used /\ h.target # h.ctx /\ h.ctx = Current
        /\ Makes(h)
        /\ h.op = "Update" => Past(h.ctx)
        /\ h.op = "Instantiate" =>
              /\ h.ctx = NoContext \/ Gone(h.ctx)
              /\ Deploying(h.target) => pending[h.target][1].ev = "Instantiate"
    BY <1>2, <1>7, <1>12 DEF Plan, HandlerPlan, Makes, Recorded
  <2>2. Current \in AppContexts => Past(Current)
    BY <1>12, <2>1, ContextAssumption DEF Past, Off
  <2>3. \A c \in used : c = Current' \/ Past(c)
    BY <1>2, <1>4, <2>1, <2>2 DEF Plan, RecordPlan
  <2>4. \A c, d \in AppContexts : Updating(c, d)' => d # Current'
    BY <1>2, <1>11, <2>1 DEF Plan, RecordPlan
  <2>5. CurrentState(info)' # "Updated" => h.op = "Instantiate"
    BY <1>7, <1>12 DEF Leaves
  <2>6. \A c \in AppContexts : c = Current' /\ CurrentState(info)' # "Updated" /\ Deploying(c)' =>
            pending'[c][1].ev = "Instantiate"
    BY <1>6, <2>1, <2>5
  <2>7. RecordPlan(g)'
    BY <1>3, <1>4, <1>6, <1>8, <1>10, <2>1, <2>3, <2>4, <2>6 DEF RecordPlan
  <2>8. Plan(g)'
    BY <1>10, <2>7 DEF Plan
  <2>9. \A j \in Clients : Plan(client[j])'
    BY <1>9, <2>8
  <2> QED BY <1>6, <2>9 DEF SoleInv
<1>13. CASE h.op \in {"Terminate", "Stop"}
  <2>1. /\ Current' = Current /\ ~Makes(h)
        /\ h.op = "Terminate" => Current \in used /\ Settled(Current)
        /\ h.op = "Stop" => CurrentState(info) # "Updated"
    BY <1>2, <1>7, <1>13 DEF Plan, HandlerPlan, Makes, Recorded
  <2>2. \A c, d \in AppContexts : Updating(c, d)' => d # Current'
    BY <1>2, <1>11, <1>13, <2>1 DEF Plan, RecordPlan
  <2>3. \A c \in AppContexts : c = Current' /\ Deploying(c)' => pending'[c][1].ev = "Instantiate"
    <3> SUFFICES ASSUME NEW c \in AppContexts, c = Current, Deploying(c)'
                 PROVE  pending'[c][1].ev = "Instantiate"
      BY <2>1
    <3>1. Deploying(c) /\ pending'[c] = pending[c]
      BY <1>6
    <3>2. ~Settled(c)
      BY <1>1, <3>1 DEF QueueInv
    <3>3. CurrentState(info) # "Updated"
      BY <1>13, <2>1, <3>2
    <3> QED BY <1>2, <3>1, <3>3 DEF Plan, RecordPlan
  <2>4. RecordPlan(g)'
    BY <1>2, <1>3, <1>4, <1>6, <1>8, <1>10, <2>1, <2>2, <2>3 DEF Plan, RecordPlan
  <2>5. Plan(g)'
    BY <1>10, <2>4 DEF Plan
  <2>6. \A j \in Clients : Plan(client[j])'
    BY <1>9, <2>5
  <2> QED BY <1>6, <2>6 DEF SoleInv
<1> QED BY <1>2, <1>12, <1>13

\* A cloud that was just created has no AppContext.
LEMMA CreatedIs ==
    ASSUME NEW k \in Clients, CreateState(k), level # "none"
    PROVE  Current' = NoContext
<1>1. "Created" \in States /\ NoInfo \in StateInfo /\ NoContext \in AppContexts \cup {NoContext} /\ 0 \in Nat
  BY NoInfoType DEF States
<1>2. LastAction(WithAction(NoInfo, "Created", NoContext, 0)) = [state |-> "Created", ctx |-> NoContext, rev |-> 0]
  BY <1>1, WithActionType
<1>3. info' = WithAction(NoInfo, "Created", NoContext, 0)
  BY DEF CreateState
<1> QED BY <1>2, <1>3 DEF Current, LastContextId, LastAction

\* A cloud is created: first its document and then its StateInfo.
LEMMA CreateSole ==
    ASSUME Inv, Inv', SoleInv, NEW k \in Clients, \A j \in Clients : j = k, Create(k) \/ CreateState(k)
    PROVE  SoleInv'
<1>1. /\ StoreInv /\ StoreInv' /\ HandlerInv
      /\ \A c \in AppContexts : QueueInv(c) /\ UpdateInv(c)
  BY DEF Inv, SoleInv
<1>2. PICK h : h = client[k] /\ Plan(h) /\ h.pc \in {"idle", "create"} /\ ~Exist
  <2>1. Plan(client[k])
    BY DEF SoleInv
  <2> QED BY <2>1, LevelAssumption DEF Create, CreateState, Called, Plan, HandlerPlan, Exist
<1>3. UNCHANGED <<pending, state, work, stored, used, stopFlag, holds>>
  BY DEF Create, CreateState, lifecycle, etcd
<1>4. used \subseteq AppContexts
  BY <1>1 DEF StoreInv, StoreTypeOK
<1>5. \A c \in AppContexts : Calm(c)
  BY <1>3 DEF Calm
<1>6. \A c \in AppContexts : QueueInv(c)' /\ UpdateInv(c)' /\ (Past(c) => Past(c)')
  BY <1>1, <1>3, <1>5, HandlerKeeps
<1>7. PICK g : g = client'[k]
  OBVIOUS
<1>8. HandlerPlan(g)' /\ ~Makes(h) /\ ~Makes(g) /\ ~Makes(g)'
  <2>1. CASE Create(k)
    <3>1. "Create" \in Operations /\ level' = "draft" /\ client' = [client EXCEPT ![k] = [Idle EXCEPT !.pc = "create"]]
      BY <2>1 DEF Create, Called, Goes
    <3>2. client \in [Clients -> HandlerState]
      BY <1>1 DEF HandlerInv
    <3>3. g = [Idle EXCEPT !.pc = "create"]
      BY <1>7, <3>1, <3>2
    <3>4. g.pc = "create" /\ g.op = "Create"
      BY <3>3 DEF Idle
    <3> QED BY <1>2, <3>1, <3>4 DEF HandlerPlan, Makes
  <2>2. CASE CreateState(k)
    <3>1. g.pc = "idle"
      BY <1>1, <1>7, <2>2, HandlerFields DEF CreateState
    <3> QED BY <1>2, <3>1 DEF HandlerPlan, Makes
  <2> QED BY <2>1, <2>2
<1>9. \A c \in used : Past(c)'
  BY <1>2, <1>4, <1>6, <1>8 DEF Plan, RecordPlan
<1>10. ~Exist' \/ Current' = NoContext
  <2>1. CASE Create(k)
    BY <2>1, LevelAssumption DEF Create, Exist
  <2>2. CASE CreateState(k)
    <3>1. level # "none"
      BY <1>2, <2>2 DEF Plan, HandlerPlan, CreateState
    <3> QED BY <2>2, <3>1, CreatedIs
  <2> QED BY <2>1, <2>2
<1>11. RecordPlan(g)'
  BY <1>3, <1>8, <1>9, <1>10, ContextAssumption DEF RecordPlan
<1>12. Plan(g)'
  BY <1>8, <1>11 DEF Plan
<1>13. \A j \in Clients : Plan(client[j])'
  BY <1>7, <1>12
<1> QED BY <1>6, <1>13 DEF SoleInv

\* Initially there is nothing.
LEMMA InitSole == Init => SoleInv
<1> SUFFICES ASSUME Init PROVE SoleInv
  OBVIOUS
<1>1. ASSUME NEW c \in AppContexts PROVE ~Deploying(c) /\ QueueInv(c) /\ UpdateInv(c)
  <2>1. /\ pending[c] = <<>> /\ state[c] = "Created" /\ work[c] = "idle" /\ used = {} /\ holds = {}
        /\ ~stopFlag[c]
    BY DEF Init, InitStore, InitLifecycle
  <2>2. Len(pending[c]) = 0
    BY <2>1
  <2>3. ~Deploying(c)
    BY <2>2 DEF Deploying
  <2>4. 1 .. Len(pending[c]) = {}
    BY <2>2
  <2> QED BY <2>1, <2>3, <2>4 DEF QueueInv, UpdateInv
<1>2. ASSUME NEW k \in Clients PROVE Plan(client[k])
  <2>1. client[k].pc = "idle" /\ used = {} /\ ~Exist
    BY <1>2, LevelAssumption DEF Init, InitStore, Idle, Exist
  <2> QED BY <1>1, <2>1 DEF Plan, HandlerPlan, RecordPlan, Updating
<1> QED BY <1>1, <1>2 DEF SoleInv

\* Every step of the one handler, of rsync and of the clusters.
LEMMA NextSole ==
    ASSUME {"crash", "fail"} \cap Faults = {}, "Delete" \notin Operations,
           \A j, k \in Clients : j = k, Inv, Inv', SoleInv, [Next]_vars
    PROVE  SoleInv'
<1>1. ASSUME NEW k \in Clients, Start(k) PROVE SoleInv'
  <2>1. \A j \in Clients : j = k
    OBVIOUS
  <2>2. CASE Create(k)
    BY <2>1, <2>2, CreateSole
  <2>3. CASE Instantiate(k) \/ Terminate(k) \/ Stop(k) \/ UpdateInstantiation(k)
    BY <2>1, <2>3, StartSole
  <2>4. CASE ChangePermission(k) \/ \E x \in Clusters : AddReference(k, x) \/ RemoveReference(k, x) \/ Kubeconfig(k, x)
    BY <2>4, AsideKeeps DEF ChangePermission, AddReference, RemoveReference, Kubeconfig, Configured
  <2>5. ~Delete(k)
    BY DEF Delete, Called
  <2> QED BY <1>1, <2>2, <2>3, <2>4, <2>5 DEF Start
<1>2. ASSUME NEW k \in Clients, Continue(k) PROVE SoleInv'
  <2>1. \A j \in Clients : j = k
    OBVIOUS
  <2>2. CASE DeleteContexts(k) \/ BuildFails(k) \/ CallFails(k) \/ DeleteCloudConfigs(k) \/ Subscribe(k) \/ PrepareGitOps(k)
    BY <2>1, <2>2, ContinueSole
  <2>3. CASE Build(k)
    BY <2>1, <2>3, BuildSole
  <2>4. CASE CallRsync(k)
    BY <2>1, <2>4, CallTerminateSole, CallMakesSole
  <2>5. CASE AddState(k)
    BY <2>1, <2>5, RecordSole
  <2>6. ~RemoveDocument(k) /\ ~AddStateFails(k)
    BY DEF RemoveDocument, AddStateFails, SoleInv, Plan, HandlerPlan
  <2>7. CASE CreateState(k)
    BY <2>1, <2>7, CreateSole
  <2> QED BY <1>2, <2>2, <2>3, <2>4, <2>5, <2>6, <2>7 DEF Continue
<1>3. ASSUME NEW c \in AppContexts, NotYet(c) \/ ProcessAlert(c) PROVE SoleInv'
  BY <1>3, AsideKeeps DEF NotYet, ProcessAlert, Configured, document
<1>4. ASSUME NEW c \in AppContexts, RsyncDeploys(c) \/ RsyncRemoves(c) \/ RsyncWorks(c) PROVE SoleInv'
  BY <1>4, RsyncSole DEF RsyncStep
<1>5. ASSUME NEW x \in Clusters, Report(x) PROVE SoleInv'
  BY <1>5, AsideKeeps DEF Report, document
<1>6. CASE UNCHANGED vars
  BY <1>6, AsideKeeps DEF vars, document
<1>7. ~Restart
  BY DEF Restart
<1> QED BY <1>1, <1>2, <1>3, <1>4, <1>5, <1>6, <1>7 DEF Next

\* With one handler at a time that is not interrupted, operations of rsync that
\* succeed and no Delete, whatever the clients stop and update and wherever calls
\* fail: what is on the clusters is what the StateInfo records, or what is being
\* replaced, removed, recorded or stopped (Instantiate, Update and Terminate in
\* dcm/pkg/module/apply.go).
THEOREM ResourcesRecordedSafe ==
    ASSUME \A j, k \in Clients : j = k, {"crash", "fail"} \cap Faults = {}, "Delete" \notin Operations,
           Clients # {}
    PROVE  Spec => []ResourcesRecorded
<1>1. Init => SoleInv
  BY InitSole
<1>2. Inv /\ Inv' /\ SoleInv /\ [Next]_vars => SoleInv'
  BY NextSole
<1>3. Inv /\ SoleInv => ResourcesRecorded
  <2> SUFFICES ASSUME Inv, SoleInv, NEW c \in holds
               PROVE  \/ Exist /\ c = Current
                      \/ c \in stored /\ (Leaving(c) \/ Replacing(c) \/ stopFlag[c])
                      \/ \E k \in Clients : client[k].pc = "record" /\ client[k].target = c
    BY DEF ResourcesRecorded
  <2>1. c \in used /\ c \in AppContexts
    BY DEF Inv, StoreInv, StoreTypeOK
  <2>2. PICK k \in Clients : Plan(client[k])
    BY DEF SoleInv
  <2>3. CASE Makes(client[k]) /\ client[k].target = c
    <3>1. client[k].pc # "call"
      BY <2>2, <2>3 DEF Plan, HandlerPlan, Fresh, Makes
    <3> QED BY <2>3, <3>1 DEF Makes
  <2>4. CASE Past(c)
    BY <2>4 DEF Past, Off, Gone
  <2> QED BY <2>1, <2>2, <2>3, <2>4 DEF Plan, RecordPlan
<1> QED BY <1>1, <1>2, <1>3, Invariance, PTL DEF Spec

-------------------------------------------------------------------------------
(* Who collects the statuses.                                              *)

\* The clusters of c report to s, as far as c is deployed on them, or takes them
\* over from what it replaces.
Fit(c, s) ==
    /\ statusCtx[c] = s
    /\ \A x \in placed[c] :
          c \in holds \/ (Deploying(c) /\ pending[c][1].ev = "Update" /\ x \in placed[pending[c][1].other]) =>
              label[x] \in {NoContext, s}

\* The AppContext that is current fits the StateInfo, and the one the handler h
\* makes will.
CollectPlan(h) ==
    /\ level # "1" => \A x \in Clusters : label[x] = NoContext
    /\ ~Exist => used = {}
    /\ \A c \in AppContexts : Exist /\ c = Current =>
          /\ Updates = 0 \/ CurrentState(info) = "Instantiated" => info.statusCtx = c /\ Fit(c, c)
          /\ Updates = 1 /\ CurrentState(info) = "Updated" => Fit(c, info.statusCtx)
    /\ h.op = "Instantiate" /\ Makes(h) => Fit(h.target, h.target)
    /\ h.op = "Update" /\ Makes(h) /\ Updates = 0 => Fit(h.target, h.ctx)
    /\ h.op = "Update" /\ h.pc = "record" /\ Deploying(h.target) =>
          pending[h.target][1].ev = "Update" /\ pending[h.target][1].other = h.ctx
    /\ h.op = "Update" /\ h.pc \in {"build", "call"} /\ Updates = 0 =>
          \A x \in placed[h.ctx] : label[x] \in {NoContext, h.ctx}

CollectInv == \A k \in Clients : CollectPlan(client[k])

\* The handler is about to replace an AppContext, or has made a new one.
Replaces(h) == Makes(h) \/ (h.op = "Update" /\ h.pc = "build")

\* An AppContext that is not deployed meanwhile keeps reporting where it did.
LEMMA FitStays ==
    ASSUME Inv, NEW c \in AppContexts, NEW s, Fit(c, s), UpdateInv(c),
           statusCtx'[c] = statusCtx[c], placed'[c] = placed[c],
           \A d \in AppContexts : Updating(c, d) => placed'[d] = placed[d],
           c \in holds' => c \in holds,
           Deploying(c)' => Deploying(c) /\ pending'[c] = pending[c],
           \A x \in placed[c] : label'[x] \in {label[x], NoContext}
    PROVE  Fit(c, s)'
<1>1. Deploying(c) /\ pending[c][1].ev = "Update" => placed'[pending[c][1].other] = placed[pending[c][1].other]
  BY DEF UpdateInv, Updating
<1> QED BY <1>1 DEF Fit

\* Who collects is settled by the documents, while nothing is deployed.
LEMMA CollectStays ==
    ASSUME Inv, \A c \in AppContexts : UpdateInv(c), NEW h, NEW g, HandlerPlan(h), CollectPlan(h),
           UNCHANGED <<level, info, used, statusCtx, placed>>, holds' \subseteq holds,
           \A x \in Clusters : label'[x] \in {label[x], NoContext},
           \A c \in AppContexts : Deploying(c)' => Deploying(c) /\ pending'[c] = pending[c],
           g = h \/ ~Replaces(g)
    PROVE  CollectPlan(g)'
<1>1. /\ Exist' = Exist /\ Current' = Current
      /\ CurrentState(info)' = CurrentState(info) /\ Updates' = Updates
  BY SameInfo DEF Updates
<1>2. /\ placed \in [AppContexts -> SUBSET Clusters] /\ stored \subseteq used /\ used \subseteq AppContexts
  BY DEF Inv, StatusInv, StoreInv, StoreTypeOK
<1>3. \A c \in AppContexts : \A s : Fit(c, s) => Fit(c, s)'
  <2> SUFFICES ASSUME NEW c \in AppContexts, NEW s, Fit(c, s) PROVE Fit(c, s)'
    OBVIOUS
  <2>1. placed[c] \subseteq Clusters
    BY <1>2
  <2> QED BY <2>1, FitStays
<1>4. CASE g = h
  <2>1. Makes(h)' <=> Makes(h)
    BY DEF Makes
  <2>2. Makes(h) => h.target \in AppContexts
    BY <1>2 DEF HandlerPlan, Makes
  <2>3. h.op = "Update" /\ h.pc \in {"build", "call"} => h.ctx \in AppContexts
    BY <1>2 DEF HandlerPlan
  <2>4. h.op = "Update" /\ h.pc = "record" => Makes(h)
    BY DEF Makes
  <2>5. /\ level' # "1" => \A x \in Clusters : label'[x] = NoContext
        /\ ~Exist' => used' = {}
    BY <1>1 DEF CollectPlan
  <2>6. \A c \in AppContexts : Exist' /\ c = Current' =>
          /\ Updates' = 0 \/ CurrentState(info)' = "Instantiated" => info'.statusCtx = c /\ Fit(c, c)'
          /\ Updates' = 1 /\ CurrentState(info)' = "Updated" => Fit(c, info.statusCtx)
    BY <1>1, <1>3 DEF CollectPlan
  <2>7. \A c \in AppContexts : Fit(c, info.statusCtx) => Fit(c, info.statusCtx)'
    <3> TAKE c \in AppContexts
    <3>1. PICK s : s = info.statusCtx
      OBVIOUS
    <3>2. Fit(c, s) => Fit(c, s)'
      BY <1>3
    <3> QED BY <3>1, <3>2 DEF Fit
  <2>8. /\ h.op = "Instantiate" /\ Makes(h) => Fit(h.target, h.target)'
        /\ h.op = "Update" /\ Makes(h) /\ Updates' = 0 => Fit(h.target, h.ctx)'
    BY <1>1, <1>3, <2>2 DEF CollectPlan
  <2>9. h.op = "Update" /\ h.pc = "record" /\ Deploying(h.target)' =>
          pending'[h.target][1].ev = "Update" /\ pending'[h.target][1].other = h.ctx
    BY <2>2, <2>4 DEF CollectPlan
  <2>10. h.op = "Update" /\ h.pc \in {"build", "call"} /\ Updates' = 0 =>
          \A x \in placed'[h.ctx] : label'[x] \in {NoContext, h.ctx}
    BY <1>1, <1>2, <2>3 DEF CollectPlan
  <2>11. CollectPlan(h)'
    BY <2>1, <2>5, <2>6, <2>7, <2>8, <2>9, <2>10 DEF CollectPlan
  <2> QED BY <1>4, <2>11
<1>5. CASE ~Replaces(g)
  <2>1. ~Makes(g)' /\ ~(g.op = "Update" /\ g.pc \in {"build", "call", "record"})
    BY <1>5 DEF Makes, Replaces
  <2>5. /\ level' # "1" => \A x \in Clusters : label'[x] = NoContext
        /\ ~Exist' => used' = {}
    BY <1>1 DEF CollectPlan
  <2>6. \A c \in AppContexts : Exist' /\ c = Current' =>
          /\ Updates' = 0 \/ CurrentState(info)' = "Instantiated" => info'.statusCtx = c /\ Fit(c, c)'
          /\ Updates' = 1 /\ CurrentState(info)' = "Updated" => Fit(c, info.statusCtx)
    BY <1>1, <1>3 DEF CollectPlan
  <2>7. \A c \in AppContexts : Fit(c, info.statusCtx) => Fit(c, info.statusCtx)'
    <3> TAKE c \in AppContexts
    <3>1. PICK s : s = info.statusCtx
      OBVIOUS
    <3>2. Fit(c, s) => Fit(c, s)'
      BY <1>3
    <3> QED BY <3>1, <3>2 DEF Fit
  <2> QED BY <2>1, <2>5, <2>6, <2>7 DEF CollectPlan
<1> QED BY <1>4, <1>5

\* Only what is recorded, or about to be, is deployed.
LEMMA DeployedIs ==
    ASSUME Inv, \A c \in AppContexts : QueueInv(c), NEW h, Plan(h), NEW c \in AppContexts, RsyncDeploys(c)
    PROVE  /\ Deploying(c) /\ c \in used
           /\ \/ Exist /\ c = Current /\ ~Makes(h)
              \/ Makes(h) /\ h.pc = "record" /\ h.target = c
           /\ ~(h.op = "Update" /\ h.pc \in {"build", "call"})
<1>1. /\ StoreInv /\ c \in stored /\ work[c] = "busy" /\ Deploys(First(c))
      /\ stored \subseteq used /\ used \subseteq AppContexts
  BY DEF RsyncDeploys, Inv, StoreInv, StoreTypeOK
<1>2. pending[c] # <<>>
  BY <1>1 DEF StoreInv, HandledIsPending
<1>3. First(c) = pending[c][1].ev /\ 1 \in 1 .. Len(pending[c])
  BY <1>1, <1>2, QueueFacts
<1>4. Deploying(c)
  BY <1>1, <1>3 DEF QueueInv, Deploys, Removes
<1>5. ~Settled(c) /\ ~Gone(c) /\ ~Fresh(c)
  BY <1>1, <1>4 DEF QueueInv, Gone, Fresh
<1>6. ~Past(c)
  BY <1>5 DEF Past, Off, Risen, Settled
<1>7. (Exist /\ c = Current) \/ (Makes(h) /\ h.target = c)
  BY <1>1, <1>6 DEF Plan, RecordPlan
<1>8. Makes(h) /\ h.target = c => h.pc = "record"
  BY <1>5 DEF Plan, HandlerPlan, Makes
<1>9. Exist /\ c = Current => ~Makes(h) \/ h.target = c
  <2> SUFFICES ASSUME c = Current, Makes(h) PROVE FALSE
    OBVIOUS
  <2>1. h.ctx = c /\ (h.op = "Instantiate" => h.ctx = NoContext \/ Gone(h.ctx)) /\ (h.op = "Update" => Risen(h.ctx))
    BY DEF Plan, HandlerPlan, Makes
  <2> QED BY <1>5, <2>1, ContextAssumption DEF Makes, Risen, Settled
<1>10. ~(h.op = "Update" /\ h.pc \in {"build", "call"})
  <2> SUFFICES ASSUME h.op = "Update", h.pc \in {"build", "call"} PROVE FALSE
    OBVIOUS
  <2>1. h.ctx = Current /\ Risen(h.ctx)
    BY DEF Plan, HandlerPlan
  <2>2. c # Current
    BY <1>5, <2>1 DEF Risen, Settled
  <2>3. h.pc = "record"
    BY <1>7, <1>8, <2>2
  <2> QED BY <2>3
<1> QED BY <1>1, <1>4, <1>7, <1>8, <1>9, <1>10

\* rsync deploys: the clusters report to the AppContext that collects, but those
\* that stay when one AppContext replaces another.
LEMMA DeployCollects ==
    ASSUME Inv, \A c \in AppContexts : QueueInv(c) /\ UpdateInv(c), NEW h, Plan(h), CollectPlan(h),
           NEW d \in AppContexts, RsyncDeploys(d)
    PROVE  CollectPlan(h)'
<1>1. /\ Deploying(d) /\ d \in used
      /\ \/ Exist /\ d = Current /\ ~Makes(h)
         \/ Makes(h) /\ h.pc = "record" /\ h.target = d
      /\ ~(h.op = "Update" /\ h.pc \in {"build", "call"})
  BY DeployedIs
<1>2. /\ UNCHANGED <<pending, stored, used, statusCtx, level, info, placed>> /\ holds' = holds \cup {d}
      /\ IF level = "0" THEN UNCHANGED label
         ELSE label' = [x \in Clusters |-> IF x \in Added(d) THEN statusCtx[d] ELSE label[x]]
  BY DEF RsyncDeploys, lifecycle, etcd, document
<1>3. /\ Exist' = Exist /\ Current' = Current
      /\ CurrentState(info)' = CurrentState(info) /\ Updates' = Updates
  BY <1>2, SameInfo DEF Updates
<1>4. /\ used \subseteq AppContexts /\ placed \in [AppContexts -> SUBSET Clusters]
      /\ level \in {"0", "1", "none", "draft"} /\ StoreInv
  BY LevelAssumption DEF Inv, DocumentInv, StatusInv, StoreInv, StoreTypeOK
<1>5. level \in {"0", "1"}
  BY <1>1, LevelAssumption DEF CollectPlan, Exist
<1>6. Head(pending[d]) = pending[d][1]
  BY <1>1, <1>4, QueueFacts DEF Deploying
<1>7. \A c \in AppContexts : Deploying(c)' <=> Deploying(c)
  BY <1>2 DEF Deploying
<1>8. ASSUME NEW s, Fit(d, s) PROVE Fit(d, s)'
  <2>1. statusCtx'[d] = s /\ placed'[d] = placed[d] /\ placed[d] \subseteq Clusters
    BY <1>2, <1>4, <1>8 DEF Fit
  <2>2. ASSUME NEW x \in placed[d] PROVE label'[x] \in {NoContext, s}
    <3>1. CASE level = "0"
      BY <1>2, <2>1, <2>2, <3>1 DEF CollectPlan
    <3>2. CASE level # "0" /\ x \in Added(d)
      BY <1>2, <2>1, <2>2, <3>2
    <3>3. CASE level # "0" /\ x \notin Added(d)
      <4>1. pending[d][1].ev = "Update" /\ x \in placed[pending[d][1].other]
        BY <1>6, <2>2, <3>3 DEF Added
      <4>2. label[x] \in {NoContext, s}
        BY <1>1, <1>8, <2>2, <4>1 DEF Fit
      <4> QED BY <1>2, <2>1, <2>2, <3>3, <4>2
    <3> QED BY <3>1, <3>2, <3>3
  <2> QED BY <2>1, <2>2 DEF Fit
<1>9. ASSUME NEW c \in AppContexts, NEW s, Fit(c, s), Exist, c = Current PROVE Fit(c, s)'
  <2>1. CASE c = d
    BY <1>8, <1>9, <2>1
  <2>2. CASE c # d
    <3>1. Makes(h) /\ h.pc = "record" /\ h.target = d /\ h.ctx = c
      BY <1>1, <1>9, <2>2 DEF Plan, HandlerPlan, Makes
    <3>2. /\ statusCtx'[c] = s /\ placed'[c] = placed[c] /\ placed[c] \subseteq Clusters
          /\ c \in holds' <=> c \in holds
      BY <1>2, <1>4, <1>9, <2>2 DEF Fit
    <3>3. CASE h.op = "Instantiate"
      <4>1. Gone(c)
        BY <1>9, <3>1, <3>3, ContextAssumption DEF Plan, HandlerPlan, Makes
      <4> QED BY <1>2, <1>7, <3>2, <4>1 DEF Gone, Fit
    <3>4. CASE h.op = "Update"
      <4>1. pending[d][1].ev = "Update" /\ pending[d][1].other = c
        BY <1>1, <3>1, <3>4 DEF CollectPlan
      <4>2. Added(d) = placed[d] \ placed[c]
        BY <1>6, <1>9, <4>1 DEF Added
      <4>3. \A x \in placed[c] : label'[x] = label[x]
        BY <1>2, <3>2, <4>2
      <4> QED BY <1>2, <1>7, <1>9, <3>2, <4>3 DEF Fit
    <3> QED BY <3>1, <3>3, <3>4 DEF Makes
  <2> QED BY <2>1, <2>2
<1>10. /\ level' # "1" => \A x \in Clusters : label'[x] = NoContext
       /\ ~Exist' => used' = {}
  BY <1>2, <1>3, <1>4, <1>5 DEF CollectPlan
<1>11. PICK s : s = info.statusCtx
  OBVIOUS
<1>12. \A c \in AppContexts : Exist' /\ c = Current' =>
          /\ Updates' = 0 \/ CurrentState(info)' = "Instantiated" => s = c /\ Fit(c, c)'
          /\ Updates' = 1 /\ CurrentState(info)' = "Updated" => Fit(c, s)'
  BY <1>3, <1>9, <1>11 DEF CollectPlan
<1>13. info'.statusCtx = s
  BY <1>2, <1>11
<1>14. /\ Makes(h)' <=> Makes(h)
       /\ Makes(h) => h.target = d
  BY <1>1 DEF Makes
<1>15. /\ h.op = "Instantiate" /\ Makes(h) => Fit(h.target, h.target)'
       /\ h.op = "Update" /\ Makes(h) /\ Updates' = 0 => Fit(h.target, h.ctx)'
  BY <1>3, <1>8, <1>14 DEF CollectPlan
<1>16. h.op = "Update" /\ h.pc = "record" /\ Deploying(h.target)' =>
          pending'[h.target][1].ev = "Update" /\ pending'[h.target][1].other = h.ctx
  <2>1. h.op = "Update" /\ h.pc = "record" => h.target = d
    BY <1>14 DEF Makes
  <2> QED BY <1>2, <1>7, <2>1 DEF CollectPlan
<1> QED BY <1>1, <1>10, <1>12, <1>13, <1>14, <1>15, <1>16 DEF CollectPlan

\* rsync does anything else, or the clusters do.
LEMMA RsyncCollects ==
    ASSUME "fail" \notin Faults, Inv, Inv', \A c \in AppContexts : QueueInv(c) /\ UpdateInv(c),
           NEW h, Plan(h), CollectPlan(h), NEW d \in AppContexts, RsyncStep(d)
    PROVE  CollectPlan(h)'
<1>1. CASE RsyncDeploys(d)
  BY <1>1, DeployCollects
<1>2. CASE RsyncRemoves(d) \/ RsyncWorks(d)
  <2>1. /\ UNCHANGED <<level, info, used, statusCtx, placed>>
        /\ \A x \in Clusters : label'[x] \in {label[x], NoContext}
        /\ holds' \subseteq holds
    <3>1. UNCHANGED <<level, info, placed>>
      BY <1>2 DEF RsyncRemoves, RsyncWorks, document, status
    <3>2. \A x \in Clusters : label'[x] \in {label[x], NoContext}
      BY <1>2 DEF RsyncRemoves, RsyncWorks, status
    <3>3. UNCHANGED <<used, statusCtx>>
      BY <1>2 DEF RsyncRemoves, RsyncWorks, RsyncAccepts, RsyncRefuses, RsyncSettles, RsyncAbandons,
            RsyncFails, RsyncHandsOver, RsyncSucceeds, etcd
    <3>4. holds' \subseteq holds
      <4>1. CASE RsyncSucceeds(d) /\ (Deploys(First(d)) => d \in holds)
        BY <4>1 DEF RsyncSucceeds
      <4>2. CASE RsyncHandsOver(d) /\ (Deploys(First(d)) => d \in holds)
        BY <4>2 DEF RsyncHandsOver, HandsOver, Deploys
      <4>3. CASE RsyncRemoves(d)
        BY <4>1, <4>3 DEF RsyncRemoves, Deploys
      <4>4. CASE RsyncAccepts(d) \/ RsyncRefuses(d) \/ RsyncSettles(d) \/ RsyncAbandons(d)
        BY <4>4 DEF RsyncAccepts, RsyncRefuses, RsyncSettles, RsyncAbandons
      <4> QED BY <1>2, <4>1, <4>2, <4>3, <4>4 DEF RsyncWorks
    <3> QED BY <3>1, <3>2, <3>3, <3>4
  <2>2. \A c \in AppContexts : Deploying(c)' => Deploying(c) /\ pending'[c] = pending[c]
    BY RsyncKeeps DEF Inv, Lasting
  <2> QED BY <2>1, <2>2, CollectStays DEF Plan
<1> QED BY <1>1, <1>2 DEF RsyncStep

\* Steps of the handler that neither make nor record an AppContext.
LEMMA QuietCollects ==
    ASSUME Inv, SoleInv, CollectInv, NEW k \in Clients, \A j \in Clients : j = k,
           UNCHANGED <<level, info, used, statusCtx, placed, label, holds>>,
           \A c \in AppContexts : Deploying(c)' => Deploying(c) /\ pending'[c] = pending[c],
           client'[k] = client[k] \/ ~Replaces(client'[k])
    PROVE  CollectInv'
<1>1. PICK h : h = client[k] /\ HandlerPlan(h) /\ CollectPlan(h)
  BY DEF SoleInv, Plan, CollectInv
<1>2. PICK g : g = client'[k]
  OBVIOUS
<1>3. CollectPlan(g)'
  BY <1>1, <1>2, CollectStays DEF SoleInv
<1> QED BY <1>2, <1>3 DEF CollectInv

\* The handler that is to update begins with an AppContext that is deployed.
LEMMA UpdateCollects ==
    ASSUME Inv, SoleInv, CollectInv, NEW k \in Clients, \A j \in Clients : j = k, UpdateInstantiation(k)
    PROVE  CollectInv'
<1>1. PICK h : h = client[k] /\ Plan(h) /\ CollectPlan(h)
  BY DEF SoleInv, CollectInv
<1>2. PICK g : g = client'[k]
  OBVIOUS
<1>3. g.pc = "build" /\ g.op = "Update" /\ g.ctx = Current
  BY <1>2, HandlerFields DEF UpdateInstantiation, Inv
<1>4. /\ UNCHANGED <<pending, level, info, used, statusCtx, placed, label, holds>>
      /\ Current \in AppContexts /\ state[Current] = "Instantiated" /\ Exist
  BY DEF UpdateInstantiation, lifecycle, etcd, document, status, Reports, Inv, StoreInv, StoreTypeOK
<1>5. \A c \in AppContexts : Deploying(c)' => Deploying(c) /\ pending'[c] = pending[c]
  BY <1>4 DEF Deploying
<1>6. /\ Exist' = Exist /\ Current' = Current /\ Updates' = Updates
      /\ CurrentState(info)' = CurrentState(info)
  BY <1>4, SameInfo DEF Updates
<1>7. ~Replaces(Idle)
  BY DEF Idle, Replaces, Makes
<1>8. CollectPlan(Idle)'
  BY <1>1, <1>4, <1>5, <1>7, CollectStays DEF SoleInv, Plan
<1>9. Updates = 0 => \A x \in placed[g.ctx] : label[x] \in {NoContext, g.ctx}
  <2>1. PICK c \in AppContexts : c = Current /\ c = g.ctx /\ state[c] = "Instantiated"
    BY <1>3, <1>4
  <2>2. c \in holds
    BY <2>1 DEF SoleInv, QueueInv
  <2>3. Updates = 0 => Fit(c, c)
    BY <1>1, <1>4, <2>1 DEF CollectPlan
  <2> QED BY <2>1, <2>2, <2>3 DEF Fit
<1>10. CollectPlan(g)'
  <2>1. ~Makes(g)' /\ g.pc # "record"
    BY <1>3 DEF Makes
  <2> QED BY <1>3, <1>4, <1>6, <1>8, <1>9, <2>1 DEF CollectPlan
<1> QED BY <1>2, <1>10 DEF CollectInv

\* A new AppContext is not on the clusters.
LEMMA BuildCollects ==
    ASSUME Inv, Inv', SoleInv, CollectInv, NEW k \in Clients, \A j \in Clients : j = k, Build(k)
    PROVE  CollectInv'
<1>1. PICK h : /\ h = client[k] /\ Plan(h) /\ CollectPlan(h) /\ h.pc = "build"
               /\ h.op \in {"Instantiate", "Update"} /\ h \in HandlerState
  BY DEF SoleInv, CollectInv, Inv, HandlerInv, Build, Coherent
<1>2. PICK t \in AppContexts :
         /\ MakeAppContext(t)
         /\ UpdateAppContextStatusContextID(t, Collector(h, t))
         /\ placed' = [placed EXCEPT ![t] = h.clusters]
         /\ Goes(k, [h EXCEPT !.pc = "call", !.target = t])
  BY <1>1 DEF Build
<1>3. /\ UNCHANGED <<pending, state, work, holds, level, info, label>>
      /\ t \notin used /\ used' = used \cup {t}
  BY <1>2 DEF Build, MakeAppContext, lifecycle, document
<1>4. /\ stored \subseteq used /\ used \subseteq AppContexts /\ holds \subseteq used
      /\ statusCtx \in [AppContexts -> AppContexts \cup {NoContext}]
      /\ placed \in [AppContexts -> SUBSET Clusters] /\ StoreInv
      /\ client \in [Clients -> HandlerState]
  BY DEF Inv, StatusInv, StoreInv, StoreTypeOK, HandlerInv
<1>5. \A c \in AppContexts : c # t => statusCtx'[c] = statusCtx[c] /\ placed'[c] = placed[c]
  BY <1>2, <1>4 DEF UpdateAppContextStatusContextID
<1>6. statusCtx'[t] = IF h.op = "Update" THEN h.ctx ELSE t
  BY <1>2, <1>4 DEF UpdateAppContextStatusContextID, Collector
<1>7. ~Settled(t) /\ t \notin holds /\ ~Deploying(t)
  <2>1. state[t] = "Created" /\ pending[t] = <<>>
    BY <1>3 DEF SoleInv, QueueInv
  <2> QED BY <1>3, <1>4, <2>1, QueueFacts DEF Settled, Deploying
<1>8. \A c \in AppContexts : Deploying(c)' => Deploying(c) /\ pending'[c] = pending[c]
  BY <1>3 DEF Deploying
<1>9. ASSUME NEW c \in AppContexts, NEW s, Fit(c, s), c # t PROVE Fit(c, s)'
  <2>1. \A d \in AppContexts : Updating(c, d) => placed'[d] = placed[d]
    BY <1>5, <1>7 DEF Updating, SoleInv, UpdateInv
  <2>2. UpdateInv(c) /\ placed[c] \subseteq Clusters
    BY <1>4 DEF SoleInv
  <2> QED BY <1>3, <1>5, <1>8, <1>9, <2>1, <2>2, FitStays
<1>10. ASSUME NEW s, statusCtx'[t] = s PROVE Fit(t, s)'
  BY <1>3, <1>7, <1>8, <1>10 DEF Fit
<1>11. /\ Exist' = Exist /\ Current' = Current /\ Updates' = Updates
       /\ CurrentState(info)' = CurrentState(info)
  BY <1>3, SameInfo DEF Updates
<1>12. /\ Exist /\ h.ctx = Current /\ Current \in used \cup {NoContext} /\ Current # t
       /\ h.op = "Update" => h.ctx \in AppContexts
  BY <1>1, <1>3, <1>4, ContextAssumption DEF Plan, HandlerPlan, RecordPlan
<1>13. PICK g : g = client'[k]
  OBVIOUS
<1>14. /\ g.pc = "call" /\ g.op = h.op /\ g.ctx = h.ctx /\ g.target = t
       /\ Makes(g) /\ Makes(g)'
  <2>1. g = [h EXCEPT !.pc = "call", !.target = t]
    BY <1>2, <1>4, <1>13 DEF Goes
  <2>2. g.pc = "call" /\ g.op = h.op /\ g.ctx = h.ctx /\ g.target = t
    BY <1>1, <2>1 DEF HandlerState
  <2> QED BY <1>1, <2>2 DEF Makes
<1>15. PICK s : s = info.statusCtx /\ s = info'.statusCtx
  BY <1>3
<1>16. \A c \in AppContexts : Exist' /\ c = Current' =>
          /\ Updates' = 0 \/ CurrentState(info)' = "Instantiated" => s = c /\ Fit(c, c)'
          /\ Updates' = 1 /\ CurrentState(info)' = "Updated" => Fit(c, s)'
  BY <1>1, <1>9, <1>11, <1>12, <1>15 DEF CollectPlan
<1>17. /\ h.op = "Instantiate" => Fit(t, t)'
       /\ h.op = "Update" => Fit(t, h.ctx)'
  BY <1>6, <1>10
<1>18. h.op = "Update" /\ Updates' = 0 => \A x \in placed'[h.ctx] : label'[x] \in {NoContext, h.ctx}
  BY <1>1, <1>3, <1>5, <1>11, <1>12 DEF CollectPlan
<1>19. /\ level' # "1" => \A x \in Clusters : label'[x] = NoContext
       /\ Exist'
  BY <1>1, <1>3, <1>11, <1>12 DEF CollectPlan
<1>20. CollectPlan(g)'
  BY <1>14, <1>15, <1>16, <1>17, <1>18, <1>19 DEF CollectPlan
<1> QED BY <1>13, <1>20 DEF CollectInv

\* The call that has a new AppContext deployed.
LEMMA CallCollects ==
    ASSUME Inv, SoleInv, CollectInv, NEW k \in Clients, \A j \in Clients : j = k, CallRsync(k),
           client[k].op # "Terminate"
    PROVE  CollectInv'
<1>1. PICK h : /\ h = client[k] /\ Plan(h) /\ CollectPlan(h) /\ h.pc = "call"
               /\ h.op \in {"Instantiate", "Update"}
  BY DEF SoleInv, CollectInv, Inv, HandlerInv, CallRsync, Coherent
<1>2. PICK t \in AppContexts :
         /\ t = h.target /\ t \in used /\ Fresh(t)
         /\ \A c \in AppContexts : c # t => pending'[c] = pending[c]
         /\ Len(pending'[t]) = 1 /\ pending'[t][1].ev = h.op
         /\ pending'[t][1].other = IF h.op = "Update" THEN h.ctx ELSE NoContext
  BY <1>1, CallIs DEF Plan
<1>3. UNCHANGED <<state, work, holds, level, info, label, placed, used, statusCtx>>
  BY DEF CallRsync, CallRsyncFor, document, etcd, status
<1>4. placed \in [AppContexts -> SUBSET Clusters] /\ stored \subseteq used /\ used \subseteq AppContexts
  BY DEF Inv, StatusInv, StoreInv, StoreTypeOK
<1>5. \A c \in AppContexts : c # t /\ Deploying(c)' => Deploying(c) /\ pending'[c] = pending[c]
  BY <1>2 DEF Deploying
<1>6. ASSUME NEW c \in AppContexts, NEW s, Fit(c, s), c # t PROVE Fit(c, s)'
  <2>1. UpdateInv(c) /\ placed[c] \subseteq Clusters
    BY <1>4 DEF SoleInv
  <2> QED BY <1>3, <1>5, <1>6, <2>1, FitStays
<1>7. /\ Exist' = Exist /\ Current' = Current /\ Updates' = Updates
      /\ CurrentState(info)' = CurrentState(info)
  BY <1>3, SameInfo DEF Updates
<1>8. /\ Exist /\ h.ctx = Current /\ Current # t /\ Makes(h)
      /\ h.op = "Update" => h.ctx \in AppContexts
  BY <1>1, <1>2, <1>4 DEF Plan, HandlerPlan, Makes
<1>9. PICK g : g = client'[k]
  OBVIOUS
<1>10. /\ g.pc = "record" /\ g.op = h.op /\ g.ctx = h.ctx /\ g.target = t
       /\ Makes(g) /\ Makes(g)'
  <2>1. To(k, "record")
    BY <1>1 DEF CallRsync
  <2>2. g.pc = "record" /\ g.op = h.op /\ g.ctx = h.ctx /\ g.target = t
    BY <1>1, <1>2, <1>9, <2>1, HandlerFields DEF Inv
  <2> QED BY <1>1, <2>2 DEF Makes
<1>11. t \notin holds'
  BY <1>2, <1>3 DEF Fresh
<1>12. h.op = "Instantiate" => Fit(t, t)'
  <2>1. h.op = "Instantiate" => statusCtx[t] = t
    BY <1>1, <1>2, <1>8 DEF CollectPlan, Fit
  <2> QED BY <1>2, <1>3, <1>11, <2>1 DEF Fit
<1>13. h.op = "Update" /\ Updates = 0 => Fit(t, h.ctx)'
  <2> SUFFICES ASSUME h.op = "Update", Updates = 0 PROVE Fit(t, h.ctx)'
    OBVIOUS
  <2>1. PICK c \in AppContexts : c = h.ctx
    BY <1>8
  <2>2. /\ statusCtx'[t] = c /\ placed' = placed
        /\ \A x \in placed[c] : label'[x] \in {NoContext, c}
    BY <1>1, <1>2, <1>3, <1>8, <2>1 DEF CollectPlan, Fit
  <2>3. Fit(t, c)'
    BY <1>2, <1>11, <2>1, <2>2 DEF Fit
  <2> QED BY <2>1, <2>3
<1>14. PICK s : s = info.statusCtx /\ s = info'.statusCtx
  BY <1>3
<1>15. \A c \in AppContexts : Exist' /\ c = Current' =>
          /\ Updates' = 0 \/ CurrentState(info)' = "Instantiated" => s = c /\ Fit(c, c)'
          /\ Updates' = 1 /\ CurrentState(info)' = "Updated" => Fit(c, s)'
  BY <1>1, <1>6, <1>7, <1>8, <1>14 DEF CollectPlan
<1>16. /\ level' # "1" => \A x \in Clusters : label'[x] = NoContext
       /\ Exist'
  BY <1>1, <1>3, <1>7, <1>8 DEF CollectPlan
<1>17. CollectPlan(g)'
  BY <1>2, <1>7, <1>10, <1>12, <1>13, <1>14, <1>15, <1>16 DEF CollectPlan
<1> QED BY <1>9, <1>17 DEF CollectInv

\* The StateInfo names the collector of what it records.
LEMMA RecordCollects ==
    ASSUME Inv, SoleInv, CollectInv, NEW k \in Clients, \A j \in Clients : j = k, AddState(k)
    PROVE  CollectInv'
<1>1. PICK h : /\ h = client[k] /\ Plan(h) /\ CollectPlan(h) /\ h.pc = "record" /\ Exist
               /\ h.op \in {"Instantiate", "Terminate", "Update", "Stop"}
  BY DEF SoleInv, CollectInv, Inv, HandlerInv, AddState, Coherent
<1>2. /\ CurrentState(info)' = Leaves(h) /\ Current' = Recorded(h)
      /\ info'.statusCtx = IF h.op = "Update" THEN info.statusCtx ELSE Recorded(h)
      /\ Updates \in Nat /\ Updates' = IF h.op = "Update" THEN Updates + 1 ELSE Updates
  BY <1>1, RecordedIs DEF Plan
<1>3. UNCHANGED <<pending, holds, level, label, placed, used, statusCtx>> /\ Exist'
  BY <1>1 DEF AddState, lifecycle, etcd, status, Exist
<1>4. /\ placed \in [AppContexts -> SUBSET Clusters] /\ stored \subseteq used /\ used \subseteq AppContexts
  BY DEF Inv, StatusInv, StoreInv, StoreTypeOK
<1>5. \A c \in AppContexts : Deploying(c)' => Deploying(c) /\ pending'[c] = pending[c]
  BY <1>3 DEF Deploying
<1>6. ASSUME NEW c \in AppContexts, NEW s, Fit(c, s) PROVE Fit(c, s)'
  <2>1. UpdateInv(c) /\ placed[c] \subseteq Clusters
    BY <1>4 DEF SoleInv
  <2> QED BY <1>3, <1>5, <1>6, <2>1, FitStays
<1>7. PICK g : g = client'[k]
  OBVIOUS
<1>8. ~Makes(g)' /\ ~(g.op = "Update" /\ g.pc \in {"build", "call", "record"})
  <2>1. Done(k) \/ To(k, "listen")
    BY DEF AddState
  <2>2. g.pc = "idle" \/ g.pc = "listen"
    BY <1>7, <2>1, HandlerFields DEF Inv
  <2> QED BY <2>2 DEF Makes
<1>9. PICK s : s = info'.statusCtx
  OBVIOUS
<1>10. h.ctx = Current /\ (Makes(h) <=> h.op \in {"Instantiate", "Update"})
       /\ (Makes(h) => h.target \in AppContexts)
       /\ (h.op = "Update" => h.ctx \in AppContexts)
  BY <1>1, <1>4 DEF Plan, HandlerPlan, Makes
<1>11. \A c \in AppContexts : c = Current' =>
          /\ Updates' = 0 \/ CurrentState(info)' = "Instantiated" => s = c /\ Fit(c, c)'
          /\ Updates' = 1 /\ CurrentState(info)' = "Updated" => Fit(c, s)'
  <2>1. CASE h.op = "Instantiate"
    <3>1. Current' = h.target /\ s = h.target /\ Fit(h.target, h.target) /\ CurrentState(info)' = "Instantiated"
      BY <1>1, <1>2, <1>9, <1>10, <2>1 DEF CollectPlan, Recorded, Leaves
    <3> QED BY <1>6, <3>1
  <2>2. CASE h.op = "Update"
    <3>1. Current' = h.target /\ s = info.statusCtx /\ Updates' = Updates + 1 /\ CurrentState(info)' = "Updated"
      BY <1>2, <1>9, <2>2 DEF Recorded, Leaves
    <3>2. PICK d \in AppContexts : d = h.ctx /\ d = Current
      BY <1>10, <2>2
    <3>3. Updates = 0 => s = d /\ Fit(h.target, d)
      BY <1>1, <1>10, <2>2, <3>1, <3>2 DEF CollectPlan
    <3>4. Updates' # 0 /\ (Updates' = 1 => Updates = 0)
      BY <1>2, <3>1
    <3> QED BY <1>6, <1>10, <2>2, <3>1, <3>3, <3>4
  <2>3. CASE h.op \in {"Terminate", "Stop"}
    <3>1. /\ Current' = Current /\ s = Current /\ Updates' = Updates
          /\ CurrentState(info)' \notin {"Instantiated", "Updated"}
      BY <1>2, <1>9, <1>10, <2>3 DEF Recorded, Leaves
    <3>2. \A c \in AppContexts : c = Current /\ Updates = 0 => Fit(c, c)
      BY <1>1 DEF CollectPlan
    <3> QED BY <1>6, <3>1, <3>2
  <2> QED BY <1>1, <2>1, <2>2, <2>3
<1>12. level' # "1" => \A x \in Clusters : label'[x] = NoContext
  BY <1>1, <1>3 DEF CollectPlan
<1>13. CollectPlan(g)'
  BY <1>3, <1>8, <1>9, <1>11, <1>12 DEF CollectPlan
<1> QED BY <1>7, <1>13 DEF CollectInv

\* A cloud that is created has nothing on the clusters.
LEMMA CreateCollects ==
    ASSUME Inv, SoleInv, CollectInv, NEW k \in Clients, \A j \in Clients : j = k,
           Create(k) \/ CreateState(k)
    PROVE  CollectInv'
<1>1. PICK h : h = client[k] /\ CollectPlan(h) /\ Plan(h) /\ h.pc \in {"idle", "create"} /\ ~Exist
  <2>1. Plan(client[k]) /\ CollectPlan(client[k])
    BY DEF SoleInv, CollectInv
  <2> QED BY <2>1, LevelAssumption DEF Create, CreateState, Called, Plan, HandlerPlan, Exist
<1>2. PICK g : g = client'[k]
  OBVIOUS
<1>3. UNCHANGED <<label, used>> /\ used = {}
  BY <1>1 DEF Create, CreateState, status, etcd, CollectPlan
<1>4. g.pc \in {"idle", "create"}
  <2>1. client \in [Clients -> HandlerState]
    BY DEF Inv, HandlerInv
  <2>2. CASE Create(k)
    <3>1. g = [Idle EXCEPT !.pc = "create"]
      BY <1>2, <2>1, <2>2 DEF Create, Goes
    <3> QED BY <3>1 DEF Idle
  <2>3. CASE CreateState(k)
    BY <1>2, <2>3, HandlerFields DEF CreateState, Inv
  <2> QED BY <2>2, <2>3
<1>5. ~Exist' \/ Current' = NoContext
  <2>1. CASE Create(k)
    BY <2>1, LevelAssumption DEF Create, Exist
  <2>2. CASE CreateState(k)
    <3>1. level # "none"
      BY <1>1, <2>2 DEF Plan, HandlerPlan, CreateState
    <3> QED BY <2>2, <3>1, CreatedIs
  <2> QED BY <2>1, <2>2
<1>6. \A x \in Clusters : label'[x] = NoContext
  BY <1>1, <1>3 DEF CollectPlan, Exist, Inv, DocumentInv
<1>7. CollectPlan(g)'
  BY <1>3, <1>4, <1>5, <1>6, ContextAssumption DEF CollectPlan, Makes
<1> QED BY <1>2, <1>7 DEF CollectInv

\* Every step of the one handler, of rsync and of the clusters.
LEMMA NextCollects ==
    ASSUME {"crash", "fail"} \cap Faults = {}, "Delete" \notin Operations,
           \A j, k \in Clients : j = k, Inv, Inv', SoleInv, CollectInv, [Next]_vars
    PROVE  CollectInv'
<1> DEFINE Still == /\ UNCHANGED <<level, info, used, statusCtx, placed, label, holds>>
                    /\ \A c \in AppContexts : Deploying(c)' => Deploying(c) /\ pending'[c] = pending[c]
<1>1. UNCHANGED pending => \A c \in AppContexts : Deploying(c)' => Deploying(c) /\ pending'[c] = pending[c]
  BY DEF Deploying
<1>2. ASSUME NEW k \in Clients, Still, client'[k] = client[k] \/ ~Replaces(client'[k])
      PROVE  CollectInv'
  <2>1. \A j \in Clients : j = k
    OBVIOUS
  <2> QED BY <1>2, <2>1, QuietCollects
<1>3. ASSUME Still, UNCHANGED client PROVE CollectInv'
  <2>1. CASE Clients = {}
    BY <2>1 DEF CollectInv
  <2>2. ASSUME NEW k \in Clients PROVE CollectInv'
    BY <1>2, <1>3, <2>2
  <2> QED BY <2>1, <2>2
<1>4. ASSUME NEW k \in Clients, Start(k) PROVE CollectInv'
  <2>1. \A j \in Clients : j = k
    OBVIOUS
  <2>2. CASE Create(k)
    BY <2>1, <2>2, CreateCollects
  <2>3. CASE Instantiate(k) \/ Terminate(k) \/ Stop(k)
    <3>1. Still
      BY <1>1, <2>3 DEF Instantiate, Terminate, Stop, lifecycle, document, status
    <3>2. client'[k] = client[k] \/ ~Replaces(client'[k])
      <4>1. CASE UNCHANGED client
        BY <4>1
      <4>2. CASE Starts(k, "Instantiate", "build") \/ Starts(k, "Instantiate", "drop")
                 \/ Starts(k, "Terminate", "call") \/ Starts(k, "Stop", "record")
        BY <4>2, HandlerFields DEF Inv, Replaces, Makes
      <4> QED BY <2>3, <4>1, <4>2 DEF Instantiate, Terminate, Stop, Resumes
    <3> QED BY <1>2, <3>1, <3>2
  <2>4. CASE UpdateInstantiation(k)
    BY <2>1, <2>4, UpdateCollects
  <2>5. CASE ChangePermission(k) \/ \E x \in Clusters : AddReference(k, x) \/ RemoveReference(k, x) \/ Kubeconfig(k, x)
    <3>1. Still /\ UNCHANGED client
      BY <1>1, <2>5 DEF ChangePermission, AddReference, RemoveReference, Kubeconfig, Configured,
            lifecycle, etcd, status
    <3> QED BY <1>3, <3>1
  <2>6. ~Delete(k)
    BY DEF Delete, Called
  <2> QED BY <1>4, <2>2, <2>3, <2>4, <2>5, <2>6 DEF Start
<1>5. ASSUME NEW k \in Clients, Continue(k) PROVE CollectInv'
  <2>1. \A j \in Clients : j = k
    OBVIOUS
  <2>2. CASE DeleteContexts(k) \/ BuildFails(k) \/ CallFails(k) \/ DeleteCloudConfigs(k) \/ Subscribe(k) \/ PrepareGitOps(k)
    <3>1. Still
      BY <1>1, <2>2 DEF DeleteContexts, BuildFails, CallFails, DeleteCloudConfigs, Subscribe, PrepareGitOps,
            lifecycle, etcd, document, status
    <3>2. ~Replaces(client'[k])
      <4>1. CASE Done(k) \/ To(k, "remove") \/ To(k, "gitops")
        <5>1. client'[k].pc \in {"idle", "remove", "gitops"}
          BY <4>1, HandlerFields DEF Inv
        <5> QED BY <5>1 DEF Replaces, Makes
      <4>2. CASE DeleteContexts(k) /\ To(k, "build")
        BY <4>2, HandlerFields DEF Inv, HandlerInv, DeleteContexts, Coherent, Replaces, Makes
      <4>3. CASE DeleteCloudConfigs(k)
        <5>1. To(k, "record") /\ client[k].op = "Terminate"
          BY <4>3 DEF DeleteCloudConfigs, Inv, HandlerInv, Coherent
        <5> QED BY <5>1, HandlerFields DEF Inv, Replaces, Makes
      <4> QED BY <2>2, <4>1, <4>2, <4>3 DEF DeleteContexts, BuildFails, CallFails, Subscribe, PrepareGitOps
    <3> QED BY <1>2, <3>1, <3>2
  <2>3. CASE Build(k)
    BY <2>1, <2>3, BuildCollects
  <2>4. CASE CallRsync(k) /\ client[k].op # "Terminate"
    BY <2>1, <2>4, CallCollects
  <2>5. CASE CallRsync(k) /\ client[k].op = "Terminate"
    <3>1. \A c \in AppContexts : Calm(c)
      BY <2>5, TerminateCalm DEF SoleInv, Plan
    <3>2. \A c \in AppContexts : Deploying(c)' => Deploying(c) /\ pending'[c] = pending[c]
      BY <3>1, CalmKeeps DEF Inv, SoleInv
    <3>3. Still
      BY <2>5, <3>2 DEF CallRsync, etcd, document, status
    <3>4. ~Replaces(client'[k])
      <4>1. To(k, "configs") \/ To(k, "record")
        BY <2>5 DEF CallRsync
      <4> QED BY <2>5, <4>1, HandlerFields DEF Inv, Replaces, Makes
    <3> QED BY <1>2, <3>3, <3>4
  <2>6. CASE AddState(k)
    BY <2>1, <2>6, RecordCollects
  <2>7. ~RemoveDocument(k) /\ ~AddStateFails(k)
    BY DEF RemoveDocument, AddStateFails, SoleInv, Plan, HandlerPlan
  <2>8. CASE CreateState(k)
    BY <2>1, <2>8, CreateCollects
  <2> QED BY <1>5, <2>2, <2>3, <2>4, <2>5, <2>6, <2>7, <2>8 DEF Continue
<1>6. ASSUME NEW c \in AppContexts, NotYet(c) \/ ProcessAlert(c) PROVE CollectInv'
  <2>1. Still /\ UNCHANGED client
    BY <1>1, <1>6 DEF NotYet, ProcessAlert, Configured, lifecycle, etcd, document, status
  <2> QED BY <1>3, <2>1
<1>7. ASSUME NEW c \in AppContexts, RsyncDeploys(c) \/ RsyncRemoves(c) \/ RsyncWorks(c) PROVE CollectInv'
  <2>1. UNCHANGED client /\ RsyncStep(c)
    BY <1>7 DEF RsyncDeploys, RsyncRemoves, RsyncWorks, RsyncStep
  <2>2. ASSUME NEW k \in Clients PROVE CollectPlan(client[k])'
    <3>1. PICK h : h = client[k] /\ h = client'[k] /\ Plan(h) /\ CollectPlan(h)
      BY <2>1 DEF SoleInv, CollectInv
    <3>2. CollectPlan(h)'
      BY <2>1, <3>1, RsyncCollects DEF SoleInv
    <3> QED BY <3>1, <3>2
  <2> QED BY <2>2 DEF CollectInv
<1>8. ASSUME NEW x \in Clusters, Report(x) PROVE CollectInv'
  <2>1. Still /\ UNCHANGED client
    BY <1>1, <1>8 DEF Report, lifecycle, etcd, document
  <2> QED BY <1>3, <2>1
<1>9. CASE UNCHANGED vars
  <2>1. Still /\ UNCHANGED client
    BY <1>1, <1>9 DEF vars, lifecycle, etcd, document, status
  <2> QED BY <1>3, <2>1
<1>10. ~Restart
  BY DEF Restart
<1> QED BY <1>4, <1>5, <1>6, <1>7, <1>8, <1>9, <1>10 DEF Next

\* Under the same conditions, until the cloud is updated for a second time: each
\* cluster the current AppContext was built for reports to the AppContext in which
\* kubeconfigs are looked up, or does not report yet (UpdateInstantiation in
\* dcm/pkg/module/logicalcloud.go and GetClusterConfig in dcm/pkg/module/cluster.go).
THEOREM StatusCollectedSafe ==
    ASSUME \A j, k \in Clients : j = k, {"crash", "fail"} \cap Faults = {}, "Delete" \notin Operations,
           Clients # {}
    PROVE  Spec => []StatusCollected
<1>1. Init => SoleInv /\ CollectInv
  <2> SUFFICES ASSUME Init, NEW k \in Clients PROVE SoleInv /\ CollectPlan(client[k])
    BY InitSole DEF CollectInv
  <2>1. client[k].pc = "idle" /\ used = {} /\ ~Exist
    BY LevelAssumption DEF Init, InitStore, Idle, Exist
  <2>2. \A x \in Clusters : label[x] = NoContext
    BY DEF Init
  <2> QED BY <2>1, <2>2, InitSole DEF CollectPlan, Makes
<1>2. Inv /\ Inv' /\ SoleInv /\ CollectInv /\ [Next]_vars => SoleInv' /\ CollectInv'
  BY NextSole, NextCollects
<1>3. Inv /\ SoleInv /\ CollectInv => StatusCollected
  <2> SUFFICES ASSUME Inv, CollectInv, CurrentState(info) \in {"Instantiated", "Updated"},
                      Current \in holds, Updates <= 1
               PROVE  \A x \in placed[Current] : label[x] \in {NoContext, info.statusCtx}
    BY DEF StatusCollected
  <2>1. PICK c \in AppContexts : c = Current /\ c \in holds
    BY DEF Inv, StoreInv, StoreTypeOK
  <2>2. PICK k \in Clients : CollectPlan(client[k])
    BY DEF CollectInv
  <2>3. Exist /\ Updates \in Nat
    <3>1. Exist
      BY <2>1, <2>2 DEF CollectPlan, Inv, StoreInv, StoreTypeOK
    <3> QED BY <3>1, UpdatesType DEF Inv, DocumentInv
  <2>4. Fit(c, info.statusCtx)
    <3>1. Updates = 0 \/ Updates = 1
      BY <2>3
    <3> QED BY <2>1, <2>2, <2>3, <3>1 DEF CollectPlan
  <2> QED BY <2>1, <2>4 DEF Fit
<1> QED BY <1>1, <1>2, <1>3, Invariance, PTL DEF Spec

================================================================================
