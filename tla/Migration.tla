------------------------------- MODULE Migration -------------------------------
(***************************************************************************)
(* Placing apps on clusters that fill up: the scheduler the orchestrator   *)
(* calls when it instantiates or updates a DIG, the placement controller,  *)
(* the migration controller that selects apps to leave a full cluster, and *)
(* the Updates that move them, which the scheduler calls in the middle of  *)
(* the operation that needs the room (instantiation_scheduler_helper.go,   *)
(* hpa-plc and migration internal/action).                                 *)
(*                                                                         *)
(* A handler is a stack of frames, one for each operation that waits for   *)
(* another one.  Every DIG has one migration intent with an intent for     *)
(* each of its apps, its apps are placed anyOf their candidates, and the   *)
(* project has a migration policy.                                         *)
(*                                                                         *)
(* Definitions marked "variant" are faulty forms of the definition that    *)
(* follows them; no specification uses them.                               *)
(***************************************************************************)
EXTENDS HpaPlacement, SequencesExt

CONSTANTS
    Digs,
    DigOrder,      \* the DIGs in the order the scheduler visits them
    AppsOf,        \* AppsOf[d]: the apps of DIG d in order
    CompositeOf,   \* CompositeOf[d]: the name of its composite app
    Candidates,    \* Candidates[a]: the clusters app a may be placed on
    Movable,       \* the apps whose intent allows migration
    Priority,      \* Priority[a]: apps with smaller numbers leave first
    Clients,       \* REST handlers served at a time (a bound)
    Operations,    \* the operations clients call
    MaxContexts,   \* AppContexts made (a bound)
    None

OperationKinds == {"Instantiate", "Update"}

ASSUME OperationAssumption == Operations \subseteq OperationKinds
ASSUME BoundAssumption == MaxContexts \in Nat
ASSUME AppAssumption ==
    /\ IsFiniteSet(Apps) /\ Movable \subseteq Apps
    /\ \A a \in Apps : Candidates[a] \subseteq Clusters /\ Candidates[a] # {}
\* An app belongs to one DIG.
ASSUME DigAssumption ==
    /\ DigOrder \in Seq(Digs)
    /\ \A d \in Digs : AppsOf[d] \in Seq(Apps) /\ AppsOf[d] # <<>>
    /\ \A d, e \in Digs : ToSet(AppsOf[d]) \cap ToSet(AppsOf[e]) # {} => d = e

VARIABLES
    context,     \* context[c]: the c-th AppContext
    applied,     \* the placements <<app, cluster>> rsync has applied
    pods,        \* those whose pods run
    record,      \* record[d]: the AppContext of DIG d, 0 if it is not instantiated
    selected,    \* Selected of the migration intents
    leaving,     \* the apps whose intent has SelectedApp
    deployedAt,  \* DeployedCluster of the apps' intents
    reading,     \* reading[k]: what the placement controller has read for handler k
    stack        \* stack[k]: the frames of handler k

intents == <<selected, leaving, deployedAt>>
deployed == <<applied, pods>>
vars == <<context, deployed, record, intents, reading, stack>>

AppSet(d) == ToSet(AppsOf[d])

Statuses == {"Created", "Instantiating", "Instantiated", "Updated", "Deleted"}

Call == [ev : {"Instantiate", "Update", "UpdateDelete"}, other : Nat]

\* An AppContext: the clusters it lists for each app, its status and the events
\* rsync has not worked off.
AppContext == [dig : Digs, tree : [Apps -> SUBSET Clusters], status : Statuses, calls : Seq(Call)]

\* A frame: the AppContext the operation makes and the one it replaces, the app
\* that could not be placed, and the DIG to be visited next.
Frame ==
    [op : OperationKinds, dig : Digs, ctx : Nat, source : Nat,
     pc : {"filter", "migrate", "update", "deploy", "record"},
     app : Apps \cup {None}, next : Nat]

\* The local variables of a call of the placement controller: whether the DIG is
\* selected, the apps that leave, those among them whose intents are still to be
\* reset, and where the intents say the apps are.
Reading ==
    [step : {"flag", "reset", "intents", "apps", "judge"}, moves : BOOLEAN,
     moving : SUBSET Apps, toReset : SUBSET Apps, at : [Apps -> Clusters \cup {None}]]

NoReading ==
    [step |-> "flag", moves |-> FALSE, moving |-> {}, toReset |-> {}, at |-> [a \in Apps |-> None]]

Contexts == DOMAIN context

Init ==
    /\ context = <<>>
    /\ applied = {} /\ pods = {}
    /\ record = [d \in Digs |-> 0]
    /\ selected = [d \in Digs |-> FALSE]
    /\ leaving = {}
    /\ deployedAt = [a \in Apps |-> None]
    /\ reading = [k \in Clients |-> NoReading]
    /\ stack = [k \in Clients |-> <<>>]

Placed(c) ==
    {p \in AppSet(context[c].dig) \X Clusters : p[2] \in context[c].tree[p[1]]}

Sum(f(_), S) == MapThenSumSet(f, S)

\* What the pods that run leave of each cluster.
Free ==
    [x \in Clusters |-> [r \in Names |->
        Capacity[x][r] - Sum(LAMBDA p : Needs(p[1], r), {p \in pods : p[2] = x})]]

SetContext(c, new) == context' = [context EXCEPT ![c] = new]
Queue(con, c, ev, other) ==
    [con EXCEPT ![c].calls = Append(@, [ev |-> ev, other |-> other])]

-------------------------------------------------------------------------------
(* Handlers.                                                               *)

Top(k) == Last(stack[k])
At(k, pc) == stack[k] # <<>> /\ Top(k).pc = pc
Goes(k, frame) == stack' = [stack EXCEPT ![k] = Append(Front(@), frame)]

\* A new AppContext of d, with all candidates, and the frame of its operation.
Makes(op, d) ==
    /\ Len(context) < MaxContexts
    /\ context' = Append(context,
          [dig |-> d, status |-> "Created", calls |-> <<>>,
           tree |-> [a \in Apps |-> IF a \in AppSet(d) THEN Candidates[a] ELSE {}]])

NewFrame(op, d) ==
    [op |-> op, dig |-> d, ctx |-> Len(context) + 1, source |-> record[d],
     pc |-> "filter", app |-> None, next |-> 1]

\* A DIG is instantiated, or updated once it is.
Starts(k, d) ==
    LET op == IF record[d] = 0 THEN "Instantiate" ELSE "Update"
    IN  /\ op \in Operations /\ stack[k] = <<>>
        /\ Makes(op, d)
        /\ stack' = [stack EXCEPT ![k] = <<NewFrame(op, d)>>]
        /\ UNCHANGED <<deployed, record, intents, reading>>

\* The operation fails, and with it those that called it: each removes the
\* AppContext it has made.
Fails(k) ==
    /\ stack' = [stack EXCEPT ![k] = <<>>]
    /\ context' = [c \in Contexts |->
          IF \E i \in DOMAIN stack[k] : stack[k][i].ctx = c
          THEN [context[c] EXCEPT !.status = "Deleted"] ELSE context[c]]

-------------------------------------------------------------------------------
(* The placement controller.  Its calls to the database that holds the       *)
(* intents are steps of their own: it takes no lock.                         *)

Reads(k, step) == At(k, "filter") /\ reading[k].step = step

\* GetAllIntents
ReadFlag(k) ==
    LET moves == selected[Top(k).dig] IN
    /\ Reads(k, "flag")
    /\ reading' = [reading EXCEPT ![k] =
          [@ EXCEPT !.moves = moves, !.step = IF moves THEN "reset" ELSE "judge"]]
    /\ UNCHANGED <<context, deployed, record, intents, stack>>

ResetFlag(k) ==
    /\ Reads(k, "reset")
    /\ selected' = [selected EXCEPT ![Top(k).dig] = FALSE]
    /\ reading' = [reading EXCEPT ![k].step = "intents"]
    /\ UNCHANGED <<context, deployed, record, leaving, deployedAt, stack>>

\* The next step of a call that has these apps left to reset.
AfterReset(apps) == IF apps = {} THEN "judge" ELSE "apps"

\* GetAllAppIntents
ReadIntents(k) ==
    LET moving == leaving \cap AppSet(Top(k).dig) IN
    /\ Reads(k, "intents")
    /\ reading' = [reading EXCEPT ![k] =
          [@ EXCEPT !.moving = moving, !.toReset = moving, !.at = deployedAt,
                    !.step = AfterReset(moving)]]
    /\ UNCHANGED <<context, deployed, record, intents, stack>>

\* The intents of the apps that leave are reset one by one, in order.
ResetApp(k) ==
    LET apps == AppsOf[Top(k).dig]
        a    == apps[Least({i \in DOMAIN apps : apps[i] \in reading[k].toReset})]
        left == reading[k].toReset \ {a}
    IN  /\ Reads(k, "apps")
        /\ leaving' = leaving \ {a}
        /\ deployedAt' = [deployedAt EXCEPT ![a] = None]
        /\ reading' = [reading EXCEPT ![k] =
              [@ EXCEPT !.toReset = left, !.step = AfterReset(left)]]
        /\ UNCHANGED <<context, deployed, record, selected, stack>>

\* variant: what stays is not kept where it is
PinnedNowhere(d, tree, read) == tree

\* The tree with the apps of d that stay kept where they were read to be.
Pinned(d, tree, read) ==
    [a \in Apps |-> IF a \in AppSet(d) \ read.moving THEN tree[a] \cap {read.at[a]} ELSE tree[a]]

\* The cluster they leave, that of the last one.
Left(d, moving, read) == read.at[AppsOf[d][CHOOSE i \in moving : \A j \in moving : j <= i]]

\* The apps are judged in order, up to the first one that cannot be placed.
FilterClusters(k) ==
    LET frame  == Top(k)
        d      == frame.dig
        apps   == AppsOf[d]
        read   == reading[k]
        judged == {i \in DOMAIN apps : read.moves => apps[i] \in read.moving}
        tree   == IF read.moves THEN Pinned(d, context[frame.ctx].tree, read) ELSE context[frame.ctx].tree
        from(a) == IF read.moves THEN tree[a] \ {Left(d, judged, read)} ELSE tree[a]
        failing == {i \in judged : ~Succeeds(apps[i], from(apps[i]), Free)}
        seen    == {apps[i] : i \in {j \in judged : \A f \in failing : j <= f}}
    IN  /\ Reads(k, "judge")
        /\ reading' = [reading EXCEPT ![k] = NoReading]
        /\ IF judged = {} THEN Fails(k)
           ELSE /\ context' = [context EXCEPT ![frame.ctx].tree = [a \in Apps |->
                      IF a \in seen THEN Remaining(a, from(a), Free) ELSE tree[a]]]
                /\ Goes(k, IF failing = {} THEN [frame EXCEPT !.pc = "deploy"]
                           ELSE [frame EXCEPT !.pc = "migrate", !.app = apps[Least(failing)]])
        /\ UNCHANGED <<deployed, record, intents>>

-------------------------------------------------------------------------------
(* The migration controller.                                               *)

Instantiated == {c \in Contexts : context[c].status = "Instantiated"}

\* The AppContexts on cluster x.
Located(x) == {c \in Instantiated : \E a \in Apps : x \in context[c].tree[a]}

\* The apps that may leave x, each with its AppContext.
Movables(x) ==
    {m \in Located(x) \X Movable :
        x \in context[m[1]].tree[m[2]] /\ Cardinality(Candidates[m[2]]) >= 2}

Frees(a, r) == Limits[a][r] * Replicas[a]

Total(moved, r) == FoldLeft(LAMBDA t, m : t + Frees(m[2], r), 0, moved)

\* What is moved frees what app a requests.
Enough(moved, a) == \A r \in Names : Total(moved, r) >= Requests[a][r]

\* variant: only what is freed of the cpu is compared
UpToCpu(moved, a, n) ==
    LET enough == {i \in DOMAIN moved : Total(SubSeq(moved, 1, i), "cpu") >= Requests[a]["cpu"]}
    IN  SubSeq(moved, 1, IF enough = {} THEN n ELSE Least(enough))

\* The shortest prefix of moved that is enough for a, otherwise the first n.
UpTo(moved, a, n) ==
    LET enough == {i \in DOMAIN moved : Enough(SubSeq(moved, 1, i), a)}
    IN  SubSeq(moved, 1, IF enough = {} THEN n ELSE Least(enough))

\* variant: priorities are not looked at
AnyOrder(S) == SetToSeqs(S)

\* The orders of a set of apps by priority; utilization and dispersion decide
\* between equals.
ByPriority(S) ==
    {s \in SetToSeqs(S) : \A i, j \in DOMAIN s : i < j => Priority[s[i][2]] <= Priority[s[j][2]]}

More(a, b) ==
    \/ Frees(a, "cpu") > Frees(b, "cpu")
    \/ Frees(a, "cpu") = Frees(b, "cpu") /\ "memory" \in Names /\ Frees(a, "memory") > Frees(b, "memory")

\* By what they free, the largest first.
BySize(S) == {s \in SetToSeqs(S) : \A i, j \in DOMAIN s : i < j => ~More(s[j][2], s[i][2])}

\* What may be selected to leave x for app a: as many as it takes by priority,
\* and of these as many as it takes by size, the first one if all are too few.
Selections(x, a) ==
    UNION {{UpTo(s, a, 1) : s \in BySize(ToSet(UpTo(m, a, Len(m))))} : m \in ByPriority(Movables(x))}

\* The DIGs of a selection, without those that follow another one of the same
\* composite app.
Marked(moved) ==
    LET dig(i) == context[moved[i][1]].dig
    IN  {dig(i) : i \in {j \in DOMAIN moved :
             \A l \in 1 .. j - 1 : CompositeOf[dig(l)] # CompositeOf[dig(j)]}}

\* The intents of a DIG with an AppContext on x get the clusters of that AppContext,
\* of one of them if it has more.
Refreshed(x) ==
    LET on   == Located(x)
        digs == {context[c].dig : c \in on}
        read == {f \in [digs -> on] : \A d \in digs : context[f[d]].dig = d}
        only(S) == CHOOSE y \in S \cup {None} : S # {} => y \in S
    IN  {[a \in Apps |->
            IF \E d \in digs : a \in AppSet(d)
            THEN only(context[f[CHOOSE d \in digs : a \in AppSet(d)]].tree[a])
            ELSE deployedAt[a]] : f \in read}

MigrationApps(k) ==
    LET frame == Top(k) IN
    /\ At(k, "migrate")
    /\ \E x \in context[frame.ctx].tree[frame.app] :
          /\ deployedAt' \in Refreshed(x)
          /\ \/ /\ Movables(x) = {}
                /\ Fails(k)
                /\ UNCHANGED <<selected, leaving>>
             \/ /\ Movables(x) # {}
                /\ \E moved \in Selections(x, frame.app) :
                      /\ selected' = [d \in Digs |-> selected[d] \/ d \in Marked(moved)]
                      /\ leaving' = leaving \cup {m[2] : m \in ToSet(moved)}
                /\ Goes(k, [frame EXCEPT !.pc = "update"])
                /\ UNCHANGED context
    /\ UNCHANGED <<deployed, record, reading>>

-------------------------------------------------------------------------------
(* The rest of the scheduler.                                              *)

\* The DIGs to be visited whose migration intent is selected.
ToUpdate(k) == {i \in DOMAIN DigOrder : i >= Top(k).next /\ selected[DigOrder[i]]}

UpdateSelected(k) ==
    LET i == Least(ToUpdate(k))
        d == DigOrder[i]
    IN  /\ At(k, "update") /\ ToUpdate(k) # {}
        /\ IF record[d] = 0 THEN Fails(k)
           ELSE /\ Makes("Update", d)
                /\ stack' = [stack EXCEPT ![k] =
                      Append(Append(Front(@), [Top(k) EXCEPT !.next = i + 1]), NewFrame("Update", d))]
        /\ UNCHANGED <<deployed, record, intents, reading>>

AllUpdated(k) ==
    /\ At(k, "update") /\ ToUpdate(k) = {}
    /\ Goes(k, [Top(k) EXCEPT !.pc = "deploy"])
    /\ UNCHANGED <<context, deployed, record, intents, reading>>

\* variant: all clusters that remain are kept
AllRemaining(S) == S

\* deleteExtraClusters
OneOf(S) == Preferred(S)

Deploy(k) ==
    LET frame == Top(k)
        tree  == [a \in Apps |-> OneOf(context[frame.ctx].tree[a])]
    IN  /\ At(k, "deploy")
        /\ context' = Queue([context EXCEPT ![frame.ctx].tree = tree], frame.ctx, frame.op, frame.source)
        /\ Goes(k, [frame EXCEPT !.pc = "record"])
        /\ UNCHANGED <<deployed, record, intents, reading>>

Record(k) ==
    /\ At(k, "record")
    /\ record' = [record EXCEPT ![Top(k).dig] = Top(k).ctx]
    /\ stack' = [stack EXCEPT ![k] = Front(@)]
    /\ UNCHANGED <<context, deployed, intents, reading>>

-------------------------------------------------------------------------------
(* rsync and the clusters.                                                 *)

Next1(c) == Head(context[c].calls)
Waits(c, ev) == context[c].calls # <<>> /\ Next1(c).ev = ev

RsyncApplies(c) ==
    /\ Waits(c, "Instantiate") \/ Waits(c, "Update")
    /\ context[c].status = "Created"
    /\ applied' = applied \cup Placed(c)
    /\ SetContext(c, IF Waits(c, "Update") THEN [context[c] EXCEPT !.status = "Instantiating"]
                     ELSE [context[c] EXCEPT !.status = "Instantiated", !.calls = Tail(@)])
    /\ UNCHANGED <<pods, record, intents, reading, stack>>

\* The pods of an update run, and what it replaces is cleaned up.
RsyncHandsOver(c) ==
    /\ Waits(c, "Update") /\ context[c].status = "Instantiating"
    /\ Placed(c) \subseteq pods
    /\ context' = Queue([context EXCEPT ![c].status = "Instantiated", ![c].calls = Tail(@)],
                        Next1(c).other, "UpdateDelete", c)
    /\ UNCHANGED <<deployed, record, intents, reading, stack>>

Stopped(gone) == pods \ gone

RsyncCleansUp(c) ==
    LET gone == Placed(c) \ Placed(Next1(c).other)
        accepted == context[c].status = "Instantiated"
    IN  /\ Waits(c, "UpdateDelete")
        /\ context[c].status # "Created" /\ context[c].status # "Instantiating"
        /\ applied' = IF accepted THEN applied \ gone ELSE applied
        /\ pods' = IF accepted THEN Stopped(gone) ELSE pods
        /\ SetContext(c, [context[c] EXCEPT !.calls = Tail(@),
                             !.status = IF accepted THEN "Updated" ELSE @])
        /\ UNCHANGED <<record, intents, reading, stack>>

PodsRun(p) ==
    /\ p \in applied \ pods
    /\ Fits(p[1], Free[p[2]])
    /\ pods' = pods \cup {p}
    /\ UNCHANGED <<context, applied, record, intents, reading, stack>>

-------------------------------------------------------------------------------
Serves(k) ==
    \/ ReadFlag(k) \/ ResetFlag(k) \/ ReadIntents(k) \/ ResetApp(k) \/ FilterClusters(k)
    \/ MigrationApps(k) \/ UpdateSelected(k) \/ AllUpdated(k)
    \/ Deploy(k) \/ Record(k)

Rsync(c) == RsyncApplies(c) \/ RsyncHandsOver(c) \/ RsyncCleansUp(c)

Next ==
    \/ \E k \in Clients, d \in Digs : Starts(k, d)
    \/ \E k \in Clients : Serves(k)
    \/ \E c \in Contexts : Rsync(c)
    \/ \E p \in Apps \X Clusters : PodsRun(p)

Spec == Init /\ [][Next]_vars

-------------------------------------------------------------------------------
TypeOK ==
    /\ context \in Seq(AppContext)
    /\ pods \subseteq applied /\ applied \subseteq Apps \X Clusters
    /\ record \in [Digs -> 0 .. Len(context)]
    /\ selected \in [Digs -> BOOLEAN]
    /\ leaving \subseteq Apps
    /\ deployedAt \in [Apps -> Clusters \cup {None}]
    /\ reading \in [Clients -> Reading]
    /\ stack \in [Clients -> Seq(Frame)]

\* An AppContext that is handed to rsync lists one cluster for each app: what the
\* controllers leave of the candidates is brought down to one, and is never empty,
\* whatever was pinned and taken out on the way (deleteExtraClusters).  Only while one
\* handler is at work: of two that update the same DIG one may read an intent the other
\* has reset, and keeps the app on no cluster at all.
OnePlacement ==
    \A c \in Contexts : context[c].calls # <<>> \/ context[c].status \notin {"Created", "Deleted"} =>
        \A a \in AppSet(context[c].dig) : Cardinality(context[c].tree[a]) = 1

\* Apps are moved only if those on the cluster with smaller priority numbers would
\* not free enough, although the selection is sorted again, by size, and cut once
\* more (migration action.go, MigrationApps).
LessImportantFirst ==
    \A x \in Clusters, a \in Apps : Movables(x) # {} =>
        \A s \in Selections(x, a) : \A m \in ToSet(s) :
            ~Enough(SetToSeq({l \in Movables(x) : Priority[l[2]] < Priority[m[2]]}), a)

\* A selection frees enough of every resource whenever all that may leave the cluster
\* would: the apps are cut by priority, sorted again by cpu, and cut a second time, and
\* neither cut takes too few (migration action.go, MigrationApps).  The cuts may take
\* one too many: with two resources an app can be selected that is not needed.
SelectionSuffices ==
    \A x \in Clusters, a \in Apps : Movables(x) # {} =>
        \A s \in Selections(x, a) : Enough(SetToSeq(Movables(x)), a) => Enough(s, a)

\* The AppContexts that an Update called by the scheduler has handed to rsync.
Moved ==
    {c \in Contexts : \E k \in Clients : \E i \in DOMAIN stack[k] :
        i > 1 /\ stack[k][i].ctx = c /\ stack[k][i].pc = "record"}

Before(c) == context[context[c].calls[1].other]

\* Making room for another DIG never moves an app whose intent forbids migration,
\* although its Update starts from all candidates and relies on the clusters stored
\* with the intents (the pinning at the top of FilterClusters).  Only while one
\* handler is at work and clients update nothing: a second handler reads and resets the
\* flags of the first, and an Update of a client may move any app.
UnmovableStays ==
    \A c \in Moved : \A a \in AppSet(context[c].dig) \ Movable :
        context[c].calls # <<>> /\ context[c].calls[1].ev = "Update" =>
            context[c].tree[a] = Before(c).tree[a]

\* "Code that selects apps to move, enough to make the resources the app to be
\* deployed needs" (migration action.go, comment above the selection): an Update the
\* scheduler calls to make room moves an app.  It does not hold: until rsync has
\* worked off an earlier move, the AppContext on the full cluster is still the old
\* one, so an app that is leaving already is selected again.
RoomIsMade ==
    \A c \in Moved : context[c].calls # <<>> /\ context[c].calls[1].ev = "Update" =>
        \E a \in AppSet(context[c].dig) : context[c].tree[a] # Before(c).tree[a]

================================================================================
