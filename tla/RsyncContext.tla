----------------------------- MODULE RsyncContext -----------------------------
(***************************************************************************)
(* The AppContext engine of rsync (rsync/pkg/context): gRPC handlers put   *)
(* events on the queue an AppContext keeps in etcd, and one main thread    *)
(* per AppContext takes them off in order and applies, deletes or reads    *)
(* its resources on the clusters.                                          *)
(*                                                                         *)
(* A placement stands for one app on one cluster, with its resources.      *)
(* What happens inside one placement (the order of its resources, hooks)   *)
(* is below the grain of this module.                                      *)
(*                                                                         *)
(* Definitions marked "variant" are faulty forms of the definition that    *)
(* follows them; no specification uses them.                               *)
(***************************************************************************)
EXTENDS RsyncStates, Sequences, FiniteSets

CONSTANTS
    AppContexts,   \* ids of AppContexts
    Placements,    \* app x cluster pairs
    Clusters,
    ClusterOf,     \* ClusterOf[p]: the cluster of placement p
    Manifest,      \* Manifest[c]: the placements AppContext c lists
    Changed,       \* placements whose resources differ between AppContexts
    Threads,       \* goroutines that may run appContextRoutine (a bound)
    Callers,       \* gRPC handler goroutines served at a time (a bound)
    Requests,      \* calls the orchestrator makes, each at most once (a bound)
    Faults,        \* what may go wrong besides interleaving
    MaxCrashes,    \* how often rsync may crash (a bound)
    NoContext, NoThread

\* overlap: a call arrives while an earlier one is still being worked on
\* crash: rsync dies and restarts          stop: the orchestrator stops a DIG
\* start: an AppContext cannot be read     client: no client for a cluster
\* apply, delete: the cluster refuses a resource
\* outage: clusters become unreachable     retries: MaxRetries is configured
\* pods: pods may stay short of Running    phase: the other AppContext of an
\* slow: applying may take longer than             update cannot be read
\*       the 30 s an update sleeps
FaultKinds == {"overlap", "crash", "stop", "start", "client", "apply",
               "delete", "outage", "retries", "pods", "phase", "slow"}

Request == [id : Nat, ev : RsyncEvents, ac : AppContexts,
            other : AppContexts \cup {NoContext}]

ASSUME ManifestAssumption == Manifest \in [AppContexts -> SUBSET Placements]
ASSUME ChangedAssumption  == Changed \subseteq Placements
ASSUME ClusterAssumption  == ClusterOf \in [Placements -> Clusters]
ASSUME RequestAssumption  ==
    /\ Requests \subseteq Request
    /\ \A r \in Requests : r.ev # "UpdateDelete"   \* rsync's own event
    /\ \A r \in Requests : r.ev = "Update" => r.other \in AppContexts
ASSUME FaultAssumption    == Faults \subseteq FaultKinds
ASSUME CrashAssumption    == MaxCrashes \in Nat
ASSUME NullAssumption     == NoContext \notin AppContexts /\ NoThread \notin Threads

VARIABLES
    \* kept in etcd, survives a crash of rsync
    queue,       \* queue[c]: sequence of events with their status
    active,      \* the /activecontext/ records
    stopFlag, pendTerm, current, desired, status,
    \* in the memory of rsync
    running,     \* Context.Running
    cancel,      \* Context.cancel: whose current operation it cancels
    resSkip,     \* Skip bits of the resources in Context.ca
    main,        \* main[t]: a main thread and the operation it runs
    handler,     \* handler[k]: a gRPC handler between its two critical sections
    toRestore,   \* AppContexts RestoreActiveContext still has to restart
    \* the world
    outbox, crashes, deployed, podsUp, reachable

etcd   == <<queue, active, stopFlag, pendTerm, current, desired, status>>
memory == <<running, cancel, resSkip, main, handler, toRestore>>
world  == <<outbox, crashes, deployed, podsUp, reachable>>
vars   == <<etcd, memory, world>>

-------------------------------------------------------------------------------
QStatuses == {"Pending", "Done", "Error", "Skip"}

QueueElement == [ev : RsyncEvents, other : AppContexts \cup {NoContext},
                 status : QStatuses]

\* "none": the goroutine does not exist.  The states of a main thread, in the
\* order of appContextRoutine; from "pods" to "wait" its operation runs.  With
\* "release", "handqueue" and a handler's "queue" it holds an AppContext's lock.
MainPCs == {"none", "find", "release", "check", "enter", "announce", "arm", "phase",
            "pods", "handover", "handqueue", "handstart", "wait", "mark", "status",
            "current"}

MainThread ==
    [pc : MainPCs, ac : AppContexts \cup {NoContext}, idx : Nat,
     op : RsyncOperations, verdict : QStatuses, final : AppContextStatuses \cup {"none"},
     ctxDone : BOOLEAN, cancelled : BOOLEAN, failed : BOOLEAN,
     todo : SUBSET Placements, open : SUBSET Placements, await : SUBSET Placements]

NoMain == [pc |-> "none", ac |-> NoContext, idx |-> 0, op |-> "Apply",
           verdict |-> "Pending", final |-> "none", ctxDone |-> FALSE,
           cancelled |-> FALSE, failed |-> FALSE, todo |-> {}, open |-> {},
           await |-> {}]

HandlerState == [pc : {"idle", "retry", "queue", "start"}, ev : RsyncEvents,
                 ac : AppContexts \cup {NoContext}, other : AppContexts \cup {NoContext}]

NoHandler == [pc |-> "idle", ev |-> "Read", ac |-> NoContext, other |-> NoContext]

Live(t)  == main[t].pc # "none"
Alive(c) == {t \in Threads : Live(t) /\ main[t].ac = c}
Operating(t) == main[t].pc \in {"pods", "handover", "handqueue", "handstart", "wait"}
Armed(t)     == Operating(t) \/ main[t].pc = "phase"
Element(t) == queue[main[t].ac][main[t].idx]
Event(t)   == Element(t).ev

\* Context.Lock of c is held over two writes to etcd: by who has recorded c as
\* active and not yet queued its event, or by a thread that is about to exit.
\* Every other critical section is one step, taken only while the lock is free.
Queueing(c) ==
    \/ \E k \in Callers : handler[k].pc = "queue" /\ handler[k].ac = c
    \/ \E t \in Threads : main[t].pc = "handqueue" /\ Element(t).other = c

Locked(c) == Queueing(c) \/ \E t \in Threads : main[t].pc = "release" /\ main[t].ac = c

Pending(c) == {i \in DOMAIN queue[c] : queue[c][i].status = "Pending"}
\* variant: the newest event first
IsLastPending(c, i)  == i \in Pending(c) /\ \A j \in Pending(c) : i >= j

IsFirstPending(c, i) == i \in Pending(c) /\ \A j \in Pending(c) : i <= j

Up == toRestore = {}

\* Nothing is left to do for rsync.
Quiescent ==
    /\ Up
    /\ \A c \in AppContexts : Pending(c) = {}
    /\ \A t \in Threads : ~Live(t)
    /\ \A k \in Callers : handler[k].pc = "idle"

Reachable(p) == ClusterOf[p] \in reachable

Init ==
    /\ queue = [c \in AppContexts |-> <<>>]
    /\ active = {}
    /\ stopFlag = [c \in AppContexts |-> FALSE]
    /\ pendTerm = [c \in AppContexts |-> FALSE]
    /\ current = [c \in AppContexts |-> "Created"]
    /\ desired = [c \in AppContexts |-> "Created"]
    /\ status = [c \in AppContexts |-> "Created"]
    /\ running = [c \in AppContexts |-> FALSE]
    /\ cancel = [c \in AppContexts |-> NoThread]
    /\ resSkip = [c \in AppContexts |-> {}]
    /\ main = [t \in Threads |-> NoMain]
    /\ handler = [k \in Callers |-> NoHandler]
    /\ toRestore = {}
    /\ outbox = Requests
    /\ crashes = 0
    /\ deployed = {}
    /\ podsUp = {}
    /\ reachable = Clusters

-------------------------------------------------------------------------------
(* HandleAppContext: two critical sections under the AppContext's lock,    *)
(* the first of them with two writes to etcd.                              *)

NewElement(ev, other) == [ev |-> ev, other |-> other, status |-> "Pending"]

RecordActiveContext(c) == active' = active \cup {c}

\* variant: always a new queue (CreateQueue)
EnqueueAnew(c, ev, other) ==
    queue' = [queue EXCEPT ![c] = <<NewElement(ev, other)>>]

Enqueue(c, ev, other) ==
    queue' = [queue EXCEPT ![c] = Append(@, NewElement(ev, other))]

\* variant: the event is queued before its AppContext is recorded
EnqueueToAppContextLate(write, c, ev, other) ==
    \/ write = 2 /\ RecordActiveContext(c) /\ UNCHANGED queue
    \/ write = 1 /\ Enqueue(c, ev, other) /\ UNCHANGED active

\* Its two writes to etcd, in this order and under one lock.
EnqueueToAppContext(write, c, ev, other) ==
    \/ write = 1 /\ RecordActiveContext(c) /\ UNCHANGED queue
    \/ write = 2 /\ Enqueue(c, ev, other) /\ UNCHANGED active

\* variant: as RestartAppContext does
SetRunningLate(c) == UNCHANGED running

SetRunning(c) == running' = [running EXCEPT ![c] = TRUE]

NewMain(c) == [NoMain EXCEPT !.pc = "find", !.ac = c]

\* startMainThread: a goroutine for c, with a fresh copy of the AppContext.
StartMainThread(c, t) ==
    /\ ~Live(t)
    /\ main' = [main EXCEPT ![t] = NewMain(c)]
    /\ resSkip' = [resSkip EXCEPT ![c] = {}]

\* terminateContextRoutine: c.cancel reaches the operation that set it last.
\* On a thread that has not armed its next operation it has no effect.
Interrupt(c) ==
    /\ pendTerm' = [pendTerm EXCEPT ![c] = TRUE]
    /\ main' = [t \in Threads |->
                  IF t = cancel[c] /\ Armed(t) /\ main[t].ac = c
                  THEN [main[t] EXCEPT !.cancelled = TRUE] ELSE main[t]]

\* The second critical section: start the main thread or, for a Terminate
\* that finds it running, tell it to give up what it is doing.
StartOrInterrupt(c, ev) ==
    \/ /\ ~running[c]
       /\ \E t \in Threads : StartMainThread(c, t)
       /\ SetRunning(c)
       /\ UNCHANGED pendTerm
    \/ /\ running[c]
       /\ ev = "Terminate"
       /\ Interrupt(c)
       /\ UNCHANGED <<running, resSkip>>
    \/ /\ running[c]
       /\ ev # "Terminate"
       /\ UNCHANGED <<running, resSkip, pendTerm, main>>

\* The orchestrator terminates or updates only what it installed before, and
\* after the call that installed it has returned.
Allowed(r) ==
    LET installed == CASE r.ev = "Update" -> r.other
                       [] r.ev = "Terminate" -> r.ac
                       [] OTHER -> NoContext
    IN  installed # NoContext =>
            /\ queue[installed] # <<>>
            /\ \A k \in Callers : handler[k].ac # installed

\* A gRPC call arrives and its handler records the AppContext ...
Receive(k) ==
    /\ Up
    /\ "overlap" \in Faults \/ Quiescent
    /\ handler[k].pc = "idle"
    /\ \E r \in outbox :
         /\ Allowed(r) /\ ~Locked(r.ac)
         /\ EnqueueToAppContext(1, r.ac, r.ev, r.other)
         /\ handler' = [handler EXCEPT ![k] =
                          [pc |-> "queue", ev |-> r.ev, ac |-> r.ac, other |-> r.other]]
         /\ outbox' = outbox \ {r}
    /\ UNCHANGED <<stopFlag, pendTerm, current, desired, status, running, cancel,
                   resSkip, main, toRestore, crashes, deployed, podsUp, reachable>>

\* ... and queues the event.
HandlerQueue(k) ==
    /\ handler[k].pc = "queue"
    /\ EnqueueToAppContext(2, handler[k].ac, handler[k].ev, handler[k].other)
    /\ handler' = [handler EXCEPT ![k].pc = "start"]
    /\ UNCHANGED <<stopFlag, pendTerm, current, desired, status, running, cancel,
                   resSkip, main, toRestore, world>>

HandlerStart(k) ==
    /\ handler[k].pc = "start" /\ ~Locked(handler[k].ac)
    /\ StartOrInterrupt(handler[k].ac, handler[k].ev)
    /\ handler' = [handler EXCEPT ![k] = NoHandler]
    /\ UNCHANGED <<queue, active, stopFlag, current, desired, status, cancel,
                   toRestore, world>>

\* startMainThread fails: the handler of an install request then terminates
\* the AppContext (InstallApp), any other handler just returns the error.
HandlerStartFails(k) ==
    /\ "start" \in Faults
    /\ handler[k].pc = "start" /\ ~Locked(handler[k].ac)
    /\ ~running[handler[k].ac]
    /\ handler' = [handler EXCEPT ![k] =
                      IF handler[k].ev = "Instantiate"
                      THEN [pc |-> "retry", ev |-> "Terminate", ac |-> handler[k].ac,
                            other |-> NoContext]
                      ELSE NoHandler]
    /\ UNCHANGED <<etcd, running, cancel, resSkip, main, toRestore, world>>

HandlerRetry(k) ==
    /\ handler[k].pc = "retry" /\ ~Locked(handler[k].ac)
    /\ EnqueueToAppContext(1, handler[k].ac, handler[k].ev, handler[k].other)
    /\ handler' = [handler EXCEPT ![k].pc = "queue"]
    /\ UNCHANGED <<stopFlag, pendTerm, current, desired, status, running, cancel,
                   resSkip, main, toRestore, world>>

-------------------------------------------------------------------------------
(* appContextRoutine, one action per step between two etcd writes.         *)

\* FindFirstPending under the lock.
FindNext(t) ==
    /\ main[t].pc = "find" /\ ~main[t].ctxDone /\ ~Locked(main[t].ac)
    /\ \E i \in Pending(main[t].ac) :
         /\ IsFirstPending(main[t].ac, i)
         /\ main' = [main EXCEPT ![t].idx = i, ![t].pc = "check"]
    /\ UNCHANGED <<etcd, running, cancel, resSkip, handler, toRestore, world>>

\* variant: the flag stays
KeepTerminateFlag(c) == UNCHANGED pendTerm

ClearTerminateFlag(c) == pendTerm' = [pendTerm EXCEPT ![c] = FALSE]

\* variant: Running stays set
ExitRunning(t) ==
    /\ UNCHANGED running
    /\ main' = [main EXCEPT ![t] = NoMain]

\* Running is reset and the goroutine ends.
Exit(t) ==
    /\ running' = [running EXCEPT ![main[t].ac] = FALSE]
    /\ main' = [main EXCEPT ![t] = NoMain]

\* variant: the queue was read before the lock was taken
NothingPendingStale(c) == TRUE

NothingPending(c) == Pending(c) = {}

\* Nothing pending: under the lock the flag is cleared ...
FindNone(t) ==
    LET c == main[t].ac IN
    /\ main[t].pc = "find" /\ ~main[t].ctxDone /\ ~Locked(c)
    /\ NothingPending(c)
    /\ ClearTerminateFlag(c)
    /\ main' = [main EXCEPT ![t].pc = "release"]
    /\ UNCHANGED <<queue, active, stopFlag, current, desired, status, running, cancel,
                   resSkip, handler, toRestore, world>>

\* ... and the active record deleted, before the thread exits.
Release(t) ==
    /\ main[t].pc = "release"
    /\ active' = IF main[t].ctxDone THEN active ELSE active \ {main[t].ac}
    /\ Exit(t)
    /\ UNCHANGED <<queue, stopFlag, pendTerm, current, desired, status, cancel, resSkip,
                   handler, toRestore, world>>

\* With a done context every access to etcd fails, so the thread leaves the
\* loop and only the in-memory flag changes.
GiveUp(t) ==
    /\ main[t].pc \in {"find", "check", "enter", "announce", "mark", "status", "current"}
    /\ main[t].ctxDone /\ ~Locked(main[t].ac)
    /\ Exit(t)
    /\ UNCHANGED <<etcd, cancel, resSkip, handler, toRestore, world>>

\* checkStateChange refuses the event: the element will be marked Skip and,
\* except in an unsupported state, the state replaced by the error state.
Refuse(t, final) ==
    /\ main' = [main EXCEPT ![t].pc = "mark", ![t].verdict = "Skip",
                            ![t].final = final]
    /\ UNCHANGED <<etcd, running, cancel, resSkip, handler, toRestore, world>>

Ignored(t) == stopFlag[main[t].ac] \/ (pendTerm[main[t].ac] /\ Event(t) # "Terminate")

\* variant: every event in every state
SupportedAlways(t) == TRUE

Supported(t) == current[main[t].ac] \in SourceStates(Event(t))

CheckIgnored(t) ==
    /\ main[t].pc = "check" /\ ~main[t].ctxDone
    /\ Ignored(t)
    /\ Refuse(t, ErrorState(Event(t)))

CheckUnsupported(t) ==
    /\ main[t].pc = "check" /\ ~main[t].ctxDone
    /\ ~Ignored(t) /\ ~Supported(t)
    /\ Refuse(t, IF Event(t) = "Terminate" /\ current[main[t].ac] = "Terminated"
                 THEN "TerminateFailed" ELSE "none")

\* An event that is accepted: three writes of checkStateChange, without a lock.
CheckSupported(t) ==
    LET c == main[t].ac IN
    /\ main[t].pc = "check" /\ ~main[t].ctxDone
    /\ ~Ignored(t) /\ Supported(t)
    /\ desired' = [desired EXCEPT ![c] = DesiredState(Event(t))]
    /\ main' = [main EXCEPT ![t].pc = "enter"]
    /\ UNCHANGED <<queue, active, stopFlag, pendTerm, current, status, running, cancel,
                   resSkip, handler, toRestore, world>>

EnterState(t) ==
    /\ main[t].pc = "enter" /\ ~main[t].ctxDone
    /\ current' = [current EXCEPT ![main[t].ac] = RunningState(Event(t))]
    /\ main' = [main EXCEPT ![t].pc = "announce"]
    /\ UNCHANGED <<queue, active, stopFlag, pendTerm, desired, status, running, cancel,
                   resSkip, handler, toRestore, world>>

AnnounceState(t) ==
    /\ main[t].pc = "announce" /\ ~main[t].ctxDone
    /\ status' = [status EXCEPT ![main[t].ac] = RunningState(Event(t))]
    /\ main' = [main EXCEPT ![t].pc = "arm"]
    /\ UNCHANGED <<queue, active, stopFlag, pendTerm, current, desired, running, cancel,
                   resSkip, handler, toRestore, world>>

\* A context for the operation, whose cancel function goes to c.cancel.
Arm(t) ==
    /\ main[t].pc = "arm" /\ ~Locked(main[t].ac)
    /\ cancel' = [cancel EXCEPT ![main[t].ac] = t]
    /\ main' = [main EXCEPT ![t].pc = "phase", ![t].failed = FALSE,
                            ![t].cancelled = main[t].ctxDone]
    /\ UNCHANGED <<etcd, running, resSkip, handler, toRestore, world>>

\* updateModifyPhase and updateDeletePhase: the placements of c in which
\* nothing has to be applied, or nothing deleted.
Unmodified(c, other) == (Manifest[c] \cap Manifest[other]) \ Changed

\* variant: placements kept by the update are deleted, too
RetainedNone(c, other) == {}

Retained(c, other)   == Manifest[c] \cap Manifest[other]

Unaffected(t) ==
    CASE Event(t) = "Update" -> Unmodified(main[t].ac, Element(t).other)
      [] Event(t) = "UpdateDelete" -> Retained(main[t].ac, Element(t).other)
      [] OTHER -> {}

OperationOf(ev) ==
    CASE ev \in {"Instantiate", "Update"} -> "Apply"
      [] ev \in {"Terminate", "UpdateDelete"} -> "Delete"
      [] ev = "Read" -> "Read"

Launch(t, op, skipped) ==
    /\ main' = [main EXCEPT ![t].op = op,
                            ![t].todo = Manifest[main[t].ac] \ skipped,
                            ![t].open = {},
                            ![t].await = Manifest[main[t].ac],
                            ![t].pc = IF Event(t) = "Update" THEN "pods" ELSE "wait"]
    /\ resSkip' = [resSkip EXCEPT ![main[t].ac] = @ \cup skipped]
    /\ UNCHANGED <<etcd, running, cancel, handler, toRestore, world>>

\* The switch on the event, then the goroutines of run.
LaunchOperation(t) ==
    /\ main[t].pc = "phase"
    /\ main[t].ctxDone => Event(t) \notin {"Update", "UpdateDelete"}
    /\ Launch(t, OperationOf(Event(t)), Unaffected(t))

\* The other AppContext cannot be read: break leaves only the switch, so the
\* operation starts all the same, with the operation of the previous event
\* (Apply when there was none) and without any Skip bit.
LaunchAfterPhaseError(t) ==
    /\ main[t].pc = "phase"
    /\ Event(t) \in {"Update", "UpdateDelete"}
    /\ main[t].ctxDone \/ "phase" \in Faults
    /\ Launch(t, main[t].op, {})

-------------------------------------------------------------------------------
(* The tail of an update: wait for the pods, then delete the old resources *)
(* by an UpdateDelete event on the AppContext that is being replaced.      *)

\* The informer's list for one app and cluster: with no pod listed, all of
\* them run.
\* variant: no look at the pods
PodsIgnored(p) == TRUE

PodsRunning(p) == p \in deployed => p \in podsUp

\* The 30 s sleep: by then every routine on a reachable cluster has ended.
Slept(t) ==
    "slow" \in Faults \/ \A p \in main[t].todo \cup main[t].open : ~Reachable(p)

PodsConfirmed(t) ==
    /\ main[t].pc = "pods" /\ Slept(t)
    /\ \E p \in main[t].await :
         /\ Reachable(p) /\ PodsRunning(p)
         /\ main' = [main EXCEPT ![t].await = @ \ {p},
                        ![t].pc = IF main[t].await = {p} THEN "handover" ELSE "pods"]
    /\ UNCHANGED <<etcd, running, cancel, resSkip, handler, toRestore, world>>

\* The informer does not sync because the context is done, or two minutes
\* pass: the goroutine returns at once, and Running stays true.
PodsAbandoned(t) ==
    /\ main[t].pc = "pods" /\ Slept(t)
    /\ \/ main[t].ctxDone
       \/ /\ "pods" \in Faults
          /\ \E p \in main[t].await : Reachable(p) /\ ~PodsRunning(p)
    /\ main' = [main EXCEPT ![t] = NoMain]
    /\ UNCHANGED <<etcd, running, cancel, resSkip, handler, toRestore, world>>

\* With a done context the AppContext cannot even be opened.
HandOver(t) ==
    /\ main[t].pc = "handover"
    /\ \/ /\ main[t].ctxDone
          /\ main' = [main EXCEPT ![t].pc = "wait"]
          /\ UNCHANGED <<queue, active>>
       \/ /\ ~main[t].ctxDone /\ ~Locked(Element(t).other)
          /\ EnqueueToAppContext(1, Element(t).other, "UpdateDelete", main[t].ac)
          /\ main' = [main EXCEPT ![t].pc = "handqueue"]
    /\ UNCHANGED <<stopFlag, pendTerm, current, desired, status, running, cancel,
                   resSkip, handler, toRestore, world>>

\* What Enqueue returns is not looked at.
HandOverQueue(t) ==
    /\ main[t].pc = "handqueue"
    /\ IF main[t].ctxDone
       THEN UNCHANGED <<queue, active>>
       ELSE EnqueueToAppContext(2, Element(t).other, "UpdateDelete", main[t].ac)
    /\ main' = [main EXCEPT ![t].pc = "handstart"]
    /\ UNCHANGED <<stopFlag, pendTerm, current, desired, status, running, cancel,
                   resSkip, handler, toRestore, world>>

\* variant: the event is queued and no thread started
HandOverUnstarted(t) ==
    /\ main[t].pc = "handstart"
    /\ main' = [main EXCEPT ![t].pc = "wait"]
    /\ UNCHANGED <<etcd, running, cancel, resSkip, handler, toRestore, world>>

HandOverStart(t) ==
    LET old == Element(t).other IN
    /\ main[t].pc = "handstart" /\ ~Locked(old)
    /\ \/ /\ ~running[old] /\ ~main[t].ctxDone
          /\ \E u \in Threads :
               /\ ~Live(u)
               /\ main' = [main EXCEPT ![t].pc = "wait", ![u] = NewMain(old)]
          /\ SetRunning(old)
          /\ resSkip' = [resSkip EXCEPT ![old] = {}]
       \/ /\ running[old] \/ main[t].ctxDone \/ "start" \in Faults
          /\ main' = [main EXCEPT ![t].pc = "wait"]
          /\ UNCHANGED <<running, resSkip>>
    /\ UNCHANGED <<etcd, cancel, handler, toRestore, world>>

-------------------------------------------------------------------------------
(* The cluster routines of an operation (run, runApp, runCluster).         *)

Interrupted(t) == main[t].cancelled \/ main[t].ctxDone

Drop(t, p) == [main[t] EXCEPT !.todo = @ \ {p}, !.open = @ \ {p}]

\* The first error cancels the other routines of the errgroup.
RoutineFails(t, p) ==
    /\ main' = [main EXCEPT ![t] =
                  [Drop(t, p) EXCEPT !.failed = TRUE, !.cancelled = TRUE]]
    /\ UNCHANGED <<etcd, running, cancel, resSkip, handler, toRestore, world>>

RoutineEnds(t, p) ==
    /\ main' = [main EXCEPT ![t] = Drop(t, p)]
    /\ UNCHANGED <<etcd, running, cancel, resSkip, handler, toRestore,
                   outbox, crashes, reachable>>

\* A placement left out by its Skip bits has nothing to handle.
Skipped(t, p) ==
    Event(t) \in {"Update", "UpdateDelete"} /\ p \in resSkip[main[t].ac]

OpenClient(t, p) ==
    /\ Operating(t) /\ p \in main[t].todo
    /\ ~Interrupted(t)
    /\ main' = [main EXCEPT ![t].todo = @ \ {p}, ![t].open = @ \cup {p}]
    /\ UNCHANGED <<etcd, running, cancel, resSkip, handler, toRestore, world>>

OpenClientFails(t, p) ==
    /\ Operating(t) /\ p \in main[t].todo
    /\ Interrupted(t) \/ "client" \in Faults
    /\ RoutineFails(t, p)

HandleSkipped(t, p) ==
    /\ Operating(t) /\ p \in main[t].open
    /\ Skipped(t, p)
    /\ RoutineEnds(t, p)
    /\ UNCHANGED <<deployed, podsUp>>

Apply(t, p) ==
    /\ Operating(t) /\ p \in main[t].open /\ ~Skipped(t, p)
    /\ main[t].op = "Apply"
    /\ Reachable(p) /\ ~Interrupted(t)
    /\ deployed' = deployed \cup {p}
    /\ UNCHANGED podsUp
    /\ RoutineEnds(t, p)

\* An error while applying stops the placement (breakonError).
ApplyFails(t, p) ==
    /\ Operating(t) /\ p \in main[t].open /\ ~Skipped(t, p)
    /\ main[t].op = "Apply"
    /\ Reachable(p) /\ (Interrupted(t) \/ "apply" \in Faults)
    /\ RoutineFails(t, p)

Delete(t, p) ==
    /\ Operating(t) /\ p \in main[t].open /\ ~Skipped(t, p)
    /\ main[t].op = "Delete"
    /\ Reachable(p) /\ ~Interrupted(t)
    /\ deployed' = deployed \ {p}
    /\ podsUp' = podsUp \ {p}
    /\ RoutineEnds(t, p)

\* An error while deleting does not stop the placement and is not
\* returned; with a done context the resource cannot even be read from etcd.
DeleteLost(t, p) ==
    /\ Operating(t) /\ p \in main[t].open /\ ~Skipped(t, p)
    /\ main[t].op = "Delete"
    /\ Reachable(p) /\ (Interrupted(t) \/ "delete" \in Faults)
    /\ RoutineEnds(t, p)
    /\ UNCHANGED <<deployed, podsUp>>

\* runCluster has no case for a Read event: with the client and its watcher it
\* is done.  Only an update that runs with a stale operation reads resources.
ReadResource(t, p) ==
    /\ Operating(t) /\ p \in main[t].open
    /\ main[t].op = "Read"
    /\ Event(t) = "Read" \/ Reachable(p)
    /\ RoutineEnds(t, p)
    /\ UNCHANGED <<deployed, podsUp>>

\* waitForClusterReady gives up when cancelled, or out of retries.
Unreachable(t, p) ==
    /\ Operating(t) /\ p \in main[t].open /\ ~Skipped(t, p) /\ Event(t) # "Read"
    /\ ~Reachable(p) /\ (Interrupted(t) \/ "retries" \in Faults)
    /\ RoutineFails(t, p)

Routine(t) ==
    \E p \in Placements :
        \/ OpenClient(t, p) \/ OpenClientFails(t, p) \/ HandleSkipped(t, p)
        \/ Apply(t, p) \/ ApplyFails(t, p)
        \/ Delete(t, p) \/ DeleteLost(t, p)
        \/ ReadResource(t, p) \/ Unreachable(t, p)

\* lGroup.Wait, then the verdict: first the queue element, then the status,
\* then the current state, each a write of its own.
Wait(t) ==
    /\ main[t].pc = "wait"
    /\ main[t].todo = {} /\ main[t].open = {}
    /\ main' = [main EXCEPT ![t].pc = "mark",
                    ![t].verdict = IF main[t].failed THEN "Error" ELSE "Done",
                    ![t].final = ErrorState(Event(t))]
    /\ UNCHANGED <<etcd, running, cancel, resSkip, handler, toRestore, world>>

\* variant: the state the event started from
FinalStateStale(t) == IF main[t].verdict = "Done" THEN current[main[t].ac] ELSE main[t].final

\* After a success the desired state is read back and becomes the new state.
FinalState(t) == IF main[t].verdict = "Done" THEN desired[main[t].ac] ELSE main[t].final

\* variant: the skip result of checkStateChange is not looked at
AfterMarkAlways(final) == "status"

AfterMark(final) == IF final = "none" THEN "find" ELSE "status"

Mark(t) ==
    /\ main[t].pc = "mark" /\ ~main[t].ctxDone /\ ~Locked(main[t].ac)
    /\ queue' = [queue EXCEPT ![main[t].ac][main[t].idx].status = main[t].verdict]
    /\ main' = [main EXCEPT ![t].final = FinalState(t), ![t].pc = AfterMark(FinalState(t))]
    /\ UNCHANGED <<active, stopFlag, pendTerm, current, desired, status, running,
                   cancel, resSkip, handler, toRestore, world>>

WriteStatus(t) ==
    /\ main[t].pc = "status" /\ ~main[t].ctxDone
    /\ status' = [status EXCEPT ![main[t].ac] = main[t].final]
    /\ main' = [main EXCEPT ![t].pc = "current"]
    /\ UNCHANGED <<queue, active, stopFlag, pendTerm, current, desired, running,
                   cancel, resSkip, handler, toRestore, world>>

WriteCurrent(t) ==
    /\ main[t].pc = "current" /\ ~main[t].ctxDone
    /\ current' = [current EXCEPT ![main[t].ac] = main[t].final]
    /\ main' = [main EXCEPT ![t].pc = "find"]
    /\ UNCHANGED <<queue, active, stopFlag, pendTerm, desired, status, running,
                   cancel, resSkip, handler, toRestore, world>>

-------------------------------------------------------------------------------
(* The stop flag, crashes and the environment.                             *)

\* The orchestrator stops an instantiation or a termination in progress ...
Stop(c) ==
    /\ "stop" \in Faults
    /\ ~stopFlag[c]
    /\ status[c] \in {"Instantiating", "Terminating"}
    /\ stopFlag' = [stopFlag EXCEPT ![c] = TRUE]
    /\ UNCHANGED <<queue, active, pendTerm, current, desired, status, memory, world>>

\* ... and clears the flag before it terminates what it had stopped.
ClearStop(c) ==
    /\ stopFlag[c]
    /\ \E r \in outbox : r.ev = "Terminate" /\ r.ac = c
    /\ stopFlag' = [stopFlag EXCEPT ![c] = FALSE]
    /\ UNCHANGED <<queue, active, pendTerm, current, desired, status, memory, world>>

\* The watcher of a main thread polls the flag and ends the thread's context.
WatchStop(t) ==
    /\ Live(t) /\ ~main[t].ctxDone
    /\ stopFlag[main[t].ac]
    /\ main' = [main EXCEPT ![t].ctxDone = TRUE]
    /\ UNCHANGED <<etcd, running, cancel, resSkip, handler, toRestore, world>>

\* rsync dies: only etcd and the clusters keep their state.
Crash ==
    /\ "crash" \in Faults /\ crashes < MaxCrashes
    /\ crashes' = crashes + 1
    /\ running' = [c \in AppContexts |-> FALSE]
    /\ cancel' = [c \in AppContexts |-> NoThread]
    /\ resSkip' = [c \in AppContexts |-> {}]
    /\ main' = [t \in Threads |-> NoMain]
    /\ handler' = [k \in Callers |-> NoHandler]
    /\ toRestore' = active
    /\ UNCHANGED <<etcd, outbox, deployed, podsUp, reachable>>

\* RestartAppContext: the thread is started, but Running is not set.
Restart(c) ==
    /\ c \in toRestore /\ ~Locked(c)
    /\ toRestore' = toRestore \ {c}
    /\ IF running[c]
       THEN UNCHANGED <<main, resSkip>>
       ELSE \E t \in Threads : StartMainThread(c, t)
    /\ UNCHANGED <<etcd, running, cancel, handler, world>>

\* RestoreActiveContext stops at the first AppContext it cannot restart.
RestartFails(c) ==
    /\ "start" \in Faults
    /\ c \in toRestore /\ ~running[c] /\ ~Locked(c)
    /\ toRestore' = {}
    /\ UNCHANGED <<etcd, running, cancel, resSkip, main, handler, world>>

PodsStart(p) ==
    /\ p \in deployed \ podsUp
    /\ podsUp' = podsUp \cup {p}
    /\ UNCHANGED <<etcd, memory, outbox, crashes, deployed, reachable>>

ClusterDown(cl) ==
    /\ "outage" \in Faults
    /\ reachable' = reachable \ {cl}
    /\ UNCHANGED <<etcd, memory, outbox, crashes, deployed, podsUp>>

ClusterUp(cl) ==
    /\ reachable' = reachable \cup {cl}
    /\ UNCHANGED <<etcd, memory, outbox, crashes, deployed, podsUp>>

-------------------------------------------------------------------------------
Handler(k) ==
    \/ Receive(k) \/ HandlerQueue(k)
    \/ HandlerStart(k) \/ HandlerStartFails(k) \/ HandlerRetry(k)

MainStep(t) ==
    \/ FindNext(t) \/ FindNone(t) \/ Release(t) \/ GiveUp(t)
    \/ CheckIgnored(t) \/ CheckUnsupported(t)
    \/ CheckSupported(t) \/ EnterState(t) \/ AnnounceState(t)
    \/ Arm(t) \/ LaunchOperation(t) \/ LaunchAfterPhaseError(t)
    \/ PodsConfirmed(t) \/ PodsAbandoned(t)
    \/ HandOver(t) \/ HandOverQueue(t) \/ HandOverStart(t)
    \/ Wait(t) \/ Mark(t) \/ WriteStatus(t) \/ WriteCurrent(t)

Environment ==
    \/ \E c \in AppContexts : Stop(c) \/ ClearStop(c)
    \/ \E p \in Placements : PodsStart(p)
    \/ \E cl \in Clusters : ClusterDown(cl) \/ ClusterUp(cl)

Next ==
    \/ \E k \in Callers : Handler(k)
    \/ \E t \in Threads : MainStep(t) \/ Routine(t) \/ WatchStop(t)
    \/ Crash
    \/ \E c \in AppContexts : Restart(c) \/ RestartFails(c)
    \/ Environment

Spec == Init /\ [][Next]_vars

\* The goroutines of rsync are scheduled; a cluster routine or an informer
\* whose cluster is reachable again and again gets its call through.
EngineFairness ==
    /\ \A t \in Threads : /\ WF_vars(MainStep(t)) /\ WF_vars(WatchStop(t))
                         /\ SF_vars(Routine(t)) /\ SF_vars(PodsConfirmed(t))
    /\ \A k \in Callers : /\ WF_vars(HandlerQueue(k)) /\ WF_vars(HandlerStart(k))
                           /\ WF_vars(HandlerRetry(k))
    /\ \A c \in AppContexts : WF_vars(Restart(c))

\* Clusters come back, and pods that were created come up.
ClusterFairness ==
    /\ \A cl \in Clusters : WF_vars(ClusterUp(cl))
    /\ \A p \in Placements : WF_vars(PodsStart(p))

EngineSpec == Spec /\ EngineFairness
FairSpec   == Spec /\ EngineFairness /\ ClusterFairness

-------------------------------------------------------------------------------
TypeOK ==
    /\ queue \in [AppContexts -> Seq(QueueElement)]
    /\ active \subseteq AppContexts
    /\ stopFlag \in [AppContexts -> BOOLEAN]
    /\ pendTerm \in [AppContexts -> BOOLEAN]
    /\ current \in [AppContexts -> AppContextStatuses]
    /\ desired \in [AppContexts -> AppContextStatuses]
    /\ status \in [AppContexts -> AppContextStatuses]
    /\ running \in [AppContexts -> BOOLEAN]
    /\ cancel \in [AppContexts -> Threads \cup {NoThread}]
    /\ resSkip \in [AppContexts -> SUBSET Placements]
    /\ main \in [Threads -> MainThread]
    /\ handler \in [Callers -> HandlerState]
    /\ toRestore \subseteq AppContexts
    /\ outbox \subseteq Requests
    /\ crashes \in 0..MaxCrashes
    /\ deployed \subseteq Placements
    /\ podsUp \subseteq deployed
    /\ reachable \subseteq Clusters

(* Threads and the Running flag.                                           *)

\* Never two main threads on one AppContext: HandleAppContext starts one only
\* after it found Running unset, and sets it in the same critical section.
OneMainThread ==
    \A t, u \in Threads :
        (Live(t) /\ Live(u) /\ main[t].ac = main[u].ac) => t = u

\* As long as rsync has not been restarted there is one main thread per
\* AppContext, whatever else goes wrong.
OneMainThreadUntilCrash == crashes = 0 => OneMainThread

\* Running promises a thread: a handler that sees it set leaves its event to
\* that thread.
RunningHasThread == \A c \in AppContexts : running[c] => Alive(c) # {}

\* Every pending event is covered by an active record, so that a restart of
\* rsync picks it up again whenever rsync dies.
PendingIsActive == \A c \in AppContexts : Pending(c) # {} => c \in active

\* No pending event is left with nobody to take it: a thread serves its
\* AppContext, or one is about to be started, or rsync is just restarting it.
NoStrandedEvent ==
    \A c \in AppContexts : Pending(c) # {} =>
        \/ Alive(c) # {}
        \/ \E k \in Callers : handler[k].pc = "start" /\ handler[k].ac = c
        \/ \E t \in Threads : main[t].pc = "handstart" /\ Element(t).other = c
        \/ c \in toRestore

\* The flag that makes a thread ignore events does not outlive the thread, so
\* it cannot suppress events that arrive after the termination.
TerminateFlagHasThread == \A c \in AppContexts : pendTerm[c] => Alive(c) # {}

-------------------------------------------------------------------------------
(* The queue.                                                              *)

\* Events leave the state Pending in the order they were enqueued.
HandledInOrder ==
    [][\A c \in AppContexts : \A i \in DOMAIN queue[c] :
          queue'[c][i] # queue[c][i] => \A j \in 1..(i - 1) : j \notin Pending(c)]_vars

\* Nothing is ever dropped from a queue, and a verdict on an event is final.
VerdictIsFinal ==
    [][\A c \in AppContexts : \A i \in DOMAIN queue[c] :
          /\ i \in DOMAIN queue'[c]
          /\ queue[c][i].status # "Pending" => queue'[c][i] = queue[c][i]]_vars

\* Every event is eventually worked off.
EventuallyHandled ==
    \A c \in AppContexts : [](Pending(c) # {} => <>(Pending(c) = {}))

-------------------------------------------------------------------------------
(* States and clusters.                                                    *)

Transient == {"Instantiating", "Terminating", "Updating"}

\* When rsync has nothing left to do no AppContext is left in a state that
\* announces work in progress, and the two copies of the state agree.
SettledState ==
    Quiescent => \A c \in AppContexts :
        current[c] \notin Transient /\ status[c] = current[c]

\* When rsync has nothing left to do the clusters hold exactly the placements
\* of the AppContexts it reports as Instantiated.
Converged ==
    Quiescent =>
        deployed = UNION {Manifest[c] : c \in {a \in AppContexts : current[a] = "Instantiated"}}

\* What an update found to be modified it does not pass over: only resources
\* "that match exactly" are marked to be skipped (updateModifyPhase).
ModifiedIsApplied ==
    \A t \in Threads : Operating(t) /\ Event(t) = "Update" =>
        \A p \in main[t].todo \cup main[t].open : ~Skipped(t, p)

\* An update deletes old placements only once everything the new AppContext
\* lists is running.
DeleteAfterRunning ==
    [][\A t \in Threads :
          (Operating(t) /\ Event(t) = "UpdateDelete" /\ main'[t].open # main[t].open
                        /\ deployed' # deployed)
          => Manifest[Element(t).other] \subseteq podsUp]_vars

\* Only a Terminate or the deleting half of an update removes a placement, and
\* an update keeps what the new AppContext lists, too, whatever goes wrong
\* while the two AppContexts are compared.
RetainedStays ==
    [][\A p \in deployed \ deployed' : \E t \in Threads :
          /\ Operating(t) /\ p \in main[t].open /\ p \notin main'[t].open
          /\ \/ Event(t) = "Terminate"
             \/ Event(t) = "UpdateDelete" /\ p \notin Manifest[Element(t).other]]_vars

-------------------------------------------------------------------------------
(* The inductive invariant behind the theorems of RsyncContext_proofs.     *)

\* A thread at work serves an AppContext and holds the index of an element of
\* its queue; a handler has an AppContext, and is about to queue what was asked
\* for; an update names the AppContext it replaces; nothing but an update waits
\* for pods.
Coherent ==
    /\ \A c \in AppContexts : \A i \in DOMAIN queue[c] :
          queue[c][i].ev = "Update" => queue[c][i].other \in AppContexts
    /\ \A k \in Callers :
          /\ handler[k].pc # "idle" => handler[k].ac \in AppContexts
          /\ handler[k].pc = "retry" => handler[k].ev = "Terminate"
          /\ handler[k].pc = "queue" =>
                \/ handler[k].ev = "Terminate"
                \/ \E r \in Requests : /\ r.ev = handler[k].ev /\ r.ac = handler[k].ac
                                       /\ r.other = handler[k].other
    /\ \A t \in Threads : Live(t) => main[t].ac \in AppContexts
    /\ \A t \in Threads : main[t].pc \notin {"none", "find", "release"} =>
          main[t].idx \in DOMAIN queue[main[t].ac]
    /\ \A t \in Threads : main[t].pc \in {"pods", "handover", "handqueue", "handstart"} =>
          Event(t) = "Update"
    /\ \A t \in Threads : main[t].pc \in {"status", "current"} => main[t].final # "none"

\* Until the first crash nothing is restored, and every thread is announced by
\* Running: the flag is what keeps a second thread from being started.
ThreadsAnnounced ==
    crashes = 0 =>
        /\ toRestore = {}
        /\ \A t \in Threads : Live(t) => running[main[t].ac]
        /\ OneMainThread

\* A thread works on the first pending element, or on one before it that
\* another thread has decided, and its verdict is one.
InOrder ==
    \A t \in Threads :
        /\ main[t].pc \notin {"none", "find", "release"} =>
              \A j \in 1..(main[t].idx - 1) : j \notin Pending(main[t].ac)
        /\ main[t].pc = "mark" => main[t].verdict # "Pending"

\* What the lock protects: nobody deletes the record of an AppContext between
\* the two writes of who queues an event for it, and nobody queues one between
\* the look at the queue and the exit of a thread.
LockHeld ==
    /\ \A k \in Callers : handler[k].pc = "queue" => handler[k].ac \in active
    /\ \A t \in Threads : main[t].pc = "handqueue" => Element(t).other \in active
    /\ \A t \in Threads : main[t].pc = "release" =>
          Pending(main[t].ac) = {} /\ ~Queueing(main[t].ac)

IInv == TypeOK /\ Coherent /\ ThreadsAnnounced /\ InOrder /\ PendingIsActive /\ LockHeld

================================================================================
