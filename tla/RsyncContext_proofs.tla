-------------------------- MODULE RsyncContext_proofs --------------------------
(***************************************************************************)
(* Proofs about RsyncContext for any AppContexts, placements, threads,     *)
(* requests, faults and number of crashes.  The inductive invariant IInv   *)
(* and its parts are defined at the end of RsyncContext.  QueueStep and    *)
(* ThreadStep say what a step may do to a queue and to a thread; the parts *)
(* of IInv follow from them without another look at the actions.           *)
(*                                                                         *)
(* A simulation proves that RsyncContext implements AppContextLifecycle,   *)
(* with every fault but a crash of rsync: every step of the engine maps,   *)
(* under the substitution of RsyncRefinement, to a step of the abstract    *)
(* specification or to a stuttering step.                                  *)
(*                                                                         *)
(* The last parts are about the clusters: what an update leaves there      *)
(* (RetainedStays), when it takes the rest off (DeleteAfterRunning), and   *)
(* what is there when rsync has nothing left to do (Converged).            *)
(***************************************************************************)
EXTENDS RsyncRefinement, SequenceTheorems, WellFoundedInduction, TLAPS

-------------------------------------------------------------------------------
(* Types.                                                                  *)

\* The states the table StateChanges names for an event are states.
LEMMA StateTypes ==
    ASSUME NEW e \in RsyncEvents
    PROVE  /\ DesiredState(e) \in AppContextStatuses
           /\ RunningState(e) \in AppContextStatuses
           /\ ErrorState(e) \in AppContextStatuses
  BY DEF RsyncEvents, AppContextStatuses, DesiredState, RunningState, ErrorState

\* Every event asks the cluster routines for one of their operations.
LEMMA OperationTypes ==
    ASSUME NEW e \in RsyncEvents
    PROVE  OperationOf(e) \in RsyncOperations
  BY DEF RsyncEvents, RsyncOperations, OperationOf

\* A goroutine that does not exist is a well-typed thread record ...
LEMMA NoMainType == NoMain \in MainThread
  BY NullAssumption DEF NoMain, MainThread, MainPCs, RsyncOperations, QStatuses

\* ... and so is one that startMainThread has just created.
LEMMA NewMainType ==
    ASSUME NEW c \in AppContexts
    PROVE  NewMain(c) \in MainThread
  BY DEF NewMain, NoMain, MainThread, MainPCs, RsyncOperations, QStatuses

\* EnqueueToAppContext records the AppContext as active before it queues ...
LEMMA FirstWrite ==
    ASSUME NEW c, NEW ev, NEW other, EnqueueToAppContext(1, c, ev, other)
    PROVE  active' = active \cup {c} /\ queue' = queue
  BY DEF EnqueueToAppContext, RecordActiveContext

LEMMA SecondWrite ==
    ASSUME NEW c, NEW ev, NEW other, EnqueueToAppContext(2, c, ev, other)
    PROVE  Enqueue(c, ev, other) /\ active' = active
  BY DEF EnqueueToAppContext

\* ... and keeps the queue well-typed.
LEMMA EnqueueType ==
    ASSUME TypeOK, NEW c \in AppContexts, NEW ev \in RsyncEvents,
           NEW other \in AppContexts \cup {NoContext}, Enqueue(c, ev, other)
    PROVE  queue' \in [AppContexts -> Seq(QueueElement)]
<1>1. NewElement(ev, other) \in QueueElement
  BY DEF NewElement, QueueElement, QStatuses
<1>2. Append(queue[c], NewElement(ev, other)) \in Seq(QueueElement)
  BY <1>1, AppendProperties DEF TypeOK
<1> QED BY <1>2 DEF Enqueue, TypeOK

\* Past its search for work, a thread holds the index of an element of its
\* queue, and what it reads there is well-typed.
LEMMA ElementType ==
    ASSUME TypeOK, Coherent, NEW t \in Threads, main[t].pc \notin {"none", "find", "release"}
    PROVE  /\ main[t].ac \in AppContexts
           /\ main[t].idx \in DOMAIN queue[main[t].ac]
           /\ Element(t) \in QueueElement
           /\ Event(t) \in RsyncEvents
           /\ Element(t).other \in AppContexts \cup {NoContext}
<1>1. main[t].ac \in AppContexts /\ main[t].idx \in DOMAIN queue[main[t].ac]
  BY DEF Coherent, Live
<1>2. Element(t) \in QueueElement
  BY <1>1, ElementOfSeq DEF Element, TypeOK
<1> QED BY <1>1, <1>2 DEF Event, QueueElement

\* The AppContext that the update at hand replaces is one.
LEMMA ReplacedType ==
    ASSUME TypeOK, Coherent, NEW t \in Threads,
           main[t].pc \in {"pods", "handover", "handqueue", "handstart"}
    PROVE  Element(t).other \in AppContexts /\ main[t].ac \in AppContexts
<1>1. main[t].ac \in AppContexts /\ main[t].idx \in DOMAIN queue[main[t].ac]
  BY ElementType
<1>2. Event(t) = "Update"
  BY DEF Coherent
<1> QED BY <1>1, <1>2 DEF Coherent, Event, Element

\* The program counters and queue statuses that the steps assign exist.
LEMMA Literals ==
    /\ {"none", "find", "release", "check", "enter", "announce", "arm", "phase", "pods",
        "handover", "handqueue", "handstart", "wait", "mark", "status", "current"} \subseteq MainPCs
    /\ {"Pending", "Done", "Error", "Skip"} \subseteq QStatuses
  BY DEF MainPCs, QStatuses

\* Replacing the record of one thread by a well-typed one keeps main typed.
LEMMA MainExcept ==
    ASSUME main \in [Threads -> MainThread], NEW t \in Threads, NEW m \in MainThread
    PROVE  [main EXCEPT ![t] = m] \in [Threads -> MainThread]
  OBVIOUS

\* A step that changes nothing but the threads keeps TypeOK if it keeps
\* them well-typed.
LEMMA OnlyMainType ==
    ASSUME TypeOK, main' \in [Threads -> MainThread],
           UNCHANGED <<etcd, running, cancel, resSkip, handler, toRestore, world>>
    PROVE  TypeOK'
  BY DEF TypeOK, etcd, world

\* A thread whose cluster routine for p has ended, well or with an error, is
\* well-typed.
LEMMA DropType ==
    ASSUME TypeOK, NEW t \in Threads, NEW p
    PROVE  /\ Drop(t, p) \in MainThread
           /\ [Drop(t, p) EXCEPT !.failed = TRUE, !.cancelled = TRUE] \in MainThread
<1>1. main[t] \in MainThread
  BY DEF TypeOK
<1>2. Drop(t, p) \in MainThread
  BY <1>1 DEF Drop, MainThread
<1> QED BY <1>2 DEF MainThread

\* No step of a cluster routine of runCluster breaks the types.
LEMMA RoutineTypes ==
    ASSUME TypeOK, NEW t \in Threads, Routine(t)
    PROVE  TypeOK'
<1> USE DropType
<1>1. ASSUME NEW q, RoutineFails(t, q) PROVE TypeOK'
  <2>1. main' \in [Threads -> MainThread]
    BY <1>1 DEF RoutineFails, TypeOK
  <2> QED BY <1>1, <2>1, OnlyMainType DEF RoutineFails
<1>2. ASSUME NEW q, RoutineEnds(t, q), deployed' \subseteq Placements, podsUp' \subseteq deployed'
      PROVE  TypeOK'
  <2>1. main' \in [Threads -> MainThread]
    BY <1>2 DEF RoutineEnds, TypeOK
  <2> QED BY <1>2, <2>1 DEF RoutineEnds, TypeOK, etcd
<1>3. ASSUME NEW q \in Placements, OpenClient(t, q) PROVE TypeOK'
  <2>1. [main[t] EXCEPT !.todo = @ \ {q}, !.open = @ \cup {q}] \in MainThread
    BY ZenonT(60) DEF TypeOK, MainThread
  <2>2. main' \in [Threads -> MainThread]
    BY <1>3, <2>1 DEF OpenClient, TypeOK
  <2> QED BY <1>3, <2>2, OnlyMainType DEF OpenClient
<1> QED
  BY <1>1, <1>2, <1>3 DEF Routine, OpenClientFails, HandleSkipped, Apply, ApplyFails, Delete,
                          DeleteLost, ReadResource, Unreachable, TypeOK

\* Every step of the engine and of its environment keeps TypeOK; Coherent
\* makes what a thread reads from its queue an element of that queue.
LEMMA TypeInductive ==
    ASSUME TypeOK, Coherent, Next
    PROVE  TypeOK'
<1>0. main \in [Threads -> MainThread]
  BY DEF TypeOK
<1>1. ASSUME NEW k \in Callers, Receive(k) PROVE TypeOK'
  <2>1. PICK r \in outbox :
           /\ EnqueueToAppContext(1, r.ac, r.ev, r.other)
           /\ handler' = [handler EXCEPT ![k] =
                            [pc |-> "queue", ev |-> r.ev, ac |-> r.ac, other |-> r.other]]
           /\ outbox' = outbox \ {r}
    BY <1>1 DEF Receive
  <2>2. r.ac \in AppContexts /\ r.ev \in RsyncEvents /\ r.other \in AppContexts \cup {NoContext}
    BY <2>1, RequestAssumption DEF RequestAssumption, TypeOK, Request
  <2>3. handler' \in [Callers -> HandlerState]
    BY <2>1, <2>2 DEF TypeOK, HandlerState
  <2>4. active' = active \cup {r.ac} /\ queue' = queue
    BY <2>1, FirstWrite
  <2> QED BY <1>1, <2>1, <2>2, <2>3, <2>4 DEF Receive, TypeOK
<1>2. ASSUME NEW k \in Callers, HandlerStart(k) PROVE TypeOK'
  <2>1. handler' \in [Callers -> HandlerState]
    BY <1>2 DEF HandlerStart, TypeOK, HandlerState, NoHandler, RsyncEvents
  <2> DEFINE c == handler[k].ac
  <2>0. c \in AppContexts
    BY <1>2 DEF HandlerStart, Coherent
  <2>2. main' \in [Threads -> MainThread]
    <3>1. CASE \E t \in Threads : StartMainThread(c, t)
      BY <1>0, <2>0, <3>1, NewMainType DEF StartMainThread
    <3>2. CASE Interrupt(c)
      <4>1. \A t \in Threads : [main[t] EXCEPT !.cancelled = TRUE] \in MainThread
        BY <1>0, ZenonT(60) DEF MainThread
      <4> QED BY <1>0, <3>2, <4>1 DEF Interrupt
    <3>3. CASE main' = main
      BY <1>0, <3>3
    <3> QED BY <1>2, <3>1, <3>2, <3>3 DEF HandlerStart, StartOrInterrupt
  <2> QED
  BY <1>2, <2>1, <2>2 DEF HandlerStart, StartOrInterrupt, StartMainThread, Interrupt, SetRunning, TypeOK, world
<1>3. ASSUME NEW k \in Callers, HandlerStartFails(k) PROVE TypeOK'
  BY <1>3 DEF HandlerStartFails, TypeOK, HandlerState, NoHandler, RsyncEvents, etcd, world
<1>4. ASSUME NEW k \in Callers, HandlerRetry(k) PROVE TypeOK'
  <2>1. handler[k].ac \in AppContexts
    BY <1>4 DEF HandlerRetry, Coherent
  <2>2. handler' \in [Callers -> HandlerState]
    <3>1. [handler[k] EXCEPT !.pc = "queue"] \in HandlerState
      BY DEF TypeOK, HandlerState
    <3>2. handler' = [handler EXCEPT ![k] = [handler[k] EXCEPT !.pc = "queue"]]
      BY <1>4 DEF HandlerRetry
    <3> QED BY <3>1, <3>2 DEF TypeOK
  <2>3. active' = active \cup {handler[k].ac} /\ queue' = queue
    BY <1>4, FirstWrite DEF HandlerRetry
  <2> QED BY <1>4, <2>1, <2>2, <2>3 DEF HandlerRetry, TypeOK, world
<1>31. ASSUME NEW k \in Callers, HandlerQueue(k) PROVE TypeOK'
  <2>1. /\ handler[k].ac \in AppContexts /\ handler[k].ev \in RsyncEvents
        /\ handler[k].other \in AppContexts \cup {NoContext}
    BY <1>31 DEF HandlerQueue, Coherent, TypeOK, HandlerState
  <2>2. handler' \in [Callers -> HandlerState]
    <3>1. [handler[k] EXCEPT !.pc = "start"] \in HandlerState
      BY DEF TypeOK, HandlerState
    <3>2. handler' = [handler EXCEPT ![k] = [handler[k] EXCEPT !.pc = "start"]]
      BY <1>31 DEF HandlerQueue
    <3> QED BY <3>1, <3>2 DEF TypeOK
  <2>3. Enqueue(handler[k].ac, handler[k].ev, handler[k].other) /\ active' = active
    BY <1>31, SecondWrite DEF HandlerQueue
  <2>4. queue' \in [AppContexts -> Seq(QueueElement)]
    BY <2>1, <2>3, EnqueueType
  <2> QED BY <1>31, <2>2, <2>3, <2>4 DEF HandlerQueue, TypeOK, world
<1>5. ASSUME NEW t \in Threads, FindNext(t) PROVE TypeOK'
  <2>1. PICK i \in Pending(main[t].ac) : main' = [main EXCEPT ![t].idx = i, ![t].pc = "check"]
    BY <1>5 DEF FindNext
  <2>2. i \in Nat
    <3>1. main[t].ac \in AppContexts
      BY <1>5 DEF FindNext, Coherent, Live
    <3>2. DOMAIN queue[main[t].ac] \subseteq Nat
      BY <3>1 DEF TypeOK
    <3> QED BY <2>1, <3>2 DEF Pending
  <2>3. [main[t] EXCEPT !.idx = i, !.pc = "check"] \in MainThread
    BY <1>0, <2>2, Literals, ZenonT(60) DEF MainThread
  <2>4. main' = [main EXCEPT ![t] = [main[t] EXCEPT !.idx = i, !.pc = "check"]]
    BY <2>1
  <2>5. main' \in [Threads -> MainThread]
    BY <1>0, <2>3, <2>4, MainExcept
  <2> QED BY <1>5, <2>5, OnlyMainType DEF FindNext
<1>6. ASSUME NEW t \in Threads, FindNone(t) PROVE TypeOK'
  <2>1. main' \in [Threads -> MainThread]
    <3>1. main' = [main EXCEPT ![t].pc = "release"]
      BY <1>6 DEF FindNone
    <3> QED BY <1>0, <3>1 DEF MainThread, MainPCs
  <2>2. pendTerm' \in [AppContexts -> BOOLEAN]
    <3>1. pendTerm' = [pendTerm EXCEPT ![main[t].ac] = FALSE]
      BY <1>6 DEF FindNone, ClearTerminateFlag
    <3> QED BY <3>1 DEF TypeOK
  <2>3. UNCHANGED <<queue, active, stopFlag, current, desired, status, running, cancel, resSkip,
                    handler, toRestore, world>>
    BY <1>6 DEF FindNone
  <2> QED BY <2>1, <2>2, <2>3 DEF TypeOK, world
<1>32. ASSUME NEW t \in Threads, Release(t) PROVE TypeOK'
  BY <1>32, NoMainType DEF Release, Exit, TypeOK, world
<1>7. ASSUME NEW t \in Threads, GiveUp(t) PROVE TypeOK'
  BY <1>7, NoMainType DEF GiveUp, Exit, TypeOK, etcd, world
<1>8. ASSUME NEW t \in Threads, NEW final \in AppContextStatuses \cup {"none"}, Refuse(t, final)
      PROVE  TypeOK'
  <2>1. [main[t] EXCEPT !.pc = "mark", !.verdict = "Skip", !.final = final] \in MainThread
    BY <1>0, Literals, ZenonT(60) DEF MainThread
  <2>2. main' \in [Threads -> MainThread]
    BY <1>0, <1>8, <2>1 DEF Refuse
  <2> QED BY <1>8, <2>2, OnlyMainType DEF Refuse
<1>9. ASSUME NEW t \in Threads, CheckIgnored(t) PROVE TypeOK'
  BY <1>8, <1>9, ElementType, StateTypes DEF CheckIgnored
<1>10. ASSUME NEW t \in Threads, CheckUnsupported(t) PROVE TypeOK'
  BY <1>8, <1>10 DEF CheckUnsupported, AppContextStatuses
<1>11. ASSUME NEW t \in Threads, CheckSupported(t) PROVE TypeOK'
  <2>1. Event(t) \in RsyncEvents
    BY <1>11, ElementType DEF CheckSupported
  <2>2. main' \in [Threads -> MainThread]
    <3>1. main' = [main EXCEPT ![t].pc = "enter"]
      BY <1>11 DEF CheckSupported
    <3> QED BY <1>0, <3>1 DEF MainThread, MainPCs
  <2> QED BY <1>11, <2>1, <2>2, StateTypes DEF CheckSupported, TypeOK, world
<1>33. ASSUME NEW t \in Threads, EnterState(t) \/ AnnounceState(t) PROVE TypeOK'
  <2>1. Event(t) \in RsyncEvents
    BY <1>33, ElementType DEF EnterState, AnnounceState
  <2>2. main' \in [Threads -> MainThread]
    <3>1. main' = [main EXCEPT ![t].pc = "announce"] \/ main' = [main EXCEPT ![t].pc = "arm"]
      BY <1>33 DEF EnterState, AnnounceState
    <3> QED BY <1>0, <3>1 DEF MainThread, MainPCs
  <2>3. CASE EnterState(t)
    BY <2>1, <2>2, <2>3, StateTypes DEF EnterState, TypeOK, world
  <2>4. CASE AnnounceState(t)
    BY <2>1, <2>2, <2>4, StateTypes DEF AnnounceState, TypeOK, world
  <2> QED BY <1>33, <2>3, <2>4
<1>12. ASSUME NEW t \in Threads, Arm(t) PROVE TypeOK'
  <2>1. [main[t] EXCEPT !.pc = "phase", !.failed = FALSE, !.cancelled = main[t].ctxDone] \in MainThread
    BY <1>0, Literals, ZenonT(60) DEF MainThread
  <2>2. main' \in [Threads -> MainThread]
    BY <1>0, <1>12, <2>1 DEF Arm
  <2> QED BY <1>12, <2>2 DEF Arm, TypeOK, etcd, world
<1>13. ASSUME NEW t \in Threads, main[t].pc = "phase", NEW op \in RsyncOperations,
              NEW skipped \in SUBSET Placements, Launch(t, op, skipped)
       PROVE  TypeOK'
  <2>1. main[t].ac \in AppContexts
    BY <1>13, ElementType
  <2>2. Manifest[main[t].ac] \subseteq Placements
    BY <2>1, ManifestAssumption DEF ManifestAssumption
  <2> DEFINE pc == IF Event(t) = "Update" THEN "pods" ELSE "wait"
             m == [main[t] EXCEPT !.op = op, !.todo = Manifest[main[t].ac] \ skipped, !.open = {},
                                  !.await = Manifest[main[t].ac], !.pc = pc]
  <2>3. pc \in MainPCs
    BY DEF MainPCs
  <2>4. m \in MainThread
    <3> HIDE DEF pc
    <3> QED BY <1>0, <2>2, <2>3, ZenonT(60) DEF MainThread
  <2>5. main' = [main EXCEPT ![t] = m]
    BY <1>13 DEF Launch
  <2>6. main' \in [Threads -> MainThread]
    <3> HIDE DEF m
    <3> QED BY <1>0, <2>4, <2>5
  <2>7. resSkip' \in [AppContexts -> SUBSET Placements]
    BY <1>13, <2>1 DEF Launch, TypeOK
  <2>8. UNCHANGED <<etcd, running, cancel, handler, toRestore, world>>
    BY <1>13 DEF Launch
  <2> QED BY <2>6, <2>7, <2>8 DEF TypeOK, etcd, world
<1>14. ASSUME NEW t \in Threads, LaunchOperation(t) PROVE TypeOK'
  <2>1. main[t].pc = "phase" /\ Event(t) \in RsyncEvents /\ main[t].ac \in AppContexts
    BY <1>14, ElementType DEF LaunchOperation
  <2>2. Unaffected(t) \in SUBSET Placements
    BY <2>1, ManifestAssumption DEF Unaffected, Unmodified, Retained, ManifestAssumption
  <2> QED BY <1>13, <1>14, <2>1, <2>2, OperationTypes DEF LaunchOperation
<1>15. ASSUME NEW t \in Threads, LaunchAfterPhaseError(t) PROVE TypeOK'
  <2>1. main[t].op \in RsyncOperations
    BY <1>0 DEF MainThread
  <2> QED BY <1>13, <1>15, <2>1 DEF LaunchAfterPhaseError
<1>16. ASSUME NEW t \in Threads, PodsConfirmed(t) PROVE TypeOK'
  <2>1. PICK p \in main[t].await :
           main' = [main EXCEPT ![t].await = @ \ {p},
                        ![t].pc = IF main[t].await = {p} THEN "handover" ELSE "pods"]
    BY <1>16 DEF PodsConfirmed
  <2> DEFINE pc == IF main[t].await = {p} THEN "handover" ELSE "pods"
             m == [main[t] EXCEPT !.await = @ \ {p}, !.pc = pc]
  <2>2. pc \in MainPCs
    BY DEF MainPCs
  <2>3. m \in MainThread
    <3> HIDE DEF pc
    <3> QED BY <1>0, <2>2 DEF MainThread
  <2>4. main' = [main EXCEPT ![t] = m]
    BY <2>1
  <2>5. main' \in [Threads -> MainThread]
    <3> HIDE DEF m
    <3> QED BY <1>0, <2>3, <2>4
  <2> QED BY <1>16, <2>5, OnlyMainType DEF PodsConfirmed
<1>17. ASSUME NEW t \in Threads, PodsAbandoned(t) PROVE TypeOK'
  <2>1. main' \in [Threads -> MainThread]
    BY <1>0, <1>17, NoMainType DEF PodsAbandoned
  <2> QED BY <1>17, <2>1, OnlyMainType DEF PodsAbandoned
<1>18. ASSUME NEW t \in Threads, NEW pc \in MainPCs
       PROVE  [main EXCEPT ![t].pc = pc] \in [Threads -> MainThread]
  BY <1>0 DEF MainThread
<1>19. ASSUME NEW t \in Threads, HandOver(t) \/ HandOverQueue(t) PROVE TypeOK'
  <2>1. main' \in [Threads -> MainThread]
    <3>1. \E pc \in {"wait", "handqueue", "handstart"} : main' = [main EXCEPT ![t].pc = pc]
      BY <1>19 DEF HandOver, HandOverQueue
    <3> QED BY <1>18, <3>1, Literals
  <2>2. Element(t).other \in AppContexts /\ main[t].ac \in AppContexts
    BY <1>19, ReplacedType DEF HandOver, HandOverQueue
  <2>3. queue' \in [AppContexts -> Seq(QueueElement)] /\ active' \subseteq AppContexts
    <3>1. CASE UNCHANGED <<queue, active>>
      BY <3>1 DEF TypeOK
    <3>2. CASE EnqueueToAppContext(1, Element(t).other, "UpdateDelete", main[t].ac)
      BY <2>2, <3>2, FirstWrite DEF TypeOK
    <3>3. CASE EnqueueToAppContext(2, Element(t).other, "UpdateDelete", main[t].ac)
      BY <2>2, <3>3, SecondWrite, EnqueueType DEF RsyncEvents, TypeOK
    <3> QED BY <1>19, <3>1, <3>2, <3>3 DEF HandOver, HandOverQueue
  <2>4. UNCHANGED <<stopFlag, pendTerm, current, desired, status, running, cancel,
                    resSkip, handler, toRestore, world>>
    BY <1>19 DEF HandOver, HandOverQueue
  <2> QED BY <2>1, <2>3, <2>4 DEF TypeOK, world
<1>20. ASSUME NEW t \in Threads, HandOverStart(t) PROVE TypeOK'
  <2> DEFINE old == Element(t).other
  <2>1. old \in AppContexts
    <3>1. main[t].pc = "handstart"
      BY <1>20 DEF HandOverStart
    <3>2. main[t].ac \in AppContexts /\ main[t].idx \in DOMAIN queue[main[t].ac]
      BY <3>1, ElementType
    <3>3. Event(t) = "Update"
      BY <3>1 DEF Coherent
    <3> QED BY <3>2, <3>3 DEF Coherent, Event, Element
  <2> HIDE DEF old
  <2>2. [main EXCEPT ![t].pc = "wait"] \in [Threads -> MainThread]
    BY <1>18, Literals
  <2>3. NewMain(old) \in MainThread
    BY <2>1, NewMainType
  <2>4. main' \in [Threads -> MainThread]
    <3>1. ASSUME NEW u \in Threads, main' = [main EXCEPT ![t].pc = "wait", ![u] = NewMain(old)]
          PROVE  main' \in [Threads -> MainThread]
      BY <2>2, <2>3, <3>1
    <3> QED BY <1>20, <2>2, <3>1 DEF HandOverStart, old
  <2>5. running' \in [AppContexts -> BOOLEAN] /\ resSkip' \in [AppContexts -> SUBSET Placements]
    BY <1>20, <2>1 DEF HandOverStart, SetRunning, TypeOK, old
  <2>6. UNCHANGED <<etcd, cancel, handler, toRestore, world>>
    BY <1>20 DEF HandOverStart
  <2> QED BY <2>4, <2>5, <2>6 DEF TypeOK, etcd, world
<1>21. ASSUME NEW t \in Threads, Wait(t) PROVE TypeOK'
  <2>1. Event(t) \in RsyncEvents
    BY <1>21, ElementType DEF Wait
  <2> DEFINE v == IF main[t].failed THEN "Error" ELSE "Done"
             m == [main[t] EXCEPT !.pc = "mark", !.verdict = v, !.final = ErrorState(Event(t))]
  <2>2. v \in QStatuses
    BY DEF QStatuses
  <2>3. m \in MainThread
    <3> HIDE DEF v
    <3> QED BY <1>0, <2>1, <2>2, StateTypes, ZenonT(60) DEF MainThread, MainPCs
  <2>4. main' = [main EXCEPT ![t] = m]
    BY <1>21 DEF Wait
  <2>5. main' \in [Threads -> MainThread]
    <3> HIDE DEF m
    <3> QED BY <1>0, <2>3, <2>4
  <2> QED BY <1>21, <2>5, OnlyMainType DEF Wait
<1>22. ASSUME NEW t \in Threads, Mark(t) PROVE TypeOK'
  <2> DEFINE c == main[t].ac  i == main[t].idx
             e == [queue[c][i] EXCEPT !.status = main[t].verdict]
  <2>1. c \in AppContexts /\ i \in DOMAIN queue[c] /\ queue[c] \in Seq(QueueElement)
    BY <1>22, ElementType DEF Mark, TypeOK
  <2>2. queue[c][i] \in QueueElement
    BY <2>1, ElementOfSeq
  <2>3. e \in QueueElement
    BY <1>0, <2>2 DEF MainThread, QueueElement
  <2>4. [queue[c] EXCEPT ![i] = e] \in Seq(QueueElement)
    BY <2>1, <2>3, ExceptSeq
  <2>5. queue' = [queue EXCEPT ![c] = [queue[c] EXCEPT ![i] = e]]
    BY <1>22 DEF Mark
  <2>6. queue' \in [AppContexts -> Seq(QueueElement)]
    BY <2>1, <2>4, <2>5 DEF TypeOK
  <2>7. FinalState(t) \in AppContextStatuses \cup {"none"}
    <3>1. main[t].final \in AppContextStatuses \cup {"none"}
      BY <1>0 DEF MainThread
    <3>2. desired[c] \in AppContextStatuses
      BY <2>1 DEF TypeOK
    <3> QED BY <3>1, <3>2 DEF FinalState
  <2>8. AfterMark(FinalState(t)) \in MainPCs
    BY DEF AfterMark, MainPCs
  <2>9. main' \in [Threads -> MainThread]
    <3>1. main' = [main EXCEPT ![t].final = FinalState(t), ![t].pc = AfterMark(FinalState(t))]
      BY <1>22 DEF Mark
    <3> DEFINE f == FinalState(t)
               a == AfterMark(f)
               m == [main[t] EXCEPT !.final = f, !.pc = a]
    <3>2. m \in MainThread
      <4> HIDE DEF f, a
      <4> QED BY <1>0, <2>7, <2>8, ZenonT(60) DEF MainThread, f, a
    <3>3. main' = [main EXCEPT ![t] = m]
      BY <3>1
    <3> HIDE DEF m
    <3> QED BY <1>0, <3>2, <3>3, MainExcept
  <2>10. UNCHANGED <<active, stopFlag, pendTerm, current, desired, status, running,
                     cancel, resSkip, handler, toRestore, world>>
    BY <1>22 DEF Mark
  <2> QED BY <2>6, <2>9, <2>10 DEF TypeOK, world
<1>23. ASSUME NEW t \in Threads, WriteStatus(t) PROVE TypeOK'
  <2>1. main[t].final \in AppContextStatuses
    BY <1>0, <1>23 DEF WriteStatus, Coherent, MainThread
  <2>2. main' \in [Threads -> MainThread]
    BY <1>18, <1>23 DEF WriteStatus, MainPCs
  <2> QED BY <1>23, <2>1, <2>2 DEF WriteStatus, TypeOK, world
<1>24. ASSUME NEW t \in Threads, WriteCurrent(t) PROVE TypeOK'
  <2>1. main[t].final \in AppContextStatuses
    BY <1>0, <1>24 DEF WriteCurrent, Coherent, MainThread
  <2>2. main' \in [Threads -> MainThread]
    BY <1>18, <1>24 DEF WriteCurrent, MainPCs
  <2> QED BY <1>24, <2>1, <2>2 DEF WriteCurrent, TypeOK, world
<1>25. ASSUME NEW t \in Threads, WatchStop(t) PROVE TypeOK'
  <2>1. main' \in [Threads -> MainThread]
    <3>1. [main[t] EXCEPT !.ctxDone = TRUE] \in MainThread
      BY <1>0 DEF MainThread
    <3>2. main' = [main EXCEPT ![t] = [main[t] EXCEPT !.ctxDone = TRUE]]
      BY <1>25 DEF WatchStop
    <3> QED BY <1>0, <3>1, <3>2, MainExcept
  <2> QED BY <1>25, <2>1, OnlyMainType DEF WatchStop
<1>26. CASE Crash
  <2>1. crashes' \in 0..MaxCrashes
    BY <1>26, CrashAssumption DEF CrashAssumption, Crash, TypeOK
  <2>2. handler' \in [Callers -> HandlerState]
    BY <1>26, NullAssumption DEF Crash, HandlerState, NoHandler, RsyncEvents
  <2>3. main' \in [Threads -> MainThread]
    BY <1>26, NoMainType DEF Crash
  <2> QED BY <1>26, <2>1, <2>2, <2>3 DEF Crash, TypeOK, etcd
<1>27. ASSUME NEW c \in AppContexts, Restart(c) PROVE TypeOK'
  <2>1. main' \in [Threads -> MainThread]
    BY <1>0, <1>27, NewMainType DEF Restart, StartMainThread
  <2> QED BY <1>27, <2>1 DEF Restart, StartMainThread, TypeOK, etcd, world
<1>28. ASSUME NEW c \in AppContexts, RestartFails(c) PROVE TypeOK'
  BY <1>28 DEF RestartFails, TypeOK, etcd, world
<1>29. CASE Environment
  <2>1. ASSUME NEW c \in AppContexts, Stop(c) \/ ClearStop(c) PROVE TypeOK'
    BY <2>1 DEF Stop, ClearStop, TypeOK, memory, world
  <2>2. ASSUME NEW p \in Placements, PodsStart(p) PROVE TypeOK'
    BY <2>2 DEF PodsStart, TypeOK, memory, etcd
  <2>3. ASSUME NEW cl \in Clusters, ClusterDown(cl) \/ ClusterUp(cl) PROVE TypeOK'
    BY <2>3 DEF ClusterDown, ClusterUp, TypeOK, memory, etcd
  <2> QED BY <1>29, <2>1, <2>2, <2>3 DEF Environment
<1>30. ASSUME NEW t \in Threads, Routine(t) PROVE TypeOK'
  BY <1>30, RoutineTypes
<1> QED
  BY <1>1, <1>2, <1>3, <1>4, <1>5, <1>6, <1>7, <1>9, <1>10, <1>11, <1>12, <1>14, <1>15, <1>16,
     <1>17, <1>19, <1>20, <1>21, <1>22, <1>23, <1>24, <1>25, <1>26, <1>27, <1>28, <1>29, <1>30,
     <1>31, <1>32, <1>33
     DEF Next, Handler, MainStep

-------------------------------------------------------------------------------
(* How a step changes a queue.                                             *)

\* A step keeps every element of a queue but for its status, which may leave
\* Pending only when no earlier element is pending; a new element comes last,
\* somebody had recorded its AppContext and held the lock, and a new update
\* names the AppContext it replaces.
QueueStep ==
    \A c \in AppContexts :
        /\ DOMAIN queue[c] \subseteq DOMAIN queue'[c]
        /\ \A i \in DOMAIN queue[c] :
              /\ queue'[c][i].ev = queue[c][i].ev
              /\ queue'[c][i].other = queue[c][i].other
              /\ queue'[c][i].status = "Pending" => queue[c][i].status = "Pending"
              /\ \/ queue'[c][i] = queue[c][i]
                 \/ \A j \in 1..(i - 1) : j \notin Pending(c)
        /\ \A i \in DOMAIN queue'[c] \ DOMAIN queue[c] :
              /\ \A j \in DOMAIN queue[c] : i > j
              /\ queue'[c][i].ev = "Update" => queue'[c][i].other \in AppContexts
              /\ Queueing(c)

\* A step that leaves the queues alone is a QueueStep.
LEMMA QueueUnchanged ==
    ASSUME queue' = queue
    PROVE  QueueStep
  BY DEF QueueStep

\* Enqueue adds one element behind the others.
LEMMA EnqueueStep ==
    ASSUME TypeOK, NEW c \in AppContexts, NEW ev \in RsyncEvents,
           NEW other \in AppContexts \cup {NoContext}, EnqueueToAppContext(2, c, ev, other),
           ev = "Update" => other \in AppContexts, Queueing(c)
    PROVE  QueueStep
<1> DEFINE e == NewElement(ev, other)
<1>1. e \in QueueElement
  BY DEF NewElement, QueueElement, QStatuses
<1>2. e.ev = ev /\ e.other = other
  BY DEF NewElement
<1> HIDE DEF e
<1>3. queue[c] \in Seq(QueueElement)
  BY DEF TypeOK
<1>4. queue'[c] = Append(queue[c], e) /\ \A d \in AppContexts \ {c} : queue'[d] = queue[d]
  BY SecondWrite DEF Enqueue, TypeOK, e
<1>5. /\ DOMAIN queue[c] = 1..Len(queue[c]) /\ Len(queue[c]) \in Nat
      /\ DOMAIN queue'[c] = 1..(Len(queue[c]) + 1)
      /\ \A i \in 1..Len(queue[c]) : queue'[c][i] = queue[c][i]
      /\ queue'[c][Len(queue[c]) + 1] = e
  BY <1>1, <1>3, <1>4, AppendProperties, LenProperties
<1> QED BY <1>2, <1>4, <1>5, SMTT(40) DEF QueueStep

\* UpdateQStatus gives a verdict to one element, and all elements before it
\* have theirs.
LEMMA MarkStep ==
    ASSUME TypeOK, Coherent, InOrder, NEW t \in Threads, Mark(t)
    PROVE  QueueStep
<1> DEFINE c == main[t].ac  i == main[t].idx  v == main[t].verdict
<1>1. c \in AppContexts /\ i \in DOMAIN queue[c]
  BY ElementType DEF Mark
<1>2. v # "Pending"
  BY DEF Mark, InOrder
<1>3. queue[c] \in Seq(QueueElement) /\ queue[c][i] \in QueueElement
  BY <1>1, ElementOfSeq DEF TypeOK
<1>4. queue' = [queue EXCEPT ![c] = [queue[c] EXCEPT ![i] = [queue[c][i] EXCEPT !.status = v]]]
  BY DEF Mark
<1>5. \A d \in AppContexts \ {c} : queue'[d] = queue[d]
  BY <1>4 DEF TypeOK
<1>6. queue'[c] = [queue[c] EXCEPT ![i] = [queue[c][i] EXCEPT !.status = v]]
  BY <1>1, <1>4 DEF TypeOK
<1>7. DOMAIN queue'[c] = DOMAIN queue[c]
  BY <1>6
<1>8. \A j \in DOMAIN queue[c] \ {i} : queue'[c][j] = queue[c][j]
  BY <1>6, SMTT(40)
<1>9. queue'[c][i].ev = queue[c][i].ev /\ queue'[c][i].other = queue[c][i].other
      /\ queue'[c][i].status = v
  BY <1>1, <1>3, <1>6 DEF QueueElement
<1>10. \A j \in 1..(i - 1) : j \notin Pending(c)
  BY DEF Mark, InOrder
<1> QED BY <1>1, <1>2, <1>5, <1>7, <1>8, <1>9, <1>10 DEF QueueStep

\* No step removes, reorders or reopens an element of a queue.
LEMMA EveryQueueStep ==
    ASSUME TypeOK, Coherent, InOrder, [Next]_vars
    PROVE  QueueStep
<1> USE QueueUnchanged
<1>1. ASSUME NEW k \in Callers, HandlerQueue(k) PROVE QueueStep
  <2>1. /\ handler[k].ac \in AppContexts /\ handler[k].ev \in RsyncEvents
        /\ handler[k].other \in AppContexts \cup {NoContext}
        /\ handler[k].ev = "Update" => handler[k].other \in AppContexts
    BY <1>1, RequestAssumption
       DEF HandlerQueue, Coherent, TypeOK, HandlerState, RequestAssumption
  <2>2. Queueing(handler[k].ac)
    BY <1>1 DEF HandlerQueue, Queueing
  <2>3. EnqueueToAppContext(2, handler[k].ac, handler[k].ev, handler[k].other)
    BY <1>1 DEF HandlerQueue
  <2> QED BY <2>1, <2>2, <2>3, EnqueueStep
<1>2. ASSUME NEW k \in Callers, HandlerStart(k) \/ HandlerStartFails(k) PROVE QueueStep
  BY <1>2 DEF HandlerStart, HandlerStartFails, etcd
<1>3. ASSUME NEW k \in Callers, Receive(k) \/ HandlerRetry(k) PROVE QueueStep
  BY <1>3, FirstWrite DEF Receive, HandlerRetry
<1>4. ASSUME NEW t \in Threads, HandOverQueue(t) PROVE QueueStep
  <2>1. CASE main[t].ctxDone
    BY <1>4, <2>1 DEF HandOverQueue
  <2>2. CASE ~main[t].ctxDone
    <3>1. Element(t).other \in AppContexts /\ main[t].ac \in AppContexts
      BY <1>4, ReplacedType DEF HandOverQueue
    <3>2. EnqueueToAppContext(2, Element(t).other, "UpdateDelete", main[t].ac)
      BY <1>4, <2>2 DEF HandOverQueue
    <3>3. Queueing(Element(t).other)
      BY <1>4 DEF HandOverQueue, Queueing
    <3> QED BY <3>1, <3>2, <3>3, EnqueueStep DEF RsyncEvents
  <2> QED BY <2>1, <2>2
<1>12. ASSUME NEW t \in Threads, HandOver(t) PROVE QueueStep
  BY <1>12, FirstWrite DEF HandOver
<1>5. ASSUME NEW t \in Threads, MainStep(t) PROVE QueueStep
  BY <1>4, <1>5, <1>12, MarkStep
     DEF MainStep, FindNext, FindNone, Release, GiveUp, CheckIgnored, CheckUnsupported, Refuse,
         CheckSupported, EnterState, AnnounceState, Arm, LaunchOperation, LaunchAfterPhaseError,
         Launch, PodsConfirmed, PodsAbandoned, HandOverStart, Wait, WriteStatus, WriteCurrent, etcd
<1>6. ASSUME NEW t \in Threads, Routine(t) PROVE QueueStep
  BY <1>6 DEF Routine, OpenClient, OpenClientFails, HandleSkipped, Apply, ApplyFails, Delete,
              DeleteLost, ReadResource, Unreachable, RoutineFails, RoutineEnds, etcd
<1>7. ASSUME NEW t \in Threads, WatchStop(t) PROVE QueueStep
  BY <1>7 DEF WatchStop, etcd
<1>8. CASE Crash
  BY <1>8 DEF Crash, etcd
<1>9. ASSUME NEW c \in AppContexts, Restart(c) \/ RestartFails(c) PROVE QueueStep
  BY <1>9 DEF Restart, RestartFails, etcd
<1>10. CASE Environment
  BY <1>10 DEF Environment, Stop, ClearStop, PodsStart, ClusterDown, ClusterUp, etcd
<1>11. CASE UNCHANGED vars
  BY <1>11 DEF vars, etcd
<1> QED
  BY <1>1, <1>2, <1>3, <1>5, <1>6, <1>7, <1>8, <1>9, <1>10, <1>11 DEF Next, Handler

-------------------------------------------------------------------------------
(* How a step changes a thread.                                            *)

Waiting == {"pods", "handover", "handqueue", "handstart"}
Writing == {"status", "current"}

\* A thread ends, starts, goes back to its search, picks the first pending
\* element, or goes on with the element it has.
ThreadStep(t) ==
    \/ main'[t].pc = "none"
    \/ ~Live(t) /\ main'[t].pc = "find" /\ main'[t].ac \in AppContexts
    \/ Live(t) /\ main'[t].pc \in {"find", "release"} /\ main'[t].ac = main[t].ac
    \/ /\ Live(t) /\ main'[t].pc = "check" /\ main'[t].ac = main[t].ac
       /\ IsFirstPending(main[t].ac, main'[t].idx)
    \/ /\ main[t].pc \notin {"none", "find", "release"}
       /\ main'[t].ac = main[t].ac /\ main'[t].idx = main[t].idx
       /\ main'[t].pc \in Waiting => Event(t) = "Update"
       /\ main'[t].pc \in Writing => main'[t].final # "none"
       /\ main'[t].pc = "mark" => main'[t].verdict # "Pending"

\* A thread whose record changes in its cancellation bits only makes a
\* ThreadStep.
LEMMA ThreadStays ==
    ASSUME TypeOK, Coherent, InOrder, NEW t \in Threads,
           \/ main'[t] = main[t]
           \/ main'[t] = [main[t] EXCEPT !.cancelled = TRUE]
           \/ main'[t] = [main[t] EXCEPT !.ctxDone = TRUE]
    PROVE  ThreadStep(t)
<1>1. main[t] \in MainThread
  BY DEF TypeOK
<1>2. /\ main'[t].pc = main[t].pc /\ main'[t].ac = main[t].ac /\ main'[t].idx = main[t].idx
      /\ main'[t].final = main[t].final /\ main'[t].verdict = main[t].verdict
  BY <1>1 DEF MainThread
<1>3. main'[t].pc \in Waiting => Event(t) = "Update"
  BY <1>2 DEF Coherent, Waiting
<1>4. main'[t].pc \in Writing => main'[t].final # "none"
  BY <1>2 DEF Coherent, Writing
<1>5. main'[t].pc = "mark" => main'[t].verdict # "Pending"
  BY <1>2 DEF InOrder
<1> QED BY <1>2, <1>3, <1>4, <1>5 DEF ThreadStep, Live

\* A new thread looks for work on the AppContext it was started for.
LEMMA ThreadStarts ==
    ASSUME NEW c \in AppContexts
    PROVE  NewMain(c).pc = "find" /\ NewMain(c).ac = c
  BY DEF NewMain, NoMain

\* In a step of t every other thread stays as it is, except that the hand-over
\* of an update starts one.
LEMMA OwnSteps ==
    ASSUME TypeOK, Coherent, InOrder, NEW t \in Threads, MainStep(t) \/ Routine(t) \/ WatchStop(t)
    PROVE  \A u \in Threads : ThreadStep(u)
<1>0. main \in [Threads -> MainThread] /\ main[t] \in MainThread
  BY DEF TypeOK
<1>1. ASSUME NEW m, main' = [main EXCEPT ![t] = m], main'[t] = m => ThreadStep(t)
      PROVE  \A u \in Threads : ThreadStep(u)
  <2>1. main'[t] = m /\ \A u \in Threads \ {t} : main'[u] = main[u]
    BY <1>0, <1>1
  <2> QED BY <1>1, <2>1, ThreadStays
<1>2. NoMain.pc = "none"
  BY DEF NoMain
<1>3. CASE FindNext(t)
  <2>1. PICK i \in Pending(main[t].ac) :
           IsFirstPending(main[t].ac, i) /\ main' = [main EXCEPT ![t].idx = i, ![t].pc = "check"]
    BY <1>3 DEF FindNext
  <2> DEFINE m == [main[t] EXCEPT !.idx = i, !.pc = "check"]
  <2>2. main' = [main EXCEPT ![t] = m]
    BY <2>1
  <2>3. m.idx = i /\ m.pc = "check" /\ m.ac = main[t].ac
    BY <1>0 DEF MainThread
  <2>4. Live(t)
    BY <1>3 DEF FindNext, Live
  <2> HIDE DEF m
  <2> QED BY <1>1, <2>1, <2>2, <2>3, <2>4 DEF ThreadStep
<1>18. CASE FindNone(t)
  <2> DEFINE m == [main[t] EXCEPT !.pc = "release"]
  <2>1. main' = [main EXCEPT ![t] = m] /\ Live(t)
    BY <1>18 DEF FindNone, Live
  <2>2. m.pc = "release" /\ m.ac = main[t].ac
    BY <1>0 DEF MainThread
  <2> HIDE DEF m
  <2> QED BY <1>1, <2>1, <2>2 DEF ThreadStep
<1>4. CASE Release(t) \/ GiveUp(t) \/ PodsAbandoned(t)
  <2>1. main' = [main EXCEPT ![t] = NoMain]
    BY <1>4 DEF Release, GiveUp, PodsAbandoned, Exit
  <2> QED BY <1>1, <1>2, <2>1 DEF ThreadStep
<1>5. CASE CheckIgnored(t) \/ CheckUnsupported(t)
  <2>1. PICK final : Refuse(t, final)
    BY <1>5 DEF CheckIgnored, CheckUnsupported
  <2>2. main[t].pc = "check"
    BY <1>5 DEF CheckIgnored, CheckUnsupported
  <2> DEFINE m == [main[t] EXCEPT !.pc = "mark", !.verdict = "Skip", !.final = final]
  <2>3. main' = [main EXCEPT ![t] = m]
    BY <2>1 DEF Refuse
  <2>4. m.pc = "mark" /\ m.verdict = "Skip" /\ m.ac = main[t].ac /\ m.idx = main[t].idx
    BY <1>0 DEF MainThread
  <2> HIDE DEF m
  <2> QED BY <1>1, <2>2, <2>3, <2>4 DEF ThreadStep, Waiting, Writing
<1>6. CASE CheckSupported(t) \/ EnterState(t) \/ AnnounceState(t)
  <2>1. PICK pc \in {"enter", "announce", "arm"} :
           /\ main' = [main EXCEPT ![t].pc = pc]
           /\ main[t].pc \in {"check", "enter", "announce"}
    BY <1>6 DEF CheckSupported, EnterState, AnnounceState
  <2> DEFINE m == [main[t] EXCEPT !.pc = pc]
  <2>2. main' = [main EXCEPT ![t] = m]
    BY <2>1
  <2>3. m.pc = pc /\ m.ac = main[t].ac /\ m.idx = main[t].idx
    BY <1>0 DEF MainThread
  <2> HIDE DEF m
  <2> QED BY <1>1, <2>1, <2>2, <2>3 DEF ThreadStep, Waiting, Writing
<1>7. CASE Arm(t)
  <2> DEFINE m == [main[t] EXCEPT !.pc = "phase", !.failed = FALSE, !.cancelled = main[t].ctxDone]
  <2>1. main' = [main EXCEPT ![t] = m] /\ main[t].pc = "arm"
    BY <1>7 DEF Arm
  <2>2. m.pc = "phase" /\ m.ac = main[t].ac /\ m.idx = main[t].idx
    BY <1>0 DEF MainThread
  <2> HIDE DEF m
  <2> QED BY <1>1, <2>1, <2>2 DEF ThreadStep, Waiting, Writing
<1>8. CASE LaunchOperation(t) \/ LaunchAfterPhaseError(t)
  <2>1. PICK op, skipped : Launch(t, op, skipped)
    BY <1>8 DEF LaunchOperation, LaunchAfterPhaseError
  <2>2. main[t].pc = "phase"
    BY <1>8 DEF LaunchOperation, LaunchAfterPhaseError
  <2> DEFINE pc == IF Event(t) = "Update" THEN "pods" ELSE "wait"
             m == [main[t] EXCEPT !.op = op, !.todo = Manifest[main[t].ac] \ skipped, !.open = {},
                                  !.await = Manifest[main[t].ac], !.pc = pc]
  <2>3. main' = [main EXCEPT ![t] = m]
    BY <2>1 DEF Launch
  <2>4. m.pc = pc /\ m.ac = main[t].ac /\ m.idx = main[t].idx
    BY <1>0 DEF MainThread
  <2> HIDE DEF m
  <2> QED BY <1>1, <2>2, <2>3, <2>4 DEF ThreadStep, Waiting, Writing
<1>9. CASE PodsConfirmed(t)
  <2>1. PICK p \in main[t].await :
           main' = [main EXCEPT ![t].await = @ \ {p},
                        ![t].pc = IF main[t].await = {p} THEN "handover" ELSE "pods"]
    BY <1>9 DEF PodsConfirmed
  <2> DEFINE pc == IF main[t].await = {p} THEN "handover" ELSE "pods"
             m == [main[t] EXCEPT !.await = @ \ {p}, !.pc = pc]
  <2>2. main' = [main EXCEPT ![t] = m]
    BY <2>1
  <2>3. m.pc = pc /\ m.ac = main[t].ac /\ m.idx = main[t].idx
    BY <1>0 DEF MainThread
  <2>4. main[t].pc = "pods" /\ Event(t) = "Update"
    BY <1>9 DEF PodsConfirmed, Coherent
  <2> HIDE DEF m
  <2> QED BY <1>1, <2>2, <2>3, <2>4 DEF ThreadStep, Writing
<1>10. CASE HandOver(t) \/ HandOverQueue(t)
  <2>1. PICK pc \in {"wait", "handqueue", "handstart"} : main' = [main EXCEPT ![t].pc = pc]
    BY <1>10 DEF HandOver, HandOverQueue
  <2> DEFINE m == [main[t] EXCEPT !.pc = pc]
  <2>2. main' = [main EXCEPT ![t] = m]
    BY <2>1
  <2>3. m.pc = pc /\ m.ac = main[t].ac /\ m.idx = main[t].idx
    BY <1>0 DEF MainThread
  <2>4. main[t].pc \in {"handover", "handqueue"} /\ Event(t) = "Update"
    BY <1>10 DEF HandOver, HandOverQueue, Coherent
  <2> HIDE DEF m
  <2> QED BY <1>1, <2>1, <2>2, <2>3, <2>4 DEF ThreadStep, Writing
<1>11. CASE HandOverStart(t)
  <2> DEFINE m == [main[t] EXCEPT !.pc = "wait"]
             old == Element(t).other
  <2>1. m.pc = "wait" /\ m.ac = main[t].ac /\ m.idx = main[t].idx
    BY <1>0 DEF MainThread
  <2>2. main[t].pc = "handstart" /\ Event(t) = "Update"
    BY <1>11 DEF HandOverStart, Coherent
  <2>3. old \in AppContexts
    <3>1. main[t].ac \in AppContexts /\ main[t].idx \in DOMAIN queue[main[t].ac]
      BY <2>2, ElementType
    <3> QED BY <2>2, <3>1 DEF Coherent, Event, Element
  <2>4. main'[t] = m => ThreadStep(t)
    <3> HIDE DEF m
    <3> QED BY <2>1, <2>2 DEF ThreadStep, Waiting, Writing
  <2>5. CASE main' = [main EXCEPT ![t].pc = "wait"]
    <3>1. main' = [main EXCEPT ![t] = m]
      BY <2>5
    <3> HIDE DEF m
    <3> QED BY <1>1, <2>4, <3>1
  <2>6. ASSUME NEW u \in Threads, ~Live(u),
               main' = [main EXCEPT ![t].pc = "wait", ![u] = NewMain(old)]
        PROVE  \A w \in Threads : ThreadStep(w)
    <3>1. t # u
      BY <2>2, <2>6 DEF Live
    <3>2. main'[t] = m /\ main'[u] = NewMain(old)
          /\ \A w \in Threads \ {t, u} : main'[w] = main[w]
      BY <1>0, <2>6, <3>1
    <3>3. ThreadStep(u)
      BY <2>3, <2>6, <3>2, ThreadStarts DEF ThreadStep
    <3> QED BY <2>4, <3>2, <3>3, ThreadStays
  <2> QED BY <1>11, <2>5, <2>6 DEF HandOverStart
<1>12. CASE Wait(t)
  <2> DEFINE v == IF main[t].failed THEN "Error" ELSE "Done"
             m == [main[t] EXCEPT !.pc = "mark", !.verdict = v, !.final = ErrorState(Event(t))]
  <2>1. main' = [main EXCEPT ![t] = m] /\ main[t].pc = "wait"
    BY <1>12 DEF Wait
  <2>2. m.pc = "mark" /\ m.verdict = v /\ m.ac = main[t].ac /\ m.idx = main[t].idx
    BY <1>0 DEF MainThread
  <2> HIDE DEF m
  <2> QED BY <1>1, <2>1, <2>2 DEF ThreadStep, Waiting, Writing
<1>13. CASE Mark(t)
  <2> DEFINE f == FinalState(t)
             a == AfterMark(f)
             m == [main[t] EXCEPT !.final = f, !.pc = a]
  <2>1. main' = [main EXCEPT ![t] = m] /\ main[t].pc = "mark"
    BY <1>13 DEF Mark
  <2>2. m.pc = a /\ m.final = f /\ m.ac = main[t].ac /\ m.idx = main[t].idx
    <3> HIDE DEF a, f
    <3> QED BY <1>0 DEF MainThread
  <2>3. a \in {"find", "status"} /\ (a = "status" => f # "none")
    BY DEF AfterMark
  <2> HIDE DEF m, a, f
  <2> QED BY <1>1, <2>1, <2>2, <2>3 DEF ThreadStep, Waiting, Writing, Live
<1>14. CASE WriteStatus(t)
  <2> DEFINE m == [main[t] EXCEPT !.pc = "current"]
  <2>1. main' = [main EXCEPT ![t] = m] /\ main[t].pc = "status" /\ main[t].final # "none"
    BY <1>14 DEF WriteStatus, Coherent
  <2>2. m.pc = "current" /\ m.final = main[t].final /\ m.ac = main[t].ac /\ m.idx = main[t].idx
    BY <1>0 DEF MainThread
  <2> HIDE DEF m
  <2> QED BY <1>1, <2>1, <2>2 DEF ThreadStep, Waiting, Writing
<1>15. CASE WriteCurrent(t)
  <2> DEFINE m == [main[t] EXCEPT !.pc = "find"]
  <2>1. main' = [main EXCEPT ![t] = m] /\ Live(t)
    BY <1>15 DEF WriteCurrent, Live
  <2>2. m.pc = "find" /\ m.ac = main[t].ac
    BY <1>0 DEF MainThread
  <2> HIDE DEF m
  <2> QED BY <1>1, <2>1, <2>2 DEF ThreadStep
<1>16. CASE Routine(t)
  <2>1. PICK m : main' = [main EXCEPT ![t] = m] /\ Operating(t)
                 /\ m.pc = main[t].pc /\ m.ac = main[t].ac /\ m.idx = main[t].idx
    <3>1. \A p : /\ Drop(t, p).pc = main[t].pc /\ Drop(t, p).ac = main[t].ac
                 /\ Drop(t, p).idx = main[t].idx
      BY <1>0 DEF Drop, MainThread
    <3>2. \A p : LET d == [Drop(t, p) EXCEPT !.failed = TRUE, !.cancelled = TRUE]
                 IN  d.pc = main[t].pc /\ d.ac = main[t].ac /\ d.idx = main[t].idx
      BY <3>1, DropType DEF MainThread
    <3>3. \A p : LET d == [main[t] EXCEPT !.todo = @ \ {p}, !.open = @ \cup {p}]
                 IN  d.pc = main[t].pc /\ d.ac = main[t].ac /\ d.idx = main[t].idx
      BY <1>0 DEF MainThread
    <3>4. ASSUME NEW p \in Placements, OpenClient(t, p)
          PROVE  main' = [main EXCEPT ![t] = [main[t] EXCEPT !.todo = @ \ {p}, !.open = @ \cup {p}]]
      BY <3>4 DEF OpenClient
    <3>5. \E p \in Placements : OpenClient(t, p) \/ RoutineFails(t, p) \/ RoutineEnds(t, p)
      BY <1>16 DEF Routine, OpenClientFails, HandleSkipped, Apply, ApplyFails, Delete,
                   DeleteLost, ReadResource, Unreachable
    <3>6. Operating(t)
      BY <1>16 DEF Routine, OpenClient, OpenClientFails, HandleSkipped, Apply, ApplyFails, Delete,
                   DeleteLost, ReadResource, Unreachable
    <3>7. PICK p \in Placements : OpenClient(t, p) \/ RoutineFails(t, p) \/ RoutineEnds(t, p)
      BY <3>5
    <3>8. CASE OpenClient(t, p)
      <4> DEFINE d == [main[t] EXCEPT !.todo = @ \ {p}, !.open = @ \cup {p}]
      <4>1. main' = [main EXCEPT ![t] = d]
        BY <3>4, <3>8
      <4>2. d.pc = main[t].pc /\ d.ac = main[t].ac /\ d.idx = main[t].idx
        BY <3>3
      <4> HIDE DEF d
      <4> QED BY <3>6, <4>1, <4>2
    <3>9. CASE RoutineFails(t, p)
      BY <3>2, <3>6, <3>9 DEF RoutineFails
    <3>10. CASE RoutineEnds(t, p)
      BY <3>1, <3>6, <3>10 DEF RoutineEnds
    <3> QED BY <3>7, <3>8, <3>9, <3>10
  <2>2. main[t].pc \in Waiting \cup {"wait"}
    BY <2>1 DEF Operating, Waiting
  <2>3. main[t].pc \in Waiting => Event(t) = "Update"
    BY DEF Coherent, Waiting
  <2> QED BY <1>1, <2>1, <2>2, <2>3 DEF ThreadStep, Waiting, Writing
<1>17. CASE WatchStop(t)
  <2>1. main' = [main EXCEPT ![t] = [main[t] EXCEPT !.ctxDone = TRUE]]
    BY <1>17 DEF WatchStop
  <2> QED BY <1>1, <2>1, ThreadStays
<1> QED
  BY <1>3, <1>4, <1>5, <1>6, <1>7, <1>8, <1>9, <1>10, <1>11, <1>12, <1>13, <1>14, <1>15, <1>16,
     <1>17, <1>18
     DEF MainStep

\* Whoever moves, every thread makes a ThreadStep.
LEMMA EveryThreadStep ==
    ASSUME TypeOK, Coherent, InOrder, [Next]_vars
    PROVE  \A u \in Threads : ThreadStep(u)
<1>0. main \in [Threads -> MainThread]
  BY DEF TypeOK
<1>1. ASSUME NEW c \in AppContexts, NEW t \in Threads, StartMainThread(c, t)
      PROVE  \A u \in Threads : ThreadStep(u)
  <2>1. main'[t] = NewMain(c) /\ \A u \in Threads \ {t} : main'[u] = main[u]
    BY <1>0, <1>1 DEF StartMainThread
  <2>2. ThreadStep(t)
    BY <1>1, <2>1, ThreadStarts DEF ThreadStep, StartMainThread
  <2> QED BY <2>1, <2>2, ThreadStays
<1>2. ASSUME NEW c, Interrupt(c) PROVE \A u \in Threads : ThreadStep(u)
  BY <1>0, <1>2, ThreadStays DEF Interrupt
<1>3. ASSUME UNCHANGED main PROVE \A u \in Threads : ThreadStep(u)
  BY <1>3, ThreadStays
<1>4. ASSUME NEW k \in Callers, HandlerStart(k) PROVE \A u \in Threads : ThreadStep(u)
  <2>1. handler[k].ac \in AppContexts
    BY <1>4 DEF HandlerStart, Coherent
  <2> QED BY <1>1, <1>2, <1>3, <1>4, <2>1 DEF HandlerStart, StartOrInterrupt
<1>5. ASSUME NEW k \in Callers,
             Receive(k) \/ HandlerQueue(k) \/ HandlerStartFails(k) \/ HandlerRetry(k)
      PROVE  \A u \in Threads : ThreadStep(u)
  BY <1>3, <1>5 DEF Receive, HandlerQueue, HandlerStartFails, HandlerRetry
<1>6. CASE Crash
  <2>1. \A u \in Threads : main'[u].pc = "none"
    BY <1>6 DEF Crash, NoMain
  <2> QED BY <2>1 DEF ThreadStep
<1>7. ASSUME NEW c \in AppContexts, Restart(c) \/ RestartFails(c)
      PROVE  \A u \in Threads : ThreadStep(u)
  BY <1>1, <1>3, <1>7 DEF Restart, RestartFails
<1>8. CASE Environment
  BY <1>3, <1>8 DEF Environment, Stop, ClearStop, PodsStart, ClusterDown, ClusterUp, memory
<1>9. CASE UNCHANGED vars
  BY <1>3, <1>9 DEF vars, memory
<1> QED
  BY <1>4, <1>5, <1>6, <1>7, <1>8, <1>9, OwnSteps DEF Next, Handler

-------------------------------------------------------------------------------
(* The parts of the invariant.                                             *)

\* The handlers change in their own steps, and a crash ends them.
LEMMA HandlersStay ==
    ASSUME [Next]_vars
    PROVE  UNCHANGED handler \/ Crash \/ \E k \in Callers : Handler(k)
<1>1. ASSUME NEW t \in Threads, MainStep(t) \/ Routine(t) \/ WatchStop(t) PROVE UNCHANGED handler
  BY <1>1
     DEF MainStep, FindNext, FindNone, Release, GiveUp, CheckIgnored, CheckUnsupported, Refuse,
         CheckSupported, EnterState, AnnounceState, Arm, LaunchOperation, LaunchAfterPhaseError,
         Launch, PodsConfirmed, PodsAbandoned, HandOver, HandOverQueue, HandOverStart, Wait, Mark,
         WriteStatus, WriteCurrent, Routine, OpenClient, OpenClientFails, HandleSkipped, Apply,
         ApplyFails, Delete, DeleteLost, ReadResource, Unreachable, RoutineFails, RoutineEnds,
         WatchStop
<1>2. ASSUME NEW c \in AppContexts, Restart(c) \/ RestartFails(c) PROVE UNCHANGED handler
  BY <1>2 DEF Restart, RestartFails
<1>3. CASE Environment
  BY <1>3 DEF Environment, Stop, ClearStop, PodsStart, ClusterDown, ClusterUp, memory
<1>4. CASE UNCHANGED vars
  BY <1>4 DEF vars, memory
<1> QED BY <1>1, <1>2, <1>3, <1>4 DEF Next

\* No step breaks the tie between threads, handlers and queue elements that
\* Coherent states.
LEMMA CoherentInductive ==
    ASSUME TypeOK, Coherent, InOrder, [Next]_vars
    PROVE  Coherent'
<1>1. QueueStep /\ \A u \in Threads : ThreadStep(u)
  BY EveryQueueStep, EveryThreadStep
<1>2. \A c \in AppContexts : \A i \in DOMAIN queue'[c] :
          queue'[c][i].ev = "Update" => queue'[c][i].other \in AppContexts
  BY <1>1 DEF QueueStep, Coherent
<1>3. \A t \in Threads : main'[t].pc # "none" => main'[t].ac \in AppContexts
  BY <1>1 DEF ThreadStep, Coherent, Live
<1>4. ASSUME NEW t \in Threads, main'[t].pc \notin {"none", "find", "release"}
      PROVE  main'[t].idx \in DOMAIN queue'[main'[t].ac]
  <2>1. main[t].pc # "none" /\ main'[t].ac = main[t].ac /\ main[t].ac \in AppContexts
    BY <1>1, <1>4 DEF ThreadStep, Coherent, Live
  <2>2. main'[t].idx \in DOMAIN queue[main[t].ac]
    BY <1>1, <1>4 DEF ThreadStep, Coherent, IsFirstPending, Pending, Live
  <2> QED BY <1>1, <2>1, <2>2 DEF QueueStep
<1>5. ASSUME NEW t \in Threads, main'[t].pc \in Waiting PROVE Event(t)' = "Update"
  <2>1. /\ main[t].pc \notin {"none", "find", "release"} /\ main'[t].ac = main[t].ac
        /\ main'[t].idx = main[t].idx /\ Event(t) = "Update"
    BY <1>1, <1>5 DEF ThreadStep, Waiting
  <2>2. main[t].ac \in AppContexts /\ main[t].idx \in DOMAIN queue[main[t].ac]
    BY <2>1, ElementType
  <2> QED BY <1>1, <2>1, <2>2 DEF QueueStep, Event, Element
<1>6. \A t \in Threads : main'[t].pc \in Writing => main'[t].final # "none"
  BY <1>1 DEF ThreadStep, Writing
<1> DEFINE Asked(h) == \/ h.ev = "Terminate"
                       \/ \E r \in Requests : r.ev = h.ev /\ r.ac = h.ac /\ r.other = h.other
           Sound(h) == /\ h.pc # "idle" => h.ac \in AppContexts
                       /\ h.pc = "retry" => h.ev = "Terminate"
                       /\ h.pc = "queue" => Asked(h)
<1>7. \A k \in Callers : Sound(handler'[k])
  <2>1. ASSUME UNCHANGED handler
        PROVE  \A k \in Callers : Sound(handler'[k])
    BY <2>1 DEF Coherent
  <2>2. ASSUME NEW k \in Callers, Handler(k)
        PROVE  \A j \in Callers : Sound(handler'[j])
    <3>0. handler[k] \in HandlerState /\ Sound(handler[k])
      BY DEF TypeOK, Coherent
    <3>1. \E h : handler' = [handler EXCEPT ![k] = h] /\ Sound(h)
      <4>1. CASE Receive(k)
        <5>1. PICK r \in outbox :
                 handler' = [handler EXCEPT ![k] =
                               [pc |-> "queue", ev |-> r.ev, ac |-> r.ac, other |-> r.other]]
          BY <4>1 DEF Receive
        <5> DEFINE h == [pc |-> "queue", ev |-> r.ev, ac |-> r.ac, other |-> r.other]
        <5>2. r.ac \in AppContexts /\ r \in Requests
          BY <5>1, RequestAssumption DEF RequestAssumption, TypeOK, Request
        <5>3. h.pc = "queue" /\ h.ev = r.ev /\ h.ac = r.ac /\ h.other = r.other
          OBVIOUS
        <5> HIDE DEF h
        <5>4. Sound(h)
          BY <5>2, <5>3
        <5> QED BY <5>1, <5>4 DEF h
      <4>2. CASE HandlerStart(k)
        <5>1. handler' = [handler EXCEPT ![k] = NoHandler]
          BY <4>2 DEF HandlerStart
        <5>2. NoHandler.pc = "idle"
          BY DEF NoHandler
        <5> QED BY <5>1, <5>2
      <4>3. CASE HandlerStartFails(k)
        <5> DEFINE r == [pc |-> "retry", ev |-> "Terminate", ac |-> handler[k].ac,
                         other |-> NoContext]
        <5>1. handler' = [handler EXCEPT ![k] = r] \/ handler' = [handler EXCEPT ![k] = NoHandler]
          BY <4>3 DEF HandlerStartFails
        <5>2. r.pc = "retry" /\ r.ev = "Terminate" /\ r.ac \in AppContexts /\ NoHandler.pc = "idle"
          BY <4>3 DEF HandlerStartFails, NoHandler, Coherent
        <5> HIDE DEF r
        <5> QED BY <5>1, <5>2
      <4>4. CASE HandlerRetry(k)
        <5> DEFINE r == [handler[k] EXCEPT !.pc = "queue"]
        <5>1. r.pc = "queue" /\ r.ac = handler[k].ac /\ r.ev = handler[k].ev
          BY <3>0 DEF HandlerState
        <5>2. handler' = [handler EXCEPT ![k] = r]
          BY <4>4 DEF HandlerRetry
        <5>3. handler[k].ac \in AppContexts /\ handler[k].ev = "Terminate"
          BY <4>4 DEF HandlerRetry, Coherent
        <5> HIDE DEF r
        <5> QED BY <5>1, <5>2, <5>3
      <4>5. CASE HandlerQueue(k)
        <5> DEFINE r == [handler[k] EXCEPT !.pc = "start"]
        <5>1. r.pc = "start" /\ r.ac = handler[k].ac
          BY <3>0 DEF HandlerState
        <5>2. handler' = [handler EXCEPT ![k] = r]
          BY <4>5 DEF HandlerQueue
        <5>3. handler[k].ac \in AppContexts
          BY <4>5 DEF HandlerQueue, Coherent
        <5> HIDE DEF r
        <5> QED BY <5>1, <5>2, <5>3
      <4> QED BY <2>2, <4>1, <4>2, <4>3, <4>4, <4>5 DEF Handler
    <3> QED BY <3>1 DEF TypeOK, Coherent
  <2>3. CASE Crash
    BY <2>3 DEF Crash, NoHandler
  <2> QED BY <2>1, <2>2, <2>3, HandlersStay
<1> QED BY <1>2, <1>3, <1>4, <1>5, <1>6, <1>7 DEF Coherent, Live, Waiting, Writing

\* No step leaves a pending element in front of one that a thread handles.
LEMMA InOrderInductive ==
    ASSUME TypeOK, Coherent, InOrder, [Next]_vars
    PROVE  InOrder'
<1>1. QueueStep /\ \A u \in Threads : ThreadStep(u)
  BY EveryQueueStep, EveryThreadStep
<1>2. ASSUME NEW t \in Threads, main'[t].pc \notin {"none", "find", "release"},
             NEW j \in 1..(main'[t].idx - 1)
      PROVE  j \notin Pending(main[t].ac)'
  <2>1. main[t].pc # "none" /\ main'[t].ac = main[t].ac /\ main[t].ac \in AppContexts
    BY <1>1, <1>2 DEF ThreadStep, Coherent, Live
  <2>2. main'[t].idx \in DOMAIN queue[main[t].ac]
    BY <1>1, <1>2 DEF ThreadStep, Coherent, IsFirstPending, Pending, Live
  <2>3. DOMAIN queue[main[t].ac] = 1..Len(queue[main[t].ac]) /\ Len(queue[main[t].ac]) \in Nat
    BY <2>1, LenProperties DEF TypeOK
  <2>4. j \in DOMAIN queue[main[t].ac]
    BY <2>2, <2>3
  <2>5. j \notin Pending(main[t].ac)
    <3>1. CASE main[t].pc \notin {"none", "find", "release"} /\ main'[t].idx = main[t].idx
      BY <1>2, <3>1 DEF InOrder
    <3>2. CASE IsFirstPending(main[t].ac, main'[t].idx)
      BY <1>2, <2>2, <2>3, <3>2 DEF IsFirstPending
    <3> QED BY <1>1, <1>2, <3>1, <3>2 DEF ThreadStep
  <2> QED BY <1>1, <2>1, <2>4, <2>5 DEF QueueStep, Pending
<1>3. \A t \in Threads : main'[t].pc = "mark" => main'[t].verdict # "Pending"
  BY <1>1 DEF ThreadStep
<1>4. \A t \in Threads : main'[t].pc \notin {"none", "find", "release"} => main'[t].ac = main[t].ac
  BY <1>1 DEF ThreadStep
<1> QED BY <1>2, <1>3, <1>4 DEF InOrder, Pending

\* A step after which no thread has changed its AppContext or come to life, and
\* which leaves Running alone, keeps ThreadsAnnounced.
LEMMA AnnouncedKept ==
    ASSUME ThreadsAnnounced, UNCHANGED <<running, toRestore, crashes>>,
           \A t \in Threads : main'[t].pc # "none" => Live(t) /\ main'[t].ac = main[t].ac
    PROVE  ThreadsAnnounced'
  BY DEF ThreadsAnnounced, OneMainThread, Live

\* A thread started on an AppContext for which Running was unset, and is set now.
LEMMA AnnouncedStart ==
    ASSUME TypeOK, ThreadsAnnounced, NEW c \in AppContexts, NEW t \in Threads,
           ~running[c], SetRunning(c), UNCHANGED <<toRestore, crashes>>,
           main'[t].ac = c,
           \A u \in Threads \ {t} : main'[u].pc # "none" => Live(u) /\ main'[u].ac = main[u].ac
    PROVE  ThreadsAnnounced'
<1>1. running' = [running EXCEPT ![c] = TRUE] /\ running \in [AppContexts -> BOOLEAN]
  BY DEF SetRunning, TypeOK
<1>2. \A d \in DOMAIN running : running[d] => running'[d]
  BY <1>1
<1>3. running'[c]
  BY <1>1
<1> QED BY <1>1, <1>2, <1>3 DEF ThreadsAnnounced, OneMainThread, Live

\* The exit of a thread, which resets Running in the same critical section,
\* keeps ThreadsAnnounced: by OneMainThread nobody else relied on the flag.
LEMMA AnnouncedExit ==
    ASSUME TypeOK, ThreadsAnnounced, NEW t \in Threads, Live(t), Exit(t),
           UNCHANGED <<toRestore, crashes>>
    PROVE  ThreadsAnnounced'
<1>1. main'[t].pc = "none" /\ \A u \in Threads \ {t} : main'[u] = main[u]
  BY DEF Exit, TypeOK, NoMain
<1>2. \A d : d # main[t].ac => running'[d] = running[d]
  BY DEF Exit, TypeOK
<1> QED BY <1>1, <1>2 DEF ThreadsAnnounced, OneMainThread, Live

\* Until a crash no step starts a main thread that Running does not announce,
\* or a second one for the same AppContext.
LEMMA ThreadsAnnouncedInductive ==
    ASSUME TypeOK, Coherent, InOrder, ThreadsAnnounced, [Next]_vars
    PROVE  ThreadsAnnounced'
<1>0. main \in [Threads -> MainThread] /\ \A u \in Threads : ThreadStep(u)
  BY EveryThreadStep DEF TypeOK
<1>1. ASSUME NEW t \in Threads, Live(t), NEW m, main' = [main EXCEPT ![t] = m],
             m.pc # "none" => m.ac = main[t].ac, UNCHANGED <<running, toRestore, crashes>>
      PROVE  ThreadsAnnounced'
  <2>1. main'[t] = m /\ \A u \in Threads \ {t} : main'[u] = main[u]
    BY <1>0, <1>1
  <2> QED BY <1>1, <2>1, AnnouncedKept DEF Live
<1>2. ASSUME UNCHANGED <<main, running, toRestore, crashes>> PROVE ThreadsAnnounced'
  BY <1>2, AnnouncedKept DEF Live
<1>3. ASSUME NEW k \in Callers, HandlerStart(k) PROVE ThreadsAnnounced'
  <2> DEFINE c == handler[k].ac
  <2>1. c \in AppContexts /\ UNCHANGED <<toRestore, crashes>>
    BY <1>3 DEF HandlerStart, Coherent, world
  <2>2. ASSUME ~running[c], NEW t \in Threads, StartMainThread(c, t), SetRunning(c)
        PROVE  ThreadsAnnounced'
    <3>1. main'[t] = NewMain(c) /\ \A u \in Threads \ {t} : main'[u] = main[u]
      BY <1>0, <2>2 DEF StartMainThread
    <3>2. main'[t].ac = c
      BY <2>1, <3>1, ThreadStarts
    <3> QED BY <2>1, <2>2, <3>1, <3>2, AnnouncedStart DEF Live
  <2>3. ASSUME Interrupt(c), UNCHANGED running PROVE ThreadsAnnounced'
    <3>1. \A t \in Threads : \/ main'[t] = main[t]
                            \/ main'[t] = [main[t] EXCEPT !.cancelled = TRUE]
      BY <2>3 DEF Interrupt
    <3>2. \A t \in Threads : main'[t].pc = main[t].pc /\ main'[t].ac = main[t].ac
      BY <1>0, <3>1, ZenonT(60) DEF MainThread
    <3> QED BY <2>1, <2>3, <3>2, AnnouncedKept DEF Live
  <2> QED BY <1>2, <1>3, <2>1, <2>2, <2>3 DEF HandlerStart, StartOrInterrupt
<1>4. ASSUME NEW k \in Callers,
             Receive(k) \/ HandlerQueue(k) \/ HandlerStartFails(k) \/ HandlerRetry(k)
      PROVE  ThreadsAnnounced'
  BY <1>2, <1>4 DEF Receive, HandlerQueue, HandlerStartFails, HandlerRetry, world
<1>5. ASSUME NEW t \in Threads, Release(t) \/ GiveUp(t) PROVE ThreadsAnnounced'
  BY <1>5, AnnouncedExit DEF Release, GiveUp, Live, world
<1>6. ASSUME NEW t \in Threads, HandOverStart(t) PROVE ThreadsAnnounced'
  <2> DEFINE old == Element(t).other
             m == [main[t] EXCEPT !.pc = "wait"]
  <2>1. main[t].pc = "handstart" /\ UNCHANGED <<toRestore, crashes>>
    BY <1>6 DEF HandOverStart, world
  <2>2. m.ac = main[t].ac
    BY <1>0 DEF MainThread
  <2>3. old \in AppContexts
    <3>1. main[t].ac \in AppContexts /\ main[t].idx \in DOMAIN queue[main[t].ac] /\ Event(t) = "Update"
      BY <2>1, ElementType DEF Coherent
    <3> QED BY <3>1 DEF Coherent, Event, Element
  <2>4. ASSUME ~running[old], SetRunning(old), NEW u \in Threads, ~Live(u),
               main' = [main EXCEPT ![t].pc = "wait", ![u] = NewMain(old)]
        PROVE  ThreadsAnnounced'
    <3>1. t # u
      BY <2>1, <2>4 DEF Live
    <3>2. main'[t] = m /\ main'[u] = NewMain(old)
          /\ \A w \in Threads \ {t, u} : main'[w] = main[w]
      BY <1>0, <2>4, <3>1
    <3>3. main'[u].ac = old
      BY <2>3, <3>2, ThreadStarts
    <3>4. \A w \in Threads \ {u} : main'[w].pc # "none" => Live(w) /\ main'[w].ac = main[w].ac
      <4> HIDE DEF m
      <4> QED BY <2>1, <2>2, <3>2 DEF Live
    <3> HIDE DEF old
    <3> QED BY <2>1, <2>3, <2>4, <3>3, <3>4, AnnouncedStart
  <2>5. ASSUME main' = [main EXCEPT ![t].pc = "wait"], UNCHANGED running PROVE ThreadsAnnounced'
    <3>1. main' = [main EXCEPT ![t] = m]
      BY <2>5
    <3> HIDE DEF m
    <3> QED BY <1>1, <2>1, <2>2, <2>5, <3>1 DEF Live
  <2> QED BY <1>6, <2>4, <2>5 DEF HandOverStart
<1>7. ASSUME NEW t \in Threads, UNCHANGED <<running, toRestore, crashes>>, Live(t),
             \A u \in Threads \ {t} : main'[u] = main[u]
      PROVE  ThreadsAnnounced'
  <2>1. main'[t].pc # "none" => main'[t].ac = main[t].ac
    BY <1>0, <1>7 DEF ThreadStep
  <2> QED BY <1>7, <2>1, AnnouncedKept DEF Live
<1>8. ASSUME NEW t \in Threads, MainStep(t) PROVE ThreadsAnnounced'
  <2>1. CASE Release(t) \/ GiveUp(t) \/ HandOverStart(t)
    BY <1>5, <1>6, <2>1
  <2>2. CASE FindNext(t) \/ CheckIgnored(t) \/ CheckUnsupported(t) \/ Arm(t)
             \/ LaunchOperation(t) \/ LaunchAfterPhaseError(t)
    <3>1. UNCHANGED <<running, toRestore, crashes>> /\ Live(t)
      BY <2>2, SMTT(40) DEF FindNext, CheckIgnored, CheckUnsupported, Refuse, Arm,
                  LaunchOperation, LaunchAfterPhaseError, Launch, Live, world
    <3>2. \A u \in Threads \ {t} : main'[u] = main[u]
      BY <1>0, <2>2 DEF FindNext, CheckIgnored, CheckUnsupported, Refuse, Arm,
                        LaunchOperation, LaunchAfterPhaseError, Launch
    <3> QED BY <1>7, <3>1, <3>2
  <2>3. CASE FindNone(t) \/ CheckSupported(t) \/ EnterState(t) \/ AnnounceState(t)
    <3>1. UNCHANGED <<running, toRestore, crashes>> /\ Live(t)
      BY <2>3 DEF FindNone, CheckSupported, EnterState, AnnounceState, Live, world
    <3>2. \A u \in Threads \ {t} : main'[u] = main[u]
      BY <1>0, <2>3 DEF FindNone, CheckSupported, EnterState, AnnounceState
    <3> QED BY <1>7, <3>1, <3>2
  <2>4. CASE PodsConfirmed(t) \/ PodsAbandoned(t) \/ HandOver(t) \/ HandOverQueue(t) \/ Wait(t)
             \/ Mark(t) \/ WriteStatus(t) \/ WriteCurrent(t)
    <3>1. UNCHANGED <<running, toRestore, crashes>> /\ Live(t)
      BY <2>4 DEF PodsConfirmed, PodsAbandoned, HandOver, HandOverQueue, Wait, Mark, WriteStatus,
                  WriteCurrent, Live, world
    <3>2. \A u \in Threads \ {t} : main'[u] = main[u]
      BY <1>0, <2>4 DEF PodsConfirmed, PodsAbandoned, HandOver, HandOverQueue, Wait, Mark,
                        WriteStatus, WriteCurrent
    <3> QED BY <1>7, <3>1, <3>2
  <2> QED BY <1>8, <2>1, <2>2, <2>3, <2>4 DEF MainStep
<1>9. ASSUME NEW t \in Threads, Routine(t) PROVE ThreadsAnnounced'
  <2>1. Operating(t) /\ \E p \in Placements : OpenClient(t, p) \/ RoutineFails(t, p) \/ RoutineEnds(t, p)
    BY <1>9 DEF Routine, OpenClient, OpenClientFails, HandleSkipped, Apply, ApplyFails, Delete,
                DeleteLost, ReadResource, Unreachable
  <2>2. Live(t)
    BY <2>1 DEF Operating, Live
  <2>3. UNCHANGED <<running, toRestore, crashes>>
    BY <2>1 DEF OpenClient, RoutineFails, RoutineEnds, world
  <2>4. \A u \in Threads \ {t} : main'[u] = main[u]
    BY <1>0, <2>1 DEF OpenClient, RoutineFails, RoutineEnds
  <2> QED BY <1>7, <2>2, <2>3, <2>4
<1>10. ASSUME NEW t \in Threads, WatchStop(t) PROVE ThreadsAnnounced'
  <2>1. \A u \in Threads \ {t} : main'[u] = main[u]
    BY <1>0, <1>10 DEF WatchStop
  <2> QED BY <1>7, <1>10, <2>1 DEF WatchStop, world
<1>11. ASSUME crashes' # 0 PROVE ThreadsAnnounced'
  BY <1>11 DEF ThreadsAnnounced
<1>12. CASE Crash
  BY <1>11, <1>12, CrashAssumption DEF Crash, TypeOK, CrashAssumption
<1>13. ASSUME NEW c \in AppContexts, Restart(c) \/ RestartFails(c) PROVE ThreadsAnnounced'
  <2>1. crashes # 0
    BY <1>13 DEF Restart, RestartFails, ThreadsAnnounced
  <2> QED BY <1>11, <1>13, <2>1 DEF Restart, RestartFails, world
<1>14. CASE Environment
  BY <1>2, <1>14 DEF Environment, Stop, ClearStop, PodsStart, ClusterDown, ClusterUp, memory, world
<1>15. CASE UNCHANGED vars
  BY <1>2, <1>15 DEF vars, memory, world
<1> QED
  BY <1>3, <1>4, <1>8, <1>9, <1>10, <1>12, <1>13, <1>14, <1>15 DEF Next, Handler

-------------------------------------------------------------------------------
(* The active records, and the theorems.                                   *)

\* A record is removed only by a thread that has found nothing pending, and
\* only while nobody is between the two writes of EnqueueToAppContext.
LEMMA RecordRemoved ==
    ASSUME TypeOK, LockHeld, [Next]_vars, NEW c \in active, c \notin active'
    PROVE  Pending(c) = {} /\ ~Queueing(c) /\ queue' = queue
<1>1. ASSUME NEW k \in Callers, Handler(k) PROVE FALSE
  <2>1. active \subseteq active'
    BY <1>1, FirstWrite, SecondWrite
       DEF Handler, Receive, HandlerQueue, HandlerStart, HandlerStartFails, HandlerRetry, etcd
  <2> QED BY <2>1
<1>2. ASSUME NEW t \in Threads, Release(t) PROVE Pending(c) = {} /\ ~Queueing(c) /\ queue' = queue
  <2>1. c = main[t].ac
    BY <1>2 DEF Release
  <2> QED BY <1>2, <2>1 DEF Release, LockHeld
<1>3. ASSUME NEW t \in Threads, MainStep(t), ~Release(t) PROVE FALSE
  <2>1. CASE HandOver(t) \/ HandOverQueue(t)
    <3>1. active \subseteq active'
      BY <2>1, FirstWrite, SecondWrite DEF HandOver, HandOverQueue
    <3> QED BY <3>1
  <2>2. CASE ~HandOver(t) /\ ~HandOverQueue(t)
    BY <1>3, <2>2
       DEF MainStep, FindNext, FindNone, GiveUp, CheckIgnored, CheckUnsupported, Refuse,
           CheckSupported, EnterState, AnnounceState, Arm, LaunchOperation, LaunchAfterPhaseError,
           Launch, PodsConfirmed, PodsAbandoned, HandOverStart, Wait, Mark, WriteStatus,
           WriteCurrent, etcd
  <2> QED BY <2>1, <2>2
<1>4. ASSUME NEW t \in Threads, Routine(t) PROVE FALSE
  BY <1>4 DEF Routine, OpenClient, OpenClientFails, HandleSkipped, Apply, ApplyFails, Delete,
              DeleteLost, ReadResource, Unreachable, RoutineFails, RoutineEnds, etcd
<1>5. ASSUME NEW t \in Threads, WatchStop(t) PROVE FALSE
  BY <1>5 DEF WatchStop, etcd
<1>6. ~Crash /\ \A d \in AppContexts : ~Restart(d) /\ ~RestartFails(d)
  BY DEF Crash, Restart, RestartFails, etcd
<1>7. ~Environment
  BY DEF Environment, Stop, ClearStop, PodsStart, ClusterDown, ClusterUp, etcd
<1>8. ~UNCHANGED vars
  BY DEF vars, etcd
<1> QED
  BY <1>1, <1>2, <1>3, <1>4, <1>5, <1>6, <1>7, <1>8 DEF Next

\* No step leaves an AppContext with pending events and without a record.
LEMMA PendingIsActiveInductive ==
    ASSUME TypeOK, Coherent, InOrder, PendingIsActive, LockHeld, [Next]_vars
    PROVE  PendingIsActive'
<1>1. QueueStep
  BY EveryQueueStep
<1>2. ASSUME NEW c \in AppContexts, NEW i \in DOMAIN queue'[c],
             queue'[c][i].status = "Pending", c \notin active'
      PROVE  FALSE
  <2>1. c \in active
    <3>1. CASE i \in DOMAIN queue[c]
      BY <1>1, <1>2, <3>1 DEF QueueStep, Pending, PendingIsActive
    <3>2. CASE i \notin DOMAIN queue[c]
      BY <1>1, <1>2, <3>2 DEF QueueStep, Queueing, LockHeld
    <3> QED BY <3>1, <3>2
  <2>2. Pending(c) = {} /\ queue' = queue
    BY <1>2, <2>1, RecordRemoved
  <2> QED BY <1>2, <2>2 DEF Pending
<1> QED BY <1>2 DEF PendingIsActive, Pending

\* A handler takes the lock when it is free, and has recorded its AppContext.
LEMMA HandlerTakes ==
    ASSUME TypeOK, [Next]_vars, NEW k \in Callers, handler'[k].pc = "queue",
           handler'[k] # handler[k]
    PROVE  handler'[k].ac \in active' /\ ~Locked(handler'[k].ac)
<1>0. handler \in [Callers -> HandlerState] /\ NoHandler.pc = "idle"
  BY DEF TypeOK, NoHandler
<1>1. ASSUME NEW j \in Callers, NEW h, handler' = [handler EXCEPT ![j] = h]
      PROVE  j = k /\ handler'[k] = h
  BY <1>0, <1>1
<1>2. PICK j \in Callers : Handler(j)
  BY <1>0, HandlersStay DEF Crash
<1>3. CASE Receive(j)
  <2>1. PICK r \in outbox :
           /\ ~Locked(r.ac) /\ EnqueueToAppContext(1, r.ac, r.ev, r.other)
           /\ handler' = [handler EXCEPT ![j] =
                            [pc |-> "queue", ev |-> r.ev, ac |-> r.ac, other |-> r.other]]
    BY <1>3 DEF Receive
  <2>2. handler'[k].ac = r.ac
    BY <1>1, <2>1
  <2> QED BY <2>1, <2>2, FirstWrite
<1>4. CASE HandlerRetry(j)
  <2> DEFINE h == [handler[j] EXCEPT !.pc = "queue"]
  <2>1. handler' = [handler EXCEPT ![j] = h]
    BY <1>4 DEF HandlerRetry
  <2>2. h.ac = handler[j].ac
    BY <1>0 DEF HandlerState
  <2> HIDE DEF h
  <2>3. handler'[k].ac = handler[j].ac
    BY <1>1, <2>1, <2>2
  <2> QED BY <1>4, <2>3, FirstWrite DEF HandlerRetry
<1>5. CASE HandlerQueue(j)
  <2> DEFINE h == [handler[j] EXCEPT !.pc = "start"]
  <2>1. handler' = [handler EXCEPT ![j] = h]
    BY <1>5 DEF HandlerQueue
  <2>2. h.pc = "start"
    BY <1>0 DEF HandlerState
  <2> HIDE DEF h
  <2> QED BY <1>1, <2>1, <2>2
<1>6. CASE HandlerStart(j)
  BY <1>0, <1>1, <1>6 DEF HandlerStart
<1>7. CASE HandlerStartFails(j)
  <2> DEFINE h == [pc |-> "retry", ev |-> "Terminate", ac |-> handler[j].ac, other |-> NoContext]
  <2>1. handler' = [handler EXCEPT ![j] = h] \/ handler' = [handler EXCEPT ![j] = NoHandler]
    BY <1>7 DEF HandlerStartFails
  <2>2. h.pc = "retry"
    OBVIOUS
  <2> HIDE DEF h
  <2> QED BY <1>0, <1>1, <2>1, <2>2
<1> QED BY <1>2, <1>3, <1>4, <1>5, <1>6, <1>7 DEF Handler

\* A handler comes to queue an event by recording its AppContext.
LEMMA HandlerComes ==
    ASSUME TypeOK, [Next]_vars, NEW k \in Callers, handler'[k].pc = "queue",
           handler'[k] # handler[k]
    PROVE  \/ HandlerRetry(k)
           \/ /\ Receive(k) /\ UNCHANGED queue
              /\ \E r \in outbox : /\ Allowed(r)
                                   /\ handler' = [handler EXCEPT ![k] =
                                        [pc |-> "queue", ev |-> r.ev, ac |-> r.ac,
                                         other |-> r.other]]
<1>0. handler \in [Callers -> HandlerState] /\ NoHandler.pc = "idle"
  BY DEF TypeOK, NoHandler
<1>1. PICK j \in Callers : Handler(j)
  BY <1>0, HandlersStay DEF Crash
<1>2. \E h : handler' = [handler EXCEPT ![j] = h]
  <2>1. CASE Receive(j)
    BY <2>1 DEF Receive
  <2>2. CASE HandlerQueue(j)
    BY <2>2 DEF HandlerQueue
  <2>3. CASE HandlerStart(j) \/ HandlerStartFails(j) \/ HandlerRetry(j)
    BY <2>3 DEF HandlerStart, HandlerStartFails, HandlerRetry
  <2> QED BY <1>1, <2>1, <2>2, <2>3 DEF Handler
<1>3. PICK h : handler' = [handler EXCEPT ![j] = h]
  BY <1>2
<1>4. j = k /\ handler'[k] = h
  BY <1>0, <1>3
<1>5. ~HandlerQueue(k)
  <2> SUFFICES ASSUME HandlerQueue(k) PROVE FALSE
    OBVIOUS
  <2> DEFINE g == [handler[k] EXCEPT !.pc = "start"]
  <2>1. handler'[k] = g
    BY <1>0 DEF HandlerQueue
  <2>2. g.pc = "start"
    BY <1>0 DEF HandlerState
  <2> HIDE DEF g
  <2> QED BY <2>1, <2>2
<1>6. ~HandlerStart(k)
  BY <1>0 DEF HandlerStart
<1>7. ~HandlerStartFails(k)
  <2> SUFFICES ASSUME HandlerStartFails(k) PROVE FALSE
    OBVIOUS
  <2> DEFINE g == [pc |-> "retry", ev |-> "Terminate", ac |-> handler[k].ac, other |-> NoContext]
  <2>1. handler'[k] = g \/ handler'[k] = NoHandler
    BY <1>0 DEF HandlerStartFails
  <2>2. g.pc = "retry"
    OBVIOUS
  <2> HIDE DEF g
  <2> QED BY <1>0, <2>1, <2>2
<1>8. CASE Receive(k)
  <2>1. PICK r \in outbox :
           /\ Allowed(r) /\ EnqueueToAppContext(1, r.ac, r.ev, r.other)
           /\ handler' = [handler EXCEPT ![k] =
                            [pc |-> "queue", ev |-> r.ev, ac |-> r.ac, other |-> r.other]]
    BY <1>8 DEF Receive
  <2>2. UNCHANGED queue
    BY <2>1, FirstWrite
  <2> QED BY <1>8, <2>1, <2>2
<1> QED BY <1>1, <1>4, <1>5, <1>6, <1>7, <1>8 DEF Handler

\* A thread comes to hold a lock over two writes only by its own HandOver or
\* FindNone.
LEMMA ThreadTakes ==
    ASSUME TypeOK, [Next]_vars, NEW u \in Threads,
           main'[u].pc \in {"handqueue", "release"}, main'[u].pc # main[u].pc
    PROVE  HandOver(u) \/ FindNone(u)
<1>0. main \in [Threads -> MainThread]
  BY DEF TypeOK
<1>1. ASSUME NEW t \in Threads, NEW m, main' = [main EXCEPT ![t] = m]
      PROVE  t = u /\ main'[u] = m
  BY <1>0, <1>1
<1>2. ASSUME NEW t \in Threads, NEW pc, main' = [main EXCEPT ![t].pc = pc]
      PROVE  t = u /\ main'[u].pc = pc
  <2> DEFINE m == [main[t] EXCEPT !.pc = pc]
  <2>1. main' = [main EXCEPT ![t] = m]
    BY <1>2
  <2>2. m.pc = pc
    BY <1>0 DEF MainThread
  <2> HIDE DEF m
  <2> QED BY <1>1, <2>1, <2>2
<1>3. \A c : NewMain(c).pc = "find" /\ NoMain.pc = "none"
  BY DEF NewMain, NoMain
<1>4. ASSUME NEW t \in Threads, MainStep(t) PROVE HandOver(u) \/ FindNone(u)
  <2>1. CASE FindNone(t) \/ HandOver(t)
    <3>1. \E pc : main' = [main EXCEPT ![t].pc = pc]
      BY <2>1 DEF FindNone, HandOver
    <3> QED BY <1>2, <2>1, <3>1
  <2>2. CASE Release(t) \/ GiveUp(t) \/ PodsAbandoned(t)
    BY <1>1, <1>3, <2>2 DEF Release, GiveUp, Exit, PodsAbandoned
  <2>3. CASE CheckSupported(t) \/ EnterState(t) \/ AnnounceState(t) \/ HandOverQueue(t)
             \/ WriteStatus(t) \/ WriteCurrent(t)
    <3>1. \E pc \in {"enter", "announce", "arm", "handstart", "current", "find"} :
             main' = [main EXCEPT ![t].pc = pc]
      BY <2>3 DEF CheckSupported, EnterState, AnnounceState, HandOverQueue, WriteStatus, WriteCurrent
    <3> QED BY <1>2, <3>1
  <2>4. CASE FindNext(t)
    <3>1. PICK i : main' = [main EXCEPT ![t].idx = i, ![t].pc = "check"]
      BY <2>4 DEF FindNext
    <3> QED BY <1>0, <3>1 DEF MainThread
  <2>5. CASE CheckIgnored(t) \/ CheckUnsupported(t)
    <3>1. PICK final : Refuse(t, final)
      BY <2>5 DEF CheckIgnored, CheckUnsupported
    <3> QED BY <1>0, <3>1 DEF Refuse, MainThread
  <2>6. CASE Arm(t)
    BY <1>0, <2>6 DEF Arm, MainThread
  <2>7. CASE LaunchOperation(t) \/ LaunchAfterPhaseError(t)
    <3>1. PICK op, skipped : Launch(t, op, skipped)
      BY <2>7 DEF LaunchOperation, LaunchAfterPhaseError
    <3> QED BY <1>0, <3>1 DEF Launch, MainThread
  <2>8. CASE PodsConfirmed(t)
    <3>1. PICK p : main' = [main EXCEPT ![t].await = @ \ {p},
                        ![t].pc = IF main[t].await = {p} THEN "handover" ELSE "pods"]
      BY <2>8 DEF PodsConfirmed
    <3> QED BY <1>0, <3>1 DEF MainThread
  <2>9. CASE HandOverStart(t)
    <3>1. CASE main' = [main EXCEPT ![t].pc = "wait"]
      BY <1>2, <3>1
    <3>2. ASSUME NEW v \in Threads, NEW c, main' = [main EXCEPT ![t].pc = "wait", ![v] = NewMain(c)]
          PROVE  FALSE
      <4>1. main'[u] \in {main[u], NewMain(c), [main[u] EXCEPT !.pc = "wait"]}
        BY <1>0, <3>2
      <4> QED BY <1>0, <1>3, <4>1 DEF MainThread
    <3> QED BY <2>9, <3>1, <3>2 DEF HandOverStart
  <2>10. CASE Wait(t)
    BY <1>0, <2>10 DEF Wait, MainThread
  <2>11. CASE Mark(t)
    <3>1. AfterMark(FinalState(t)) \in {"find", "status"}
      BY DEF AfterMark
    <3>2. main' = [main EXCEPT ![t].final = FinalState(t), ![t].pc = AfterMark(FinalState(t))]
      BY <2>11 DEF Mark
    <3> DEFINE m == [main[t] EXCEPT !.final = FinalState(t), !.pc = AfterMark(FinalState(t))]
    <3>3. main' = [main EXCEPT ![t] = m]
      BY <3>2
    <3>4. m.pc = AfterMark(FinalState(t))
      BY <1>0 DEF MainThread
    <3> HIDE DEF m
    <3> QED BY <1>1, <3>1, <3>3, <3>4
  <2> QED BY <1>4, <2>1, <2>2, <2>3, <2>4, <2>5, <2>6, <2>7, <2>8, <2>9, <2>10, <2>11 DEF MainStep
<1>5. ASSUME NEW t \in Threads, Routine(t) \/ WatchStop(t) PROVE FALSE
  <2>1. \/ \E p \in Placements : OpenClient(t, p) \/ RoutineFails(t, p) \/ RoutineEnds(t, p)
        \/ WatchStop(t)
    BY <1>5 DEF Routine, OpenClientFails, HandleSkipped, Apply, ApplyFails, Delete, DeleteLost,
                ReadResource, Unreachable
  <2>2. \A p : /\ Drop(t, p).pc = main[t].pc
               /\ [Drop(t, p) EXCEPT !.failed = TRUE, !.cancelled = TRUE].pc = main[t].pc
    BY <1>0, DropType DEF Drop, MainThread
  <2>3. main'[t].pc = main[t].pc /\ \A v \in Threads \ {t} : main'[v] = main[v]
    <3>1. ASSUME NEW p, OpenClient(t, p) \/ WatchStop(t) PROVE <2>3!1 /\ <2>3!2
      BY <1>0, <3>1 DEF OpenClient, WatchStop, MainThread
    <3>2. ASSUME NEW p, RoutineFails(t, p) \/ RoutineEnds(t, p) PROVE <2>3!1 /\ <2>3!2
      BY <1>0, <2>2, <3>2 DEF RoutineFails, RoutineEnds
    <3> QED BY <2>1, <3>1, <3>2
  <2> QED BY <2>3
<1>6. ASSUME NEW c, NEW t \in Threads, StartMainThread(c, t) PROVE FALSE
  BY <1>1, <1>3, <1>6 DEF StartMainThread
<1>7. ASSUME UNCHANGED main PROVE FALSE
  BY <1>7
<1>8. ASSUME NEW k \in Callers, Handler(k) PROVE FALSE
  <2>1. ASSUME NEW c, Interrupt(c) PROVE FALSE
    <3>1. main'[u] \in {main[u], [main[u] EXCEPT !.cancelled = TRUE]}
      BY <2>1 DEF Interrupt
    <3> QED BY <1>0, <3>1 DEF MainThread
  <2> QED
    BY <1>6, <1>7, <1>8, <2>1
       DEF Handler, Receive, HandlerQueue, HandlerStart, StartOrInterrupt, HandlerStartFails, HandlerRetry
<1>9. CASE Crash
  BY <1>3, <1>9 DEF Crash
<1>10. ASSUME NEW c \in AppContexts, Restart(c) \/ RestartFails(c) PROVE FALSE
  BY <1>6, <1>7, <1>10 DEF Restart, RestartFails
<1>11. CASE Environment
  BY <1>7, <1>11 DEF Environment, Stop, ClearStop, PodsStart, ClusterDown, ClusterUp, memory
<1>12. CASE UNCHANGED vars
  BY <1>7, <1>12 DEF vars, memory
<1> QED BY <1>4, <1>5, <1>8, <1>9, <1>10, <1>11, <1>12 DEF Next

\* FindNone takes its thread to "release".
LEMMA FoundNone ==
    ASSUME TypeOK, NEW t \in Threads, FindNone(t)
    PROVE  main'[t].pc = "release"
BY DEF FindNone, TypeOK, MainThread

\* No step takes the record away from who is about to queue an event, or queues
\* one behind the back of a thread that is about to exit.
LEMMA LockHeldInductive ==
    ASSUME TypeOK, Coherent, InOrder, LockHeld, [Next]_vars
    PROVE  LockHeld'
<1>1. QueueStep /\ \A u \in Threads : ThreadStep(u)
  BY EveryQueueStep, EveryThreadStep
<1>2. ASSUME NEW c, c \in active, Queueing(c) PROVE c \in active'
  BY <1>2, RecordRemoved
<1>3. ASSUME NEW t \in Threads, main'[t].pc = "handqueue"
      PROVE  /\ Element(t)'.other = Element(t).other
             /\ \/ main[t].pc = "handqueue"
                \/ /\ HandOver(t) /\ ~Locked(Element(t).other)
                   /\ Element(t).other \in active'
  <2>1. /\ main[t].pc \notin {"none", "find", "release"}
        /\ main'[t].ac = main[t].ac /\ main'[t].idx = main[t].idx
    BY <1>1, <1>3 DEF ThreadStep
  <2>2. main[t].ac \in AppContexts /\ main[t].idx \in DOMAIN queue[main[t].ac]
    BY <2>1, ElementType
  <2>3. Element(t)'.other = Element(t).other
    BY <1>1, <2>1, <2>2 DEF QueueStep, Element
  <2>4. ASSUME main[t].pc # "handqueue"
        PROVE  HandOver(t) /\ ~Locked(Element(t).other) /\ Element(t).other \in active'
    <3>1. HandOver(t)
      <4>1. ~FindNone(t)
        BY <1>3, FoundNone
      <4> QED BY <1>3, <2>4, <4>1, ThreadTakes
    <3>2. main'[t].pc # "wait"
      BY <1>3
    <3>3. main' # [main EXCEPT ![t].pc = "wait"]
      BY <3>2 DEF TypeOK, MainThread
    <3> QED BY <3>1, <3>3, FirstWrite DEF HandOver
  <2> QED BY <2>3, <2>4
<1>4. ASSUME NEW k \in Callers, handler'[k].pc = "queue"
      PROVE  /\ handler'[k].ac \in active'
             /\ handler'[k] = handler[k] \/ ~Locked(handler'[k].ac)
  <2>1. CASE handler'[k] = handler[k]
    BY <1>2, <1>4, <2>1 DEF LockHeld, Queueing
  <2>2. CASE handler'[k] # handler[k]
    BY <1>4, <2>2, HandlerTakes
  <2> QED BY <2>1, <2>2
<1>5. ASSUME NEW t \in Threads, main'[t].pc = "handqueue"
      PROVE  Element(t)'.other \in active'
  BY <1>2, <1>3, <1>5 DEF LockHeld, Queueing
<1>6. ASSUME NEW t \in Threads, main'[t].pc = "release", NEW c, main'[t].ac = c
      PROVE  Pending(c)' = {} /\ ~Queueing(c)'
  <2>1. CASE main[t].pc = "release"
    <3>1. /\ main[t].ac = c /\ Pending(c) = {} /\ ~Queueing(c)
          /\ Locked(c) /\ c \in AppContexts
      BY <1>1, <1>6, <2>1 DEF ThreadStep, LockHeld, Locked, Coherent, Live
    <3>2. queue'[c] = queue[c] \/ Pending(c)' = {}
      BY <1>1, <3>1 DEF QueueStep, Pending
    <3>3. Pending(c)' = {}
      BY <3>1, <3>2 DEF Pending
    <3>4. ASSUME NEW k \in Callers, handler'[k].pc = "queue", handler'[k].ac = c PROVE FALSE
      BY <1>4, <3>1, <3>4 DEF Queueing
    <3>5. ASSUME NEW u \in Threads, main'[u].pc = "handqueue", Element(u)'.other = c PROVE FALSE
      BY <1>3, <3>1, <3>5 DEF Queueing
    <3> QED BY <3>3, <3>4, <3>5 DEF Queueing
  <2>2. CASE main[t].pc # "release"
    <3>0. FindNone(t)
      <4>1. ~HandOver(t)
        <5>1. ASSUME NEW pc, pc # "release" PROVE main' # [main EXCEPT ![t].pc = pc]
          BY <1>6, <5>1 DEF TypeOK, MainThread
        <5> QED BY <5>1 DEF HandOver
      <4> QED BY <1>6, <2>2, <4>1, ThreadTakes
    <3>1. /\ main[t].ac = c /\ Pending(c) = {} /\ ~Queueing(c) /\ UNCHANGED <<queue, handler>>
          /\ \A u \in Threads \ {t} : main'[u] = main[u]
      <4>1. main'[t].ac = main[t].ac
        BY <3>0 DEF FindNone, TypeOK, MainThread
      <4> QED BY <1>6, <3>0, <4>1 DEF FindNone, NothingPending, Locked, TypeOK
    <3>2. Pending(c)' = {}
      BY <3>1 DEF Pending
    <3>3. ASSUME NEW u \in Threads, main'[u].pc = "handqueue", Element(u)'.other = c PROVE FALSE
      <4>1. main[u].pc = "handqueue" /\ Element(u).other = c
        BY <1>3, <1>6, <3>1, <3>3
      <4> QED BY <3>1, <4>1 DEF Queueing
    <3>4. ASSUME NEW k \in Callers, handler'[k].pc = "queue", handler'[k].ac = c PROVE FALSE
      BY <3>1, <3>4 DEF Queueing
    <3> QED BY <3>2, <3>3, <3>4 DEF Queueing
  <2> QED BY <2>1, <2>2
<1>7. \A t \in Threads : main'[t].pc = "release" =>
          Pending(main[t].ac)' = {} /\ ~Queueing(main[t].ac)'
  BY <1>6
<1> QED BY <1>4, <1>5, <1>7 DEF LockHeld

\* A freshly installed rsync satisfies the inductive invariant.
LEMMA InitIInv ==
    ASSUME Init
    PROVE  IInv
<1>1. /\ "Created" \in AppContextStatuses /\ <<>> \in Seq(QueueElement)
      /\ NoHandler \in HandlerState /\ 0 \in 0..MaxCrashes
  BY CrashAssumption DEF AppContextStatuses, NoHandler, HandlerState, RsyncEvents, CrashAssumption
<1>2. TypeOK
  BY <1>1, NoMainType DEF Init, TypeOK
<1>3. \A t \in Threads : main[t].pc = "none"
  BY DEF Init, NoMain
<1>4. \A c \in AppContexts : DOMAIN queue[c] = {}
  BY DEF Init
<1>5. \A k \in Callers : handler[k].pc = "idle"
  BY DEF Init, NoHandler
<1>6. Coherent
  BY <1>3, <1>4, <1>5 DEF Coherent, Live
<1>7. ThreadsAnnounced
  BY <1>3 DEF Init, ThreadsAnnounced, OneMainThread, Live
<1>8. InOrder /\ PendingIsActive /\ LockHeld
  BY <1>3, <1>4, <1>5 DEF InOrder, PendingIsActive, Pending, LockHeld
<1> QED BY <1>2, <1>6, <1>7, <1>8 DEF IInv

\* Every step preserves the inductive invariant: each part from itself and the
\* parts before it.
LEMMA StepIInv ==
    ASSUME IInv, [Next]_vars
    PROVE  IInv'
<1>1. TypeOK /\ Coherent /\ ThreadsAnnounced /\ InOrder /\ PendingIsActive /\ LockHeld
  BY DEF IInv
<1>2. TypeOK'
  <2>1. CASE Next
    BY <1>1, <2>1, TypeInductive
  <2>2. CASE UNCHANGED vars
    BY <1>1, <2>2 DEF vars, etcd, memory, world, TypeOK
  <2> QED BY <2>1, <2>2
<1>3. Coherent'
  BY <1>1, CoherentInductive
<1>4. ThreadsAnnounced'
  BY <1>1, ThreadsAnnouncedInductive
<1>5. InOrder'
  BY <1>1, InOrderInductive
<1>6. PendingIsActive'
  BY <1>1, PendingIsActiveInductive
<1>7. LockHeld'
  BY <1>1, LockHeldInductive
<1> QED BY <1>2, <1>3, <1>4, <1>5, <1>6, <1>7 DEF IInv

\* IInv is an invariant of the engine, for any set of AppContexts, threads,
\* requests, faults and any number of crashes.
THEOREM Invariance == Spec => []IInv
  BY InitIInv, StepIInv, PTL DEF Spec

\* Every variable of the engine keeps to its type; in particular a thread never
\* indexes its queue outside its domain.
THEOREM TypeCorrect == Spec => []TypeOK
<1>1. IInv => TypeOK
  BY DEF IInv
<1> QED BY <1>1, Invariance, PTL

\* As long as rsync has not been restarted, HandleAppContext never puts two main
\* threads on one AppContext, whatever the interleaving and the other faults.
THEOREM OneMainThreadSafe == Spec => []OneMainThreadUntilCrash
<1>1. IInv => OneMainThreadUntilCrash
  BY DEF IInv, ThreadsAnnounced, OneMainThreadUntilCrash
<1> QED BY <1>1, Invariance, PTL

\* Whenever rsync dies, every AppContext with a pending event has a record from
\* which RestoreActiveContext restarts it.
THEOREM PendingIsActiveSafe == Spec => []PendingIsActive
<1>1. IInv => PendingIsActive
  BY DEF IInv
<1> QED BY <1>1, Invariance, PTL

\* The main threads decide the events of an AppContext in the order in which
\* EnqueueToAppContext put them on its queue, also with the two threads that a
\* restart of rsync can leave on one AppContext.
THEOREM HandledInOrderSafe == Spec => HandledInOrder
<1>1. ASSUME IInv, [Next]_vars
      PROVE  [\A c \in AppContexts : \A i \in DOMAIN queue[c] :
                 queue'[c][i] # queue[c][i] => \A j \in 1..(i - 1) : j \notin Pending(c)]_vars
  <2>1. QueueStep
    BY <1>1, EveryQueueStep DEF IInv
  <2> QED BY <2>1 DEF QueueStep
<1> QED BY <1>1, Invariance, PTL DEF Spec, HandledInOrder

-------------------------------------------------------------------------------
(* What each step does to the thread that takes it.                        *)

Others(t) == \A u \in Threads \ {t} : main'[u] = main[u]

\* Thread t goes on with its AppContext at pc ...
Goes(t, pc) ==
    main'[t].pc = pc /\ main'[t].ac = main[t].ac /\ main'[t].ctxDone = main[t].ctxDone

\* ... and with its element ...
Holds(t) == main'[t].idx = main[t].idx

\* ... on which it has this verdict and state.
Says(t, verdict, final) == main'[t].verdict = verdict /\ main'[t].final = final

\* The search of a thread: it takes the first pending element, or ends.
LEMMA SearchMoves ==
    ASSUME TypeOK, NEW t \in Threads
    PROVE  /\ FindNext(t) => /\ Others(t) /\ Goes(t, "check")
                             /\ main'[t].idx \in Pending(main[t].ac)
           /\ FindNone(t) => Others(t) /\ Goes(t, "release")
           /\ Release(t) \/ GiveUp(t) \/ PodsAbandoned(t) => Others(t) /\ main'[t] = NoMain
<1>0. main \in [Threads -> MainThread] /\ main[t] \in MainThread
  BY DEF TypeOK
<1>1. ASSUME FindNext(t)
      PROVE  Others(t) /\ Goes(t, "check") /\ main'[t].idx \in Pending(main[t].ac)
  <2>1. PICK i \in Pending(main[t].ac) : main' = [main EXCEPT ![t].idx = i, ![t].pc = "check"]
    BY <1>1 DEF FindNext
  <2> DEFINE m == [main[t] EXCEPT !.idx = i, !.pc = "check"]
  <2>2. main'[t] = m /\ Others(t)
    BY <1>0, <2>1 DEF Others
  <2>3. m.idx = i /\ m.pc = "check" /\ m.ac = main[t].ac /\ m.ctxDone = main[t].ctxDone
    BY <1>0 DEF MainThread
  <2> HIDE DEF m
  <2> QED BY <2>2, <2>3 DEF Goes
<1>2. ASSUME Release(t) \/ GiveUp(t) \/ PodsAbandoned(t)
      PROVE  Others(t) /\ main'[t] = NoMain
  BY <1>0, <1>2 DEF Release, GiveUp, PodsAbandoned, Exit, Others
<1>3. ASSUME FindNone(t) PROVE Others(t) /\ Goes(t, "release")
  <2> DEFINE m == [main[t] EXCEPT !.pc = "release"]
  <2>1. main'[t] = m /\ Others(t)
    BY <1>0, <1>3 DEF FindNone, Others
  <2>2. m.pc = "release" /\ m.ac = main[t].ac /\ m.ctxDone = main[t].ctxDone
    BY <1>0 DEF MainThread
  <2> HIDE DEF m
  <2> QED BY <2>1, <2>2 DEF Goes
<1> QED BY <1>1, <1>2, <1>3

\* checkStateChange: refused, or on the way to the operation.
LEMMA CheckMoves ==
    ASSUME TypeOK, NEW t \in Threads
    PROVE  /\ CheckIgnored(t) => /\ Others(t) /\ Goes(t, "mark") /\ Holds(t)
                                 /\ Says(t, "Skip", ErrorState(Event(t)))
           /\ CheckUnsupported(t) => /\ Others(t) /\ Goes(t, "mark") /\ Holds(t)
                                     /\ \E f \in {"none", "TerminateFailed"} :
                                           /\ Says(t, "Skip", f)
                                           /\ f # "none" => Event(t) = "Terminate"
           /\ CheckSupported(t) => Others(t) /\ Goes(t, "enter") /\ Holds(t)
           /\ EnterState(t) => Others(t) /\ Goes(t, "announce") /\ Holds(t)
           /\ AnnounceState(t) => Others(t) /\ Goes(t, "arm") /\ Holds(t)
           /\ Arm(t) => Others(t) /\ Goes(t, "phase") /\ Holds(t)
<1>0. main \in [Threads -> MainThread] /\ main[t] \in MainThread
  BY DEF TypeOK
<1>1. ASSUME NEW f, Refuse(t, f)
      PROVE  Others(t) /\ Goes(t, "mark") /\ Holds(t) /\ Says(t, "Skip", f)
  <2> DEFINE m == [main[t] EXCEPT !.pc = "mark", !.verdict = "Skip", !.final = f]
  <2>1. main'[t] = m /\ Others(t)
    BY <1>0, <1>1 DEF Refuse, Others
  <2>2. /\ m.pc = "mark" /\ m.ac = main[t].ac /\ m.ctxDone = main[t].ctxDone
        /\ m.idx = main[t].idx /\ m.verdict = "Skip" /\ m.final = f
    BY <1>0 DEF MainThread
  <2> HIDE DEF m
  <2> QED BY <2>1, <2>2 DEF Goes, Holds, Says
<1>2. CheckIgnored(t) => Refuse(t, ErrorState(Event(t)))
  BY DEF CheckIgnored
<1>3. CheckUnsupported(t) => \E f \in {"none", "TerminateFailed"} :
                               Refuse(t, f) /\ (f # "none" => Event(t) = "Terminate")
  BY DEF CheckUnsupported
<1>4. ASSUME NEW pc, main' = [main EXCEPT ![t].pc = pc]
      PROVE  Others(t) /\ Goes(t, pc) /\ Holds(t)
  <2> DEFINE m == [main[t] EXCEPT !.pc = pc]
  <2>1. main'[t] = m /\ Others(t)
    BY <1>0, <1>4 DEF Others
  <2>2. m.pc = pc /\ m.ac = main[t].ac /\ m.ctxDone = main[t].ctxDone /\ m.idx = main[t].idx
    BY <1>0 DEF MainThread
  <2> HIDE DEF m
  <2> QED BY <2>1, <2>2 DEF Goes, Holds
<1>6. /\ CheckSupported(t) => Others(t) /\ Goes(t, "enter") /\ Holds(t)
      /\ EnterState(t) => Others(t) /\ Goes(t, "announce") /\ Holds(t)
      /\ AnnounceState(t) => Others(t) /\ Goes(t, "arm") /\ Holds(t)
  BY <1>4 DEF CheckSupported, EnterState, AnnounceState
<1>5. ASSUME Arm(t) PROVE Others(t) /\ Goes(t, "phase") /\ Holds(t)
  <2> DEFINE m == [main[t] EXCEPT !.pc = "phase", !.failed = FALSE, !.cancelled = main[t].ctxDone]
  <2>1. main'[t] = m /\ Others(t)
    BY <1>0, <1>5 DEF Arm, Others
  <2>2. m.pc = "phase" /\ m.ac = main[t].ac /\ m.ctxDone = main[t].ctxDone /\ m.idx = main[t].idx
    BY <1>0 DEF MainThread
  <2> HIDE DEF m
  <2> QED BY <2>1, <2>2 DEF Goes, Holds
<1> QED BY <1>1, <1>2, <1>3, <1>5, <1>6

\* The operation: launched, followed by the tail of an update, or waited for.
LEMMA OperationMoves ==
    ASSUME TypeOK, NEW t \in Threads
    PROVE  /\ LaunchOperation(t) \/ LaunchAfterPhaseError(t) =>
                 Others(t) /\ Holds(t) /\ Goes(t, IF Event(t) = "Update" THEN "pods" ELSE "wait")
           /\ PodsConfirmed(t) =>
                 Others(t) /\ Holds(t) /\ \E pc \in {"pods", "handover"} : Goes(t, pc)
           /\ HandOver(t) =>
                 Others(t) /\ Holds(t) /\ \E pc \in {"wait", "handqueue"} : Goes(t, pc)
           /\ HandOverQueue(t) => Others(t) /\ Holds(t) /\ Goes(t, "handstart")
           /\ Wait(t) => /\ Others(t) /\ Holds(t) /\ Goes(t, "mark")
                         /\ \E v \in {"Done", "Error"} : Says(t, v, ErrorState(Event(t)))
           /\ Routine(t) => /\ Others(t) /\ Holds(t) /\ Goes(t, main[t].pc)
                            /\ Says(t, main[t].verdict, main[t].final)
<1>0. main \in [Threads -> MainThread] /\ main[t] \in MainThread
  BY DEF TypeOK
<1>1. ASSUME LaunchOperation(t) \/ LaunchAfterPhaseError(t)
      PROVE  Others(t) /\ Holds(t) /\ Goes(t, IF Event(t) = "Update" THEN "pods" ELSE "wait")
  <2>1. PICK op, skipped : Launch(t, op, skipped)
    BY <1>1 DEF LaunchOperation, LaunchAfterPhaseError
  <2> DEFINE pc == IF Event(t) = "Update" THEN "pods" ELSE "wait"
             m == [main[t] EXCEPT !.op = op, !.todo = Manifest[main[t].ac] \ skipped, !.open = {},
                                  !.await = Manifest[main[t].ac], !.pc = pc]
  <2>2. main' = [main EXCEPT ![t] = m]
    BY <2>1 DEF Launch
  <2>3. m.pc = pc /\ m.ac = main[t].ac /\ m.ctxDone = main[t].ctxDone /\ m.idx = main[t].idx
    BY <1>0 DEF MainThread
  <2>4. pc \in {"pods", "wait"}
    OBVIOUS
  <2> HIDE DEF m
  <2> QED BY <1>0, <2>2, <2>3, <2>4 DEF Goes, Holds, Others
<1>2. ASSUME PodsConfirmed(t)
      PROVE  Others(t) /\ Holds(t) /\ \E pc \in {"pods", "handover"} : Goes(t, pc)
  <2>1. PICK p \in main[t].await :
           main' = [main EXCEPT ![t].await = @ \ {p},
                        ![t].pc = IF main[t].await = {p} THEN "handover" ELSE "pods"]
    BY <1>2 DEF PodsConfirmed
  <2> DEFINE pc == IF main[t].await = {p} THEN "handover" ELSE "pods"
             m == [main[t] EXCEPT !.await = @ \ {p}, !.pc = pc]
  <2>2. main' = [main EXCEPT ![t] = m]
    BY <2>1
  <2>3. m.pc = pc /\ m.ac = main[t].ac /\ m.ctxDone = main[t].ctxDone /\ m.idx = main[t].idx
    BY <1>0 DEF MainThread
  <2>4. pc \in {"pods", "handover"}
    OBVIOUS
  <2> HIDE DEF m, pc
  <2> QED BY <1>0, <2>2, <2>3, <2>4 DEF Goes, Holds, Others
<1>3. ASSUME NEW pc, main' = [main EXCEPT ![t].pc = pc]
      PROVE  Others(t) /\ Holds(t) /\ Goes(t, pc)
  <2> DEFINE m == [main[t] EXCEPT !.pc = pc]
  <2>1. main'[t] = m /\ Others(t)
    BY <1>0, <1>3 DEF Others
  <2>2. m.pc = pc /\ m.ac = main[t].ac /\ m.ctxDone = main[t].ctxDone /\ m.idx = main[t].idx
    BY <1>0 DEF MainThread
  <2> HIDE DEF m
  <2> QED BY <2>1, <2>2 DEF Goes, Holds
<1>6. /\ HandOver(t) =>
            Others(t) /\ Holds(t) /\ \E pc \in {"wait", "handqueue"} : Goes(t, pc)
      /\ HandOverQueue(t) => Others(t) /\ Holds(t) /\ Goes(t, "handstart")
  BY <1>3 DEF HandOver, HandOverQueue
<1>4. ASSUME Wait(t)
      PROVE  /\ Others(t) /\ Holds(t) /\ Goes(t, "mark")
             /\ \E v \in {"Done", "Error"} : Says(t, v, ErrorState(Event(t)))
  <2> DEFINE v == IF main[t].failed THEN "Error" ELSE "Done"
             f == ErrorState(Event(t))
             m == [main[t] EXCEPT !.pc = "mark", !.verdict = v, !.final = f]
  <2>1. main' = [main EXCEPT ![t] = m]
    BY <1>4 DEF Wait
  <2>2. v \in {"Done", "Error"}
    OBVIOUS
  <2>3. /\ m.pc = "mark" /\ m.ac = main[t].ac /\ m.ctxDone = main[t].ctxDone
        /\ m.idx = main[t].idx /\ m.verdict = v /\ m.final = f
    <3> HIDE DEF v, f
    <3> QED BY <1>0 DEF MainThread
  <2>4. main'[t] = m /\ Others(t)
    <3> HIDE DEF m
    <3> QED BY <1>0, <2>1 DEF Others
  <2>5. Says(t, v, f)
    <3> HIDE DEF m, v, f
    <3> QED BY <2>3, <2>4 DEF Says
  <2>6. Goes(t, "mark") /\ Holds(t)
    <3> HIDE DEF m, v, f
    <3> QED BY <2>3, <2>4 DEF Goes, Holds
  <2> QED BY <2>2, <2>4, <2>5, <2>6
<1>5. ASSUME Routine(t)
      PROVE  /\ Others(t) /\ Holds(t) /\ Goes(t, main[t].pc)
             /\ Says(t, main[t].verdict, main[t].final)
  <2> DEFINE Same(m) == /\ m.pc = main[t].pc /\ m.ac = main[t].ac /\ m.idx = main[t].idx
                        /\ m.ctxDone = main[t].ctxDone /\ m.verdict = main[t].verdict
                        /\ m.final = main[t].final
  <2>1. \A p : Same(Drop(t, p))
    BY <1>0 DEF Drop, MainThread
  <2>2. \A p : Same([Drop(t, p) EXCEPT !.failed = TRUE, !.cancelled = TRUE])
    BY <2>1, DropType, ZenonT(60) DEF MainThread
  <2>3. \A p : Same([main[t] EXCEPT !.todo = @ \ {p}, !.open = @ \cup {p}])
    BY <1>0 DEF MainThread
  <2>4. PICK p \in Placements : OpenClient(t, p) \/ RoutineFails(t, p) \/ RoutineEnds(t, p)
    BY <1>5 DEF Routine, OpenClientFails, HandleSkipped, Apply, ApplyFails, Delete,
                DeleteLost, ReadResource, Unreachable
  <2> DEFINE d == [main[t] EXCEPT !.todo = @ \ {p}, !.open = @ \cup {p}]
             e == [Drop(t, p) EXCEPT !.failed = TRUE, !.cancelled = TRUE]
  <2>5. \/ main' = [main EXCEPT ![t] = d]
        \/ main' = [main EXCEPT ![t] = e]
        \/ main' = [main EXCEPT ![t] = Drop(t, p)]
    BY <2>4 DEF OpenClient, RoutineFails, RoutineEnds
  <2>6. Same(d) /\ Same(e) /\ Same(Drop(t, p))
    BY <2>1, <2>2, <2>3
  <2> HIDE DEF d, e
  <2>7. Others(t) /\ Same(main'[t])
    BY <1>0, <2>5, <2>6 DEF Others
  <2> QED BY <2>7 DEF Goes, Holds, Says
<1> QED BY <1>1, <1>2, <1>4, <1>5, <1>6

\* The verdict: the queue element, the status and the current state in turn.
LEMMA VerdictMoves ==
    ASSUME TypeOK, NEW t \in Threads
    PROVE  /\ Mark(t) => /\ Others(t) /\ Holds(t) /\ Goes(t, AfterMark(FinalState(t)))
                         /\ Says(t, main[t].verdict, FinalState(t))
           /\ WriteStatus(t) => /\ Others(t) /\ Holds(t) /\ Goes(t, "current")
                                /\ Says(t, main[t].verdict, main[t].final)
           /\ WriteCurrent(t) => Others(t) /\ Goes(t, "find")
           /\ WatchStop(t) => /\ Others(t) /\ Holds(t) /\ Says(t, main[t].verdict, main[t].final)
                              /\ main'[t].pc = main[t].pc /\ main'[t].ac = main[t].ac
<1>0. main \in [Threads -> MainThread] /\ main[t] \in MainThread
  BY DEF TypeOK
<1>1. ASSUME Mark(t)
      PROVE  /\ Others(t) /\ Holds(t) /\ Goes(t, AfterMark(FinalState(t)))
             /\ Says(t, main[t].verdict, FinalState(t))
  <2> DEFINE f == FinalState(t)
             a == AfterMark(f)
             m == [main[t] EXCEPT !.final = f, !.pc = a]
  <2>1. main' = [main EXCEPT ![t] = m]
    BY <1>1 DEF Mark
  <2>2. /\ m.pc = a /\ m.ac = main[t].ac /\ m.ctxDone = main[t].ctxDone
        /\ m.idx = main[t].idx /\ m.verdict = main[t].verdict /\ m.final = f
    <3> HIDE DEF a, f
    <3> QED BY <1>0 DEF MainThread
  <2>3. main'[t] = m /\ Others(t)
    <3> HIDE DEF m
    <3> QED BY <1>0, <2>1 DEF Others
  <2>4. Goes(t, a) /\ Holds(t) /\ Says(t, main[t].verdict, f)
    <3> HIDE DEF m, a, f
    <3> QED BY <2>2, <2>3 DEF Goes, Holds, Says
  <2> QED BY <2>3, <2>4
<1>2. ASSUME WriteStatus(t)
      PROVE  /\ Others(t) /\ Holds(t) /\ Goes(t, "current")
             /\ Says(t, main[t].verdict, main[t].final)
  <2> DEFINE m == [main[t] EXCEPT !.pc = "current"]
  <2>1. main'[t] = m /\ Others(t)
    BY <1>0, <1>2 DEF WriteStatus, Others
  <2>2. /\ m.pc = "current" /\ m.ac = main[t].ac /\ m.ctxDone = main[t].ctxDone
        /\ m.idx = main[t].idx /\ m.verdict = main[t].verdict /\ m.final = main[t].final
    BY <1>0 DEF MainThread
  <2> HIDE DEF m
  <2> QED BY <2>1, <2>2 DEF Goes, Holds, Says
<1>3. ASSUME WriteCurrent(t) PROVE Others(t) /\ Goes(t, "find")
  <2> DEFINE m == [main[t] EXCEPT !.pc = "find"]
  <2>1. main'[t] = m /\ Others(t)
    BY <1>0, <1>3 DEF WriteCurrent, Others
  <2>2. m.pc = "find" /\ m.ac = main[t].ac /\ m.ctxDone = main[t].ctxDone
    BY <1>0 DEF MainThread
  <2> HIDE DEF m
  <2> QED BY <2>1, <2>2 DEF Goes
<1>4. ASSUME WatchStop(t)
      PROVE  /\ Others(t) /\ Holds(t) /\ Says(t, main[t].verdict, main[t].final)
             /\ main'[t].pc = main[t].pc /\ main'[t].ac = main[t].ac
  <2> DEFINE m == [main[t] EXCEPT !.ctxDone = TRUE]
  <2>1. main'[t] = m /\ Others(t)
    BY <1>0, <1>4 DEF WatchStop, Others
  <2>2. /\ m.pc = main[t].pc /\ m.ac = main[t].ac
        /\ m.idx = main[t].idx /\ m.verdict = main[t].verdict /\ m.final = main[t].final
    BY <1>0 DEF MainThread
  <2> HIDE DEF m
  <2> QED BY <2>1, <2>2 DEF Holds, Says
<1> QED BY <1>1, <1>2, <1>3, <1>4

\* startMainThread, and the second critical section of the hand-over of an update:
\* one thread starts, t waits for its cluster routines.
LEMMA StartMoves ==
    ASSUME TypeOK, NEW t \in Threads
    PROVE  /\ \A c : StartMainThread(c, t) => Others(t) /\ main'[t] = NewMain(c)
           /\ HandOverStart(t) =>
                 /\ Goes(t, "wait") /\ Holds(t)
                 /\ \/ Others(t)
                    \/ \E u \in Threads \ {t} :
                          /\ ~Live(u) /\ main'[u] = NewMain(Element(t).other)
                          /\ \A w \in Threads \ {t, u} : main'[w] = main[w]
<1>0. main \in [Threads -> MainThread] /\ main[t] \in MainThread
  BY DEF TypeOK
<1>1. \A c : StartMainThread(c, t) => Others(t) /\ main'[t] = NewMain(c)
  BY <1>0 DEF StartMainThread, Others
<1>2. ASSUME HandOverStart(t)
      PROVE  /\ Goes(t, "wait") /\ Holds(t)
             /\ \/ Others(t)
                \/ \E u \in Threads \ {t} :
                      /\ ~Live(u) /\ main'[u] = NewMain(Element(t).other)
                      /\ \A w \in Threads \ {t, u} : main'[w] = main[w]
  <2> DEFINE m == [main[t] EXCEPT !.pc = "wait"]
             old == Element(t).other
  <2>1. m.pc = "wait" /\ m.ac = main[t].ac /\ m.idx = main[t].idx /\ m.ctxDone = main[t].ctxDone
    BY <1>0 DEF MainThread
  <2>2. CASE main' = [main EXCEPT ![t].pc = "wait"]
    <3>1. main'[t] = m /\ Others(t)
      BY <1>0, <2>2 DEF Others
    <3> HIDE DEF m
    <3> QED BY <2>1, <3>1 DEF Goes, Holds
  <2>3. ASSUME NEW u \in Threads, ~Live(u),
               main' = [main EXCEPT ![t].pc = "wait", ![u] = NewMain(old)]
        PROVE  /\ Goes(t, "wait") /\ Holds(t)
               /\ \E v \in Threads \ {t} :
                      /\ ~Live(v) /\ main'[v] = NewMain(Element(t).other)
                      /\ \A w \in Threads \ {t, v} : main'[w] = main[w]
    <3>1. t # u
      BY <1>2, <2>3 DEF HandOverStart, Live
    <3>2. main'[t] = m /\ main'[u] = NewMain(old)
          /\ \A w \in Threads \ {t, u} : main'[w] = main[w]
      BY <1>0, <2>3, <3>1
    <3>3. Goes(t, "wait") /\ Holds(t)
      <4> HIDE DEF m
      <4> QED BY <2>1, <3>2 DEF Goes, Holds
    <3> HIDE DEF m
    <3> QED BY <2>3, <3>1, <3>2, <3>3
  <2> QED BY <1>2, <2>2, <2>3 DEF HandOverStart
<1> QED BY <1>1, <1>2

\* What a step does to a thread: nothing that a later step reads; it ends; it
\* starts on an AppContext; or it takes a step of its own.
Unmoved(t) ==
    /\ main'[t].pc = main[t].pc /\ main'[t].ac = main[t].ac /\ main'[t].idx = main[t].idx
    /\ main'[t].ctxDone = main[t].ctxDone
    /\ main'[t].verdict = main[t].verdict /\ main'[t].final = main[t].final

Begins(t) == ~Live(t) /\ \E c \in AppContexts : main'[t] = NewMain(c)

\* A step of one main thread leaves the others alone, or starts one.
LEMMA OthersStay ==
    ASSUME TypeOK, Coherent, NEW t \in Threads, MainStep(t), NEW u \in Threads \ {t}
    PROVE  main'[u] = main[u] \/ Begins(u)
<1>1. ASSUME Others(t) PROVE main'[u] = main[u]
  BY <1>1 DEF Others
<1>2. ASSUME HandOverStart(t) PROVE main'[u] = main[u] \/ Begins(u)
  <2>1. CASE Others(t)
    BY <1>1, <2>1
  <2>2. ASSUME NEW v \in Threads \ {t}, ~Live(v), main'[v] = NewMain(Element(t).other),
               \A w \in Threads \ {t, v} : main'[w] = main[w]
        PROVE  main'[u] = main[u] \/ Begins(u)
    <3>1. main[t].pc = "handstart"
      BY <1>2 DEF HandOverStart
    <3>2. main[t].ac \in AppContexts /\ main[t].idx \in DOMAIN queue[main[t].ac]
      BY <3>1, ElementType
    <3>3. Event(t) = "Update"
      BY <3>1 DEF Coherent
    <3>4. Element(t).other \in AppContexts
      BY <3>2, <3>3 DEF Coherent, Event, Element
    <3> QED BY <2>2, <3>4 DEF Begins
  <2> QED BY <1>2, <2>1, <2>2, StartMoves
<1>3. CASE FindNext(t) \/ FindNone(t) \/ Release(t) \/ GiveUp(t) \/ PodsAbandoned(t)
  BY <1>1, <1>3, SearchMoves
<1>4. CASE CheckIgnored(t) \/ CheckUnsupported(t) \/ CheckSupported(t) \/ EnterState(t)
           \/ AnnounceState(t) \/ Arm(t)
  BY <1>1, <1>4, CheckMoves
<1>5. CASE LaunchOperation(t) \/ LaunchAfterPhaseError(t) \/ PodsConfirmed(t) \/ HandOver(t)
         \/ HandOverQueue(t) \/ Wait(t)
  BY <1>1, <1>5, OperationMoves
<1>6. CASE Mark(t) \/ WriteStatus(t) \/ WriteCurrent(t)
  BY <1>1, <1>6, VerdictMoves
<1> QED BY <1>2, <1>3, <1>4, <1>5, <1>6 DEF MainStep

\* A Terminate reaches the operation of thread t.
Cancels(t) ==
    /\ main'[t] = [main[t] EXCEPT !.cancelled = TRUE]
    /\ \E k \in Callers : handler[k].pc = "start" /\ handler[k].ev = "Terminate"

\* In a step that changes the record of thread u the step is its own, or it is
\* started or cancelled, or rsync dies.
LEMMA EveryThread ==
    ASSUME TypeOK, Coherent, [Next]_vars, NEW u \in Threads
    PROVE  \/ main'[u] = main[u] \/ Begins(u) \/ Cancels(u) \/ Crash
           \/ MainStep(u) \/ Routine(u) \/ WatchStop(u)
<1>1. ASSUME NEW t \in Threads \ {u}, Others(t) PROVE main'[u] = main[u]
  BY <1>1 DEF Others
<1>2. ASSUME NEW c \in AppContexts, NEW t \in Threads, StartMainThread(c, t)
      PROVE  main'[u] = main[u] \/ Begins(u)
  <2>1. Others(t) /\ main'[t] = NewMain(c) /\ ~Live(t)
    BY <1>2, StartMoves DEF StartMainThread
  <2> QED BY <1>1, <1>2, <2>1 DEF Begins
<1>3. ASSUME NEW k \in Callers, Handler(k) PROVE main'[u] = main[u] \/ Begins(u) \/ Cancels(u)
  <2>1. CASE HandlerStart(k)
    <3>1. handler[k].ac \in AppContexts /\ handler[k].pc = "start"
      BY <2>1 DEF HandlerStart, Coherent
    <3>2. ASSUME handler[k].ev = "Terminate", Interrupt(handler[k].ac)
          PROVE  main'[u] = main[u] \/ Cancels(u)
      BY <3>1, <3>2 DEF Interrupt, Cancels
    <3> QED BY <1>2, <2>1, <3>1, <3>2 DEF HandlerStart, StartOrInterrupt
  <2>2. CASE Receive(k) \/ HandlerQueue(k) \/ HandlerStartFails(k) \/ HandlerRetry(k)
    BY <2>2 DEF Receive, HandlerQueue, HandlerStartFails, HandlerRetry
  <2> QED BY <1>3, <2>1, <2>2 DEF Handler
<1>4. ASSUME NEW t \in Threads \ {u}, Routine(t) PROVE main'[u] = main[u]
  BY <1>1, <1>4, OperationMoves
<1>5. ASSUME NEW t \in Threads \ {u}, WatchStop(t) PROVE main'[u] = main[u]
  BY <1>1, <1>5, VerdictMoves
<1>6. ASSUME NEW t \in Threads \ {u}, MainStep(t) PROVE main'[u] = main[u] \/ Begins(u)
  BY <1>6, OthersStay
<1>7. ASSUME NEW c \in AppContexts, Restart(c) \/ RestartFails(c)
      PROVE  main'[u] = main[u] \/ Begins(u)
  BY <1>2, <1>7 DEF Restart, RestartFails
<1>8. CASE Environment
  BY <1>8 DEF Environment, Stop, ClearStop, PodsStart, ClusterDown, ClusterUp, memory
<1>9. CASE UNCHANGED vars
  BY <1>9 DEF vars, memory
<1> QED
  BY <1>3, <1>4, <1>5, <1>6, <1>7, <1>8, <1>9 DEF Next

\* In a step in which thread u moves on, the step is its own.
LEMMA EveryMove ==
    ASSUME TypeOK, Coherent, [Next]_vars, NEW u \in Threads
    PROVE  \/ Unmoved(u) \/ Begins(u) \/ MainStep(u) \/ WatchStop(u) \/ Crash
<1>1. main'[u] = main[u] => Unmoved(u)
  BY DEF Unmoved
<1>2. Routine(u) => Unmoved(u)
  BY OperationMoves DEF Holds, Goes, Says, Unmoved
<1>3. Cancels(u) => Unmoved(u)
  <2>1. main[u] \in MainThread
    BY DEF TypeOK
  <2> QED BY <2>1 DEF Cancels, Unmoved, MainThread
<1> QED BY <1>1, <1>2, <1>3, EveryThread

-------------------------------------------------------------------------------
(* Who ends a thread, and the Running flag.                                *)

\* Nobody stops a DIG, so no thread finds its context done.
NeverDone ==
    /\ \A c \in AppContexts : ~stopFlag[c]
    /\ \A t \in Threads : ~main[t].ctxDone

\* A new thread has a context of its own, and no verdict to write.
LEMMA NewMainFields ==
    ASSUME NEW c
    PROVE  /\ NewMain(c).pc = "find" /\ NewMain(c).ac = c /\ NewMain(c).ctxDone = FALSE
           /\ NoMain.pc = "none" /\ NoMain.ctxDone = FALSE
  BY DEF NewMain, NoMain

\* A main thread's step keeps its AppContext and its context, or ends it.
LEMMA OwnMove ==
    ASSUME TypeOK, NEW t \in Threads, MainStep(t)
    PROVE  \/ main'[t].ac = main[t].ac /\ main'[t].ctxDone = main[t].ctxDone /\ main'[t].pc # "none"
           \/ (Release(t) \/ GiveUp(t) \/ PodsAbandoned(t)) /\ main'[t] = NoMain
<1>1. CASE FindNext(t) \/ FindNone(t)
  BY <1>1, SearchMoves DEF Goes
<1>2. CASE Release(t) \/ GiveUp(t) \/ PodsAbandoned(t)
  BY <1>2, SearchMoves
<1>3. CASE CheckIgnored(t) \/ CheckUnsupported(t) \/ CheckSupported(t) \/ EnterState(t)
           \/ AnnounceState(t) \/ Arm(t)
  BY <1>3, CheckMoves DEF Goes
<1>4. CASE LaunchOperation(t) \/ LaunchAfterPhaseError(t) \/ PodsConfirmed(t) \/ HandOver(t)
           \/ HandOverQueue(t) \/ Wait(t)
  BY <1>4, OperationMoves DEF Goes
<1>5. CASE HandOverStart(t)
  BY <1>5, StartMoves DEF Goes
<1>6. CASE Mark(t) \/ WriteStatus(t) \/ WriteCurrent(t)
  BY <1>6, VerdictMoves DEF Goes, AfterMark
<1> QED BY <1>1, <1>2, <1>3, <1>4, <1>5, <1>6 DEF MainStep

\* Only the orchestrator's stop flag makes a context done.
LEMMA NeverDoneInductive ==
    ASSUME "stop" \notin Faults, TypeOK, Coherent, NeverDone, [Next]_vars
    PROVE  NeverDone'
<1>1. \A c \in AppContexts : ~stopFlag'[c]
  <2>1. UNCHANGED stopFlag
    <3>1. ASSUME NEW k \in Callers, Handler(k) PROVE UNCHANGED stopFlag
      BY <3>1 DEF Handler, Receive, HandlerQueue, HandlerStart, HandlerStartFails, HandlerRetry, etcd
    <3>2. ASSUME NEW t \in Threads, MainStep(t) PROVE UNCHANGED stopFlag
      BY <3>2
         DEF MainStep, FindNext, FindNone, Release, GiveUp, CheckIgnored, CheckUnsupported, Refuse,
             CheckSupported, EnterState, AnnounceState, Arm, LaunchOperation, LaunchAfterPhaseError, Launch, PodsConfirmed,
             PodsAbandoned, HandOver, HandOverQueue, HandOverStart, Wait, Mark, WriteStatus, WriteCurrent, etcd
    <3>3. ASSUME NEW t \in Threads, Routine(t) \/ WatchStop(t) PROVE UNCHANGED stopFlag
      BY <3>3 DEF Routine, OpenClient, OpenClientFails, HandleSkipped, Apply, ApplyFails, Delete,
                  DeleteLost, ReadResource, Unreachable, RoutineFails, RoutineEnds, WatchStop, etcd
    <3>4. CASE Crash
      BY <3>4 DEF Crash, etcd
    <3>5. ASSUME NEW c \in AppContexts, Restart(c) \/ RestartFails(c) PROVE UNCHANGED stopFlag
      BY <3>5 DEF Restart, RestartFails, etcd
    <3>6. CASE Environment
      BY <3>6 DEF Environment, Stop, ClearStop, PodsStart, ClusterDown, ClusterUp, NeverDone, etcd
    <3>7. CASE UNCHANGED vars
      BY <3>7 DEF vars, etcd
    <3> QED BY <3>1, <3>2, <3>3, <3>4, <3>5, <3>6, <3>7 DEF Next
  <2> QED BY <2>1 DEF NeverDone
<1>2. ASSUME NEW t \in Threads PROVE ~main'[t].ctxDone
  <2>1. CASE Unmoved(t)
    BY <2>1 DEF Unmoved, NeverDone
  <2>2. CASE Begins(t)
    BY <2>2, NewMainFields DEF Begins
  <2>3. CASE MainStep(t)
    BY <2>3, OwnMove, NewMainFields DEF NeverDone
  <2>4. CASE WatchStop(t)
    BY <2>4 DEF WatchStop, NeverDone, Coherent
  <2>5. CASE Crash
    BY <2>5, NewMainFields DEF Crash
  <2> QED BY <2>1, <2>2, <2>3, <2>4, <2>5, EveryMove
<1> QED BY <1>1, <1>2 DEF NeverDone

\* A thread that lives on keeps its AppContext; one that ends has found nothing
\* pending, or dies with rsync, when neither a stop nor pods make it give up.
LEMMA LivesOn ==
    ASSUME "pods" \notin Faults, TypeOK, Coherent, NeverDone, [Next]_vars,
           NEW t \in Threads, Live(t)
    PROVE  (Live(t)' /\ main'[t].ac = main[t].ac) \/ Release(t) \/ Crash
<1>1. CASE Unmoved(t)
  BY <1>1 DEF Unmoved, Live
<1>2. ~Begins(t)
  BY DEF Begins
<1>3. CASE MainStep(t)
  <2>1. ~GiveUp(t) /\ ~PodsAbandoned(t)
    BY DEF GiveUp, PodsAbandoned, NeverDone
  <2> QED BY <1>3, <2>1, OwnMove DEF Live
<1>4. CASE WatchStop(t)
  BY <1>4, VerdictMoves DEF Live
<1> QED BY <1>1, <1>2, <1>3, <1>4, EveryMove

\* Running is set only together with the start of a thread.
LEMMA RunningRises ==
    ASSUME TypeOK, Coherent, [Next]_vars, NEW c \in AppContexts, ~running[c], running'[c]
    PROVE  Alive(c)' # {}
<1>0. running \in [AppContexts -> BOOLEAN]
  BY DEF TypeOK
<1>1. ASSUME NEW d, NEW t \in Threads, SetRunning(d), main'[t] = NewMain(d)
      PROVE  Alive(c)' # {}
  <2>1. c = d
    BY <1>0, <1>1 DEF SetRunning
  <2>2. main'[t].pc = "find" /\ main'[t].ac = c
    BY <1>1, <2>1, NewMainFields
  <2> QED BY <2>2 DEF Alive, Live
<1>2. ASSUME NEW k \in Callers, Handler(k) PROVE Alive(c)' # {}
  <2>1. HandlerStart(k)
    BY <1>2 DEF Handler, Receive, HandlerQueue, HandlerStartFails, HandlerRetry
  <2>2. PICK t \in Threads : StartMainThread(handler[k].ac, t) /\ SetRunning(handler[k].ac)
    BY <2>1 DEF HandlerStart, StartOrInterrupt
  <2>3. main'[t] = NewMain(handler[k].ac)
    BY <2>2, StartMoves
  <2> QED BY <1>1, <2>2, <2>3
<1>3. ASSUME NEW t \in Threads, HandOverStart(t) PROVE Alive(c)' # {}
  <2>1. PICK u \in Threads : /\ ~Live(u) /\ SetRunning(Element(t).other)
                             /\ main' = [main EXCEPT ![t].pc = "wait", ![u] = NewMain(Element(t).other)]
    BY <1>3 DEF HandOverStart
  <2>2. main'[u] = NewMain(Element(t).other)
    BY <2>1 DEF TypeOK
  <2> QED BY <1>1, <2>1, <2>2
<1>4. ASSUME NEW t \in Threads, MainStep(t), ~HandOverStart(t) PROVE FALSE
  <2>1. ~Release(t) /\ ~GiveUp(t)
    BY <1>0 DEF Release, GiveUp, Exit
  <2> QED
    BY <1>4, <2>1
       DEF MainStep, FindNext, FindNone, CheckIgnored, CheckUnsupported, Refuse, CheckSupported,
           EnterState, AnnounceState, Arm, LaunchOperation, LaunchAfterPhaseError, Launch,
           PodsConfirmed, PodsAbandoned, HandOver, HandOverQueue, Wait, Mark, WriteStatus, WriteCurrent
<1>5. ASSUME NEW t \in Threads, Routine(t) \/ WatchStop(t) PROVE FALSE
  BY <1>5 DEF Routine, OpenClient, OpenClientFails, HandleSkipped, Apply, ApplyFails, Delete,
              DeleteLost, ReadResource, Unreachable, RoutineFails, RoutineEnds, WatchStop
<1>6. ~Crash
  BY DEF Crash
<1>7. ASSUME NEW d \in AppContexts, Restart(d) \/ RestartFails(d) PROVE FALSE
  BY <1>7 DEF Restart, RestartFails
<1>8. ~Environment /\ ~UNCHANGED vars
  BY DEF Environment, Stop, ClearStop, PodsStart, ClusterDown, ClusterUp, vars, memory
<1> QED BY <1>2, <1>3, <1>4, <1>5, <1>6, <1>7, <1>8 DEF Next

\* The exits of a thread that reset Running are the only ones it has left.
LEMMA RunningHasThreadInductive ==
    ASSUME "pods" \notin Faults, TypeOK, Coherent, NeverDone, RunningHasThread, [Next]_vars
    PROVE  RunningHasThread'
<1> SUFFICES ASSUME NEW c \in AppContexts, running'[c] PROVE Alive(c)' # {}
  BY DEF RunningHasThread
<1>1. CASE ~running[c]
  BY <1>1, RunningRises
<1>2. CASE running[c]
  <2>1. PICK t \in Threads : Live(t) /\ main[t].ac = c
    BY <1>2 DEF RunningHasThread, Alive
  <2>2. ~Release(t)
    BY <2>1 DEF Release, Exit, TypeOK
  <2>3. ~Crash
    BY DEF Crash
  <2> QED BY <2>1, <2>2, <2>3, LivesOn DEF Alive
<1> QED BY <1>1, <1>2

-------------------------------------------------------------------------------
(* The flag of a pending termination.                                      *)

\* A thread that is about to exit has lowered the flag, and holds the lock.
FlagLowered == \A t \in Threads : main[t].pc = "release" => ~pendTerm[main[t].ac]

\* The flag is raised for a thread at work, and while the lock is free.
LEMMA FlagRaised ==
    ASSUME TypeOK, [Next]_vars, NEW c \in AppContexts, ~pendTerm[c], pendTerm'[c]
    PROVE  \E k \in Callers : /\ HandlerStart(k) /\ Interrupt(c) /\ running[c]
                              /\ handler[k].ac = c /\ ~Locked(c)
<1>0. pendTerm \in [AppContexts -> BOOLEAN]
  BY DEF TypeOK
<1>1. PICK k \in Callers : HandlerStart(k) /\ Interrupt(handler[k].ac) /\ running[handler[k].ac]
  <2>1. ASSUME NEW k \in Callers, Handler(k)
        PROVE  HandlerStart(k) /\ Interrupt(handler[k].ac) /\ running[handler[k].ac]
    BY <2>1 DEF Handler, Receive, HandlerQueue, HandlerStart, StartOrInterrupt, HandlerStartFails,
                HandlerRetry, etcd
  <2>2. ASSUME NEW t \in Threads, MainStep(t) PROVE FALSE
    <3>1. ~FindNone(t)
      BY <1>0 DEF FindNone, ClearTerminateFlag
    <3> QED
      BY <2>2, <3>1
         DEF MainStep, FindNext, Release, GiveUp, CheckIgnored, CheckUnsupported, Refuse,
             CheckSupported, EnterState, AnnounceState, Arm, LaunchOperation,
             LaunchAfterPhaseError, Launch, PodsConfirmed, PodsAbandoned, HandOver, HandOverQueue,
             HandOverStart, Wait, Mark, WriteStatus, WriteCurrent, etcd
  <2>3. ASSUME NEW t \in Threads, Routine(t) \/ WatchStop(t) PROVE FALSE
    BY <2>3
       DEF Routine, OpenClient, OpenClientFails, HandleSkipped, Apply, ApplyFails, Delete,
           DeleteLost, ReadResource, Unreachable, RoutineFails, RoutineEnds, WatchStop, etcd
  <2>4. ASSUME NEW d \in AppContexts, Restart(d) \/ RestartFails(d) PROVE FALSE
    BY <2>4 DEF Restart, RestartFails, etcd
  <2>5. ~Crash /\ ~Environment /\ ~UNCHANGED vars
    BY DEF Crash, Environment, Stop, ClearStop, PodsStart, ClusterDown, ClusterUp, vars, etcd
  <2> QED BY <2>1, <2>2, <2>3, <2>4, <2>5 DEF Next
<1>2. c = handler[k].ac
  BY <1>0, <1>1 DEF Interrupt
<1> QED BY <1>1, <1>2 DEF HandlerStart

\* The flag is lowered before a thread exits.
LEMMA TerminateFlagInductive ==
    ASSUME {"pods", "crash"} \cap Faults = {}, TypeOK, Coherent, InOrder, NeverDone,
           RunningHasThread, TerminateFlagHasThread, FlagLowered, [Next]_vars
    PROVE  TerminateFlagHasThread' /\ FlagLowered'
<1>0. pendTerm \in [AppContexts -> BOOLEAN] /\ ~Crash /\ "pods" \notin Faults
  BY DEF TypeOK, Crash
<1>1. ASSUME NEW c \in AppContexts, pendTerm'[c], ~pendTerm[c] PROVE Alive(c)' # {}
  <2>1. Interrupt(c) /\ running[c]
    BY <1>1, FlagRaised
  <2>3. PICK t \in Threads : Live(t) /\ main[t].ac = c
    BY <2>1 DEF RunningHasThread, Alive
  <2>4. main'[t].pc = main[t].pc /\ main'[t].ac = main[t].ac
    <3>1. main'[t] = main[t] \/ main'[t] = [main[t] EXCEPT !.cancelled = TRUE]
      BY <2>1 DEF Interrupt
    <3>2. main[t] \in MainThread
      BY DEF TypeOK
    <3> QED BY <3>1, <3>2 DEF MainThread
  <2> QED BY <2>3, <2>4 DEF Alive, Live
<1>2. ASSUME NEW c \in AppContexts, pendTerm[c] PROVE Alive(c)' # {}
  <2>1. PICK t \in Threads : Live(t) /\ main[t].ac = c
    BY <1>2 DEF TerminateFlagHasThread, Alive
  <2>2. ~Release(t)
    BY <1>2, <2>1 DEF Release, FlagLowered
  <2> QED BY <1>0, <2>1, <2>2, LivesOn DEF Alive
<1>3. ASSUME NEW t \in Threads, main'[t].pc = "release" PROVE ~pendTerm'[main'[t].ac]
  <2>1. CASE FindNone(t)
    <3>1. main'[t].ac = main[t].ac /\ main[t].ac \in AppContexts
      BY <2>1, SearchMoves DEF Goes, FindNone, Coherent, Live
    <3> QED BY <1>0, <2>1, <3>1 DEF FindNone, ClearTerminateFlag
  <2>2. CASE ~FindNone(t)
    <3>1. ~HandOver(t)
      BY <1>3, OperationMoves DEF Goes
    <3>2. main[t].pc = "release"
      BY <1>3, <2>2, <3>1, ThreadTakes
    <3>3. main'[t].ac = main[t].ac /\ main[t].ac \in AppContexts
      BY <1>3, <3>2, EveryThreadStep DEF ThreadStep, Coherent, Live
    <3> QED BY <1>3, <3>2, <3>3, FlagRaised DEF FlagLowered, Locked
  <2> QED BY <2>1, <2>2
<1> QED BY <1>1, <1>2, <1>3 DEF TerminateFlagHasThread, FlagLowered

-------------------------------------------------------------------------------
(* Events that wait for a thread.                                          *)

\* The ways in which a pending event of c is going to be taken up.
Awaited(c) ==
    \/ Alive(c) # {}
    \/ \E k \in Callers : handler[k].pc = "start" /\ handler[k].ac = c
    \/ \E t \in Threads : main[t].pc = "handstart" /\ Element(t).other = c
    \/ c \in toRestore

\* An event put on a queue is announced: by its handler, or by the thread that
\* hands an update over.
LEMMA NewEventAwaited ==
    ASSUME TypeOK, Coherent, InOrder, [Next]_vars, NEW c \in AppContexts,
           Pending(c) = {}, Pending(c)' # {}
    PROVE  Awaited(c)'
<1>0. handler \in [Callers -> HandlerState] /\ queue \in [AppContexts -> Seq(QueueElement)]
  BY DEF TypeOK
<1>10. DOMAIN queue'[c] # DOMAIN queue[c]
  BY EveryQueueStep DEF QueueStep, Pending
<1>1. queue'[c] # queue[c]
  BY <1>10
<1>2. ASSUME NEW k \in Callers, HandlerQueue(k) PROVE Awaited(c)'
  <2>1. handler[k].ac = c
    BY <1>0, <1>1, <1>2, SecondWrite DEF HandlerQueue, Enqueue
  <2>2. handler'[k].pc = "start" /\ handler'[k].ac = c
    BY <1>0, <1>2, <2>1 DEF HandlerQueue, HandlerState
  <2> QED BY <2>2 DEF Awaited
<1>4. ASSUME NEW t \in Threads, HandOverQueue(t) PROVE Awaited(c)'
  <2>1. /\ EnqueueToAppContext(2, Element(t).other, "UpdateDelete", main[t].ac)
        /\ Enqueue(Element(t).other, "UpdateDelete", main[t].ac)
        /\ main' = [main EXCEPT ![t].pc = "handstart"] /\ main[t].pc = "handqueue"
    BY <1>1, <1>4, SecondWrite DEF HandOverQueue
  <2>2. Element(t).other = c
    BY <1>0, <1>1, <2>1 DEF Enqueue
  <2>3. main'[t].pc = "handstart" /\ main'[t].ac = main[t].ac /\ main'[t].idx = main[t].idx
    <3>1. main[t] \in MainThread
      BY DEF TypeOK
    <3>2. main'[t] = [main[t] EXCEPT !.pc = "handstart"]
      BY <2>1 DEF TypeOK
    <3> QED BY <3>1, <3>2 DEF MainThread
  <2>4. Element(t)'.other = c
    <3>1. main[t].ac \in AppContexts /\ main[t].idx \in DOMAIN queue[main[t].ac]
      BY <2>1, ElementType
    <3>2. Element(t).other \in AppContexts
      BY <2>2
    <3>3. QueueStep
      BY EveryQueueStep
    <3> QED BY <2>2, <2>3, <3>1, <3>3 DEF QueueStep, Element
  <2> QED BY <2>3, <2>4 DEF Awaited
<1>5. ASSUME NEW k \in Callers, Handler(k), ~HandlerQueue(k) PROVE FALSE
  BY <1>1, <1>5, FirstWrite
     DEF Handler, Receive, HandlerStart, HandlerStartFails, HandlerRetry, etcd
<1>6. ASSUME NEW t \in Threads, MainStep(t), ~HandOverQueue(t) PROVE FALSE
  <2>1. ASSUME Mark(t) PROVE FALSE
    <3> DEFINE d == main[t].ac  i == main[t].idx
               e == [queue[d][i] EXCEPT !.status = main[t].verdict]
    <3>1. queue' = [queue EXCEPT ![d] = [queue[d] EXCEPT ![i] = e]]
      BY <2>1 DEF Mark
    <3> HIDE DEF d, i, e
    <3>2. DOMAIN queue'[c] = DOMAIN queue[c]
      BY <1>0, <3>1
    <3> QED BY <1>10, <3>2
  <2> QED
    BY <1>1, <1>6, <2>1, FirstWrite
       DEF MainStep, FindNext, FindNone, Release, GiveUp, CheckIgnored, CheckUnsupported, Refuse,
           CheckSupported, EnterState, AnnounceState, Arm, LaunchOperation, LaunchAfterPhaseError,
           Launch, PodsConfirmed, PodsAbandoned, HandOver, HandOverStart, Wait, WriteStatus,
           WriteCurrent, etcd
<1>7. ASSUME NEW t \in Threads, Routine(t) \/ WatchStop(t) PROVE FALSE
  BY <1>1, <1>7
     DEF Routine, OpenClient, OpenClientFails, HandleSkipped, Apply, ApplyFails, Delete,
         DeleteLost, ReadResource, Unreachable, RoutineFails, RoutineEnds, WatchStop, etcd
<1>8. ~Crash /\ \A d \in AppContexts : ~Restart(d) /\ ~RestartFails(d)
  BY <1>1 DEF Crash, Restart, RestartFails, etcd
<1>9. ~Environment /\ ~UNCHANGED vars
  BY <1>1 DEF Environment, Stop, ClearStop, PodsStart, ClusterDown, ClusterUp, vars, etcd
<1> QED
  BY <1>2, <1>4, <1>5, <1>6, <1>7, <1>8, <1>9 DEF Next

\* A thread that is about to start the thread of a hand-over stays there until it
\* has done so, whatever else happens but a crash.
LEMMA HandOverPending ==
    ASSUME TypeOK, Coherent, InOrder, [Next]_vars, NEW t \in Threads, main[t].pc = "handstart",
           ~HandOverStart(t), ~Crash
    PROVE  main'[t].pc = "handstart" /\ Element(t)'.other = Element(t).other
<1>1. main[t].ac \in AppContexts /\ main[t].idx \in DOMAIN queue[main[t].ac]
  BY ElementType
<1>2. ~MainStep(t)
  BY DEF MainStep, FindNext, FindNone, Release, GiveUp, CheckIgnored, CheckUnsupported, CheckSupported, EnterState, AnnounceState, Arm,
         LaunchOperation, LaunchAfterPhaseError, PodsConfirmed, PodsAbandoned, HandOver, HandOverQueue, Wait, Mark,
         WriteStatus, WriteCurrent
<1>3. ~Begins(t)
  BY DEF Begins, Live
<1>4. main'[t].pc = "handstart" /\ main'[t].ac = main[t].ac /\ main'[t].idx = main[t].idx
  <2>1. CASE Unmoved(t)
    BY <2>1 DEF Unmoved
  <2>2. CASE WatchStop(t)
    BY <2>2, VerdictMoves DEF Holds
  <2> QED BY <1>2, <1>3, <2>1, <2>2, EveryMove
<1>5. QueueStep
  BY EveryQueueStep
<1> QED BY <1>1, <1>4, <1>5 DEF QueueStep, Element

\* What has been announced is kept until the thread lives, or is found to live:
\* nobody takes an event for handled because Running was set by a dead thread.
LEMMA NoStrandedInductive ==
    ASSUME {"pods", "start"} \cap Faults = {}, TypeOK, Coherent, InOrder, PendingIsActive, LockHeld,
           NeverDone, RunningHasThread, RunningHasThread', NoStrandedEvent, [Next]_vars
    PROVE  NoStrandedEvent'
<1> SUFFICES ASSUME NEW c \in AppContexts, Pending(c)' # {} PROVE Awaited(c)'
  BY DEF NoStrandedEvent, Awaited
<1>0. /\ "pods" \notin Faults /\ "start" \notin Faults
      /\ handler \in [Callers -> HandlerState] /\ running \in [AppContexts -> BOOLEAN]
  BY DEF TypeOK
<1>1. CASE Pending(c) = {}
  BY <1>1, NewEventAwaited
<1>2. ASSUME running'[c] PROVE Awaited(c)'
  BY <1>2 DEF RunningHasThread, Awaited
<1>3. ASSUME Pending(c) # {}, Crash PROVE Awaited(c)'
  BY <1>3 DEF Crash, PendingIsActive, Awaited
<1>4. ASSUME Pending(c) # {}, ~Crash, NEW t \in Threads, Live(t), main[t].ac = c
      PROVE  Awaited(c)'
  <2>1. ~Release(t)
    BY <1>4 DEF Release, LockHeld
  <2> QED BY <1>0, <1>4, <2>1, LivesOn DEF Awaited, Alive
<1>5. ASSUME ~Crash, NEW k \in Callers, handler[k].pc = "start", handler[k].ac = c
      PROVE  Awaited(c)'
  <2>1. CASE HandlerStart(k)
    BY <1>0, <1>2, <1>5, <2>1 DEF HandlerStart, StartOrInterrupt, SetRunning
  <2>2. CASE ~HandlerStart(k)
    <3>1. handler'[k] = handler[k]
      <4>1. ASSUME NEW j \in Callers, Handler(j) PROVE handler'[k] = handler[k]
        <5>1. j # k
          BY <1>0, <1>5, <2>2, <4>1 DEF Handler, Receive, HandlerQueue, HandlerStartFails, HandlerRetry
        <5>2. \E h : handler' = [handler EXCEPT ![j] = h]
          <6>1. CASE HandlerRetry(j) \/ HandlerQueue(j)
            <7>1. \E pc : handler' = [handler EXCEPT ![j] = [handler[j] EXCEPT !.pc = pc]]
              BY <6>1 DEF HandlerRetry, HandlerQueue
            <7> QED BY <7>1
          <6>2. CASE Receive(j) \/ HandlerStart(j) \/ HandlerStartFails(j)
            BY <6>2 DEF Receive, HandlerQueue, HandlerStart, HandlerStartFails
          <6> QED BY <4>1, <6>1, <6>2 DEF Handler
        <5> QED BY <1>0, <5>1, <5>2
      <4>2. ASSUME NEW t \in Threads, MainStep(t) \/ Routine(t) \/ WatchStop(t)
            PROVE  handler' = handler
        BY <4>2
           DEF MainStep, FindNext, FindNone, Release, GiveUp, CheckIgnored, CheckUnsupported, Refuse,
               CheckSupported, EnterState, AnnounceState, Arm, LaunchOperation, LaunchAfterPhaseError, Launch, PodsConfirmed,
               PodsAbandoned, HandOver, HandOverQueue, HandOverStart, Wait, Mark, WriteStatus, WriteCurrent,
               Routine, OpenClient, OpenClientFails, HandleSkipped, Apply, ApplyFails, Delete,
               DeleteLost, ReadResource, Unreachable, RoutineFails, RoutineEnds, WatchStop
      <4>3. ASSUME NEW d \in AppContexts, Restart(d) \/ RestartFails(d) PROVE handler' = handler
        BY <4>3 DEF Restart, RestartFails
      <4>4. CASE Environment \/ UNCHANGED vars
        BY <4>4 DEF Environment, Stop, ClearStop, PodsStart, ClusterDown, ClusterUp, vars, memory
      <4> QED BY <1>5, <4>1, <4>2, <4>3, <4>4 DEF Next
    <3> QED BY <1>5, <3>1 DEF Awaited
  <2> QED BY <2>1, <2>2
<1>6. ASSUME ~Crash, NEW t \in Threads, main[t].pc = "handstart", Element(t).other = c
      PROVE  Awaited(c)'
  <2>1. CASE HandOverStart(t)
    <3>1. running[c] \/ SetRunning(c)
      BY <1>0, <1>6, <2>1 DEF HandOverStart, NeverDone
    <3>2. running[c] => running'[c]
      BY <1>0, <1>6, <2>1 DEF HandOverStart, SetRunning
    <3>3. SetRunning(c) => running'[c]
      BY <1>0 DEF SetRunning
    <3>4. running'[c]
      BY <3>1, <3>2, <3>3
    <3> QED BY <1>2, <3>4
  <2>2. CASE ~HandOverStart(t)
    BY <1>6, <2>2, HandOverPending DEF Awaited
  <2> QED BY <2>1, <2>2
<1>7. ASSUME ~Crash, c \in toRestore PROVE Awaited(c)'
  <2>1. CASE c \in toRestore'
    BY <2>1 DEF Awaited
  <2>2. CASE c \notin toRestore'
    <3>1. Restart(c)
      <4>1. ASSUME NEW k \in Callers, Handler(k) PROVE FALSE
        BY <1>7, <2>2, <4>1 DEF Handler, Receive, HandlerQueue, HandlerStart, HandlerStartFails, HandlerRetry
      <4>2. ASSUME NEW t \in Threads, MainStep(t) \/ Routine(t) \/ WatchStop(t) PROVE FALSE
        BY <1>7, <2>2, <4>2
           DEF MainStep, FindNext, FindNone, Release, GiveUp, CheckIgnored, CheckUnsupported, Refuse,
               CheckSupported, EnterState, AnnounceState, Arm, LaunchOperation, LaunchAfterPhaseError, Launch, PodsConfirmed,
               PodsAbandoned, HandOver, HandOverQueue, HandOverStart, Wait, Mark, WriteStatus, WriteCurrent,
               Routine, OpenClient, OpenClientFails, HandleSkipped, Apply, ApplyFails, Delete,
               DeleteLost, ReadResource, Unreachable, RoutineFails, RoutineEnds, WatchStop
      <4>3. \A d \in AppContexts : ~RestartFails(d) /\ (Restart(d) => d = c)
        BY <1>0, <1>7, <2>2 DEF Restart, RestartFails
      <4>4. ~Environment /\ ~UNCHANGED vars
        BY <1>7, <2>2 DEF Environment, Stop, ClearStop, PodsStart, ClusterDown, ClusterUp, vars, memory
      <4> QED BY <1>7, <4>1, <4>2, <4>3, <4>4 DEF Next
    <3>2. CASE running[c]
      BY <1>2, <3>1, <3>2 DEF Restart
    <3>3. CASE ~running[c]
      <4>1. PICK t \in Threads : StartMainThread(c, t)
        BY <3>1, <3>3 DEF Restart
      <4>2. main'[t] = NewMain(c)
        BY <4>1, StartMoves
      <4>3. main'[t].pc = "find" /\ main'[t].ac = c
        BY <4>2, ThreadStarts
      <4>4. Alive(c)' # {}
        BY <4>3 DEF Alive, Live
      <4> QED BY <4>4 DEF Awaited
    <3> QED BY <3>2, <3>3
  <2> QED BY <2>1, <2>2
<1>8. Pending(c) # {} => Awaited(c)
  BY DEF NoStrandedEvent, Awaited
<1> QED BY <1>1, <1>3, <1>4, <1>5, <1>6, <1>7, <1>8 DEF Awaited, Alive

-------------------------------------------------------------------------------
(* The verdict on an event.                                                *)

\* Until a crash a thread that works on an element is the only one to do so: the
\* element stays pending until it writes its verdict.
Undecided ==
    crashes = 0 => \A t \in Threads :
        main[t].pc \notin {"none", "find", "release", "status", "current"} =>
            main[t].idx \in Pending(main[t].ac)

\* Queues are written by the handlers, by the hand-over of an update and by the
\* thread that writes a verdict.
LEMMA QueueWrites ==
    ASSUME [Next]_vars
    PROVE  \/ UNCHANGED queue
           \/ \E k \in Callers : HandlerQueue(k)
           \/ \E t \in Threads : HandOverQueue(t) \/ Mark(t)
<1>1. ASSUME NEW k \in Callers, Handler(k), ~HandlerQueue(k) PROVE UNCHANGED queue
  BY <1>1, FirstWrite DEF Handler, Receive, HandlerStart, HandlerStartFails, HandlerRetry, etcd
<1>2. ASSUME NEW t \in Threads, MainStep(t), ~HandOverQueue(t), ~Mark(t) PROVE UNCHANGED queue
  BY <1>2, FirstWrite
     DEF MainStep, FindNext, FindNone, Release, GiveUp, CheckIgnored, CheckUnsupported, Refuse,
         CheckSupported, EnterState, AnnounceState, Arm, LaunchOperation, LaunchAfterPhaseError,
         Launch, PodsConfirmed, PodsAbandoned, HandOver, HandOverStart, Wait, WriteStatus,
         WriteCurrent, etcd
<1>3. ASSUME NEW t \in Threads, Routine(t) \/ WatchStop(t) PROVE UNCHANGED queue
  BY <1>3
     DEF Routine, OpenClient, OpenClientFails, HandleSkipped, Apply, ApplyFails, Delete,
         DeleteLost, ReadResource, Unreachable, RoutineFails, RoutineEnds, WatchStop, etcd
<1>4. ASSUME Crash \/ \E d \in AppContexts : Restart(d) \/ RestartFails(d) PROVE UNCHANGED queue
  BY <1>4 DEF Crash, Restart, RestartFails, etcd
<1>5. CASE Environment \/ UNCHANGED vars
  BY <1>5 DEF Environment, Stop, ClearStop, PodsStart, ClusterDown, ClusterUp, vars, etcd
<1> QED BY <1>1, <1>2, <1>3, <1>4, <1>5 DEF Next

\* Only a verdict changes an element of a queue, and only the element of the
\* thread that writes it.
LEMMA OnlyMarkDecides ==
    ASSUME TypeOK, Coherent, InOrder, [Next]_vars, NEW c \in AppContexts,
           NEW i \in DOMAIN queue[c], queue'[c][i] # queue[c][i]
    PROVE  \E t \in Threads : Mark(t) /\ main[t].ac = c /\ main[t].idx = i
<1>0. queue \in [AppContexts -> Seq(QueueElement)]
  BY DEF TypeOK
<1>1. queue' # queue
  OBVIOUS
<1>2. ASSUME NEW d, NEW e, NEW o, Enqueue(d, e, o) PROVE FALSE
  <2>1. queue'[c] = queue[c] \/ queue'[c] = Append(queue[c], NewElement(e, o))
    BY <1>0, <1>2 DEF Enqueue
  <2>2. queue[c] \in Seq(QueueElement) /\ i \in 1..Len(queue[c])
    BY <1>0, LenProperties
  <2>3. Append(queue[c], NewElement(e, o))[i] = queue[c][i]
    BY <2>2
  <2> QED BY <2>1, <2>3
<1>3. \A k \in Callers : ~HandlerQueue(k)
  BY <1>2, SecondWrite DEF HandlerQueue
<1>4. \A t \in Threads : ~HandOverQueue(t)
  BY <1>1, <1>2, SecondWrite DEF HandOverQueue
<1>5. PICK t \in Threads : Mark(t)
  BY <1>1, <1>3, <1>4, QueueWrites
<1>6. main[t].ac = c /\ main[t].idx = i
  <2> DEFINE d == main[t].ac  j == main[t].idx
             e == [queue[d][j] EXCEPT !.status = main[t].verdict]
  <2>1. queue' = [queue EXCEPT ![d] = [queue[d] EXCEPT ![j] = e]]
    BY <1>5, SMTT(40) DEF Mark
  <2>2. d \in AppContexts /\ j \in DOMAIN queue[d]
    BY <1>5, ElementType DEF Mark
  <2> HIDE DEF d, j, e
  <2>3. d = c /\ j = i
    BY <1>0, <2>1, <2>2
  <2> QED BY <2>3, SMTT(40) DEF d, j
<1> QED BY <1>5, <1>6

\* Crashes are counted by nothing but a crash.
LEMMA CrashesCounted ==
    ASSUME [Next]_vars, ~Crash
    PROVE  crashes' = crashes
<1>1. ASSUME NEW k \in Callers, Handler(k) PROVE crashes' = crashes
  BY <1>1 DEF Handler, Receive, HandlerQueue, HandlerStart, HandlerStartFails, HandlerRetry, world
<1>2. ASSUME NEW u \in Threads, MainStep(u) \/ Routine(u) \/ WatchStop(u) PROVE crashes' = crashes
  BY <1>2
     DEF MainStep, FindNext, FindNone, Release, GiveUp, CheckIgnored, CheckUnsupported, Refuse,
         CheckSupported, EnterState, AnnounceState, Arm, LaunchOperation, LaunchAfterPhaseError, Launch, PodsConfirmed,
         PodsAbandoned, HandOver, HandOverQueue, HandOverStart, Wait, Mark, WriteStatus, WriteCurrent,
         Routine, OpenClient, OpenClientFails, HandleSkipped, Apply, ApplyFails, Delete,
         DeleteLost, ReadResource, Unreachable, RoutineFails, RoutineEnds, WatchStop, world
<1>3. ASSUME NEW d \in AppContexts, Restart(d) \/ RestartFails(d) PROVE crashes' = crashes
  BY <1>3 DEF Restart, RestartFails, world
<1>4. CASE Environment \/ UNCHANGED vars
  BY <1>4 DEF Environment, Stop, ClearStop, PodsStart, ClusterDown, ClusterUp, vars, world
<1> QED BY <1>1, <1>2, <1>3, <1>4 DEF Next

\* No step but a crash takes a thread past its search with anything but a pending
\* element.
LEMMA UndecidedInductive ==
    ASSUME TypeOK, Coherent, InOrder, ThreadsAnnounced, Undecided, [Next]_vars
    PROVE  Undecided'
<1> SUFFICES ASSUME crashes' = 0, NEW t \in Threads,
                    main'[t].pc \notin {"none", "find", "release", "status", "current"}
             PROVE  (main[t].idx \in Pending(main[t].ac))'
  BY DEF Undecided
<1>0. QueueStep /\ ThreadStep(t)
  BY EveryQueueStep, EveryThreadStep
<1>1. ~Crash
  BY DEF Crash, NoMain
<1>2. crashes = 0
  BY <1>1, CrashesCounted
<1>3. /\ main[t].pc # "none" /\ main'[t].ac = main[t].ac /\ main[t].ac \in AppContexts
      /\ main'[t].idx \in Pending(main[t].ac)
  <2>1. CASE Unmoved(t) \/ WatchStop(t)
    <3>1. main'[t].pc = main[t].pc /\ main'[t].ac = main[t].ac /\ main'[t].idx = main[t].idx
      BY <2>1, VerdictMoves DEF Unmoved, Holds
    <3> QED BY <1>2, <3>1 DEF Undecided, Coherent, Live
  <2>2. CASE Begins(t)
    BY <2>2, NewMainFields DEF Begins
  <2>3. CASE MainStep(t)
    <3>1. CASE FindNext(t)
      BY <3>1, SearchMoves DEF FindNext, Goes, Coherent, Live
    <3>2. CASE FindNone(t) \/ Release(t) \/ GiveUp(t) \/ PodsAbandoned(t)
      BY <3>2, SearchMoves DEF NoMain, Goes
    <3>3. CASE CheckIgnored(t) \/ CheckUnsupported(t) \/ CheckSupported(t) \/ EnterState(t)
           \/ AnnounceState(t) \/ Arm(t)
      <4>1. main'[t].ac = main[t].ac /\ main'[t].idx = main[t].idx
        BY <3>3, CheckMoves DEF Goes, Holds
      <4>2. main[t].pc \in {"check", "enter", "announce", "arm"}
        BY <3>3 DEF CheckIgnored, CheckUnsupported, CheckSupported, EnterState, AnnounceState, Arm
      <4> QED BY <1>2, <4>1, <4>2 DEF Undecided, Coherent, Live
    <3>4. CASE LaunchOperation(t) \/ LaunchAfterPhaseError(t) \/ PodsConfirmed(t) \/ HandOver(t)
               \/ HandOverQueue(t) \/ Wait(t)
      <4>1. main'[t].ac = main[t].ac /\ main'[t].idx = main[t].idx
        BY <3>4, OperationMoves DEF Goes, Holds
      <4>2. main[t].pc \in {"phase", "pods", "handover", "handqueue", "wait"}
        BY <3>4 DEF LaunchOperation, LaunchAfterPhaseError, PodsConfirmed, HandOver, HandOverQueue, Wait
      <4> QED BY <1>2, <4>1, <4>2 DEF Undecided, Coherent, Live
    <3>5. CASE HandOverStart(t)
      <4>1. main'[t].ac = main[t].ac /\ main'[t].idx = main[t].idx
        BY <3>5, StartMoves DEF Goes, Holds
      <4>2. main[t].pc = "handstart"
        BY <3>5 DEF HandOverStart
      <4> QED BY <1>2, <4>1, <4>2 DEF Undecided, Coherent, Live
    <3>6. CASE Mark(t) \/ WriteStatus(t) \/ WriteCurrent(t)
      BY <3>6, VerdictMoves DEF Goes, AfterMark
    <3> QED BY <2>3, <3>1, <3>2, <3>3, <3>4, <3>5, <3>6 DEF MainStep
  <2> QED BY <1>1, <2>1, <2>2, <2>3, EveryMove
<1>4. main'[t].idx \in DOMAIN queue[main[t].ac]
      /\ main'[t].idx \in DOMAIN queue'[main[t].ac]
  BY <1>0, <1>3 DEF QueueStep, Pending
<1>5. CASE queue'[main[t].ac][main'[t].idx] = queue[main[t].ac][main'[t].idx]
  BY <1>3, <1>4, <1>5 DEF Pending
<1>6. CASE queue'[main[t].ac][main'[t].idx] # queue[main[t].ac][main'[t].idx]
  <2>1. PICK u \in Threads : Mark(u) /\ main[u].ac = main[t].ac /\ main[u].idx = main'[t].idx
    BY <1>3, <1>4, <1>6, OnlyMarkDecides
  <2>2. u = t
    BY <1>2, <1>3, <2>1 DEF Mark, ThreadsAnnounced, OneMainThread, Live
  <2>3. Goes(t, AfterMark(FinalState(t)))
    BY <2>1, <2>2, VerdictMoves
  <2> QED BY <2>3 DEF Goes, AfterMark
<1> QED BY <1>3, <1>5, <1>6

-------------------------------------------------------------------------------
(* The states of an AppContext.                                            *)

\* A thread that has not announced an operation, or has refused the event.
AtRest(t) ==
    \/ main[t].pc \in {"none", "find", "release", "check"}
    \/ main[t].pc = "mark" /\ main[t].final = "none"

\* A thread that writes its verdict writes no state that announces work.
Poised(t) ==
    /\ main[t].pc \in {"mark", "status", "current"} => main[t].final \notin Transient
    /\ main[t].pc = "mark" /\ main[t].verdict = "Done" => main[t].final # "none"

\* The two copies of a state agree and announce no work unless a thread has work to
\* do, and that thread is going to write both.
StatesKept ==
    /\ \A c \in AppContexts :
          /\ desired[c] \notin Transient
          /\ (\A t \in Threads : main[t].ac = c => AtRest(t)) =>
                current[c] \notin Transient /\ status[c] = current[c]
    /\ \A t \in Threads :
          /\ Poised(t)
          /\ main[t].pc = "current" => status[main[t].ac] = main[t].final

\* Success and failure leave no state that announces work (StateChanges).
LEMMA FinalStates ==
    ASSUME NEW e \in RsyncEvents
    PROVE  /\ DesiredState(e) \notin Transient /\ ErrorState(e) \notin Transient
           /\ ErrorState(e) # "none"
  BY DEF RsyncEvents, DesiredState, ErrorState, Transient

\* Only these steps of a main thread write a state.
LEMMA StateWrites ==
    ASSUME [Next]_vars
    PROVE  \/ UNCHANGED <<current, desired, status>>
           \/ \E t \in Threads : \/ CheckSupported(t) \/ EnterState(t) \/ AnnounceState(t)
                                 \/ WriteStatus(t) \/ WriteCurrent(t)
<1>1. ASSUME NEW k \in Callers, Handler(k) PROVE UNCHANGED <<current, desired, status>>
  BY <1>1 DEF Handler, Receive, HandlerQueue, HandlerStart, HandlerStartFails, HandlerRetry, etcd
<1>2. ASSUME NEW t \in Threads, MainStep(t), ~CheckSupported(t), ~EnterState(t),
             ~AnnounceState(t), ~WriteStatus(t), ~WriteCurrent(t)
      PROVE  UNCHANGED <<current, desired, status>>
  BY <1>2
     DEF MainStep, FindNext, FindNone, Release, GiveUp, CheckIgnored, CheckUnsupported, Refuse, Arm,
         LaunchOperation, LaunchAfterPhaseError, Launch, PodsConfirmed, PodsAbandoned, HandOver, HandOverQueue,
         HandOverStart, Wait, Mark, etcd
<1>3. ASSUME NEW t \in Threads, Routine(t) \/ WatchStop(t) PROVE UNCHANGED <<current, desired, status>>
  BY <1>3
     DEF Routine, OpenClient, OpenClientFails, HandleSkipped, Apply, ApplyFails, Delete,
         DeleteLost, ReadResource, Unreachable, RoutineFails, RoutineEnds, WatchStop, etcd
<1>4. CASE Crash
  BY <1>4 DEF Crash, etcd
<1>5. ASSUME NEW d \in AppContexts, Restart(d) \/ RestartFails(d)
      PROVE  UNCHANGED <<current, desired, status>>
  BY <1>5 DEF Restart, RestartFails, etcd
<1>6. CASE Environment \/ UNCHANGED vars
  BY <1>6 DEF Environment, Stop, ClearStop, PodsStart, ClusterDown, ClusterUp, vars, etcd
<1> QED BY <1>1, <1>2, <1>3, <1>4, <1>5, <1>6 DEF Next

\* A thread with work to do keeps it until it has written the current state.
LEMMA WorkKept ==
    ASSUME "pods" \notin Faults, TypeOK, Coherent, NeverDone, StatesKept, [Next]_vars, ~Crash,
           NEW t \in Threads
    PROVE  /\ Poised(t)'
           /\ AtRest(t) \/ WriteCurrent(t) \/ (~AtRest(t)' /\ main'[t].ac = main[t].ac)
           /\ main'[t].pc = "current" =>
                 \/ WriteStatus(t)
                 \/ main[t].pc = "current" /\ main'[t].final = main[t].final /\ main'[t].ac = main[t].ac
<1> USE DEF Poised, AtRest
<1>0. Poised(t) /\ "none" \notin Transient
  BY DEF StatesKept, Transient
<1>1. CASE Unmoved(t)
  BY <1>0, <1>1 DEF Unmoved
<1>2. CASE Begins(t)
  BY <1>2, NewMainFields DEF Begins, Live
<1>3. CASE WatchStop(t)
  BY <1>0, <1>3, VerdictMoves DEF Says
<1>4. CASE MainStep(t)
  <2>1. CASE FindNext(t)
    BY <2>1, SearchMoves DEF FindNext, Goes
  <2>2. CASE FindNone(t) \/ Release(t)
    BY <2>2, SearchMoves, NewMainFields DEF FindNone, Release, Goes
  <2>3. ~GiveUp(t) /\ ~PodsAbandoned(t)
    BY DEF GiveUp, PodsAbandoned, NeverDone
  <2>4. CASE CheckIgnored(t)
    <3>1. main[t].pc = "check" /\ Event(t) \in RsyncEvents
      BY <2>4, ElementType DEF CheckIgnored
    <3>2. Goes(t, "mark") /\ Says(t, "Skip", ErrorState(Event(t)))
      BY <2>4, CheckMoves
    <3> QED BY <3>1, <3>2, FinalStates DEF Goes, Says
  <2>5. CASE CheckUnsupported(t)
    <3>1. main[t].pc = "check"
      BY <2>5 DEF CheckUnsupported
    <3>2. PICK f \in {"none", "TerminateFailed"} : Goes(t, "mark") /\ Says(t, "Skip", f)
      BY <2>5, CheckMoves
    <3>3. f \notin Transient
      BY <3>2 DEF Transient
    <3> QED BY <3>1, <3>2, <3>3 DEF Goes, Says
  <2>6. CASE CheckSupported(t) \/ EnterState(t)
           \/ AnnounceState(t) \/ Arm(t)
    <3>2. \E pc \in {"enter", "announce", "arm", "phase"} : Goes(t, pc)
      BY <2>6, CheckMoves
    <3> QED BY <3>2 DEF Goes
  <2>7. CASE LaunchOperation(t) \/ LaunchAfterPhaseError(t) \/ PodsConfirmed(t) \/ HandOver(t)
             \/ HandOverQueue(t) \/ HandOverStart(t)
    <3>1. \E pc \in {"pods", "handover", "handqueue", "handstart", "wait"} : Goes(t, pc)
      BY <2>7, OperationMoves, StartMoves
    <3> QED BY <3>1 DEF Goes
  <2>8. CASE Wait(t)
    <3>1. Event(t) \in RsyncEvents
      BY <2>8, ElementType DEF Wait
    <3>2. PICK v \in {"Done", "Error"} : Goes(t, "mark") /\ Says(t, v, ErrorState(Event(t)))
      BY <2>8, OperationMoves
    <3> QED BY <3>1, <3>2, FinalStates DEF Goes, Says
  <2>9. CASE Mark(t)
    <3> DEFINE f == FinalState(t)
    <3>1. main[t].pc = "mark" /\ main[t].ac \in AppContexts
      BY <2>9, ElementType DEF Mark
    <3>2. desired[main[t].ac] \in AppContextStatuses /\ desired[main[t].ac] \notin Transient
      BY <3>1 DEF TypeOK, StatesKept
    <3>3. f \notin Transient /\ (main[t].final # "none" => f # "none")
      BY <1>0, <3>1, <3>2 DEF FinalState, AppContextStatuses
    <3>4. Goes(t, AfterMark(f)) /\ Says(t, main[t].verdict, f)
      BY <2>9, VerdictMoves
    <3> HIDE DEF f
    <3> QED BY <3>1, <3>3, <3>4 DEF Goes, Says, AfterMark
  <2>10. CASE WriteStatus(t)
    <3>1. main[t].pc = "status" /\ Goes(t, "current") /\ Says(t, main[t].verdict, main[t].final)
      BY <2>10, VerdictMoves DEF WriteStatus
    <3> QED BY <1>0, <2>10, <3>1 DEF Goes, Says
  <2>11. CASE WriteCurrent(t)
    BY <2>11, VerdictMoves DEF Goes
  <2> QED BY <1>4, <2>1, <2>2, <2>3, <2>4, <2>5, <2>6, <2>7, <2>8, <2>9, <2>10, <2>11 DEF MainStep
<1> QED BY <1>1, <1>2, <1>3, <1>4, EveryMove

\* The thread that announced work writes the state and its copy, and until a crash
\* nobody else writes them.
LEMMA StatesKeptInductive ==
    ASSUME "pods" \notin Faults, "crash" \notin Faults, crashes = 0, TypeOK, Coherent,
           ThreadsAnnounced, NeverDone, StatesKept, [Next]_vars
    PROVE  StatesKept'
<1>0. /\ ~Crash
      /\ \A t, u \in Threads : Live(t) /\ Live(u) /\ main[t].ac = main[u].ac => t = u
      /\ current \in [AppContexts -> AppContextStatuses]
      /\ desired \in [AppContexts -> AppContextStatuses]
      /\ status \in [AppContexts -> AppContextStatuses]
  BY DEF Crash, ThreadsAnnounced, OneMainThread, TypeOK
<1>1. \A t \in Threads :
         /\ Poised(t)'
         /\ AtRest(t) \/ WriteCurrent(t) \/ (~AtRest(t)' /\ main'[t].ac = main[t].ac)
         /\ main'[t].pc = "current" =>
               \/ WriteStatus(t)
               \/ main[t].pc = "current" /\ main'[t].final = main[t].final /\ main'[t].ac = main[t].ac
  BY <1>0, WorkKept
<1>2. \A t \in Threads : WriteStatus(t) \/ WriteCurrent(t) =>
         Live(t) /\ main[t].ac \in AppContexts /\ ~AtRest(t)
  BY DEF WriteStatus, WriteCurrent, Coherent, Live, AtRest
<1>3. CASE UNCHANGED <<current, desired, status>> /\ \A t \in Threads : ~WriteStatus(t) /\ ~WriteCurrent(t)
  BY <1>1, <1>3 DEF StatesKept
<1>4. ASSUME NEW t \in Threads, CheckSupported(t) \/ EnterState(t) \/ AnnounceState(t)
      PROVE  StatesKept'
  <2> DEFINE c == main[t].ac
  <2>1. /\ main[t].pc \in {"check", "enter", "announce"} /\ c \in AppContexts
        /\ Event(t) \in RsyncEvents /\ Live(t)
    BY <1>4, ElementType DEF CheckSupported, EnterState, AnnounceState, Live
  <2>2. /\ (desired' = [desired EXCEPT ![c] = DesiredState(Event(t))] \/ desired' = desired)
        /\ (\A d \in AppContexts \ {c} : current'[d] = current[d] /\ status'[d] = status[d])
    <3> DEFINE r == RunningState(Event(t))
    <3>1. CASE CheckSupported(t)
      BY <3>1 DEF CheckSupported
    <3>2. CASE EnterState(t)
      <4>1. /\ current' = [current EXCEPT ![c] = r]
            /\ UNCHANGED <<desired, status>>
        BY <3>2 DEF EnterState
      <4> HIDE DEF r
      <4> QED BY <1>0, <4>1
    <3>3. CASE AnnounceState(t)
      <4>1. /\ status' = [status EXCEPT ![c] = r]
            /\ UNCHANGED <<desired, current>>
        BY <3>3 DEF AnnounceState
      <4> HIDE DEF r
      <4> QED BY <1>0, <4>1
    <3> QED BY <1>4, <3>1, <3>2, <3>3
  <2>3. ~AtRest(t)' /\ main'[t].ac = c
    <3>1. \E pc \in {"enter", "announce", "arm"} : Goes(t, pc)
      BY <1>4, CheckMoves
    <3> QED BY <3>1 DEF Goes, AtRest
  <2>4. ASSUME NEW u \in Threads, WriteStatus(u) \/ WriteCurrent(u) PROVE FALSE
    <3>1. Others(u) /\ t # u
      BY <2>1, <2>4, VerdictMoves DEF WriteStatus, WriteCurrent
    <3>2. main'[t].pc = main[t].pc
      BY <3>1 DEF Others
    <3>3. main'[t].pc # main[t].pc
      <4>1. CASE CheckSupported(t)
        BY <4>1, CheckMoves DEF CheckSupported, Goes
      <4>2. CASE EnterState(t)
        BY <4>2, CheckMoves DEF EnterState, Goes
      <4>3. CASE AnnounceState(t)
        BY <4>3, CheckMoves DEF AnnounceState, Goes
      <4> QED BY <1>4, <4>1, <4>2, <4>3
    <3> QED BY <3>2, <3>3
  <2>5. \A d \in AppContexts : desired'[d] \notin Transient
    <3> DEFINE e == DesiredState(Event(t))
    <3>1. e \notin Transient
      BY <2>1, FinalStates
    <3> HIDE DEF e
    <3>2. \A d \in AppContexts : desired'[d] = desired[d] \/ desired'[d] = e
      BY <1>0, <2>2 DEF e
    <3> QED BY <3>1, <3>2 DEF StatesKept
  <2>6. \A d \in AppContexts : (\A u \in Threads : main'[u].ac = d => AtRest(u)') =>
           current'[d] \notin Transient /\ status'[d] = current'[d]
    BY <1>1, <2>2, <2>3, <2>4 DEF StatesKept
  <2>7. ASSUME NEW u \in Threads, main'[u].pc = "current"
        PROVE  status'[main'[u].ac] = main'[u].final
    <3>1. /\ main[u].pc = "current" /\ main'[u].final = main[u].final /\ main'[u].ac = main[u].ac
          /\ main[u].ac \in AppContexts /\ Live(u)
      BY <1>1, <2>4, <2>7 DEF Coherent, Live
    <3>2. main[u].ac # c
      BY <1>0, <2>1, <3>1
    <3>3. status'[main[u].ac] = status[main[u].ac]
      BY <2>2, <3>1, <3>2
    <3>4. status[main[u].ac] = main[u].final
      BY <3>1 DEF StatesKept
    <3> QED BY <3>1, <3>3, <3>4
  <2> QED BY <1>1, <2>5, <2>6, <2>7 DEF StatesKept
<1>5. ASSUME NEW t \in Threads, WriteStatus(t) PROVE StatesKept'
  <2> DEFINE c == main[t].ac
  <2>1. Live(t) /\ c \in AppContexts /\ UNCHANGED <<current, desired>>
    BY <1>2, <1>5 DEF WriteStatus
  <2>2. status'[c] = main[t].final /\ \A d \in AppContexts \ {c} : status'[d] = status[d]
    BY <1>0, <1>5, <2>1 DEF WriteStatus
  <2>3. ~AtRest(t)' /\ main'[t].ac = c /\ main'[t].final = main[t].final /\ Others(t)
    BY <1>5, VerdictMoves DEF Goes, Says, AtRest
  <2>4. ASSUME NEW u \in Threads, WriteCurrent(u) PROVE FALSE
    <3>1. Others(u) /\ t # u /\ main[t].pc = "status"
      BY <1>5, <2>4, VerdictMoves DEF WriteStatus, WriteCurrent
    <3> QED BY <1>5, <3>1, VerdictMoves DEF Others, Goes
  <2>5. \A d \in AppContexts : (\A u \in Threads : main'[u].ac = d => AtRest(u)') =>
           current'[d] \notin Transient /\ status'[d] = current'[d]
    BY <1>1, <2>1, <2>2, <2>3, <2>4 DEF StatesKept
  <2>6. ASSUME NEW u \in Threads, main'[u].pc = "current", u # t
        PROVE  status'[main'[u].ac] = main'[u].final
    <3>1. main'[u] = main[u] /\ main[u].pc = "current" /\ main[u].ac \in AppContexts /\ Live(u)
      BY <2>3, <2>6 DEF Others, Coherent, Live
    <3>2. main[u].ac # c
      BY <1>0, <2>1, <2>6, <3>1
    <3>3. status'[main[u].ac] = status[main[u].ac]
      BY <2>2, <3>1, <3>2
    <3>4. status[main[u].ac] = main[u].final
      BY <3>1 DEF StatesKept
    <3> QED BY <3>1, <3>3, <3>4
  <2> QED BY <1>1, <2>1, <2>2, <2>3, <2>5, <2>6 DEF StatesKept
<1>6. ASSUME NEW t \in Threads, WriteCurrent(t) PROVE StatesKept'
  <2> DEFINE c == main[t].ac
  <2>1. Live(t) /\ c \in AppContexts /\ UNCHANGED <<status, desired>> /\ main[t].pc = "current"
    BY <1>2, <1>6 DEF WriteCurrent
  <2>2. current'[c] = main[t].final /\ \A d \in AppContexts \ {c} : current'[d] = current[d]
    BY <1>0, <1>6, <2>1 DEF WriteCurrent
  <2>3. status[c] = main[t].final /\ main[t].final \notin Transient
    BY <2>1 DEF StatesKept, Poised
  <2>4. Others(t) /\ main'[t].ac = c /\ main'[t].pc = "find"
    BY <1>6, VerdictMoves DEF Goes
  <2>5. \A d \in AppContexts \ {c} : (\A u \in Threads : main'[u].ac = d => AtRest(u)') =>
           \A u \in Threads : main[u].ac = d => AtRest(u)
    <3>1. \A u \in Threads \ {t} : main'[u] = main[u]
      BY <2>4 DEF Others
    <3> QED BY <3>1 DEF AtRest
  <2>6. \A d \in AppContexts : (\A u \in Threads : main'[u].ac = d => AtRest(u)') =>
           current'[d] \notin Transient /\ status'[d] = current'[d]
    BY <2>1, <2>2, <2>3, <2>5 DEF StatesKept
  <2>7. ASSUME NEW u \in Threads, main'[u].pc = "current"
        PROVE  status'[main'[u].ac] = main'[u].final
    BY <2>1, <2>4, <2>7 DEF StatesKept, Others
  <2> QED BY <1>1, <2>1, <2>6, <2>7 DEF StatesKept
<1> QED BY <1>3, <1>4, <1>5, <1>6, StateWrites

-------------------------------------------------------------------------------
(* What a fresh rsync satisfies, and the theorems about faults left out.   *)

\* A freshly installed rsync has no thread, no event and no flag.
LEMMA InitMore ==
    ASSUME Init
    PROVE  /\ NeverDone /\ RunningHasThread /\ TerminateFlagHasThread /\ NoStrandedEvent
           /\ Undecided /\ StatesKept /\ FlagLowered
<1>1. \A t \in Threads : main[t].pc = "none" /\ main[t].ctxDone = FALSE
  BY NewMainFields DEF Init
<1>2. \A c \in AppContexts : Pending(c) = {}
  BY DEF Init, Pending
<1>3. StatesKept
  BY <1>1 DEF Init, StatesKept, Poised, AtRest, Transient
<1> QED
  BY <1>1, <1>2, <1>3
     DEF Init, NeverDone, RunningHasThread, TerminateFlagHasThread, NoStrandedEvent, Undecided,
         FlagLowered

NeverCrashed == crashes = 0

\* As long as no DIG is stopped no thread gives up.
LEMMA NeverDoneAlways == ASSUME "stop" \notin Faults PROVE Spec => []NeverDone
<1>1. IInv /\ NeverDone /\ [Next]_vars => NeverDone'
  BY NeverDoneInductive DEF IInv
<1> QED BY <1>1, InitMore, Invariance, PTL DEF Spec

\* A handler that finds Running set may leave its event to the thread the flag
\* stands for, over any number of crashes, unless a DIG is stopped or the pods of
\* an update do not come up, in which case appContextRoutine returns without
\* resetting it (routines.go:512).
THEOREM RunningHasThreadSafe ==
    ASSUME {"stop", "pods"} \cap Faults = {} PROVE Spec => []RunningHasThread
<1>1. "stop" \notin Faults /\ "pods" \notin Faults
  OBVIOUS
<1>2. IInv /\ NeverDone /\ RunningHasThread /\ [Next]_vars => RunningHasThread'
  BY <1>1, RunningHasThreadInductive DEF IInv
<1>3. Spec => []NeverDone
  BY <1>1, NeverDoneAlways
<1> QED BY <1>2, <1>3, InitMore, Invariance, PTL DEF Spec

\* The pending-terminate flag does not outlive the thread it was meant for, so it
\* suppresses no event that comes after the termination (routines.go:880).
THEOREM TerminateFlagHasThreadSafe ==
    ASSUME {"stop", "pods", "crash"} \cap Faults = {} PROVE Spec => []TerminateFlagHasThread
<1>1. {"stop", "pods"} \cap Faults = {} /\ {"pods", "crash"} \cap Faults = {} /\ "stop" \notin Faults
  OBVIOUS
<1>2. IInv /\ NeverDone /\ RunningHasThread /\ TerminateFlagHasThread /\ FlagLowered /\ [Next]_vars
         => TerminateFlagHasThread' /\ FlagLowered'
  BY <1>1, TerminateFlagInductive DEF IInv
<1>3. Spec => []NeverDone /\ []RunningHasThread
  BY <1>1, NeverDoneAlways, RunningHasThreadSafe
<1> QED BY <1>2, <1>3, InitMore, Invariance, PTL DEF Spec

\* No accepted event waits for nobody, over any number of crashes and restarts:
\* the look at the queue and the exit of a thread are one critical section, and so
\* are a handler's look at Running and its start of a thread (routines.go:885).
THEOREM NoStrandedEventSafe ==
    ASSUME {"stop", "pods", "start"} \cap Faults = {} PROVE Spec => []NoStrandedEvent
<1>1. {"stop", "pods"} \cap Faults = {} /\ {"pods", "start"} \cap Faults = {} /\ "stop" \notin Faults
  OBVIOUS
<1>2. IInv /\ NeverDone /\ RunningHasThread /\ RunningHasThread' /\ NoStrandedEvent /\ [Next]_vars
         => NoStrandedEvent'
  BY <1>1, NoStrandedInductive DEF IInv
<1>3. Spec => []NeverDone /\ []RunningHasThread
  BY <1>1, NeverDoneAlways, RunningHasThreadSafe
<1> QED BY <1>2, <1>3, InitMore, Invariance, PTL DEF Spec

\* A verdict is given once, by the one thread that works on the event, unless a
\* restart of rsync has put two threads on one AppContext.
THEOREM VerdictIsFinalSafe == ASSUME "crash" \notin Faults PROVE Spec => VerdictIsFinal
<1>1. Init => NeverCrashed /\ Undecided
  BY InitMore DEF Init, NeverCrashed
<1>2. NeverCrashed /\ [Next]_vars => NeverCrashed'
  BY CrashesCounted DEF NeverCrashed, Crash
<1>3. IInv /\ Undecided /\ [Next]_vars => Undecided'
  BY UndecidedInductive DEF IInv
<1>4. ASSUME IInv, NeverCrashed, Undecided, [Next]_vars
      PROVE  [\A c \in AppContexts : \A i \in DOMAIN queue[c] :
                /\ i \in DOMAIN queue'[c]
                /\ queue[c][i].status # "Pending" => queue'[c][i] = queue[c][i]]_vars
  <2>1. TypeOK /\ Coherent /\ InOrder
    BY <1>4 DEF IInv
  <2>2. QueueStep
    BY <1>4, <2>1, EveryQueueStep
  <2>3. ASSUME NEW c \in AppContexts, NEW i \in DOMAIN queue[c], queue'[c][i] # queue[c][i]
        PROVE  queue[c][i].status = "Pending"
    <3>1. PICK t \in Threads : Mark(t) /\ main[t].ac = c /\ main[t].idx = i
      BY <1>4, <2>1, <2>3, OnlyMarkDecides
    <3>2. main[t].pc = "mark"
      BY <3>1 DEF Mark
    <3> QED BY <1>4, <3>1, <3>2 DEF Undecided, Pending, NeverCrashed
  <2> QED BY <2>2, <2>3 DEF QueueStep
<1> QED BY <1>1, <1>2, <1>3, <1>4, Invariance, PTL DEF Spec, VerdictIsFinal

\* When rsync has nothing left to do no AppContext is left in a state that
\* announces work in progress, whatever the cluster routines met with.
THEOREM SettledStateSafe ==
    ASSUME {"stop", "pods", "crash"} \cap Faults = {} PROVE Spec => []SettledState
<1>1. "stop" \notin Faults /\ "pods" \notin Faults /\ "crash" \notin Faults
  OBVIOUS
<1>2. Init => NeverCrashed /\ StatesKept
  BY InitMore DEF Init, NeverCrashed
<1>3. NeverCrashed /\ [Next]_vars => NeverCrashed'
  BY <1>1, CrashesCounted DEF NeverCrashed, Crash
<1>4. IInv /\ NeverDone /\ NeverCrashed /\ StatesKept /\ [Next]_vars => StatesKept'
  BY <1>1, StatesKeptInductive DEF IInv, NeverCrashed
<1>5. StatesKept => SettledState
  BY DEF StatesKept, SettledState, Quiescent, AtRest, Live
<1>6. Spec => []NeverDone
  BY <1>1, NeverDoneAlways
<1> QED BY <1>2, <1>3, <1>4, <1>5, <1>6, Invariance, PTL DEF Spec

-------------------------------------------------------------------------------
(* The pending events of a queue.                                          *)

\* The first n elements of queue q are decided, the others pending.
Split(q, n) ==
    n \in 0..Len(q) /\ \A i \in 1..Len(q) : q[i].status = "Pending" <=> i > n

Submission(e) == [ev |-> e.ev, other |-> e.other]

\* In a queue decided in order the last decided element is the n-th.
LEMMA LastDecidedIs ==
    ASSUME NEW q \in Seq(QueueElement), NEW n, Split(q, n)
    PROVE  LastDecided(q) = n
<1>1. n \in Nat /\ n <= Len(q) /\ Len(q) \in Nat /\ DOMAIN q = 1..Len(q)
  BY LenProperties DEF Split
<1>2. Decided(q) = 1..n
  BY <1>1 DEF Decided, Split
<1>3. n \in {0} \cup Decided(q) /\ \A m \in Decided(q) : m <= n
  BY <1>1, <1>2
<1>4. ASSUME NEW k \in {0} \cup Decided(q), \A m \in Decided(q) : m <= k PROVE k = n
  BY <1>1, <1>2, <1>4
<1> QED BY <1>3, <1>4 DEF LastDecided

\* The pending events are the elements behind it.
LEMMA PendingEventsAre ==
    ASSUME NEW q \in Seq(QueueElement), NEW n, Split(q, n)
    PROVE  /\ PendingEvents(q) = [i \in 1..(Len(q) - n) |-> Submission(q[n + i])]
           /\ Len(q) - n \in Nat
  BY LastDecidedIs, LenProperties DEF PendingEvents, Submission, Split

\* A new element becomes the last pending event.
LEMMA AppendPending ==
    ASSUME NEW q \in Seq(QueueElement), NEW n, Split(q, n),
           NEW e \in QueueElement, e.status = "Pending"
    PROVE  /\ Split(Append(q, e), n)
           /\ PendingEvents(Append(q, e)) = Append(PendingEvents(q), Submission(e))
<1> DEFINE r == Append(q, e)
<1>1. r \in Seq(QueueElement) /\ Len(r) = Len(q) + 1 /\ Len(q) \in Nat
      /\ r[Len(q) + 1] = e /\ \A i \in 1..Len(q) : r[i] = q[i]
  BY AppendProperties, LenProperties
<1> HIDE DEF r
<1>2. Split(r, n)
  BY <1>1 DEF Split
<1>3. n \in Nat /\ n <= Len(q)
  BY <1>1 DEF Split
<1> DEFINE m == Len(q) - n
           p == [i \in 1..m |-> Submission(q[n + i])]
<1>4. PendingEvents(q) = p /\ m \in Nat
  BY PendingEventsAre
<1>5. PendingEvents(r) = [i \in 1..(m + 1) |-> Submission(r[n + i])]
  <2>1. Len(r) - n = m + 1
    BY <1>1, <1>3
  <2> QED BY <1>1, <1>2, <2>1, PendingEventsAre
<1>6. Append(p, Submission(e)) = [i \in 1..(m + 1) |-> Submission(r[n + i])]
  <2>1. Append(p, Submission(e)) = [i \in 1..(m + 1) |-> IF i = m + 1 THEN Submission(e) ELSE p[i]]
    BY <1>4
  <2>2. \A i \in 1..(m + 1) :
           (IF i = m + 1 THEN Submission(e) ELSE p[i]) = Submission(r[n + i])
    <3> SUFFICES ASSUME NEW i \in 1..(m + 1)
                 PROVE  (IF i = m + 1 THEN Submission(e) ELSE p[i]) = Submission(r[n + i])
      OBVIOUS
    <3>1. CASE i = m + 1
      BY <1>1, <1>3, <3>1
    <3>2. CASE i # m + 1
      <4>1. i \in 1..m /\ n + i \in 1..Len(q)
        BY <1>1, <1>3, <1>4, <3>2
      <4> QED BY <1>1, <3>2, <4>1
    <3> QED BY <3>1, <3>2
  <2> QED BY <2>1, <2>2
<1> QED BY <1>2, <1>4, <1>5, <1>6 DEF r

\* The first pending event is the element that follows the decided ones.
LEMMA HeadPending ==
    ASSUME NEW q \in Seq(QueueElement), NEW n, Split(q, n), n < Len(q)
    PROVE  /\ PendingEvents(q) # <<>>
           /\ Head(PendingEvents(q)) = Submission(q[n + 1])
<1> DEFINE m == Len(q) - n
           p == [i \in 1..m |-> Submission(q[n + i])]
<1>1. PendingEvents(q) = p /\ m \in Nat /\ m > 0
  <2>1. n \in Nat /\ Len(q) \in Nat
    BY LenProperties DEF Split
  <2>2. m \in Nat /\ m > 0
    BY <2>1
  <2> QED BY <2>2, PendingEventsAre
<1>2. p \in Seq({p[i] : i \in 1..m}) /\ Len(p) = m /\ p[1] = Submission(q[n + 1])
  BY <1>1, SMTT(40)
<1> HIDE DEF p
<1>3. p # <<>> /\ Head(p) = p[1]
  BY <1>1, <1>2
<1> QED BY <1>1, <1>2, <1>3

\* With a verdict on it, it is no longer pending.
LEMMA TailPending ==
    ASSUME NEW q \in Seq(QueueElement), NEW n, Split(q, n), n < Len(q),
           NEW r \in Seq(QueueElement), Len(r) = Len(q), r[n + 1].status # "Pending",
           \A i \in 1..Len(q) : i # n + 1 => r[i] = q[i]
    PROVE  Split(r, n + 1) /\ PendingEvents(r) = Tail(PendingEvents(q))
<1>1. n \in Nat /\ Len(q) \in Nat /\ n + 1 \in 1..Len(q)
  BY LenProperties DEF Split
<1>2. Split(r, n + 1)
  <2>1. \A i \in 1..Len(q) : r[i].status = "Pending" <=> i > n + 1
    <3> SUFFICES ASSUME NEW i \in 1..Len(q) PROVE r[i].status = "Pending" <=> i > n + 1
      OBVIOUS
    <3>1. CASE i = n + 1
      BY <1>1, <3>1
    <3>2. CASE i # n + 1
      <4>1. q[i].status = "Pending" <=> i > n
        BY DEF Split
      <4> QED BY <1>1, <3>2, <4>1
    <3> QED BY <3>1, <3>2
  <2> QED BY <1>1, <2>1 DEF Split
<1> DEFINE m == Len(q) - n
           p == [i \in 1..m |-> Submission(q[n + i])]
<1>3. PendingEvents(q) = p /\ m \in Nat /\ m > 0
  <2>1. m \in Nat /\ m > 0
    BY <1>1
  <2> QED BY <2>1, PendingEventsAre
<1>4. PendingEvents(r) = [i \in 1..(m - 1) |-> Submission(r[n + 1 + i])]
  <2>1. Len(r) - (n + 1) = m - 1
    BY <1>1
  <2> QED BY <1>2, <2>1, PendingEventsAre
<1>5. Tail(p) = [i \in 1..(m - 1) |-> p[i + 1]]
  BY <1>3
<1>6. \A i \in 1..(m - 1) : Submission(r[n + 1 + i]) = p[i + 1]
  <2> SUFFICES ASSUME NEW i \in 1..(m - 1) PROVE Submission(r[n + 1 + i]) = p[i + 1]
    OBVIOUS
  <2>1. i + 1 \in 1..m /\ n + 1 + i \in 1..Len(q) /\ n + 1 + i # n + 1 /\ n + 1 + i = n + (i + 1)
    BY <1>1, <1>3
  <2> QED BY <2>1
<1> QED BY <1>2, <1>3, <1>4, <1>5, <1>6

-------------------------------------------------------------------------------
(* How steps change the pending events.                                    *)

\* Every queue is decided in order.
DecidedPrefix == \A c \in AppContexts : \E n : Split(queue[c], n)

\* As long as rsync has not crashed, a thread past its search works on the first
\* pending event.
LEMMA AtFirst ==
    ASSUME TypeOK, Coherent, InOrder, Undecided, NeverCrashed, NEW t \in Threads,
           main[t].pc \notin {"none", "find", "release", "status", "current"},
           NEW n, Split(queue[main[t].ac], n)
    PROVE  main[t].idx = n + 1 /\ n < Len(queue[main[t].ac])
<1> DEFINE q == queue[main[t].ac]  i == main[t].idx
<1>1. q \in Seq(QueueElement) /\ i \in 1..Len(q) /\ Len(q) \in Nat
  BY ElementType, LenProperties DEF TypeOK
<1>2. n \in Nat /\ \A j \in 1..Len(q) : q[j].status = "Pending" <=> j > n
  BY <1>1 DEF Split
<1>3. q[i].status = "Pending"
  BY DEF Undecided, NeverCrashed, Pending
<1>4. \A j \in 1..(i - 1) : q[j].status # "Pending"
  <2>1. \A j \in 1..(i - 1) : j \notin Pending(main[t].ac)
    BY DEF InOrder
  <2>2. 1..(i - 1) \subseteq DOMAIN q
    BY <1>1, LenProperties
  <2> QED BY <2>1, <2>2 DEF Pending
<1> HIDE DEF q, i
<1>5. i > n
  BY <1>1, <1>2, <1>3
<1>6. ~(i > n + 1)
  <2> SUFFICES ASSUME i > n + 1 PROVE FALSE
    OBVIOUS
  <2>1. n + 1 \in 1..(i - 1) /\ n + 1 \in 1..Len(q) /\ n + 1 > n
    BY <1>1, <1>2
  <2> QED BY <1>2, <1>4, <2>1
<1>7. i = n + 1 /\ n < Len(q)
  BY <1>1, <1>2, <1>5, <1>6
<1> QED BY <1>7 DEF q, i

\* That event is the head of the pending events.
LEMMA HeadBar ==
    ASSUME TypeOK, Coherent, InOrder, Undecided, NeverCrashed, DecidedPrefix, NEW t \in Threads,
           main[t].pc \notin {"none", "find", "release", "status", "current"}
    PROVE  /\ PendingBar[main[t].ac] # <<>>
           /\ Head(PendingBar[main[t].ac]).ev = Event(t)
           /\ Head(PendingBar[main[t].ac]).other = Element(t).other
<1>1. main[t].ac \in AppContexts /\ queue[main[t].ac] \in Seq(QueueElement)
  BY ElementType DEF TypeOK
<1>2. PICK n : Split(queue[main[t].ac], n)
  BY <1>1 DEF DecidedPrefix
<1>3. main[t].idx = n + 1 /\ n < Len(queue[main[t].ac])
  BY <1>2, AtFirst
<1>4. /\ PendingEvents(queue[main[t].ac]) # <<>>
      /\ Head(PendingEvents(queue[main[t].ac])) = Submission(queue[main[t].ac][n + 1])
  BY <1>1, <1>2, <1>3, HeadPending
<1> QED BY <1>1, <1>3, <1>4 DEF PendingBar, Submission, Event, Element

\* Queues that stay mean pending events that stay.
LEMMA SameQueues ==
    ASSUME UNCHANGED queue
    PROVE  PendingBar' = PendingBar /\ (DecidedPrefix => DecidedPrefix')
  BY DEF PendingBar, DecidedPrefix

\* EnqueueToAppContext submits an event.
LEMMA EnqueueBar ==
    ASSUME TypeOK, DecidedPrefix, NEW d \in AppContexts, NEW ev \in RsyncEvents,
           NEW other \in AppContexts \cup {NoContext}, Enqueue(d, ev, other)
    PROVE  /\ DecidedPrefix'
           /\ PendingBar' = [PendingBar EXCEPT ![d] = Append(@, [ev |-> ev, other |-> other])]
<1> DEFINE e == NewElement(ev, other)
<1>1. /\ e \in QueueElement /\ e.status = "Pending"
      /\ Submission(e) = [ev |-> ev, other |-> other]
  BY DEF NewElement, QueueElement, QStatuses, Submission
<1> HIDE DEF e
<1>2. queue[d] \in Seq(QueueElement) /\ \E n : Split(queue[d], n)
  BY DEF TypeOK, DecidedPrefix
<1>3. queue'[d] = Append(queue[d], e) /\ \A c \in AppContexts \ {d} : queue'[c] = queue[c]
  BY DEF Enqueue, TypeOK, e
<1>4. /\ \E n : Split(queue'[d], n)
      /\ PendingEvents(queue'[d]) = Append(PendingEvents(queue[d]), Submission(e))
  BY <1>1, <1>2, <1>3, AppendPending
<1> QED BY <1>1, <1>3, <1>4 DEF DecidedPrefix, PendingBar

\* UpdateQStatus decides the first pending event.
LEMMA MarkBar ==
    ASSUME TypeOK, Coherent, InOrder, Undecided, NeverCrashed, DecidedPrefix, NEW t \in Threads,
           Mark(t)
    PROVE  /\ DecidedPrefix'
           /\ PendingBar' = [PendingBar EXCEPT ![main[t].ac] = Tail(@)]
<1> DEFINE c == main[t].ac  v == main[t].verdict
<1>0. main[t].pc = "mark"
  BY DEF Mark
<1>1. c \in AppContexts /\ queue[c] \in Seq(QueueElement)
  BY <1>0, ElementType DEF TypeOK
<1>2. PICK n : Split(queue[c], n)
  BY <1>1 DEF DecidedPrefix
<1>3. main[t].idx = n + 1 /\ n < Len(queue[c])
  BY <1>0, <1>2, AtFirst
<1>4. v \in QStatuses \ {"Pending"}
  BY <1>0 DEF InOrder, TypeOK, MainThread
<1>5. /\ queue'[c] = [queue[c] EXCEPT ![n + 1].status = v]
      /\ \A d \in AppContexts \ {c} : queue'[d] = queue[d]
  BY <1>1, <1>3 DEF Mark, TypeOK
<1> HIDE DEF c, v
<1>6. /\ Split(queue'[c], n + 1)
      /\ PendingEvents(queue'[c]) = Tail(PendingEvents(queue[c]))
  <2> DEFINE q == queue[c]  e == [q[n + 1] EXCEPT !.status = v]
  <2>1. n + 1 \in 1..Len(q)
    BY <1>1, <1>2, <1>3, LenProperties DEF Split
  <2>2. e \in QueueElement /\ e.status = v
    <3>1. q[n + 1] \in QueueElement
      BY <1>1, <2>1, ElementOfSeq
    <3> QED BY <1>4, <3>1 DEF QueueElement
  <2>3. queue'[c] = [q EXCEPT ![n + 1] = e]
    BY <1>5
  <2> HIDE DEF e
  <2>4. /\ queue'[c] \in Seq(QueueElement) /\ Len(queue'[c]) = Len(q)
        /\ queue'[c][n + 1].status # "Pending"
        /\ \A i \in 1..Len(q) : i # n + 1 => queue'[c][i] = q[i]
    BY <1>1, <1>4, <2>1, <2>2, <2>3, ExceptSeq
  <2> QED BY <1>1, <1>2, <1>3, <2>4, TailPending
<1>7. PendingBar' = [PendingBar EXCEPT ![c] = Tail(@)]
  BY <1>1, <1>5, <1>6 DEF PendingBar
<1> QED BY <1>1, <1>5, <1>6, <1>7 DEF DecidedPrefix, c

-------------------------------------------------------------------------------
(* How steps change what rsync is at.                                      *)

\* The work for an AppContext is that of its thread.
LEMMA WorkForIs ==
    ASSUME NEW c, NEW w, Alive(c) = {} => w = "idle",
           \A t \in Threads : Live(t) /\ main[t].ac = c => WorkOf(t) = w
    PROVE  WorkFor(c) = w
<1>1. CASE Alive(c) = {}
  BY <1>1 DEF WorkFor
<1>2. CASE Alive(c) # {}
  <2>1. (CHOOSE t \in Alive(c) : TRUE) \in Alive(c)
    BY <1>2
  <2> QED BY <1>2, <2>1 DEF WorkFor, Alive
<1> QED BY <1>1, <1>2

\* The same after a step.
LEMMA WorkForBecomes ==
    ASSUME NEW c, NEW w, Alive(c)' = {} => w = "idle",
           \A t \in Threads : main'[t].pc # "none" /\ main'[t].ac = c => WorkOf(t)' = w
    PROVE  WorkFor(c)' = w
<1>1. CASE Alive(c)' = {}
  BY <1>1 DEF WorkFor
<1>2. CASE Alive(c)' # {}
  <2>1. (CHOOSE t \in Alive(c)' : TRUE) \in Alive(c)'
    BY <1>2
  <2> QED BY <1>2, <2>1 DEF WorkFor, Alive, Live
<1> QED BY <1>1, <1>2

\* A step keeps the event a thread works on.
LEMMA EventStays ==
    ASSUME TypeOK, Coherent, QueueStep, NEW t \in Threads, main[t].pc \notin {"none", "find", "release"},
           main'[t].ac = main[t].ac, main'[t].idx = main[t].idx
    PROVE  Event(t)' = Event(t)
  BY ElementType DEF QueueStep, Event, Element

\* A thread that does not move is at what it was at, and one that begins is at
\* nothing.
LEMMA WorkStays ==
    ASSUME TypeOK, Coherent, QueueStep, NEW t \in Threads
    PROVE  /\ Unmoved(t) => WorkOf(t)' = WorkOf(t)
           /\ Begins(t) => WorkOf(t)' = "idle"
<1>1. ASSUME Unmoved(t) PROVE WorkOf(t)' = WorkOf(t)
  <2>1. /\ main'[t].pc = main[t].pc /\ main'[t].verdict = main[t].verdict
        /\ main'[t].final = main[t].final
    BY <1>1 DEF Unmoved
  <2>2. main[t].pc \in {"wait", "mark"} => Event(t)' = Event(t)
    BY <1>1, EventStays DEF Unmoved
  <2> QED BY <2>1, <2>2 DEF WorkOf
<1>2. ASSUME Begins(t) PROVE WorkOf(t)' = "idle"
  <2>1. main'[t].pc = "find"
    BY <1>2, NewMainFields DEF Begins
  <2> QED BY <2>1 DEF WorkOf
<1> QED BY <1>1, <1>2

\* A step of thread t changes the work for its AppContext alone: other threads
\* do not move, or begin on an AppContext that has no thread.
LEMMA WorkMoves ==
    ASSUME TypeOK, Coherent, QueueStep, OneMainThread, OneMainThread', NEW t \in Threads, Live(t),
           \A u \in Threads \ {t} : Unmoved(u) \/ Begins(u),
           main'[t] = NoMain \/ (main'[t].ac = main[t].ac /\ main'[t].pc # "none")
    PROVE  /\ WorkBar[main[t].ac] = WorkOf(t)
           /\ WorkBar' = [WorkBar EXCEPT ![main[t].ac] = WorkOf(t)']
<1>0. PICK c \in AppContexts : c = main[t].ac
  BY DEF Coherent
<1>1. \A u, v \in Threads : Live(u) /\ Live(v) /\ main[u].ac = main[v].ac => u = v
  BY DEF OneMainThread
<1>2. \A u, v \in Threads : main'[u].pc # "none" /\ main'[v].pc # "none"
                            /\ main'[u].ac = main'[v].ac => u = v
  BY DEF OneMainThread, Live
<1>3. ASSUME NEW d, NEW u \in Threads, Live(u), main[u].ac = d PROVE WorkFor(d) = WorkOf(u)
  <2>1. Alive(d) # {}
    BY <1>3 DEF Alive
  <2>2. \A v \in Threads : Live(v) /\ main[v].ac = d => WorkOf(v) = WorkOf(u)
    BY <1>1, <1>3
  <2> QED BY <2>1, <2>2, WorkForIs
<1>4. \A u \in Threads : /\ Unmoved(u) => WorkOf(u)' = WorkOf(u)
                         /\ Begins(u) => WorkOf(u)' = "idle"
  BY WorkStays
<1>5. NoMain.pc = "none"
  BY DEF NoMain
<1>6. main'[t] = NoMain => WorkOf(t)' = "idle"
  BY <1>5 DEF WorkOf
<1>7. WorkFor(c)' = WorkOf(t)'
  <2>1. ASSUME NEW u \in Threads, main'[u].pc # "none", main'[u].ac = c, u # t
        PROVE  WorkOf(u)' = WorkOf(t)'
    <3>1. ~Unmoved(u)
      BY <1>0, <1>1, <2>1 DEF Unmoved, Live
    <3>2. Begins(u) /\ main'[t] = NoMain
      BY <1>0, <1>2, <2>1, <3>1
    <3> QED BY <1>4, <1>6, <3>2
  <2>2. Alive(c)' = {} => WorkOf(t)' = "idle"
    BY <1>0, <1>6 DEF Alive, Live
  <2> QED BY <2>1, <2>2, WorkForBecomes
<1>8. ASSUME NEW d \in AppContexts \ {c} PROVE WorkFor(d)' = WorkFor(d)
  <2>1. ASSUME NEW u \in Threads, main'[u].pc # "none", main'[u].ac = d
        PROVE  WorkOf(u)' = WorkFor(d)
    <3>1. u # t
      BY <1>0, <1>5, <2>1, <1>8
    <3>2. CASE Unmoved(u)
      <4>1. Live(u) /\ main[u].ac = d
        BY <2>1, <3>2 DEF Unmoved, Live
      <4> QED BY <1>3, <1>4, <3>2, <4>1
    <3>3. CASE Begins(u)
      <4>1. ASSUME NEW v \in Threads, Live(v), main[v].ac = d PROVE FALSE
        <5>1. v # t /\ v # u
          BY <1>0, <1>8, <3>3, <4>1 DEF Begins
        <5>2. Unmoved(v)
          BY <4>1, <5>1 DEF Begins
        <5> QED BY <1>2, <2>1, <4>1, <5>1, <5>2 DEF Unmoved, Live
      <4>2. WorkFor(d) = "idle"
        BY <4>1 DEF WorkFor, Alive
      <4> QED BY <1>4, <3>3, <4>2
    <3> QED BY <3>1, <3>2, <3>3
  <2>2. ASSUME Alive(d)' = {} PROVE WorkFor(d) = "idle"
    <3>1. ASSUME NEW v \in Threads, Live(v), main[v].ac = d PROVE FALSE
      <4>1. v # t /\ Unmoved(v)
        BY <1>0, <1>8, <3>1 DEF Begins
      <4> QED BY <2>2, <3>1, <4>1 DEF Unmoved, Alive, Live
    <3> QED BY <3>1 DEF WorkFor, Alive
  <2> QED BY <2>1, <2>2, WorkForBecomes
<1>9. WorkFor(c) = WorkOf(t)
  BY <1>0, <1>3
<1>10. WorkBar[c] = WorkOf(t) /\ WorkBar' = [WorkBar EXCEPT ![c] = WorkOf(t)']
  BY <1>7, <1>8, <1>9 DEF WorkBar
<1> QED BY <1>0, <1>10

\* When no thread moves, work stays.
LEMMA WorkRests ==
    ASSUME TypeOK, Coherent, QueueStep, OneMainThread, OneMainThread',
           \A u \in Threads : Unmoved(u) \/ Begins(u)
    PROVE  WorkBar' = WorkBar
<1>1. \A u, v \in Threads : Live(u) /\ Live(v) /\ main[u].ac = main[v].ac => u = v
  BY DEF OneMainThread
<1>2. \A u, v \in Threads : main'[u].pc # "none" /\ main'[v].pc # "none"
                            /\ main'[u].ac = main'[v].ac => u = v
  BY DEF OneMainThread, Live
<1>3. \A u \in Threads : /\ Unmoved(u) => WorkOf(u)' = WorkOf(u)
                         /\ Begins(u) => WorkOf(u)' = "idle"
  BY WorkStays
<1>4. ASSUME NEW d \in AppContexts PROVE WorkFor(d)' = WorkFor(d)
  <2>1. ASSUME NEW u \in Threads, main'[u].pc # "none", main'[u].ac = d
        PROVE  WorkOf(u)' = WorkFor(d)
    <3>1. CASE Unmoved(u)
      <4>1. Live(u) /\ main[u].ac = d
        BY <2>1, <3>1 DEF Unmoved, Live
      <4>2. WorkFor(d) = WorkOf(u)
        BY <1>1, <4>1, WorkForIs DEF Alive
      <4> QED BY <1>3, <3>1, <4>2
    <3>2. CASE Begins(u)
      <4>1. ASSUME NEW v \in Threads, Live(v), main[v].ac = d PROVE FALSE
        <5>1. v # u /\ Unmoved(v)
          BY <3>2, <4>1 DEF Begins
        <5> QED BY <1>2, <2>1, <4>1, <5>1 DEF Unmoved, Live
      <4>2. WorkFor(d) = "idle"
        BY <4>1 DEF WorkFor, Alive
      <4> QED BY <1>3, <3>2, <4>2
    <3> QED BY <3>1, <3>2
  <2>2. ASSUME Alive(d)' = {} PROVE WorkFor(d) = "idle"
    <3>1. ASSUME NEW v \in Threads, Live(v), main[v].ac = d PROVE FALSE
      <4>1. Unmoved(v)
        BY <3>1 DEF Begins
      <4> QED BY <2>2, <3>1, <4>1 DEF Unmoved, Alive, Live
    <3> QED BY <3>1 DEF WorkFor, Alive
  <2> QED BY <2>1, <2>2, WorkForBecomes
<1> QED BY <1>4 DEF WorkBar

-------------------------------------------------------------------------------
(* What a thread owes the AppContext it works for.                         *)

Engaged == {"enter", "announce", "arm", "phase", "pods", "handover", "handqueue", "handstart", "wait"}

\* A thread that has accepted its event finds the state to reach still recorded
\* when it has succeeded, and has the error state at hand when it has failed or
\* refuses; it refuses without one only an event that the state does not allow.
Owes(t) ==
    /\ main[t].pc \in Engaged \/ (main[t].pc = "mark" /\ main[t].verdict = "Done") =>
          desired[main[t].ac] = DesiredState(Event(t))
    /\ main[t].pc = "enter" => current[main[t].ac] \in SourceStates(Event(t))
    /\ main[t].pc = "mark" /\ main[t].verdict = "Error" => main[t].final = ErrorState(Event(t))
    /\ main[t].pc = "mark" /\ main[t].verdict = "Skip" =>
          \/ main[t].final = ErrorState(Event(t))
          \/ main[t].final = "none" /\ current[main[t].ac] \notin SourceStates(Event(t))

DebtsKept == \A t \in Threads : Owes(t)

\* Until a crash only its own thread writes the states of an AppContext.
LEMMA OwnStates ==
    ASSUME TypeOK, Coherent, OneMainThread, [Next]_vars, NEW t \in Threads, Live(t),
           ~CheckSupported(t)
    PROVE  /\ desired'[main[t].ac] = desired[main[t].ac]
           /\ ~EnterState(t) /\ ~WriteCurrent(t) => current'[main[t].ac] = current[main[t].ac]
<1>0. /\ main[t].ac \in AppContexts
      /\ current \in [AppContexts -> AppContextStatuses]
      /\ desired \in [AppContexts -> AppContextStatuses]
  BY DEF Coherent, TypeOK
<1>1. CASE UNCHANGED <<current, desired, status>>
  BY <1>1
<1>2. ASSUME NEW u \in Threads, Live(u), u # t PROVE main[u].ac # main[t].ac
  BY <1>2 DEF OneMainThread
<1>3. ASSUME NEW u \in Threads, CheckSupported(u)
      PROVE  /\ desired'[main[t].ac] = desired[main[t].ac]
             /\ current'[main[t].ac] = current[main[t].ac]
  <2>1. main[u].ac # main[t].ac
    BY <1>2, <1>3 DEF CheckSupported, Live
  <2>2. desired' = [desired EXCEPT ![main[u].ac] = DesiredState(Event(u))] /\ UNCHANGED current
    BY <1>3 DEF CheckSupported
  <2> QED BY <1>0, <2>1, <2>2
<1>4. ASSUME NEW u \in Threads, WriteCurrent(u)
      PROVE  /\ desired'[main[t].ac] = desired[main[t].ac]
             /\ u # t => current'[main[t].ac] = current[main[t].ac]
  <2>1. u # t => main[u].ac # main[t].ac
    BY <1>2, <1>4 DEF WriteCurrent, Live
  <2>2. UNCHANGED desired /\ current' = [current EXCEPT ![main[u].ac] = main[u].final]
    BY <1>4 DEF WriteCurrent
  <2> QED BY <1>0, <2>1, <2>2
<1>5. ASSUME NEW u \in Threads, WriteStatus(u) \/ AnnounceState(u) PROVE UNCHANGED <<current, desired>>
  BY <1>5 DEF WriteStatus, AnnounceState
<1>6. ASSUME NEW u \in Threads, EnterState(u)
      PROVE  /\ desired'[main[t].ac] = desired[main[t].ac]
             /\ u # t => current'[main[t].ac] = current[main[t].ac]
  <2>1. u # t => main[u].ac # main[t].ac
    BY <1>2, <1>6 DEF EnterState, Live
  <2>2. UNCHANGED desired /\ current' = [current EXCEPT ![main[u].ac] = RunningState(Event(u))]
    BY <1>6 DEF EnterState
  <2> QED BY <1>0, <2>1, <2>2
<1> QED BY <1>1, <1>3, <1>4, <1>5, <1>6, StateWrites

\* A thread pays what it owes.
LEMMA DebtsInductive ==
    ASSUME TypeOK, Coherent, InOrder, OneMainThread, DebtsKept, [Next]_vars, ~Crash
    PROVE  DebtsKept'
<1> SUFFICES ASSUME NEW t \in Threads PROVE Owes(t)'
  BY DEF DebtsKept
<1>0. QueueStep /\ Owes(t)
  BY EveryQueueStep DEF DebtsKept
<1>1. ASSUME main[t].pc \notin {"none", "find", "release"}, main'[t].ac = main[t].ac, main'[t].idx = main[t].idx
      PROVE  Event(t)' = Event(t) /\ Event(t) \in RsyncEvents /\ main[t].ac \in AppContexts
  BY <1>0, <1>1, EventStays, ElementType
<1>2. ASSUME main[t].pc \in Engaged \cup {"mark"},
             ~CheckSupported(t), ~EnterState(t), ~WriteCurrent(t),
             main'[t].pc = main[t].pc, main'[t].ac = main[t].ac, main'[t].idx = main[t].idx,
             main'[t].verdict = main[t].verdict, main'[t].final = main[t].final
      PROVE  Owes(t)'
  <2>1. main[t].pc \notin {"none", "find", "release"} /\ Live(t)
    BY <1>2 DEF Engaged, Live
  <2>2. /\ desired'[main[t].ac] = desired[main[t].ac]
        /\ current'[main[t].ac] = current[main[t].ac]
    BY <1>2, <2>1, OwnStates
  <2> QED BY <1>0, <1>1, <1>2, <2>1, <2>2 DEF Owes
<1>3. CASE Unmoved(t) \/ WatchStop(t)
  <2>1. /\ main'[t].pc = main[t].pc /\ main'[t].ac = main[t].ac /\ main'[t].idx = main[t].idx
        /\ main'[t].verdict = main[t].verdict /\ main'[t].final = main[t].final
    BY <1>3, VerdictMoves DEF Unmoved, Holds, Says
  <2>2. CASE main[t].pc \in Engaged \cup {"mark"}
    <3>1. ~CheckSupported(t) /\ ~EnterState(t) /\ ~WriteCurrent(t)
      BY <2>1, <2>2, CheckMoves DEF CheckSupported, EnterState, WriteCurrent, Engaged, Goes
    <3> QED BY <1>2, <2>1, <2>2, <3>1
  <2> QED BY <2>1, <2>2 DEF Owes, Engaged
<1>4. CASE Begins(t)
  BY <1>4, NewMainFields DEF Begins, Owes, Engaged
<1>5. CASE MainStep(t)
  <2>1. CASE FindNext(t) \/ FindNone(t) \/ Release(t) \/ GiveUp(t) \/ PodsAbandoned(t)
    <3>1. main'[t].pc \in {"check", "release", "none"}
      BY <2>1, SearchMoves, NewMainFields DEF Goes
    <3> QED BY <3>1 DEF Owes, Engaged
  <2>2. CASE CheckIgnored(t)
    <3>1. main[t].pc = "check"
      BY <2>2 DEF CheckIgnored
    <3>2. Goes(t, "mark") /\ Holds(t) /\ Says(t, "Skip", ErrorState(Event(t)))
      BY <2>2, CheckMoves
    <3> QED BY <1>1, <3>1, <3>2 DEF Goes, Holds, Says, Owes, Engaged
  <2>3. CASE CheckUnsupported(t)
    <3>1. main[t].pc = "check" /\ UNCHANGED current /\ current[main[t].ac] \notin SourceStates(Event(t))
      BY <2>3 DEF CheckUnsupported, Supported, Refuse, etcd
    <3>2. PICK f \in {"none", "TerminateFailed"} :
             Goes(t, "mark") /\ Holds(t) /\ Says(t, "Skip", f) /\ (f # "none" => Event(t) = "Terminate")
      BY <2>3, CheckMoves
    <3>3. f = "none" \/ f = ErrorState(Event(t))
      BY <3>2 DEF ErrorState
    <3> QED BY <1>1, <3>1, <3>2, <3>3 DEF Goes, Holds, Says, Owes, Engaged
  <2>4. CASE CheckSupported(t)
    <3>1. /\ main[t].pc = "check" /\ Goes(t, "enter") /\ Holds(t)
          /\ current'[main[t].ac] \in SourceStates(Event(t))
      BY <2>4, CheckMoves DEF CheckSupported, Supported
    <3>2. desired' = [desired EXCEPT ![main[t].ac] = DesiredState(Event(t))]
      BY <2>4 DEF CheckSupported
    <3>3. main[t].ac \in AppContexts /\ desired'[main[t].ac] = DesiredState(Event(t))
      BY <3>1, <3>2, ElementType DEF TypeOK
    <3> QED BY <1>1, <3>1, <3>3 DEF Goes, Holds, Owes, Engaged
  <2>5. ASSUME main[t].pc \in Engaged, ~CheckSupported(t), Holds(t),
               NEW pc \in Engaged \ {"enter"}, Goes(t, pc)
        PROVE  Owes(t)'
    <3>1. Live(t) /\ main[t].pc \notin {"none", "find", "release"} /\ pc # "mark"
      BY <2>5 DEF Live, Engaged
    <3>2. desired'[main[t].ac] = desired[main[t].ac]
      BY <2>5, <3>1, OwnStates
    <3> QED BY <1>0, <1>1, <2>5, <3>1, <3>2 DEF Goes, Holds, Owes
  <2>6. CASE \/ EnterState(t) \/ AnnounceState(t) \/ Arm(t) \/ LaunchOperation(t)
             \/ LaunchAfterPhaseError(t) \/ PodsConfirmed(t)
             \/ HandOver(t) \/ HandOverQueue(t) \/ HandOverStart(t)
    <3>1. main[t].pc \in Engaged /\ ~CheckSupported(t)
      BY <2>6 DEF EnterState, AnnounceState, Arm, LaunchOperation, LaunchAfterPhaseError, PodsConfirmed, HandOver, HandOverQueue,
                  HandOverStart, CheckSupported, Engaged
    <3>2. Holds(t) /\ \E pc \in Engaged \ {"enter"} : Goes(t, pc)
      BY <2>6, CheckMoves, OperationMoves, StartMoves DEF Engaged
    <3> QED BY <2>5, <3>1, <3>2
  <2>7. CASE Wait(t)
    <3>1. main[t].pc = "wait" /\ Live(t) /\ ~CheckSupported(t)
      BY <2>7 DEF Wait, Live, CheckSupported
    <3>2. PICK v \in {"Done", "Error"} :
             Goes(t, "mark") /\ Holds(t) /\ Says(t, v, ErrorState(Event(t)))
      BY <2>7, OperationMoves
    <3>3. desired'[main[t].ac] = desired[main[t].ac]
      BY <3>1, OwnStates
    <3> QED BY <1>0, <1>1, <3>1, <3>2, <3>3 DEF Goes, Holds, Says, Owes, Engaged
  <2>8. CASE Mark(t) \/ WriteStatus(t) \/ WriteCurrent(t)
    <3>1. main'[t].pc \in {"status", "current", "find"}
      BY <2>8, VerdictMoves DEF Goes, AfterMark
    <3> QED BY <3>1 DEF Owes, Engaged
  <2> QED BY <1>5, <2>1, <2>2, <2>3, <2>4, <2>6, <2>7, <2>8 DEF MainStep
<1> QED BY <1>3, <1>4, <1>5, EveryMove

-------------------------------------------------------------------------------
(* The simulation.                                                         *)

\* What holds until the first crash, before and after a step.
Ready == IInv /\ NeverCrashed /\ Undecided /\ DecidedPrefix /\ DebtsKept

\* What a step may count on as long as rsync has not crashed.
LEMMA ReadyFacts ==
    ASSUME Ready, Ready', [Next]_vars
    PROVE  /\ TypeOK /\ Coherent /\ InOrder /\ Undecided /\ NeverCrashed /\ DecidedPrefix
           /\ DebtsKept /\ QueueStep /\ OneMainThread /\ OneMainThread' /\ ~Crash
<1>1. TypeOK /\ Coherent /\ InOrder /\ ThreadsAnnounced /\ ThreadsAnnounced'
  BY DEF Ready, IInv
<1>2. OneMainThread /\ OneMainThread'
  BY <1>1 DEF Ready, NeverCrashed, ThreadsAnnounced
<1>3. ~Crash
  BY DEF Ready, NeverCrashed, Crash
<1> QED BY <1>1, <1>2, <1>3, EveryQueueStep DEF Ready

\* A step that changes nothing the abstract specification speaks of, or only ends
\* the work for one AppContext, is one of its steps or a stuttering step.
LEMMA Ends ==
    ASSUME NEW c \in AppContexts, PendingBar' = PendingBar, current' = current,
           \/ WorkBar' = WorkBar
           \/ WorkBar' = [WorkBar EXCEPT ![c] = WorkBar[c]]
           \/ WorkBar' = [WorkBar EXCEPT ![c] = "idle"]
    PROVE  [Promise!NextLifecycle]_(Promise!lifecycle)
<1>1. WorkBar = [d \in AppContexts |-> WorkBar[d]]
  BY DEF WorkBar
<1>2. CASE WorkBar' = WorkBar \/ WorkBar' = [WorkBar EXCEPT ![c] = WorkBar[c]]
  BY <1>1, <1>2 DEF Promise!lifecycle
<1>3. CASE WorkBar' = [WorkBar EXCEPT ![c] = "idle"]
  <2>1. CASE WorkBar[c] = "idle"
    BY <1>1, <1>3, <2>1 DEF Promise!lifecycle
  <2>2. CASE WorkBar[c] # "idle"
    BY <1>3, <2>2 DEF Promise!NextLifecycle, Promise!Abandon
  <2> QED BY <2>1, <2>2
<1> QED BY <1>2, <1>3

\* The abstract specification reads the same table StateChanges.
LEMMA SameTable ==
    /\ Promise!RsyncEvents = RsyncEvents
    /\ Promise!AppContextStatuses = AppContextStatuses
    /\ \A e : /\ Promise!SourceStates(e) = SourceStates(e)
              /\ Promise!DesiredState(e) = DesiredState(e)
              /\ Promise!RunningState(e) = RunningState(e)
              /\ Promise!ErrorState(e) = ErrorState(e)
  BY DEF Promise!RsyncEvents, RsyncEvents, Promise!AppContextStatuses, AppContextStatuses,
         Promise!SourceStates, SourceStates, Promise!DesiredState, DesiredState,
         Promise!RunningState, RunningState, Promise!ErrorState, ErrorState

\* A submitted event.
LEMMA Submits ==
    ASSUME TypeOK, DecidedPrefix, NEW c \in AppContexts, NEW ev \in RsyncEvents,
           NEW other \in AppContexts \cup {NoContext}, Enqueue(c, ev, other),
           current' = current, WorkBar' = WorkBar
    PROVE  Promise!NextLifecycle
<1>1. PendingBar' = [PendingBar EXCEPT ![c] = Append(@, [ev |-> ev, other |-> other])]
  BY EnqueueBar
<1>2. Promise!Submit(c, ev, other) /\ ev \in Promise!RsyncEvents
  BY <1>1, SameTable DEF Promise!Submit
<1>3. Promise!Submitted
  BY <1>2 DEF Promise!Submitted
<1> QED BY <1>3 DEF Promise!NextLifecycle

\* The start of an operation: the second write of checkStateChange.
LEMMA Accepts ==
    ASSUME Ready, Ready', [Next]_vars, NEW t \in Threads, EnterState(t),
           WorkBar[main[t].ac] = "idle", WorkBar' = [WorkBar EXCEPT ![main[t].ac] = "busy"]
    PROVE  Promise!NextLifecycle
<1>1. PICK c \in AppContexts : c = main[t].ac
  BY ReadyFacts DEF EnterState, Coherent, Live
<1>2. main[t].pc = "enter" /\ current[c] \in SourceStates(Event(t)) /\ UNCHANGED queue
      /\ current' = [current EXCEPT ![c] = RunningState(Event(t))]
  <2>1. Owes(t)
    BY ReadyFacts DEF DebtsKept
  <2> QED BY <1>1, <2>1 DEF EnterState, Owes
<1>3. PendingBar' = PendingBar
  BY <1>2, SameQueues
<1>4. PendingBar[c] # <<>> /\ Head(PendingBar[c]).ev = Event(t)
  BY <1>1, <1>2, HeadBar, ReadyFacts
<1>5. Promise!Accept(c)
  BY <1>1, <1>2, <1>3, <1>4, SameTable DEF Promise!Accept, Promise!First
<1> QED BY <1>5 DEF Promise!NextLifecycle

\* The hand-over of an update, with or without the event for the AppContext that
\* is replaced.
LEMMA Hands ==
    ASSUME Ready, Ready', [Next]_vars, NEW t \in Threads, HandOverQueue(t) \/ HandOver(t),
           main'[t].pc # "handqueue",
           WorkBar[main[t].ac] = "busy", WorkBar' = [WorkBar EXCEPT ![main[t].ac] = "handed"]
    PROVE  Promise!NextLifecycle
<1>1. PICK c \in AppContexts : c = main[t].ac
  BY ReadyFacts DEF HandOver, HandOverQueue, Coherent, Live
<1>2. main[t].pc \in {"handover", "handqueue"} /\ UNCHANGED current
  BY DEF HandOver, HandOverQueue
<1>3. Event(t) = "Update" /\ Element(t).other \in AppContexts
  <2>1. c \in AppContexts /\ main[t].idx \in DOMAIN queue[c] /\ Event(t) = "Update"
    BY <1>1, <1>2, ElementType, ReadyFacts DEF Coherent
  <2> QED BY <1>1, <2>1, ReadyFacts DEF Coherent, Event, Element
<1>4. /\ PendingBar[c] # <<>> /\ Head(PendingBar[c]).ev = "Update"
      /\ Head(PendingBar[c]).other = Element(t).other
  BY <1>1, <1>2, <1>3, HeadBar, ReadyFacts
<1>5. \/ Promise!Submit(Head(PendingBar[c]).other, "UpdateDelete", c)
      \/ UNCHANGED PendingBar
  <2>1. CASE UNCHANGED queue
    BY <2>1, SameQueues
  <2>2. CASE HandOverQueue(t) /\ ~UNCHANGED queue
    <3> DEFINE old == Element(t).other
    <3>1. Enqueue(old, "UpdateDelete", c)
      BY <1>1, <2>2, SecondWrite DEF HandOverQueue
    <3>2. "UpdateDelete" \in RsyncEvents
      BY DEF RsyncEvents
    <3>3. PendingBar' = [PendingBar EXCEPT ![old] = Append(@, [ev |-> "UpdateDelete", other |-> c])]
      BY <1>3, <3>1, <3>2, EnqueueBar, ReadyFacts
    <3> QED BY <1>4, <3>3 DEF Promise!Submit
  <2>3. HandOver(t) => UNCHANGED queue
    BY FirstWrite DEF HandOver
  <2> QED BY <2>1, <2>2, <2>3
<1>6. Promise!HandsOver(c)
  BY <1>1, <1>2, <1>3, <1>4, <1>5 DEF Promise!HandsOver, Promise!First
<1> QED BY <1>6 DEF Promise!NextLifecycle

\* The verdict on the first event: success, failure or refusal.
LEMMA Decides ==
    ASSUME Ready, Ready', [Next]_vars, NEW t \in Threads, Mark(t),
           WorkBar[main[t].ac] = WorkOf(t), WorkBar' = [WorkBar EXCEPT ![main[t].ac] = WorkOf(t)']
    PROVE  Promise!NextLifecycle
<1>1. PICK c \in AppContexts : c = main[t].ac
  BY ReadyFacts DEF Mark, Coherent, Live
<1>2. main[t].pc = "mark" /\ UNCHANGED current
  BY DEF Mark
<1>3. /\ PendingBar' = [PendingBar EXCEPT ![c] = Tail(@)]
      /\ PendingBar[c] # <<>> /\ Promise!First(c) = Event(t)
  <2>1. Head(PendingBar[c]).ev = Event(t) /\ PendingBar[c] # <<>>
    BY <1>1, <1>2, HeadBar, ReadyFacts
  <2> QED BY <1>1, <2>1, MarkBar, ReadyFacts DEF Promise!First
<1>4. Event(t) \in RsyncEvents /\ main[t].verdict \in {"Done", "Error", "Skip"}
  BY <1>2, ElementType, ReadyFacts DEF InOrder, TypeOK, MainThread, QStatuses
<1>5. WorkOf(t) = IF main[t].verdict = "Skip" THEN "idle"
                  ELSE IF Event(t) = "Update" THEN "handed" ELSE "busy"
  BY <1>2 DEF WorkOf
<1>6. WorkOf(t)' = IF FinalState(t) = "none" THEN "idle" ELSE FinalState(t)
  <2>1. main'[t].pc = AfterMark(FinalState(t)) /\ main'[t].final = FinalState(t)
    BY VerdictMoves, ReadyFacts DEF Goes, Says
  <2> QED BY <2>1 DEF AfterMark, WorkOf
<1>7. Owes(t)
  BY ReadyFacts DEF DebtsKept
<1>8. \A w : WorkOf(t)' = w => Promise!Decide(c, w)
  BY <1>1, <1>2, <1>3 DEF Promise!Decide
<1>9. CASE main[t].verdict = "Done"
  <2>1. WorkOf(t)' = DesiredState(Event(t))
    BY <1>2, <1>4, <1>6, <1>7, <1>9 DEF Owes, FinalState, RsyncEvents, DesiredState
  <2>2. Promise!Ended(c)
    BY <1>1, <1>3, <1>5, <1>9 DEF Promise!Ended
  <2>3. Promise!Succeed(c)
    BY <1>3, <1>8, <2>1, <2>2, SameTable DEF Promise!Succeed
  <2> QED BY <2>3 DEF Promise!NextLifecycle
<1>10. CASE main[t].verdict = "Error"
  <2>1. WorkOf(t)' = ErrorState(Event(t))
    BY <1>2, <1>4, <1>6, <1>7, <1>10, FinalStates DEF Owes, FinalState
  <2>2. Promise!Ended(c)
    BY <1>1, <1>3, <1>5, <1>10 DEF Promise!Ended
  <2>3. Promise!Fail(c)
    BY <1>3, <1>8, <2>1, <2>2, SameTable DEF Promise!Fail
  <2> QED BY <2>3 DEF Promise!NextLifecycle
<1>11. CASE main[t].verdict = "Skip"
  <2>1. \/ WorkOf(t)' = ErrorState(Event(t))
        \/ WorkOf(t)' = "idle" /\ current[c] \notin SourceStates(Event(t))
    BY <1>1, <1>2, <1>4, <1>6, <1>7, <1>11, FinalStates DEF Owes, FinalState
  <2>2. WorkBar[c] = "idle"
    BY <1>1, <1>5, <1>11
  <2>3. Promise!Refused(c)
    BY <1>3, <1>8, <2>1, <2>2, SameTable DEF Promise!Refused
  <2> QED BY <2>3 DEF Promise!NextLifecycle
<1> QED BY <1>4, <1>9, <1>10, <1>11

\* Every step of a main thread.
LEMMA MainSimulates ==
    ASSUME Ready, Ready', [Next]_vars, NEW t \in Threads, MainStep(t)
    PROVE  [Promise!NextLifecycle]_(Promise!lifecycle)
<1>0. /\ TypeOK /\ Coherent /\ QueueStep /\ OneMainThread /\ OneMainThread'
      /\ Live(t) /\ main[t].ac \in AppContexts
  <2>1. Live(t)
    BY DEF MainStep, FindNext, FindNone, Release, GiveUp, CheckIgnored, CheckUnsupported, CheckSupported, EnterState, AnnounceState,
           Arm, LaunchOperation, LaunchAfterPhaseError, PodsConfirmed, PodsAbandoned, HandOver, HandOverQueue,
           HandOverStart, Wait, Mark, WriteStatus, WriteCurrent, Live
  <2> QED BY <2>1, ReadyFacts DEF Coherent
<1>1. PICK c \in AppContexts : c = main[t].ac
  BY <1>0
<1>2. /\ WorkBar[c] = WorkOf(t)
      /\ WorkBar' = [WorkBar EXCEPT ![c] = WorkOf(t)']
  <2>1. \A u \in Threads \ {t} : Unmoved(u) \/ Begins(u)
    BY <1>0, OthersStay DEF Unmoved
  <2>2. main'[t] = NoMain \/ (main'[t].ac = main[t].ac /\ main'[t].pc # "none")
    BY <1>0, OwnMove
  <2> QED BY <1>0, <1>1, <2>1, <2>2, WorkMoves
<1>3. ASSUME UNCHANGED queue, UNCHANGED current, WorkOf(t)' = WorkOf(t) \/ WorkOf(t)' = "idle"
      PROVE  [Promise!NextLifecycle]_(Promise!lifecycle)
  <2>1. PendingBar' = PendingBar
    BY <1>3, SameQueues
  <2>2. WorkBar' = [WorkBar EXCEPT ![c] = WorkBar[c]] \/ WorkBar' = [WorkBar EXCEPT ![c] = "idle"]
    BY <1>2, <1>3
  <2> QED BY <1>3, <2>1, <2>2, Ends
<1>4. ASSUME main'[t].pc \in {"none", "find", "release", "check", "enter"} PROVE WorkOf(t)' = "idle"
  BY <1>4 DEF WorkOf
<1>5. ASSUME main[t].pc \notin {"none", "find", "release"}, Holds(t), main'[t].ac = main[t].ac
      PROVE  Event(t)' = Event(t)
  BY <1>0, <1>5, EventStays DEF Holds
<1>6. CASE FindNext(t) \/ FindNone(t) \/ Release(t) \/ GiveUp(t) \/ PodsAbandoned(t)
  <2>1. UNCHANGED queue /\ UNCHANGED current
    BY <1>6 DEF FindNext, FindNone, Release, GiveUp, PodsAbandoned, etcd
  <2>2. main'[t].pc \in {"check", "release", "none"}
    BY <1>0, <1>6, SearchMoves, NewMainFields DEF Goes
  <2> QED BY <1>3, <1>4, <2>1, <2>2
<1>7. CASE CheckIgnored(t) \/ CheckUnsupported(t)
  <2>1. UNCHANGED queue /\ UNCHANGED current
    BY <1>7 DEF CheckIgnored, CheckUnsupported, Refuse, etcd
  <2>2. main'[t].pc = "mark" /\ main'[t].verdict = "Skip"
    BY <1>0, <1>7, CheckMoves DEF Goes, Says
  <2>3. WorkOf(t)' = "idle"
    BY <2>2 DEF WorkOf
  <2> QED BY <1>3, <2>1, <2>3
<1>8. CASE EnterState(t)
  <2>1. main[t].pc = "enter" /\ main'[t].pc = "announce"
    BY <1>0, <1>8, CheckMoves DEF EnterState, Goes
  <2>2. WorkOf(t) = "idle" /\ WorkOf(t)' = "busy"
    BY <2>1 DEF WorkOf
  <2> QED BY <1>1, <1>2, <1>8, <2>2, Accepts
<1>16. CASE CheckSupported(t)
  <2>1. UNCHANGED queue /\ UNCHANGED current
    BY <1>16 DEF CheckSupported
  <2>2. main'[t].pc = "enter"
    BY <1>0, <1>16, CheckMoves DEF Goes
  <2> QED BY <1>3, <1>4, <2>1, <2>2
<1>17. CASE AnnounceState(t)
  <2>1. UNCHANGED queue /\ UNCHANGED current
    BY <1>17 DEF AnnounceState
  <2>2. main[t].pc = "announce" /\ main'[t].pc = "arm"
    BY <1>0, <1>17, CheckMoves DEF AnnounceState, Goes
  <2>3. WorkOf(t) = "busy" /\ WorkOf(t)' = "busy"
    BY <2>2 DEF WorkOf
  <2> QED BY <1>3, <2>1, <2>3
<1>9. CASE Arm(t) \/ LaunchOperation(t) \/ LaunchAfterPhaseError(t) \/ PodsConfirmed(t)
  <2>1. UNCHANGED queue /\ UNCHANGED current
    BY <1>9 DEF Arm, LaunchOperation, LaunchAfterPhaseError, Launch, PodsConfirmed, etcd
  <2>2. /\ main[t].pc \in {"arm", "phase", "pods"} /\ Holds(t) /\ main'[t].ac = main[t].ac
        /\ \/ main'[t].pc \in {"phase", "pods", "handover"}
           \/ main'[t].pc = "wait" /\ Event(t) # "Update"
    <3>1. CASE Arm(t)
      BY <1>0, <3>1, CheckMoves DEF Arm, Goes
    <3>2. CASE LaunchOperation(t) \/ LaunchAfterPhaseError(t)
      <4>1. Goes(t, IF Event(t) = "Update" THEN "pods" ELSE "wait") /\ Holds(t)
        BY <1>0, <3>2, OperationMoves
      <4> QED BY <3>2, <4>1 DEF LaunchOperation, LaunchAfterPhaseError, Goes
    <3>3. CASE PodsConfirmed(t)
      BY <1>0, <3>3, OperationMoves DEF PodsConfirmed, Goes
    <3> QED BY <1>9, <3>1, <3>2, <3>3
  <2>3. Event(t)' = Event(t)
    BY <1>5, <2>2
  <2>4. WorkOf(t) = "busy" /\ WorkOf(t)' = "busy"
    BY <2>2, <2>3 DEF WorkOf
  <2> QED BY <1>3, <2>1, <2>4
<1>10. CASE HandOver(t) /\ main'[t].pc = "handqueue"
  <2>1. main[t].pc = "handover" /\ UNCHANGED queue /\ UNCHANGED current
    BY <1>10, FirstWrite DEF HandOver
  <2>2. WorkOf(t) = "busy" /\ WorkOf(t)' = "busy"
    BY <1>10, <2>1 DEF WorkOf
  <2> QED BY <1>3, <2>1, <2>2
<1>18. CASE (HandOver(t) /\ main'[t].pc # "handqueue") \/ HandOverQueue(t)
  <2>1. /\ main[t].pc \in {"handover", "handqueue"} /\ Holds(t) /\ main'[t].ac = main[t].ac
        /\ main'[t].pc \in {"wait", "handstart"}
    BY <1>0, <1>18, OperationMoves DEF HandOver, HandOverQueue, Goes
  <2>2. Event(t) = "Update" /\ Event(t)' = Event(t)
    BY <1>0, <1>5, <2>1 DEF Coherent
  <2>3. WorkOf(t) = "busy" /\ WorkOf(t)' = "handed"
    BY <2>1, <2>2 DEF WorkOf
  <2>4. main'[t].pc # "handqueue"
    BY <2>1
  <2> QED BY <1>1, <1>2, <1>18, <2>3, <2>4, Hands
<1>11. CASE HandOverStart(t)
  <2>1. main[t].pc = "handstart" /\ Holds(t) /\ main'[t].ac = main[t].ac /\ main'[t].pc = "wait"
    BY <1>0, <1>11, StartMoves DEF HandOverStart, Goes
  <2>2. Event(t) = "Update" /\ Event(t)' = Event(t)
    BY <1>0, <1>5, <2>1 DEF Coherent
  <2>3. WorkOf(t) = "handed" /\ WorkOf(t)' = "handed"
    BY <2>1, <2>2 DEF WorkOf
  <2>4. UNCHANGED queue /\ UNCHANGED current
    BY <1>11 DEF HandOverStart, etcd
  <2> QED BY <1>3, <2>3, <2>4
<1>12. CASE Wait(t)
  <2>1. main[t].pc = "wait" /\ Holds(t) /\ main'[t].ac = main[t].ac /\ main'[t].pc = "mark"
        /\ main'[t].verdict # "Skip"
    BY <1>0, <1>12, OperationMoves DEF Wait, Goes, Says
  <2>2. Event(t)' = Event(t)
    BY <1>5, <2>1
  <2>3. WorkOf(t)' = WorkOf(t)
    BY <2>1, <2>2 DEF WorkOf
  <2>4. UNCHANGED queue /\ UNCHANGED current
    BY <1>12 DEF Wait, etcd
  <2> QED BY <1>3, <2>3, <2>4, SMTT(40)
<1>13. CASE Mark(t)
  BY <1>1, <1>2, <1>13, Decides
<1>14. CASE WriteStatus(t)
  <2>1. main[t].pc = "status" /\ main'[t].pc = "current" /\ main'[t].final = main[t].final
    BY <1>0, <1>14, VerdictMoves DEF WriteStatus, Goes, Says
  <2>2. WorkOf(t)' = WorkOf(t)
    BY <2>1 DEF WorkOf
  <2>3. UNCHANGED queue /\ UNCHANGED current
    BY <1>14 DEF WriteStatus
  <2> QED BY <1>3, <2>2, <2>3
<1>15. CASE WriteCurrent(t)
  <2>1. /\ main[t].pc = "current" /\ UNCHANGED queue
        /\ current' = [current EXCEPT ![c] = main[t].final]
    BY <1>1, <1>15 DEF WriteCurrent
  <2>2. main'[t].pc = "find"
    BY <1>0, <1>15, VerdictMoves DEF Goes
  <2>3. WorkOf(t) = main[t].final /\ WorkOf(t)' = "idle"
    BY <1>4, <2>1, <2>2 DEF WorkOf
  <2>4. main[t].final \in AppContextStatuses
    BY <1>0, <2>1 DEF TypeOK, MainThread, Coherent
  <2>5. PendingBar' = PendingBar
    BY <2>1, SameQueues
  <2>6. Promise!Settle(c)
    BY <1>2, <2>1, <2>3, <2>4, <2>5, SameTable DEF Promise!Settle
  <2> QED BY <2>6 DEF Promise!NextLifecycle
<1> QED
  BY <1>6, <1>7, <1>8, <1>9, <1>10, <1>11, <1>12, <1>13, <1>14, <1>15, <1>16, <1>17, <1>18
     DEF MainStep

\* Every step of the engine.
LEMMA Simulates ==
    ASSUME Ready, Ready', [Next]_vars
    PROVE  [Promise!NextLifecycle]_(Promise!lifecycle)
<1>0. /\ TypeOK /\ Coherent /\ QueueStep /\ OneMainThread /\ OneMainThread' /\ ~Crash
      /\ DecidedPrefix
  BY ReadyFacts
<1>1. CASE \E t \in Threads : MainStep(t)
  BY <1>1, MainSimulates
<1>2. ASSUME NEW t \in Threads, WatchStop(t)
      PROVE  [Promise!NextLifecycle]_(Promise!lifecycle)
  <2>1. Live(t) /\ UNCHANGED queue /\ UNCHANGED current
    BY <1>2 DEF WatchStop, etcd
  <2>2. PICK c \in AppContexts : c = main[t].ac
    BY <1>0, <2>1 DEF Coherent
  <2>3. /\ Others(t) /\ main'[t].pc = main[t].pc /\ main'[t].ac = main[t].ac /\ Holds(t)
        /\ main'[t].verdict = main[t].verdict /\ main'[t].final = main[t].final
    BY <1>0, <1>2, VerdictMoves DEF Says
  <2>4. \A u \in Threads \ {t} : Unmoved(u)
    BY <2>3 DEF Others, Unmoved
  <2>5. /\ WorkBar[c] = WorkOf(t)
        /\ WorkBar' = [WorkBar EXCEPT ![c] = WorkOf(t)']
    BY <1>0, <2>1, <2>2, <2>3, <2>4, WorkMoves DEF Live
  <2>6. main[t].pc \notin {"none", "find", "release"} => Event(t)' = Event(t)
    BY <1>0, <2>3, EventStays DEF Holds
  <2>7. WorkOf(t)' = WorkOf(t)
    BY <2>3, <2>6 DEF WorkOf
  <2> QED BY <2>1, <2>5, <2>7, Ends, SameQueues
<1>3. ASSUME \A t \in Threads : ~MainStep(t) /\ ~WatchStop(t)
      PROVE  [Promise!NextLifecycle]_(Promise!lifecycle)
  <2>1. \A u \in Threads : Unmoved(u) \/ Begins(u)
    BY <1>0, <1>3, EveryMove
  <2>2. WorkBar' = WorkBar
    BY <1>0, <2>1, WorkRests
  <2>3. UNCHANGED current
    BY <1>3, StateWrites DEF MainStep
  <2>4. CASE UNCHANGED queue
    <3>1. PendingBar' = PendingBar
      BY <2>4, SameQueues
    <3>2. UNCHANGED Promise!lifecycle
      BY <2>2, <2>3, <3>1 DEF Promise!lifecycle
    <3> QED BY <3>2
  <2>5. ASSUME NEW k \in Callers, HandlerQueue(k) PROVE Promise!NextLifecycle
    <3>1. /\ handler[k].ac \in AppContexts /\ handler[k].ev \in RsyncEvents
          /\ handler[k].other \in AppContexts \cup {NoContext}
          /\ Enqueue(handler[k].ac, handler[k].ev, handler[k].other)
      BY <1>0, <2>5, SecondWrite DEF HandlerQueue, Coherent, TypeOK, HandlerState
    <3> QED BY <1>0, <2>2, <2>3, <3>1, Submits
  <2> QED BY <1>3, <2>4, <2>5, QueueWrites DEF MainStep
<1> QED BY <1>1, <1>2, <1>3

\* A fresh rsync has no event, no thread and no work.
LEMMA InitReady ==
    ASSUME Init
    PROVE  Ready /\ Promise!InitLifecycle
<1>1. /\ \A t \in Threads : main[t].pc = "none"
      /\ \A c \in AppContexts : queue[c] = <<>> /\ queue[c] \in Seq(QueueElement)
  <2>1. \A t \in Threads : main[t].pc = "none"
    BY NewMainFields DEF Init
  <2>2. \A c \in AppContexts : queue[c] = <<>>
    BY DEF Init
  <2> QED BY <2>1, <2>2, EmptySeq
<1>2. \A c \in AppContexts : Split(queue[c], 0)
  BY <1>1 DEF Split
<1>3. DebtsKept
  BY <1>1 DEF DebtsKept, Owes, Engaged
<1>4. Ready
  BY <1>2, <1>3, InitIInv, InitMore DEF Ready, DecidedPrefix, NeverCrashed, Init
<1>5. ASSUME NEW c \in AppContexts PROVE PendingEvents(queue[c]) = <<>> /\ WorkFor(c) = "idle"
  <2>1. Len(queue[c]) - 0 = 0
    BY <1>1
  <2>2. PendingEvents(queue[c]) = [i \in 1..0 |-> Submission(queue[c][0 + i])]
    BY <1>1, <1>2, <2>1, PendingEventsAre
  <2>3. Alive(c) = {}
    BY <1>1 DEF Alive, Live
  <2> QED BY <2>2, <2>3 DEF WorkFor
<1>6. Promise!InitLifecycle
  BY <1>5 DEF Promise!InitLifecycle, PendingBar, WorkBar, Init
<1> QED BY <1>4, <1>6

\* Until a crash, what the proof needs is kept.
LEMMA ReadyKept ==
    ASSUME "crash" \notin Faults, Ready, IInv', [Next]_vars
    PROVE  Ready'
<1>0. TypeOK /\ Coherent /\ InOrder /\ ThreadsAnnounced /\ OneMainThread /\ ~Crash
  BY DEF Ready, IInv, NeverCrashed, ThreadsAnnounced, Crash
<1>1. NeverCrashed'
  BY <1>0, CrashesCounted DEF Ready, NeverCrashed
<1>2. Undecided' /\ DebtsKept'
  BY <1>0, UndecidedInductive, DebtsInductive DEF Ready
<1>3. DecidedPrefix'
  <2>1. CASE UNCHANGED queue
    BY <2>1, SameQueues DEF Ready
  <2>2. ASSUME NEW k \in Callers, HandlerQueue(k) PROVE DecidedPrefix'
    <3>1. /\ handler[k].ac \in AppContexts /\ handler[k].ev \in RsyncEvents
          /\ handler[k].other \in AppContexts \cup {NoContext}
          /\ Enqueue(handler[k].ac, handler[k].ev, handler[k].other)
      BY <1>0, <2>2, SecondWrite DEF HandlerQueue, Coherent, TypeOK, HandlerState
    <3> QED BY <1>0, <3>1, EnqueueBar DEF Ready
  <2>4. ASSUME NEW t \in Threads, HandOverQueue(t), ~UNCHANGED queue PROVE DecidedPrefix'
    <3>1. Event(t) = "Update" /\ main[t].pc = "handqueue"
      BY <1>0, <2>4 DEF HandOverQueue, Coherent
    <3>2. main[t].ac \in AppContexts /\ main[t].idx \in DOMAIN queue[main[t].ac]
      BY <1>0, <3>1, ElementType
    <3>3. Element(t).other \in AppContexts /\ "UpdateDelete" \in RsyncEvents
      BY <1>0, <3>1, <3>2 DEF Coherent, Event, Element, RsyncEvents
    <3>4. Enqueue(Element(t).other, "UpdateDelete", main[t].ac)
      BY <2>4, SecondWrite DEF HandOverQueue
    <3> QED BY <1>0, <3>2, <3>3, <3>4, EnqueueBar DEF Ready
  <2>5. ASSUME NEW t \in Threads, Mark(t) PROVE DecidedPrefix'
    BY <1>0, <2>5, MarkBar DEF Ready
  <2> QED BY <2>1, <2>2, <2>4, <2>5, QueueWrites
<1> QED BY <1>1, <1>2, <1>3 DEF Ready

\* As long as rsync is not restarted the engine keeps what AppContextLifecycle
\* promises, whatever calls overlap and whatever else fails: a DIG that is stopped,
\* clusters that refuse or are out of reach, AppContexts and pods that are not there.
THEOREM Refinement == ASSUME "crash" \notin Faults PROVE Spec => ImplementsLifecycle
<1>1. Init => Ready /\ Promise!InitLifecycle
  BY InitReady
<1>2. Ready /\ IInv' /\ [Next]_vars => Ready'
  BY ReadyKept
<1>3. Ready /\ Ready' /\ [Next]_vars => [Promise!NextLifecycle]_(Promise!lifecycle)
  BY Simulates
<1> QED BY <1>1, <1>2, <1>3, Invariance, PTL DEF Spec, ImplementsLifecycle, Promise!Lifecycle

-------------------------------------------------------------------------------
(* What each step does to the placements a thread has in hand.             *)

InHand(t) == main[t].todo \cup main[t].open

\* A step leaves the operation of thread t and its placements as they are ...
SameWork(t) ==
    /\ main'[t].op = main[t].op /\ main'[t].todo = main[t].todo
    /\ main'[t].open = main[t].open /\ main'[t].await = main[t].await

\* ... and so it does its errors.
SameErrors(t) ==
    main'[t].failed = main[t].failed /\ main'[t].cancelled = main[t].cancelled

\* Thread t begins operation op on all its placements but some ...
Loads(t, op, skipped) ==
    /\ main'[t].op = op /\ main'[t].todo = Manifest[main[t].ac] \ skipped
    /\ main'[t].open = {} /\ main'[t].await = Manifest[main[t].ac]

\* ... opens a client for placement p, or is done with it.
Opens(t, p) ==
    /\ main'[t].op = main[t].op /\ main'[t].await = main[t].await
    /\ main'[t].todo = main[t].todo \ {p} /\ main'[t].open = main[t].open \cup {p}

Drops(t, p) ==
    /\ main'[t].op = main[t].op /\ main'[t].await = main[t].await
    /\ main'[t].todo = main[t].todo \ {p} /\ main'[t].open = main[t].open \ {p}

\* From its search to its operation thread t has nothing new in hand.
LEMMA EarlyHands ==
    ASSUME TypeOK, NEW t \in Threads
    PROVE  /\ FindNext(t) \/ FindNone(t) \/ CheckIgnored(t) \/ CheckUnsupported(t)
              \/ CheckSupported(t) \/ EnterState(t) \/ AnnounceState(t) =>
                 SameWork(t) /\ SameErrors(t)
           /\ Arm(t) => SameWork(t) /\ ~main'[t].failed /\ main'[t].cancelled = main[t].ctxDone
<1>0. main \in [Threads -> MainThread] /\ main[t] \in MainThread
  BY DEF TypeOK
<1>1. ASSUME FindNext(t) PROVE SameWork(t) /\ SameErrors(t)
  <2>1. PICK i : main' = [main EXCEPT ![t].idx = i, ![t].pc = "check"]
    BY <1>1 DEF FindNext
  <2> DEFINE m == [main[t] EXCEPT !.idx = i, !.pc = "check"]
  <2>2. main'[t] = m
    BY <1>0, <2>1
  <2>3. /\ m.op = main[t].op /\ m.todo = main[t].todo /\ m.open = main[t].open
        /\ m.await = main[t].await /\ m.failed = main[t].failed /\ m.cancelled = main[t].cancelled
    BY <1>0 DEF MainThread
  <2> HIDE DEF m
  <2> QED BY <2>2, <2>3 DEF SameWork, SameErrors
<1>2. ASSUME CheckIgnored(t) \/ CheckUnsupported(t) PROVE SameWork(t) /\ SameErrors(t)
  <2>1. PICK f : Refuse(t, f)
    BY <1>2 DEF CheckIgnored, CheckUnsupported
  <2> DEFINE m == [main[t] EXCEPT !.pc = "mark", !.verdict = "Skip", !.final = f]
  <2>2. main'[t] = m
    BY <1>0, <2>1 DEF Refuse
  <2>3. /\ m.op = main[t].op /\ m.todo = main[t].todo /\ m.open = main[t].open
        /\ m.await = main[t].await /\ m.failed = main[t].failed /\ m.cancelled = main[t].cancelled
    BY <1>0 DEF MainThread
  <2> HIDE DEF m
  <2> QED BY <2>2, <2>3 DEF SameWork, SameErrors
<1>3. ASSUME FindNone(t) \/ CheckSupported(t) \/ EnterState(t) \/ AnnounceState(t)
      PROVE  SameWork(t) /\ SameErrors(t)
  <2>1. PICK pc \in {"release", "enter", "announce", "arm"} : main'[t] = [main[t] EXCEPT !.pc = pc]
    BY <1>0, <1>3 DEF FindNone, CheckSupported, EnterState, AnnounceState
  <2> DEFINE m == [main[t] EXCEPT !.pc = pc]
  <2>2. /\ m.op = main[t].op /\ m.todo = main[t].todo /\ m.open = main[t].open
        /\ m.await = main[t].await /\ m.failed = main[t].failed /\ m.cancelled = main[t].cancelled
    BY <1>0 DEF MainThread
  <2> HIDE DEF m
  <2> QED BY <2>1, <2>2 DEF SameWork, SameErrors, m
<1>4. ASSUME Arm(t)
      PROVE  SameWork(t) /\ ~main'[t].failed /\ main'[t].cancelled = main[t].ctxDone
  <2> DEFINE d == main[t].ctxDone
             m == [main[t] EXCEPT !.pc = "phase", !.failed = FALSE, !.cancelled = d]
  <2>1. main'[t] = m
    BY <1>0, <1>4 DEF Arm
  <2>2. /\ m.op = main[t].op /\ m.todo = main[t].todo /\ m.open = main[t].open
        /\ m.await = main[t].await /\ ~m.failed /\ m.cancelled = d
    <3> HIDE DEF d
    <3> QED BY <1>0 DEF MainThread
  <2> HIDE DEF m
  <2> QED BY <2>1, <2>2 DEF SameWork
<1> QED BY <1>1, <1>2, <1>3, <1>4

\* The operation takes the placements of the AppContext up; the wait for the pods
\* takes them off its own list.
LEMMA LaunchHands ==
    ASSUME TypeOK, NEW t \in Threads
    PROVE  /\ LaunchOperation(t) =>
                 Loads(t, OperationOf(Event(t)), Unaffected(t)) /\ SameErrors(t)
           /\ LaunchAfterPhaseError(t) => Loads(t, main[t].op, {}) /\ SameErrors(t)
           /\ PodsConfirmed(t) =>
                 /\ SameErrors(t) /\ main'[t].op = main[t].op
                 /\ main'[t].todo = main[t].todo /\ main'[t].open = main[t].open
                 /\ \E p \in main[t].await :
                       /\ Reachable(p) /\ PodsRunning(p)
                       /\ main'[t].await = main[t].await \ {p}
                       /\ main'[t].pc = IF main[t].await = {p} THEN "handover" ELSE "pods"
           /\ HandOver(t) \/ HandOverQueue(t) \/ HandOverStart(t) => SameWork(t) /\ SameErrors(t)
<1>0. main \in [Threads -> MainThread] /\ main[t] \in MainThread
  BY DEF TypeOK
<1>1. ASSUME NEW op, NEW skipped, Launch(t, op, skipped)
      PROVE  Loads(t, op, skipped) /\ SameErrors(t)
  <2> DEFINE c == main[t].ac
             pc == IF Event(t) = "Update" THEN "pods" ELSE "wait"
             m == [main[t] EXCEPT !.op = op, !.todo = Manifest[c] \ skipped, !.open = {},
                                  !.await = Manifest[c], !.pc = pc]
  <2>1. main'[t] = m
    BY <1>0, <1>1 DEF Launch
  <2>2. /\ m.op = op /\ m.todo = Manifest[c] \ skipped /\ m.open = {} /\ m.await = Manifest[c]
        /\ m.failed = main[t].failed /\ m.cancelled = main[t].cancelled
    <3> HIDE DEF pc, c
    <3> QED BY <1>0 DEF MainThread
  <2> HIDE DEF m
  <2> QED BY <2>1, <2>2 DEF Loads, SameErrors
<1>2. ASSUME PodsConfirmed(t)
      PROVE  /\ SameErrors(t) /\ main'[t].op = main[t].op
             /\ main'[t].todo = main[t].todo /\ main'[t].open = main[t].open
             /\ \E p \in main[t].await :
                   /\ Reachable(p) /\ PodsRunning(p)
                   /\ main'[t].await = main[t].await \ {p}
                   /\ main'[t].pc = IF main[t].await = {p} THEN "handover" ELSE "pods"
  <2>1. PICK p \in main[t].await :
           /\ Reachable(p) /\ PodsRunning(p)
           /\ main' = [main EXCEPT ![t].await = @ \ {p},
                        ![t].pc = IF main[t].await = {p} THEN "handover" ELSE "pods"]
    BY <1>2 DEF PodsConfirmed
  <2> DEFINE pc == IF main[t].await = {p} THEN "handover" ELSE "pods"
             m == [main[t] EXCEPT !.await = @ \ {p}, !.pc = pc]
  <2>2. main'[t] = m
    BY <1>0, <2>1
  <2>3. /\ m.op = main[t].op /\ m.todo = main[t].todo /\ m.open = main[t].open
        /\ m.await = main[t].await \ {p} /\ m.pc = pc
        /\ m.failed = main[t].failed /\ m.cancelled = main[t].cancelled
    <3> HIDE DEF pc
    <3> QED BY <1>0 DEF MainThread
  <2> HIDE DEF m
  <2> QED BY <2>1, <2>2, <2>3 DEF SameErrors
<1>3. ASSUME HandOver(t) \/ HandOverQueue(t) \/ HandOverStart(t)
      PROVE  SameWork(t) /\ SameErrors(t)
  <2>1. \E pc \in {"wait", "handqueue", "handstart"} : main'[t] = [main[t] EXCEPT !.pc = pc]
    <3>1. CASE HandOver(t)
      BY <1>0, <3>1 DEF HandOver
    <3>3. CASE HandOverQueue(t)
      BY <1>0, <3>3 DEF HandOverQueue
    <3>2. CASE HandOverStart(t)
      BY <1>0, <3>2 DEF HandOverStart, Live
    <3> QED BY <1>3, <3>1, <3>2, <3>3
  <2>2. PICK pc : main'[t] = [main[t] EXCEPT !.pc = pc]
    BY <2>1
  <2> DEFINE m == [main[t] EXCEPT !.pc = pc]
  <2>3. /\ m.op = main[t].op /\ m.todo = main[t].todo /\ m.open = main[t].open
        /\ m.await = main[t].await /\ m.failed = main[t].failed /\ m.cancelled = main[t].cancelled
    BY <1>0 DEF MainThread
  <2> HIDE DEF m
  <2> QED BY <2>2, <2>3 DEF SameWork, SameErrors, m
<1> QED BY <1>1, <1>2, <1>3 DEF LaunchOperation, LaunchAfterPhaseError

\* The verdict and the stop flag leave the placements alone.
LEMMA LateHands ==
    ASSUME TypeOK, NEW t \in Threads,
           Wait(t) \/ Mark(t) \/ WriteStatus(t) \/ WriteCurrent(t) \/ WatchStop(t)
    PROVE  SameWork(t) /\ SameErrors(t)
<1>0. main \in [Threads -> MainThread] /\ main[t] \in MainThread
  BY DEF TypeOK
<1> DEFINE Same(m) == /\ m.op = main[t].op /\ m.todo = main[t].todo /\ m.open = main[t].open
                      /\ m.await = main[t].await
                      /\ m.failed = main[t].failed /\ m.cancelled = main[t].cancelled
<1>1. CASE Wait(t)
  <2> DEFINE v == IF main[t].failed THEN "Error" ELSE "Done"
             f == ErrorState(Event(t))
             m == [main[t] EXCEPT !.pc = "mark", !.verdict = v, !.final = f]
  <2>1. main'[t] = m
    BY <1>0, <1>1 DEF Wait
  <2>2. Same(m)
    <3> HIDE DEF v, f
    <3> QED BY <1>0 DEF MainThread
  <2> HIDE DEF m
  <2> QED BY <2>1, <2>2 DEF SameWork, SameErrors
<1>2. CASE Mark(t)
  <2> DEFINE f == FinalState(t)
             a == AfterMark(f)
             m == [main[t] EXCEPT !.final = f, !.pc = a]
  <2>1. main'[t] = m
    BY <1>0, <1>2 DEF Mark
  <2>2. Same(m)
    <3> HIDE DEF a, f
    <3> QED BY <1>0 DEF MainThread
  <2> HIDE DEF m
  <2> QED BY <2>1, <2>2 DEF SameWork, SameErrors
<1>3. CASE WriteStatus(t) \/ WriteCurrent(t)
  <2>1. PICK pc : main'[t] = [main[t] EXCEPT !.pc = pc]
    BY <1>0, <1>3 DEF WriteStatus, WriteCurrent
  <2> DEFINE m == [main[t] EXCEPT !.pc = pc]
  <2>2. Same(m)
    BY <1>0 DEF MainThread
  <2> HIDE DEF m
  <2> QED BY <2>1, <2>2 DEF SameWork, SameErrors, m
<1>4. CASE WatchStop(t)
  <2> DEFINE m == [main[t] EXCEPT !.ctxDone = TRUE]
  <2>1. main'[t] = m
    BY <1>0, <1>4 DEF WatchStop
  <2>2. Same(m)
    BY <1>0 DEF MainThread
  <2> HIDE DEF m
  <2> QED BY <2>1, <2>2 DEF SameWork, SameErrors
<1> QED BY <1>1, <1>2, <1>3, <1>4

\* A cluster routine opens a client for a placement, is done with one, or fails on
\* one and cancels the others.
LEMMA RoutineHands ==
    ASSUME TypeOK, NEW t \in Threads, Routine(t)
    PROVE  \E p \in Placements :
              \/ OpenClient(t, p) /\ Opens(t, p) /\ SameErrors(t)
              \/ /\ \/ HandleSkipped(t, p) \/ Apply(t, p) \/ Delete(t, p)
                    \/ DeleteLost(t, p) \/ ReadResource(t, p)
                 /\ Drops(t, p) /\ SameErrors(t)
              \/ /\ OpenClientFails(t, p) \/ ApplyFails(t, p) \/ Unreachable(t, p)
                 /\ Drops(t, p)
<1>0. main \in [Threads -> MainThread] /\ main[t] \in MainThread
  BY DEF TypeOK
<1>1. PICK p \in Placements :
         \/ OpenClient(t, p) \/ OpenClientFails(t, p) \/ HandleSkipped(t, p)
         \/ Apply(t, p) \/ ApplyFails(t, p)
         \/ Delete(t, p) \/ DeleteLost(t, p)
         \/ ReadResource(t, p) \/ Unreachable(t, p)
  BY DEF Routine
<1>2. /\ Drop(t, p).op = main[t].op /\ Drop(t, p).await = main[t].await
      /\ Drop(t, p).todo = main[t].todo \ {p} /\ Drop(t, p).open = main[t].open \ {p}
      /\ Drop(t, p).failed = main[t].failed /\ Drop(t, p).cancelled = main[t].cancelled
  BY <1>0 DEF Drop, MainThread
<1>3. ASSUME OpenClient(t, p) PROVE Opens(t, p) /\ SameErrors(t)
  <2> DEFINE m == [main[t] EXCEPT !.todo = @ \ {p}, !.open = @ \cup {p}]
  <2>1. main'[t] = m
    BY <1>0, <1>3 DEF OpenClient
  <2>2. /\ m.op = main[t].op /\ m.await = main[t].await
        /\ m.todo = main[t].todo \ {p} /\ m.open = main[t].open \cup {p}
        /\ m.failed = main[t].failed /\ m.cancelled = main[t].cancelled
    BY <1>0 DEF MainThread
  <2> HIDE DEF m
  <2> QED BY <2>1, <2>2 DEF Opens, SameErrors
<1>4. ASSUME RoutineEnds(t, p) PROVE Drops(t, p) /\ SameErrors(t)
  <2>1. main'[t] = Drop(t, p)
    BY <1>0, <1>4 DEF RoutineEnds
  <2> QED BY <1>2, <2>1 DEF Drops, SameErrors
<1>5. ASSUME RoutineFails(t, p) PROVE Drops(t, p)
  <2> DEFINE m == [Drop(t, p) EXCEPT !.failed = TRUE, !.cancelled = TRUE]
  <2>1. main'[t] = m
    BY <1>0, <1>5 DEF RoutineFails
  <2>2. /\ m.op = Drop(t, p).op /\ m.await = Drop(t, p).await
        /\ m.todo = Drop(t, p).todo /\ m.open = Drop(t, p).open
    BY DropType DEF MainThread
  <2> HIDE DEF m
  <2> QED BY <1>2, <2>1, <2>2 DEF Drops
<1> QED
  BY <1>1, <1>3, <1>4, <1>5
     DEF OpenClientFails, HandleSkipped, Apply, ApplyFails, Delete, DeleteLost, ReadResource,
         Unreachable

\* A main thread's step changes what it has in hand only when it starts its
\* operation, confirms pods, or ends.
LEMMA MainHands ==
    ASSUME TypeOK, NEW t \in Threads, MainStep(t)
    PROVE  \/ main'[t] = NoMain
           \/ LaunchOperation(t) \/ LaunchAfterPhaseError(t) \/ PodsConfirmed(t)
           \/ SameWork(t) /\ (Arm(t) \/ SameErrors(t))
  BY SearchMoves, EarlyHands, LaunchHands, LateHands DEF MainStep

\* A step keeps the event a thread works on and the AppContext it names.
LEMMA ElementStays ==
    ASSUME TypeOK, Coherent, QueueStep, NEW t \in Threads, main[t].pc \notin {"none", "find", "release"},
           main'[t].ac = main[t].ac, main'[t].idx = main[t].idx
    PROVE  Event(t)' = Event(t) /\ Element(t)'.other = Element(t).other
  BY ElementType DEF QueueStep, Event, Element

\* The hand-over of an update, between the confirmation of its pods and the start of
\* the thread that deletes the old resources.
HandingOver == {"handover", "handqueue"}

KeepsStage(t) == /\ main'[t].pc = "pods" => main[t].pc = "pods"
                 /\ main'[t].pc \in HandingOver => main[t].pc \in HandingOver

\* An operation that runs after a step was started by it, or ran before on the same
\* element and has at most handled a placement or confirmed the pods of one.
LEMMA StillOperating ==
    ASSUME TypeOK, Coherent, InOrder, [Next]_vars, NEW t \in Threads, Operating(t)'
    PROVE  /\ main[t].pc \notin {"none", "find", "release"}
           /\ main'[t].ac = main[t].ac /\ main'[t].idx = main[t].idx
           /\ Event(t)' = Event(t) /\ Element(t)'.other = Element(t).other
           /\ main[t].ctxDone => main'[t].ctxDone
           /\ \/ LaunchOperation(t) \/ LaunchAfterPhaseError(t)
              \/ Operating(t) /\ (Routine(t) \/ PodsConfirmed(t))
              \/ /\ Operating(t) /\ SameWork(t)
                 /\ SameErrors(t) \/ Cancels(t)
                 /\ KeepsStage(t)
<1>0. QueueStep /\ main[t] \in MainThread /\ NoMain.pc = "none"
  BY EveryQueueStep DEF TypeOK, NoMain
<1>1. main'[t].pc \in {"pods", "handover", "handqueue", "handstart", "wait"}
  BY DEF Operating
<1>2. ASSUME main[t].pc \notin {"none", "find", "release"}, main'[t].ac = main[t].ac, main'[t].idx = main[t].idx
      PROVE  Event(t)' = Event(t) /\ Element(t)'.other = Element(t).other
  BY <1>0, <1>2, ElementStays
<1>3. CASE main'[t] = main[t]
  BY <1>1, <1>2, <1>3 DEF Operating, SameWork, SameErrors, KeepsStage
<1>4. CASE Cancels(t)
  <2> DEFINE m == [main[t] EXCEPT !.cancelled = TRUE]
  <2>1. /\ m.pc = main[t].pc /\ m.ac = main[t].ac /\ m.idx = main[t].idx
        /\ m.ctxDone = main[t].ctxDone /\ m.op = main[t].op /\ m.todo = main[t].todo
        /\ m.open = main[t].open /\ m.await = main[t].await
    BY <1>0 DEF MainThread
  <2>2. main'[t] = m
    BY <1>4 DEF Cancels
  <2> HIDE DEF m
  <2> QED BY <1>1, <1>2, <1>4, <2>1, <2>2 DEF Operating, SameWork, KeepsStage
<1>5. CASE WatchStop(t)
  <2>1. SameWork(t) /\ SameErrors(t) /\ Holds(t) /\ main'[t].pc = main[t].pc /\ main'[t].ac = main[t].ac
    BY <1>5, VerdictMoves, LateHands
  <2>2. ~main[t].ctxDone
    BY <1>5 DEF WatchStop
  <2> QED BY <1>1, <1>2, <2>1, <2>2 DEF Operating, Holds, KeepsStage
<1>6. CASE Routine(t)
  <2>1. Operating(t)
    BY <1>6 DEF Routine, OpenClient, OpenClientFails, HandleSkipped, Apply, ApplyFails, Delete,
                DeleteLost, ReadResource, Unreachable
  <2>2. Goes(t, main[t].pc) /\ Holds(t)
    BY <1>6, OperationMoves
  <2> QED BY <1>1, <1>2, <1>6, <2>1, <2>2 DEF Goes, Holds
<1>7. CASE MainStep(t)
  <2>1. ~FindNext(t) /\ ~FindNone(t) /\ ~Release(t) /\ ~GiveUp(t) /\ ~PodsAbandoned(t)
    BY <1>0, <1>1, SearchMoves DEF Goes
  <2>2. /\ ~CheckIgnored(t) /\ ~CheckUnsupported(t) /\ ~CheckSupported(t)
        /\ ~EnterState(t) /\ ~AnnounceState(t) /\ ~Arm(t)
    BY <1>1, CheckMoves DEF Goes
  <2>3. ~Wait(t) /\ ~Mark(t) /\ ~WriteStatus(t) /\ ~WriteCurrent(t)
    BY <1>1, OperationMoves, VerdictMoves DEF Goes, AfterMark
  <2>4. CASE LaunchOperation(t) \/ LaunchAfterPhaseError(t)
    <3>1. Holds(t) /\ \E pc : Goes(t, pc)
      BY <2>4, OperationMoves
    <3>2. main[t].pc = "phase"
      BY <2>4 DEF LaunchOperation, LaunchAfterPhaseError
    <3> QED BY <1>2, <2>4, <3>1, <3>2 DEF Goes, Holds
  <2>5. CASE PodsConfirmed(t)
    <3>1. Holds(t) /\ \E pc : Goes(t, pc)
      BY <2>5, OperationMoves
    <3>2. main[t].pc = "pods"
      BY <2>5 DEF PodsConfirmed
    <3> QED BY <1>2, <2>5, <3>1, <3>2 DEF Goes, Holds, Operating
  <2>6. CASE HandOver(t) \/ HandOverQueue(t) \/ HandOverStart(t)
    <3>1. Holds(t) /\ \E pc \in {"wait", "handqueue", "handstart"} : Goes(t, pc)
      BY <2>6, OperationMoves, StartMoves
    <3>2. main[t].pc \in {"handover", "handqueue", "handstart"}
      BY <2>6 DEF HandOver, HandOverQueue, HandOverStart
    <3>3. SameWork(t) /\ SameErrors(t)
      BY <2>6, LaunchHands
    <3>4. main'[t].pc = "handqueue" => main[t].pc = "handover"
      BY <2>6, OperationMoves, StartMoves DEF Goes, HandOver
    <3>5. main'[t].pc \in {"wait", "handqueue", "handstart"}
      BY <3>1 DEF Goes
    <3>6. KeepsStage(t)
      BY <3>4, <3>5 DEF KeepsStage, HandingOver
    <3> QED BY <1>2, <3>1, <3>2, <3>3, <3>6 DEF Goes, Holds, Operating
  <2> QED BY <1>7, <2>1, <2>2, <2>3, <2>4, <2>5, <2>6 DEF MainStep
<1>8. CASE Begins(t) \/ Crash
  BY <1>1, <1>8, NewMainFields DEF Begins, Crash
<1> QED BY <1>3, <1>4, <1>5, <1>6, <1>7, <1>8, EveryThread

-------------------------------------------------------------------------------
(* What an update retains.                                                 *)

\* A thread whose operation deletes works on a Terminate, or on the deleting half
\* of an update and has nothing in hand that the new AppContext lists.
Aimed ==
    \A t \in Threads : Operating(t) /\ ~main[t].ctxDone /\ main[t].op = "Delete" =>
        /\ Event(t) \in {"Terminate", "UpdateDelete"}
        /\ Event(t) = "UpdateDelete" => InHand(t) \cap Manifest[Element(t).other] = {}

\* A phase that fails finds no deletion to repeat.
NoStaleDelete ==
    \A t \in Threads : LaunchAfterPhaseError(t) => main[t].ctxDone \/ main[t].op # "Delete"

\* Placements are taken up when the operation starts; then they only get fewer.
LEMMA AimedInductive ==
    ASSUME TypeOK, Coherent, InOrder, NoStaleDelete, Aimed, [Next]_vars
    PROVE  Aimed'
<1> SUFFICES ASSUME NEW t \in Threads, Operating(t)', ~main'[t].ctxDone, main'[t].op = "Delete"
             PROVE  /\ Event(t)' \in {"Terminate", "UpdateDelete"}
                    /\ Event(t)' = "UpdateDelete" =>
                          InHand(t)' \cap Manifest[Element(t)'.other] = {}
  BY DEF Aimed
<1>0. /\ main[t].pc \notin {"none", "find", "release"} /\ ~main[t].ctxDone
      /\ Event(t)' = Event(t) /\ Element(t)'.other = Element(t).other
      /\ Event(t) \in RsyncEvents
  BY StillOperating, ElementType
<1>1. ASSUME Operating(t), main'[t].op = main[t].op, InHand(t)' \subseteq InHand(t)
      PROVE  /\ Event(t) \in {"Terminate", "UpdateDelete"}
             /\ Event(t) = "UpdateDelete" => InHand(t)' \cap Manifest[Element(t).other] = {}
  BY <1>0, <1>1 DEF Aimed
<1>2. CASE LaunchOperation(t)
  <2>1. Loads(t, OperationOf(Event(t)), Unaffected(t))
    BY <1>2, LaunchHands
  <2>2. Event(t) \in {"Terminate", "UpdateDelete"}
    BY <1>0, <2>1 DEF Loads, OperationOf, RsyncEvents
  <2>3. Event(t) = "UpdateDelete" => Unaffected(t) = Manifest[main[t].ac] \cap Manifest[Element(t).other]
    BY DEF Unaffected, Retained
  <2>4. InHand(t)' = Manifest[main[t].ac] \ Unaffected(t)
    BY <2>1 DEF Loads, InHand
  <2> QED BY <1>0, <2>2, <2>3, <2>4
<1>3. CASE LaunchAfterPhaseError(t)
  BY <1>0, <1>3, LaunchHands DEF NoStaleDelete, Loads
<1>4. CASE Operating(t) /\ Routine(t)
  <2>1. InHand(t)' \subseteq InHand(t) /\ main'[t].op = main[t].op
    <3>1. PICK p : (Opens(t, p) /\ OpenClient(t, p)) \/ Drops(t, p)
      BY <1>4, RoutineHands
    <3> QED BY <3>1 DEF Opens, Drops, InHand, OpenClient
  <2> QED BY <1>0, <1>1, <1>4, <2>1
<1>5. CASE Operating(t) /\ PodsConfirmed(t)
  BY <1>0, <1>1, <1>5, LaunchHands DEF InHand
<1>6. CASE Operating(t) /\ SameWork(t)
  BY <1>0, <1>1, <1>6 DEF SameWork, InHand
<1> QED BY <1>2, <1>3, <1>4, <1>5, <1>6, StillOperating

-------------------------------------------------------------------------------
(* Where the events of an update come from.                                *)

Updates  == {r \in Requests : r.ev = "Update"}

\* What an update replaces, and what it brings in.
Replaced == {r.other : r \in Updates}
Targets  == {r.ac : r \in Updates}

\* Every event of an update goes back to a request for it.
Traced ==
    \A c \in AppContexts : \A i \in DOMAIN queue[c] :
        /\ queue[c][i].ev = "Update" => \E r \in Updates : r.ac = c /\ r.other = queue[c][i].other
        /\ queue[c][i].ev = "UpdateDelete" =>
              \E r \in Updates : r.other = c /\ r.ac = queue[c][i].other

\* A new element comes from a handler, which serves a request or gives up one whose
\* start failed, or from the thread of an update.
LEMMA NewElements ==
    ASSUME TypeOK, Coherent, InOrder, [Next]_vars, NEW c \in AppContexts,
           NEW i \in DOMAIN queue'[c], i \notin DOMAIN queue[c]
    PROVE  \/ \E k \in Callers :
                 /\ HandlerQueue(k) /\ handler[k].ac = c
                 /\ queue'[c][i] = NewElement(handler[k].ev, handler[k].other)
                 /\ \/ handler[k].ev = "Terminate"
                    \/ \E r \in Requests : /\ r.ev = handler[k].ev /\ r.ac = c
                                           /\ r.other = handler[k].other
           \/ \E t \in Threads :
                 /\ HandOverQueue(t) /\ c = Element(t).other
                 /\ queue'[c][i] = NewElement("UpdateDelete", main[t].ac)
<1>0. queue \in [AppContexts -> Seq(QueueElement)]
  BY DEF TypeOK
<1>1. ASSUME NEW d, NEW ev, NEW other, Enqueue(d, ev, other)
      PROVE  d = c /\ queue'[c][i] = NewElement(ev, other)
  <2> DEFINE e == NewElement(ev, other)
  <2>1. queue' = [queue EXCEPT ![d] = Append(queue[d], e)]
    BY <1>1 DEF Enqueue
  <2>2. d = c
    BY <1>0, <2>1
  <2> HIDE DEF e
  <2>3. queue[c] \in Seq(QueueElement) /\ queue'[c] = Append(queue[c], e)
    BY <1>0, <2>1, <2>2
  <2>4. /\ DOMAIN queue[c] = 1..Len(queue[c]) /\ Len(queue[c]) \in Nat
        /\ DOMAIN Append(queue[c], e) = 1..(Len(queue[c]) + 1)
        /\ Append(queue[c], e)[Len(queue[c]) + 1] = e
    BY <2>3
  <2>5. i = Len(queue[c]) + 1
    BY <2>3, <2>4
  <2> QED BY <2>2, <2>3, <2>4, <2>5 DEF e
<1>2. ~UNCHANGED queue
  OBVIOUS
<1>3. ASSUME NEW t \in Threads, Mark(t) PROVE FALSE
  <2>1. \A d \in AppContexts : DOMAIN queue'[d] = DOMAIN queue[d]
    BY <1>0, <1>3 DEF Mark
  <2> QED BY <2>1
<1>4. ASSUME NEW k \in Callers, HandlerQueue(k)
      PROVE  /\ handler[k].ac = c
             /\ queue'[c][i] = NewElement(handler[k].ev, handler[k].other)
             /\ \/ handler[k].ev = "Terminate"
                \/ \E r \in Requests : /\ r.ev = handler[k].ev /\ r.ac = c
                                       /\ r.other = handler[k].other
  <2>1. Enqueue(handler[k].ac, handler[k].ev, handler[k].other)
    BY <1>4, SecondWrite DEF HandlerQueue
  <2> QED BY <1>1, <1>4, <2>1 DEF HandlerQueue, Coherent
<1>5. ASSUME NEW t \in Threads, HandOverQueue(t)
      PROVE  c = Element(t).other /\ queue'[c][i] = NewElement("UpdateDelete", main[t].ac)
  <2>1. Enqueue(Element(t).other, "UpdateDelete", main[t].ac)
    BY <1>2, <1>5, SecondWrite DEF HandOverQueue
  <2> QED BY <1>1, <2>1
<1> QED BY <1>2, <1>3, <1>4, <1>5, QueueWrites

\* A thread that works on an update works on one that was asked for.
LEMMA UpdateOf ==
    ASSUME TypeOK, Coherent, Traced, NEW t \in Threads, main[t].pc \notin {"none", "find", "release"}
    PROVE  /\ Event(t) = "Update" =>
                 \E r \in Updates : r.ac = main[t].ac /\ r.other = Element(t).other
           /\ Event(t) = "UpdateDelete" =>
                 \E r \in Updates : r.other = main[t].ac /\ r.ac = Element(t).other
  BY ElementType DEF Traced, Event, Element

\* A thread takes up nothing else than what was asked for.
LEMMA TracedInductive ==
    ASSUME TypeOK, Coherent, InOrder, Traced, [Next]_vars
    PROVE  Traced'
<1> SUFFICES ASSUME NEW c \in AppContexts, NEW i \in DOMAIN queue'[c]
             PROVE  /\ queue'[c][i].ev = "Update" =>
                          \E r \in Updates : r.ac = c /\ r.other = queue'[c][i].other
                    /\ queue'[c][i].ev = "UpdateDelete" =>
                          \E r \in Updates : r.other = c /\ r.ac = queue'[c][i].other
  BY DEF Traced
<1>1. CASE i \in DOMAIN queue[c]
  BY <1>1, EveryQueueStep DEF QueueStep, Traced
<1>2. ASSUME NEW k \in Callers, queue'[c][i] = NewElement(handler[k].ev, handler[k].other),
             \/ handler[k].ev = "Terminate"
             \/ \E r \in Requests : r.ev = handler[k].ev /\ r.ac = c /\ r.other = handler[k].other
      PROVE  /\ queue'[c][i].ev # "UpdateDelete"
             /\ queue'[c][i].ev = "Update" =>
                   \E r \in Updates : r.ac = c /\ r.other = queue'[c][i].other
  <2>1. queue'[c][i].ev = handler[k].ev /\ queue'[c][i].other = handler[k].other
    BY <1>2 DEF NewElement
  <2> QED BY <1>2, <2>1, RequestAssumption DEF RequestAssumption, Updates
<1>3. ASSUME NEW t \in Threads, HandOverQueue(t), c = Element(t).other,
             queue'[c][i] = NewElement("UpdateDelete", main[t].ac)
      PROVE  /\ queue'[c][i].ev = "UpdateDelete"
             /\ \E r \in Updates : r.other = c /\ r.ac = queue'[c][i].other
  <2>1. main[t].pc = "handqueue"
    BY <1>3 DEF HandOverQueue
  <2>2. Event(t) = "Update"
    BY <2>1 DEF Coherent
  <2>3. \E r \in Updates : r.ac = main[t].ac /\ r.other = Element(t).other
    BY <2>1, <2>2, UpdateOf
  <2> QED BY <1>3, <2>3 DEF NewElement
<1> QED BY <1>1, <1>2, <1>3, NewElements

-------------------------------------------------------------------------------
(* What the state of an AppContext says while a thread works for it.       *)

\* An AppContext in which a thread works on its element is in the state that the
\* event announces.
Underway ==
    \A t \in Threads :
        main[t].pc \in Engaged \ {"enter"} \/ (main[t].pc = "mark" /\ main[t].verdict # "Skip") =>
            current[main[t].ac] = RunningState(Event(t))

\* The thread of an AppContext announces its event when it accepts it, and nobody
\* else writes the state.
LEMMA UnderwayInductive ==
    ASSUME TypeOK, Coherent, InOrder, OneMainThread, Underway, [Next]_vars
    PROVE  Underway'
<1> SUFFICES ASSUME NEW t \in Threads,
                    \/ main'[t].pc \in Engaged \ {"enter"}
                    \/ main'[t].pc = "mark" /\ main'[t].verdict # "Skip"
             PROVE  current'[main'[t].ac] = RunningState(Event(t)')
  BY DEF Underway
<1>0. QueueStep
  BY EveryQueueStep
<1>1. ASSUME main'[t].ac = main[t].ac, main'[t].idx = main[t].idx,
             ~CheckSupported(t), ~EnterState(t), ~WriteCurrent(t),
             \/ main[t].pc \in Engaged \ {"enter"}
             \/ main[t].pc = "mark" /\ main[t].verdict # "Skip"
      PROVE  current'[main'[t].ac] = RunningState(Event(t)')
  <2>1. main[t].pc \notin {"none", "find", "release"}
    BY <1>1 DEF Engaged
  <2>2. Event(t)' = Event(t)
    BY <1>0, <1>1, <2>1, ElementStays
  <2>3. current'[main[t].ac] = current[main[t].ac]
    BY <1>1, <2>1, OwnStates DEF Live
  <2> QED BY <1>1, <2>2, <2>3 DEF Underway
<1>2. CASE Unmoved(t) \/ WatchStop(t)
  <2>1. /\ main'[t].pc = main[t].pc /\ main'[t].ac = main[t].ac /\ main'[t].idx = main[t].idx
        /\ main'[t].verdict = main[t].verdict
    BY <1>2, VerdictMoves DEF Unmoved, Holds, Says
  <2>2. main[t].pc \notin {"check", "enter", "current"}
    BY <2>1 DEF Engaged
  <2>3. ~CheckSupported(t) /\ ~EnterState(t) /\ ~WriteCurrent(t)
    BY <2>2 DEF CheckSupported, EnterState, WriteCurrent
  <2> QED BY <1>1, <2>1, <2>3
<1>3. CASE Begins(t) \/ Crash
  BY <1>3, NewMainFields DEF Begins, Crash, Engaged
<1>4. CASE MainStep(t)
  <2>1. ~FindNext(t) /\ ~FindNone(t) /\ ~Release(t) /\ ~GiveUp(t) /\ ~PodsAbandoned(t)
    BY NewMainFields, SearchMoves DEF Goes, Engaged
  <2>2. ~CheckIgnored(t) /\ ~CheckUnsupported(t) /\ ~CheckSupported(t)
    BY CheckMoves DEF Goes, Says, Engaged
  <2>3. CASE EnterState(t)
    <3>1. main[t].pc = "enter" /\ main[t].ac \in AppContexts
      BY <2>3, ElementType DEF EnterState
    <3>2. current' = [current EXCEPT ![main[t].ac] = RunningState(Event(t))]
      BY <2>3 DEF EnterState
    <3>3. current'[main[t].ac] = RunningState(Event(t))
      BY <3>1, <3>2 DEF TypeOK
    <3>4. main'[t].ac = main[t].ac /\ main'[t].idx = main[t].idx
      BY <2>3, CheckMoves DEF Goes, Holds
    <3> QED BY <1>0, <3>1, <3>3, <3>4, ElementStays
  <2>4. CASE AnnounceState(t) \/ Arm(t)
    <3>1. /\ main[t].pc \in {"announce", "arm"} /\ main'[t].ac = main[t].ac
          /\ main'[t].idx = main[t].idx
      BY <2>4, CheckMoves DEF AnnounceState, Arm, Goes, Holds
    <3>2. ~CheckSupported(t) /\ ~EnterState(t) /\ ~WriteCurrent(t)
      BY <3>1 DEF CheckSupported, EnterState, WriteCurrent
    <3> QED BY <1>1, <3>1, <3>2 DEF Engaged
  <2>5. CASE LaunchOperation(t) \/ LaunchAfterPhaseError(t) \/ PodsConfirmed(t) \/ HandOver(t)
             \/ HandOverQueue(t) \/ HandOverStart(t) \/ Wait(t)
    <3>1. main'[t].ac = main[t].ac /\ main'[t].idx = main[t].idx
      BY <2>5, OperationMoves, StartMoves DEF Goes, Holds
    <3>2. main[t].pc \in {"phase", "pods", "handover", "handqueue", "handstart", "wait"}
      BY <2>5 DEF LaunchOperation, LaunchAfterPhaseError, PodsConfirmed, HandOver, HandOverQueue, HandOverStart,
                  Wait
    <3>3. ~CheckSupported(t) /\ ~EnterState(t) /\ ~WriteCurrent(t)
      BY <3>2 DEF CheckSupported, EnterState, WriteCurrent
    <3> QED BY <1>1, <3>1, <3>2, <3>3 DEF Engaged
  <2>6. ~Mark(t) /\ ~WriteStatus(t) /\ ~WriteCurrent(t)
    BY VerdictMoves DEF Goes, AfterMark, Engaged
  <2> QED BY <1>4, <2>1, <2>2, <2>3, <2>4, <2>5, <2>6 DEF MainStep
<1> QED BY <1>2, <1>3, <1>4, EveryMove

-------------------------------------------------------------------------------
(* What an update retains stays, with AppContexts that are updated one way. *)

\* Only an apply, a delete and a pod that starts change what is on the clusters.
LEMMA ClusterWrites ==
    ASSUME [Next]_vars
    PROVE  \/ UNCHANGED <<deployed, podsUp>>
           \/ \E t \in Threads : \E p \in Placements : Apply(t, p) \/ Delete(t, p)
           \/ \E p \in Placements : PodsStart(p)
<1>1. ASSUME NEW k \in Callers, Handler(k) PROVE UNCHANGED <<deployed, podsUp>>
  BY <1>1 DEF Handler, Receive, HandlerQueue, HandlerStart, HandlerStartFails, HandlerRetry, world
<1>2. ASSUME NEW t \in Threads, MainStep(t) PROVE UNCHANGED <<deployed, podsUp>>
  BY <1>2
     DEF MainStep, FindNext, FindNone, Release, GiveUp, CheckIgnored, CheckUnsupported, Refuse,
         CheckSupported, EnterState, AnnounceState, Arm, LaunchOperation, LaunchAfterPhaseError, Launch, PodsConfirmed,
         PodsAbandoned, HandOver, HandOverQueue, HandOverStart, Wait, Mark, WriteStatus, WriteCurrent, world
<1>3. ASSUME NEW t \in Threads, NEW p \in Placements,
             \/ OpenClient(t, p) \/ OpenClientFails(t, p) \/ HandleSkipped(t, p)
             \/ ApplyFails(t, p) \/ DeleteLost(t, p) \/ ReadResource(t, p) \/ Unreachable(t, p)
      PROVE  UNCHANGED <<deployed, podsUp>>
  BY <1>3 DEF OpenClient, OpenClientFails, HandleSkipped, ApplyFails, DeleteLost, ReadResource,
              Unreachable, RoutineFails, world
<1>4. ASSUME NEW t \in Threads, WatchStop(t) PROVE UNCHANGED <<deployed, podsUp>>
  BY <1>4 DEF WatchStop, world
<1>5. CASE Crash
  BY <1>5 DEF Crash
<1>6. ASSUME NEW d \in AppContexts, Restart(d) \/ RestartFails(d)
      PROVE  UNCHANGED <<deployed, podsUp>>
  BY <1>6 DEF Restart, RestartFails, world
<1>7. CASE Environment \/ UNCHANGED vars
  BY <1>7 DEF Environment, Stop, ClearStop, ClusterDown, ClusterUp, vars, world
<1> QED BY <1>1, <1>2, <1>3, <1>4, <1>5, <1>6, <1>7 DEF Next, Routine

\* A placement that goes was in the hands of a thread that was to delete it.
LEMMA RetainedStep ==
    ASSUME TypeOK, Coherent, Aimed, [Next]_vars, NEW p \in deployed \ deployed'
    PROVE  \E t \in Threads :
              /\ Operating(t) /\ p \in main[t].open /\ p \notin main'[t].open
              /\ \/ Event(t) = "Terminate"
                 \/ Event(t) = "UpdateDelete" /\ p \notin Manifest[Element(t).other]
<1>1. PICK t \in Threads : Delete(t, p)
  <2>1. ASSUME NEW t \in Threads, NEW q \in Placements, Delete(t, q) PROVE Delete(t, p)
    BY <2>1 DEF Delete
  <2>2. ASSUME NEW t \in Threads, NEW q \in Placements, Apply(t, q) PROVE FALSE
    BY <2>2 DEF Apply
  <2>3. ASSUME NEW q \in Placements, PodsStart(q) PROVE FALSE
    BY <2>3 DEF PodsStart
  <2> QED BY <2>1, <2>2, <2>3, ClusterWrites
<1>2. Operating(t) /\ p \in main[t].open /\ main[t].op = "Delete" /\ ~main[t].ctxDone
  BY <1>1 DEF Delete, Interrupted
<1>3. p \notin main'[t].open
  <2>0. main \in [Threads -> MainThread] /\ main[t] \in MainThread
    BY DEF TypeOK
  <2>1. main'[t] = Drop(t, p)
    BY <1>1, <2>0 DEF Delete, RoutineEnds
  <2>2. Drop(t, p).open = main[t].open \ {p}
    BY <2>0 DEF Drop, MainThread
  <2> QED BY <2>1, <2>2
<1> QED BY <1>2, <1>3 DEF Aimed, InHand

\* No AppContext both replaces another one and is replaced.
OneWay == Replaced \cap Targets = {}

\* Only the deleting half of an update leaves an AppContext Updated.
ReplacedOnly ==
    /\ \A c \in AppContexts : current[c] = "Updated" \/ desired[c] = "Updated" => c \in Replaced
    /\ \A t \in Threads : main[t].pc \in {"mark", "status", "current"} /\ main[t].final = "Updated"
                             => main[t].ac \in Replaced

\* The states of the two halves of an update are different ones.
LEMMA UpdatedStates ==
    ASSUME NEW e \in RsyncEvents
    PROVE  /\ ErrorState(e) # "Updated" /\ RunningState(e) # "Updated"
           /\ DesiredState(e) = "Updated" => e = "UpdateDelete"
  BY DEF RsyncEvents, ErrorState, RunningState, DesiredState

\* Only an UpdateDelete leads to the state Updated, and it comes to AppContexts that are
\* replaced.
LEMMA ReplacedOnlyInductive ==
    ASSUME TypeOK, Coherent, InOrder, Traced, ReplacedOnly, [Next]_vars
    PROVE  ReplacedOnly'
<1>0. /\ current \in [AppContexts -> AppContextStatuses]
      /\ desired \in [AppContexts -> AppContextStatuses]
  BY DEF TypeOK
<1>1. ASSUME NEW c \in AppContexts, current'[c] = "Updated" \/ desired'[c] = "Updated"
      PROVE  c \in Replaced
  <2>1. CASE UNCHANGED <<current, desired, status>>
    BY <1>1, <2>1 DEF ReplacedOnly
  <2>2. ASSUME NEW t \in Threads, CheckSupported(t) \/ EnterState(t) \/ AnnounceState(t)
        PROVE  c \in Replaced
    <3>1. /\ main[t].pc \in {"check", "enter", "announce"} /\ main[t].ac \in AppContexts
          /\ Event(t) \in RsyncEvents
      BY <2>2, ElementType DEF CheckSupported, EnterState, AnnounceState
    <3>2. /\ (current' = [current EXCEPT ![main[t].ac] = RunningState(Event(t))] \/ current' = current)
          /\ (desired' = [desired EXCEPT ![main[t].ac] = DesiredState(Event(t))] \/ desired' = desired)
      BY <2>2 DEF CheckSupported, EnterState, AnnounceState
    <3>3. Event(t) = "UpdateDelete" => main[t].ac \in Replaced
      BY <3>1, UpdateOf DEF Replaced
    <3>4. CASE c = main[t].ac
      <4>1. /\ current'[c] = RunningState(Event(t)) \/ current'[c] = current[c]
            /\ desired'[c] = DesiredState(Event(t)) \/ desired'[c] = desired[c]
        BY <1>0, <3>2, <3>4
      <4> QED BY <1>1, <3>1, <3>3, <3>4, <4>1, UpdatedStates DEF ReplacedOnly
    <3>5. CASE c # main[t].ac
      BY <1>0, <1>1, <3>2, <3>5 DEF ReplacedOnly
    <3> QED BY <3>4, <3>5
  <2>3. ASSUME NEW t \in Threads, WriteStatus(t) PROVE c \in Replaced
    BY <1>1, <2>3 DEF WriteStatus, ReplacedOnly
  <2>4. ASSUME NEW t \in Threads, WriteCurrent(t) PROVE c \in Replaced
    <3>1. /\ main[t].pc = "current" /\ UNCHANGED desired
          /\ current' = [current EXCEPT ![main[t].ac] = main[t].final]
      BY <2>4 DEF WriteCurrent
    <3>2. CASE c = main[t].ac
      BY <1>0, <1>1, <3>1, <3>2 DEF ReplacedOnly
    <3>3. CASE c # main[t].ac
      BY <1>0, <1>1, <3>1, <3>3 DEF ReplacedOnly
    <3> QED BY <3>2, <3>3
  <2> QED BY <2>1, <2>2, <2>3, <2>4, StateWrites
<1>2. ASSUME NEW t \in Threads, main'[t].pc \in {"mark", "status", "current"},
             main'[t].final = "Updated"
      PROVE  main'[t].ac \in Replaced
  <2>1. CASE Unmoved(t) \/ WatchStop(t)
    BY <1>2, <2>1, VerdictMoves DEF Unmoved, Holds, Says, ReplacedOnly
  <2>2. ~Begins(t) /\ ~Crash
    BY <1>2, NewMainFields DEF Begins, Crash
  <2>3. CASE MainStep(t)
    <3>1. ~FindNext(t) /\ ~FindNone(t) /\ ~Release(t) /\ ~GiveUp(t) /\ ~PodsAbandoned(t)
      BY <1>2, SearchMoves, NewMainFields DEF Goes
    <3>2. ~CheckSupported(t) /\ ~EnterState(t) /\ ~AnnounceState(t) /\ ~Arm(t) /\ ~WriteCurrent(t)
      BY <1>2, CheckMoves, VerdictMoves DEF Goes
    <3>3. /\ ~LaunchOperation(t) /\ ~LaunchAfterPhaseError(t) /\ ~PodsConfirmed(t)
          /\ ~HandOver(t) /\ ~HandOverQueue(t) /\ ~HandOverStart(t)
      BY <1>2, OperationMoves, StartMoves DEF Goes
    <3>4. ASSUME main[t].pc \notin {"none", "find", "release"} PROVE ErrorState(Event(t)) # "Updated"
      BY <3>4, ElementType, UpdatedStates
    <3>5. ~CheckIgnored(t)
      BY <1>2, <3>4, CheckMoves DEF CheckIgnored, Says
    <3>6. ~CheckUnsupported(t)
      BY <1>2, CheckMoves DEF Says
    <3>7. ~Wait(t)
      BY <1>2, <3>4, OperationMoves DEF Wait, Says
    <3>8. CASE Mark(t)
      <4>1. main[t].pc = "mark" /\ main[t].ac \in AppContexts
        BY <3>8, ElementType DEF Mark
      <4>2. main'[t].final = FinalState(t) /\ main'[t].ac = main[t].ac
        BY <3>8, VerdictMoves DEF Says, Goes
      <4> QED BY <1>2, <4>1, <4>2 DEF FinalState, ReplacedOnly
    <3>9. CASE WriteStatus(t)
      BY <1>2, <3>9, VerdictMoves DEF WriteStatus, Says, Goes, ReplacedOnly
    <3> QED BY <2>3, <3>1, <3>2, <3>3, <3>5, <3>6, <3>7, <3>8, <3>9 DEF MainStep
  <2> QED BY <2>1, <2>2, <2>3, EveryMove
<1> QED BY <1>1, <1>2 DEF ReplacedOnly

\* An update starts from one of these, unless its AppContext has been replaced.
Fresh == {"Created", "Instantiated"}

\* After a deletion a thread finds its AppContext in no state in which an update
\* starts, and is on the way to none, so that its next update does not follow the
\* deletion.
Behind(t) ==
    Live(t) /\ ~main[t].ctxDone /\ main[t].op = "Delete" =>
        /\ main[t].pc \in {"find", "check", "mark", "status", "current"} =>
              current[main[t].ac] \notin Fresh
        /\ main[t].pc \in {"mark", "status", "current"} => main[t].final \notin Fresh
        /\ main[t].pc = "mark" /\ main[t].verdict = "Done" => desired[main[t].ac] \notin Fresh
        /\ main[t].pc \in {"enter", "announce", "arm", "phase"} =>
              Event(t) \notin {"Update", "UpdateDelete"}

DeletesBehind == \A t \in Threads : Behind(t)

\* A step of thread t after a deletion.
LEMMA BehindStep ==
    ASSUME OneWay, TypeOK, Coherent, InOrder, OneMainThread, Traced, ReplacedOnly, Underway,
           DebtsKept, Aimed, DeletesBehind, [Next]_vars, NEW t \in Threads, MainStep(t),
           Live(t)', ~main'[t].ctxDone, main'[t].op = "Delete"
    PROVE  Behind(t)'
<1>0. QueueStep /\ Behind(t)
  BY EveryQueueStep DEF DeletesBehind
<1>1. ~Release(t) /\ ~GiveUp(t) /\ ~PodsAbandoned(t)
  BY SearchMoves, NewMainFields DEF Live
<1>2. CASE Operating(t)' \/ FindNone(t)
  BY <1>2, SearchMoves DEF Operating, Behind, Goes
<1> SUFFICES ASSUME ~Operating(t)', ~FindNone(t) PROVE Behind(t)'
  BY <1>2
<1>3. /\ ~LaunchOperation(t) /\ ~LaunchAfterPhaseError(t) /\ ~PodsConfirmed(t)
      /\ ~HandOver(t) /\ ~HandOverQueue(t) /\ ~HandOverStart(t)
  BY OperationMoves, StartMoves DEF Operating, Goes
<1>4. Live(t) /\ main'[t].ac = main[t].ac /\ ~main[t].ctxDone /\ main[t].op = "Delete"
  <2>1. Live(t)
    BY DEF Live, MainStep, FindNext, FindNone, Release, GiveUp, CheckIgnored, CheckUnsupported,
           CheckSupported, EnterState, AnnounceState, Arm, LaunchOperation, LaunchAfterPhaseError, PodsConfirmed,
           PodsAbandoned, HandOver, HandOverQueue, HandOverStart, Wait, Mark, WriteStatus, WriteCurrent
  <2>2. main'[t].ac = main[t].ac /\ ~main[t].ctxDone
    BY <1>1, OwnMove
  <2>3. main[t].op = "Delete"
    BY <1>1, <1>3, MainHands, NewMainFields DEF SameWork, Live
  <2> QED BY <2>1, <2>2, <2>3
<1>5. /\ ~CheckSupported(t) => desired'[main[t].ac] = desired[main[t].ac]
      /\ ~CheckSupported(t) /\ ~EnterState(t) /\ ~WriteCurrent(t) =>
            current'[main[t].ac] = current[main[t].ac]
  BY <1>4, OwnStates
<1>6. ASSUME main[t].pc \notin {"none", "find", "release"}
      PROVE  ErrorState(Event(t)) \notin Fresh
  <2>1. Event(t) \in RsyncEvents
    BY <1>6, ElementType
  <2> QED BY <2>1 DEF ErrorState, Fresh, RsyncEvents
<1>7. CASE FindNext(t)
  <2>1. main[t].pc = "find" /\ main'[t].pc = "check" /\ ~CheckSupported(t) /\ ~EnterState(t) /\ ~WriteCurrent(t)
    BY <1>7, SearchMoves DEF FindNext, Goes, CheckSupported, EnterState, WriteCurrent
  <2> QED BY <1>0, <1>4, <1>5, <2>1 DEF Behind
<1>8. CASE CheckIgnored(t) \/ CheckUnsupported(t)
  <2>1. main[t].pc = "check" /\ main'[t].pc = "mark" /\ ~CheckSupported(t) /\ ~EnterState(t) /\ ~WriteCurrent(t)
    BY <1>8, CheckMoves DEF CheckIgnored, CheckUnsupported, Goes, CheckSupported, EnterState, WriteCurrent
  <2>2. main'[t].verdict = "Skip" /\ main'[t].final \notin Fresh
    BY <1>6, <1>8, <2>1, CheckMoves DEF Says, Fresh
  <2> QED BY <1>0, <1>4, <1>5, <2>1, <2>2 DEF Behind
<1>9. CASE CheckSupported(t)
  <2>1. /\ main[t].pc = "check" /\ main'[t].pc = "enter" /\ Holds(t)
        /\ current[main[t].ac] \in SourceStates(Event(t))
    BY <1>9, CheckMoves DEF CheckSupported, Supported, Goes
  <2>2. Event(t)' = Event(t) /\ Event(t) \in RsyncEvents /\ main[t].ac \in AppContexts
    BY <1>0, <1>4, <2>1, ElementStays, ElementType DEF Holds
  <2>3. current[main[t].ac] \notin Fresh
    BY <1>0, <1>4, <2>1 DEF Behind
  <2>4. Event(t) # "UpdateDelete"
    BY <2>1, <2>3 DEF SourceStates, Fresh
  <2>5. Event(t) # "Update"
    <3> SUFFICES ASSUME Event(t) = "Update" PROVE FALSE
      OBVIOUS
    <3>1. current[main[t].ac] = "Updated"
      BY <2>1, <2>3 DEF SourceStates, Fresh
    <3>2. main[t].ac \in Replaced /\ main[t].ac \in Targets
      BY <2>1, <2>2, <3>1, UpdateOf DEF ReplacedOnly, Targets
    <3> QED BY <3>2 DEF OneWay
  <2> QED BY <2>1, <2>2, <2>4, <2>5 DEF Behind
<1>10. CASE EnterState(t) \/ AnnounceState(t) \/ Arm(t)
  <2>1. /\ main[t].pc \in {"enter", "announce", "arm"}
        /\ main'[t].pc \in {"announce", "arm", "phase"} /\ Holds(t)
    BY <1>10, CheckMoves DEF EnterState, AnnounceState, Arm, Goes
  <2>2. Event(t)' = Event(t)
    BY <1>0, <1>4, <2>1, ElementStays DEF Holds
  <2> QED BY <1>0, <1>4, <2>1, <2>2 DEF Behind
<1>11. CASE Wait(t)
  <2>1. main[t].pc = "wait" /\ main'[t].pc = "mark" /\ ~CheckSupported(t) /\ ~EnterState(t) /\ ~WriteCurrent(t)
    BY <1>11, OperationMoves DEF Wait, Goes, CheckSupported, EnterState, WriteCurrent
  <2>2. Event(t) \in {"Terminate", "UpdateDelete"}
    BY <1>4, <2>1 DEF Aimed, Operating
  <2>3. current[main[t].ac] = RunningState(Event(t)) /\ desired[main[t].ac] = DesiredState(Event(t))
    BY <2>1 DEF Underway, DebtsKept, Owes, Engaged
  <2>4. main'[t].final = ErrorState(Event(t))
    BY <1>11, OperationMoves DEF Says
  <2>5. RunningState(Event(t)) \notin Fresh /\ DesiredState(Event(t)) \notin Fresh
    BY <2>2 DEF RunningState, DesiredState, Fresh
  <2> QED BY <1>4, <1>5, <1>6, <2>1, <2>3, <2>4, <2>5, SMTT(40) DEF Behind
<1>12. CASE Mark(t)
  <2>1. main[t].pc = "mark" /\ ~CheckSupported(t) /\ ~EnterState(t) /\ ~WriteCurrent(t)
    BY <1>12 DEF Mark, CheckSupported, EnterState, WriteCurrent
  <2>2. main'[t].pc \in {"find", "status"} /\ main'[t].final = FinalState(t)
    BY <1>12, VerdictMoves DEF Goes, Says, AfterMark
  <2>3. FinalState(t) \notin Fresh
    BY <1>0, <1>4, <2>1 DEF FinalState, Behind
  <2> QED BY <1>0, <1>4, <1>5, <2>1, <2>2, <2>3 DEF Behind
<1>13. CASE WriteStatus(t)
  <2>1. /\ main[t].pc = "status" /\ main'[t].pc = "current" /\ main'[t].final = main[t].final
        /\ ~CheckSupported(t) /\ ~EnterState(t) /\ ~WriteCurrent(t)
    BY <1>13, VerdictMoves DEF WriteStatus, Goes, Says, CheckSupported, EnterState, WriteCurrent
  <2> QED BY <1>0, <1>4, <1>5, <2>1 DEF Behind
<1>14. CASE WriteCurrent(t)
  <2>1. main[t].pc = "current" /\ main'[t].pc = "find"
    BY <1>14, VerdictMoves DEF WriteCurrent, Goes
  <2>2. current'[main[t].ac] = main[t].final
    BY <1>4, <1>14 DEF WriteCurrent, TypeOK, Coherent
  <2> QED BY <1>0, <1>4, <2>1, <2>2 DEF Behind
<1> QED
  BY <1>1, <1>3, <1>7, <1>8, <1>9, <1>10, <1>11, <1>12, <1>13, <1>14 DEF MainStep

\* After a deletion a thread stays behind it.
LEMMA DeletesBehindInductive ==
    ASSUME OneWay, TypeOK, Coherent, InOrder, OneMainThread, Traced, ReplacedOnly, Underway,
           DebtsKept, Aimed, DeletesBehind, [Next]_vars
    PROVE  DeletesBehind'
<1> SUFFICES ASSUME NEW t \in Threads, Live(t)', ~main'[t].ctxDone, main'[t].op = "Delete"
             PROVE  Behind(t)'
  BY DEF DeletesBehind, Behind
<1>0. QueueStep /\ Behind(t)
  BY EveryQueueStep DEF DeletesBehind
<1>1. ASSUME main'[t].pc = main[t].pc, main'[t].ac = main[t].ac, main'[t].idx = main[t].idx,
             main'[t].ctxDone = main[t].ctxDone,
             main'[t].verdict = main[t].verdict, main'[t].final = main[t].final,
             main'[t].op = main[t].op
      PROVE  Behind(t)'
  <2>1. CASE MainStep(t)
    BY <2>1, BehindStep
  <2>2. CASE ~MainStep(t)
    <3>1. Live(t) /\ ~CheckSupported(t) /\ ~EnterState(t) /\ ~WriteCurrent(t)
      BY <1>1, <2>2 DEF Live, MainStep
    <3>2. /\ desired'[main[t].ac] = desired[main[t].ac]
          /\ current'[main[t].ac] = current[main[t].ac]
      BY <3>1, OwnStates
    <3>3. main[t].pc \in {"enter", "announce", "arm", "phase"} => Event(t)' = Event(t)
      BY <1>0, <1>1, ElementStays
    <3> QED BY <1>0, <1>1, <3>1, <3>2, <3>3 DEF Behind
  <2> QED BY <2>1, <2>2
<1>2. main[t] \in MainThread
  BY DEF TypeOK
<1>3. CASE main'[t] = main[t]
  BY <1>1, <1>3
<1>4. CASE Cancels(t)
  <2> DEFINE m == [main[t] EXCEPT !.cancelled = TRUE]
  <2>1. /\ m.pc = main[t].pc /\ m.ac = main[t].ac /\ m.idx = main[t].idx
        /\ m.ctxDone = main[t].ctxDone /\ m.verdict = main[t].verdict /\ m.final = main[t].final
        /\ m.op = main[t].op
    BY <1>2 DEF MainThread
  <2>2. main'[t] = m
    BY <1>4 DEF Cancels
  <2> HIDE DEF m
  <2> QED BY <1>1, <2>1, <2>2
<1>5. ~Begins(t) /\ ~Crash
  <2>1. \A c : NewMain(c).op = "Apply"
    BY DEF NewMain, NoMain
  <2>2. ~Crash
    BY DEF Crash, Live, NoMain
  <2> QED BY <2>1, <2>2 DEF Begins
<1>6. ~WatchStop(t)
  <2> SUFFICES ASSUME WatchStop(t) PROVE FALSE
    OBVIOUS
  <2> DEFINE m == [main[t] EXCEPT !.ctxDone = TRUE]
  <2>1. main'[t] = m
    BY DEF WatchStop, TypeOK
  <2>2. m.ctxDone
    BY <1>2 DEF MainThread
  <2> HIDE DEF m
  <2> QED BY <2>1, <2>2
<1>7. CASE MainStep(t)
  BY <1>7, BehindStep
<1>8. CASE Routine(t)
  <2>1. Operating(t)
    BY <1>8 DEF Routine, OpenClient, OpenClientFails, HandleSkipped, Apply, ApplyFails, Delete,
                DeleteLost, ReadResource, Unreachable
  <2>2. main'[t].pc = main[t].pc
    BY <1>8, OperationMoves DEF Goes
  <2> QED BY <2>1, <2>2 DEF Operating, Behind
<1> QED BY <1>3, <1>4, <1>5, <1>6, <1>7, <1>8, EveryThread

\* No deletion is repeated for an update, so none hits what the update retains.
LEMMA NothingStale ==
    ASSUME DeletesBehind
    PROVE  NoStaleDelete
  BY DEF DeletesBehind, Behind, NoStaleDelete, LaunchAfterPhaseError, Live

\* What a deletion meets is Terminate's, or no longer listed by the AppContext that
\* replaces the other one (updateDeletePhase), whatever else fails.  When the other
\* AppContext cannot be read, appContextRoutine starts the operation of the event
\* before (routines.go:1009): that is harmless as long as AppContexts are updated one
\* way and rsync does not crash.
THEOREM RetainedStaysSafe ==
    ASSUME "phase" \notin Faults \/ ("crash" \notin Faults /\ OneWay)
    PROVE  Spec => RetainedStays
<1>1. ASSUME TypeOK, Coherent, Aimed, [Next]_vars
      PROVE  [\A p \in deployed \ deployed' : \E t \in Threads :
                /\ Operating(t) /\ p \in main[t].open /\ p \notin main'[t].open
                /\ \/ Event(t) = "Terminate"
                   \/ Event(t) = "UpdateDelete" /\ p \notin Manifest[Element(t).other]]_vars
  BY <1>1, RetainedStep
<1>2. Init => Aimed
  BY DEF Init, Aimed, Operating, NoMain
<1>3. IInv => TypeOK /\ Coherent /\ InOrder /\ ThreadsAnnounced
  BY DEF IInv
<1>4. CASE "phase" \notin Faults
  <2>1. IInv => NoStaleDelete
    BY <1>4 DEF NoStaleDelete, LaunchAfterPhaseError
  <2>2. IInv /\ Aimed /\ [Next]_vars => Aimed'
    BY <1>3, <2>1, AimedInductive
  <2> QED BY <1>1, <1>2, <1>3, <2>2, Invariance, PTL DEF Spec, RetainedStays
<1>5. CASE "crash" \notin Faults /\ OneWay
  <2> DEFINE Kept == NeverCrashed /\ Traced /\ Underway /\ DebtsKept /\ ReplacedOnly /\ DeletesBehind
                     /\ Aimed
  <2>1. Init => Kept
    BY <1>2 DEF Init, NeverCrashed, Traced, Underway, DebtsKept, Owes, Engaged, ReplacedOnly,
                DeletesBehind, Behind, Live, NoMain
  <2>2. ASSUME IInv, Kept, [Next]_vars PROVE Kept'
    <3>1. TypeOK /\ Coherent /\ InOrder /\ OneMainThread /\ ~Crash
      BY <1>3, <1>5, <2>2 DEF ThreadsAnnounced, NeverCrashed, Crash
    <3>2. NeverCrashed'
      BY <2>2, <3>1, CrashesCounted DEF NeverCrashed
    <3>3. Traced' /\ Underway' /\ DebtsKept' /\ ReplacedOnly'
      BY <2>2, <3>1, TracedInductive, UnderwayInductive, DebtsInductive, ReplacedOnlyInductive
    <3>4. DeletesBehind' /\ Aimed'
      BY <1>5, <2>2, <3>1, DeletesBehindInductive, AimedInductive, NothingStale
    <3> QED BY <3>2, <3>3, <3>4
  <2>3. Kept => Aimed
    OBVIOUS
  <2> HIDE DEF Kept
  <2> QED BY <1>1, <1>3, <2>1, <2>2, <2>3, Invariance, PTL DEF Spec, RetainedStays
<1> QED BY <1>4, <1>5

-------------------------------------------------------------------------------
(* Updates that go through.                                                *)

\* Nobody terminates an AppContext, rsync starts its threads and the clusters take
\* what they are given: pods may be late, deletions lost and clusters unreachable
\* for a while, and rsync may crash.
Unhindered ==
    /\ {"stop", "start", "client", "apply", "retries", "phase"} \cap Faults = {}
    /\ \A r \in Requests : r.ev # "Terminate"

\* Then no operation is interrupted and none fails.
Calm ==
    /\ \A t \in Threads : ~main[t].cancelled /\ ~main[t].failed
    /\ \A k \in Callers : handler[k].pc # "retry" /\ handler[k].ev # "Terminate"
    /\ \A c \in AppContexts : ~pendTerm[c]
    /\ \A c \in AppContexts : \A i \in DOMAIN queue[c] : queue[c][i].ev # "Terminate"

\* The flag of a pending termination is set by a Terminate that finds Running set.
LEMMA FlagWrites ==
    ASSUME TypeOK, [Next]_vars
    PROVE  \/ UNCHANGED pendTerm
           \/ \E c : ClearTerminateFlag(c)
           \/ \E k \in Callers : handler[k].pc = "start" /\ handler[k].ev = "Terminate"
<1>1. ASSUME NEW k \in Callers, Handler(k)
      PROVE  UNCHANGED pendTerm \/ (handler[k].pc = "start" /\ handler[k].ev = "Terminate")
  BY <1>1 DEF Handler, Receive, HandlerQueue, HandlerStart, StartOrInterrupt, HandlerStartFails, HandlerRetry, etcd
<1>2. ASSUME NEW t \in Threads, MainStep(t)
      PROVE  UNCHANGED pendTerm \/ ClearTerminateFlag(main[t].ac)
  BY <1>2
     DEF MainStep, FindNext, FindNone, Release, GiveUp, CheckIgnored, CheckUnsupported, Refuse,
         CheckSupported, EnterState, AnnounceState, Arm, LaunchOperation, LaunchAfterPhaseError, Launch, PodsConfirmed,
         PodsAbandoned, HandOver, HandOverQueue, HandOverStart, Wait, Mark, WriteStatus, WriteCurrent, etcd
<1>3. ASSUME NEW t \in Threads, Routine(t) \/ WatchStop(t) PROVE UNCHANGED pendTerm
  BY <1>3
     DEF Routine, OpenClient, OpenClientFails, HandleSkipped, Apply, ApplyFails, Delete,
         DeleteLost, ReadResource, Unreachable, RoutineFails, RoutineEnds, WatchStop, etcd
<1>4. ASSUME Crash \/ \E d \in AppContexts : Restart(d) \/ RestartFails(d)
      PROVE  UNCHANGED pendTerm
  BY <1>4 DEF Crash, Restart, RestartFails, etcd
<1>5. CASE Environment \/ UNCHANGED vars
  BY <1>5 DEF Environment, Stop, ClearStop, PodsStart, ClusterDown, ClusterUp, vars, etcd
<1> QED BY <1>1, <1>2, <1>3, <1>4, <1>5 DEF Next

\* A placement that a thread is done with was applied, deleted, read or passed over.
LEMMA CalmRoutine ==
    ASSUME Unhindered, TypeOK, NeverDone, Calm, NEW t \in Threads, Routine(t)
    PROVE  /\ SameErrors(t)
           /\ \E p \in Placements :
                 \/ OpenClient(t, p) /\ Opens(t, p)
                 \/ /\ \/ HandleSkipped(t, p) \/ Apply(t, p) \/ Delete(t, p)
                       \/ DeleteLost(t, p) \/ ReadResource(t, p)
                    /\ Drops(t, p)
<1>1. ~Interrupted(t)
  BY DEF Interrupted, NeverDone, Calm
<1>2. \A p : ~OpenClientFails(t, p) /\ ~ApplyFails(t, p) /\ ~Unreachable(t, p)
  BY <1>1 DEF OpenClientFails, ApplyFails, Unreachable, Unhindered
<1> QED BY <1>2, RoutineHands

\* No step interrupts an operation or makes it fail.
LEMMA CalmInductive ==
    ASSUME Unhindered, TypeOK, Coherent, InOrder, NeverDone, Calm, [Next]_vars
    PROVE  Calm'
<1>0. QueueStep
  BY EveryQueueStep
<1>1. ASSUME NEW t \in Threads PROVE ~main'[t].cancelled /\ ~main'[t].failed
  <2>1. ASSUME SameErrors(t) PROVE ~main'[t].cancelled /\ ~main'[t].failed
    BY <2>1 DEF SameErrors, Calm
  <2>2. ~Cancels(t) /\ ~WatchStop(t)
    BY DEF Calm, Cancels, WatchStop, NeverDone, Live, Coherent
  <2>3. \A c : ~NewMain(c).cancelled /\ ~NewMain(c).failed
    BY DEF NewMain, NoMain
  <2>4. ~NoMain.cancelled /\ ~NoMain.failed
    BY DEF NoMain
  <2>5. CASE MainStep(t)
    <3>1. Arm(t) => ~main'[t].cancelled /\ ~main'[t].failed
      BY EarlyHands DEF NeverDone
    <3> QED BY <2>1, <2>4, <2>5, <3>1, MainHands, LaunchHands
  <2>6. CASE Routine(t)
    BY <2>1, <2>6, CalmRoutine
  <2>7. CASE main'[t] = main[t]
    BY <2>7 DEF Calm
  <2>8. CASE Begins(t) \/ Crash
    BY <2>3, <2>4, <2>8 DEF Begins, Crash
  <2> QED BY <2>2, <2>5, <2>6, <2>7, <2>8, EveryThread
<1>2. ASSUME NEW k \in Callers
      PROVE  handler'[k].pc # "retry" /\ handler'[k].ev # "Terminate"
  <2>0. handler \in [Callers -> HandlerState]
    BY DEF TypeOK
  <2>1. CASE UNCHANGED handler
    BY <2>1 DEF Calm
  <2>2. NoHandler.pc = "idle" /\ NoHandler.ev = "Read"
    BY DEF NoHandler
  <2>3. CASE Crash
    BY <2>2, <2>3 DEF Crash
  <2>4. ASSUME NEW j \in Callers, Handler(j)
        PROVE  handler'[k].pc # "retry" /\ handler'[k].ev # "Terminate"
    <3>1. CASE Receive(j)
      <4>1. PICK r \in outbox :
               handler' = [handler EXCEPT ![j] =
                             [pc |-> "queue", ev |-> r.ev, ac |-> r.ac, other |-> r.other]]
        BY <3>1 DEF Receive
      <4>2. r.ev # "Terminate"
        BY DEF TypeOK, Unhindered
      <4>3. CASE k = j
        BY <2>0, <4>1, <4>2, <4>3
      <4>4. CASE k # j
        BY <2>0, <4>1, <4>4 DEF Calm
      <4> QED BY <4>3, <4>4
    <3>2. CASE HandlerQueue(j)
      <4> DEFINE h == [handler[j] EXCEPT !.pc = "start"]
      <4>1. handler' = [handler EXCEPT ![j] = h]
        BY <3>2 DEF HandlerQueue
      <4>2. h.pc = "start" /\ h.ev = handler[j].ev
        BY <2>0 DEF HandlerState
      <4> HIDE DEF h
      <4> QED BY <2>0, <4>1, <4>2 DEF Calm
    <3>3. CASE HandlerStart(j)
      <4>1. handler' = [handler EXCEPT ![j] = NoHandler]
        BY <3>3 DEF HandlerStart
      <4> QED BY <2>0, <2>2, <4>1 DEF Calm
    <3>4. ~HandlerStartFails(j) /\ ~HandlerRetry(j)
      BY DEF HandlerStartFails, HandlerRetry, Unhindered, Calm
    <3> QED BY <2>4, <3>1, <3>2, <3>3, <3>4 DEF Handler
  <2> QED BY <2>1, <2>3, <2>4, HandlersStay
<1>3. ASSUME NEW c \in AppContexts PROVE ~pendTerm'[c]
  BY FlagWrites DEF Calm, ClearTerminateFlag, TypeOK
<1>4. ASSUME NEW c \in AppContexts, NEW i \in DOMAIN queue'[c] PROVE queue'[c][i].ev # "Terminate"
  <2>1. CASE i \in DOMAIN queue[c]
    BY <1>0, <2>1 DEF QueueStep, Calm
  <2>2. ASSUME NEW k \in Callers, queue'[c][i] = NewElement(handler[k].ev, handler[k].other)
        PROVE  queue'[c][i].ev # "Terminate"
    BY <2>2 DEF NewElement, Calm
  <2>3. ASSUME NEW t \in Threads, queue'[c][i] = NewElement("UpdateDelete", main[t].ac)
        PROVE  queue'[c][i].ev # "Terminate"
    BY <2>3 DEF NewElement
  <2> QED BY <2>1, <2>2, <2>3, NewElements
<1> QED BY <1>1, <1>2, <1>3, <1>4 DEF Calm

\* Skip bits are set when an operation starts, and go with the thread.
LEMMA SkipWrites ==
    ASSUME TypeOK, Coherent, [Next]_vars, NEW c \in AppContexts
    PROVE  \/ resSkip'[c] \subseteq resSkip[c]
           \/ \E t \in Threads : /\ LaunchOperation(t) /\ main[t].ac = c
                                 /\ resSkip'[c] = resSkip[c] \cup Unaffected(t)
<1>0. resSkip \in [AppContexts -> SUBSET Placements]
  BY DEF TypeOK
<1>1. ASSUME NEW d \in AppContexts, resSkip' = [resSkip EXCEPT ![d] = {}]
      PROVE  resSkip'[c] \subseteq resSkip[c]
  BY <1>0, <1>1
<1>2. ASSUME NEW k \in Callers, Handler(k) PROVE resSkip'[c] \subseteq resSkip[c]
  <2>1. CASE HandlerStart(k)
    <3>1. handler[k].ac \in AppContexts
      BY <2>1 DEF HandlerStart, Coherent
    <3> QED BY <1>1, <2>1, <3>1 DEF HandlerStart, StartOrInterrupt, StartMainThread
  <2>2. CASE Receive(k) \/ HandlerQueue(k) \/ HandlerStartFails(k) \/ HandlerRetry(k)
    BY <2>2 DEF Receive, HandlerQueue, HandlerStartFails, HandlerRetry
  <2> QED BY <1>2, <2>1, <2>2 DEF Handler
<1>3. ASSUME NEW t \in Threads, HandOverStart(t) PROVE resSkip'[c] \subseteq resSkip[c]
  <2>1. main[t].pc = "handstart"
    BY <1>3 DEF HandOverStart
  <2>2. Element(t).other \in AppContexts
    BY <2>1, ElementType DEF Coherent, Event, Element
  <2> QED BY <1>1, <1>3, <2>2 DEF HandOverStart
<1>4. ASSUME NEW t \in Threads, NEW op, NEW skipped, Launch(t, op, skipped), main[t].pc = "phase"
      PROVE  resSkip'[c] = IF c = main[t].ac THEN resSkip[c] \cup skipped ELSE resSkip[c]
  <2>1. resSkip' = [resSkip EXCEPT ![main[t].ac] = resSkip[main[t].ac] \cup skipped]
    BY <1>4 DEF Launch
  <2> QED BY <1>0, <2>1
<1>5. ASSUME NEW t \in Threads, MainStep(t), ~HandOverStart(t)
      PROVE  \/ resSkip'[c] \subseteq resSkip[c]
             \/ /\ LaunchOperation(t) /\ main[t].ac = c
                /\ resSkip'[c] = resSkip[c] \cup Unaffected(t)
  <2>1. CASE LaunchOperation(t)
    BY <1>4, <2>1 DEF LaunchOperation
  <2>2. CASE LaunchAfterPhaseError(t)
    BY <1>4, <2>2, SMTT(40) DEF LaunchAfterPhaseError
  <2>3. CASE ~LaunchOperation(t) /\ ~LaunchAfterPhaseError(t)
    BY <1>5, <2>3
       DEF MainStep, FindNext, FindNone, Release, GiveUp, CheckIgnored, CheckUnsupported, Refuse,
           CheckSupported, EnterState, AnnounceState, Arm, PodsConfirmed, PodsAbandoned, HandOver, HandOverQueue, Wait, Mark, WriteStatus,
           WriteCurrent
  <2> QED BY <2>1, <2>2, <2>3
<1>6. ASSUME NEW t \in Threads, Routine(t) \/ WatchStop(t) PROVE resSkip'[c] \subseteq resSkip[c]
  BY <1>6
     DEF Routine, OpenClient, OpenClientFails, HandleSkipped, Apply, ApplyFails, Delete,
         DeleteLost, ReadResource, Unreachable, RoutineFails, RoutineEnds, WatchStop
<1>7. CASE Crash
  BY <1>7 DEF Crash
<1>8. ASSUME NEW d \in AppContexts, Restart(d) \/ RestartFails(d)
      PROVE  resSkip'[c] \subseteq resSkip[c]
  BY <1>1, <1>8 DEF Restart, RestartFails, StartMainThread
<1>9. CASE Environment \/ UNCHANGED vars
  BY <1>9 DEF Environment, Stop, ClearStop, PodsStart, ClusterDown, ClusterUp, vars, memory
<1> QED BY <1>2, <1>3, <1>5, <1>6, <1>7, <1>8, <1>9 DEF Next

-------------------------------------------------------------------------------
(* An update deletes after everything new runs.                            *)

\* What updates take off the clusters, and what they bring there.
Dropped == UNION {Manifest[r.other] \ Manifest[r.ac] : r \in Updates}
Brought == UNION {Manifest[r.ac] : r \in Updates}

\* No update takes off what an update has brought in.
NoneDropsBrought == Dropped \cap Brought = {}

\* What an update leaves unmodified is on the clusters already.
Backed ==
    \A c \in AppContexts : \A i \in DOMAIN queue[c] :
        queue[c][i].ev = "Update" => Unmodified(c, queue[c][i].other) \subseteq deployed

\* The deleting half of an update is queued when all pods of the other half run ...
Confirmed ==
    \A c \in AppContexts : \A i \in DOMAIN queue[c] :
        queue[c][i].ev = "UpdateDelete" => Manifest[queue[c][i].other] \subseteq podsUp

\* ... what is passed over is on the clusters, and stays there ...
SkipsHeld ==
    \A c \in AppContexts : resSkip[c] \subseteq deployed /\ resSkip[c] \cap Dropped = {}

\* ... and what a thread has no longer in hand it has applied, or passed over.
HandsHeld ==
    \A t \in Threads : Operating(t) =>
        /\ main[t].op = OperationOf(Event(t))
        /\ Event(t) = "UpdateDelete" =>
              InHand(t) \subseteq Manifest[main[t].ac] \ Manifest[Element(t).other]
        /\ Event(t) = "Update" => Manifest[main[t].ac] \ InHand(t) \subseteq deployed
        /\ main[t].pc = "pods" => Manifest[main[t].ac] \ main[t].await \subseteq podsUp
        /\ main[t].pc \in HandingOver => Manifest[main[t].ac] \subseteq podsUp

\* Only what updates take off disappears.
LEMMA OthersRemain ==
    ASSUME TypeOK, Coherent, Traced, Calm, HandsHeld, [Next]_vars
    PROVE  deployed \ deployed' \subseteq Dropped /\ podsUp \ podsUp' \subseteq Dropped
<1>1. ASSUME NEW t \in Threads, NEW p \in Placements, Delete(t, p)
      PROVE  /\ p \in Dropped
             /\ deployed \ deployed' \subseteq {p} /\ podsUp \ podsUp' \subseteq {p}
  <2>1. /\ Operating(t) /\ p \in InHand(t) /\ main[t].op = "Delete"
        /\ deployed' = deployed \ {p} /\ podsUp' = podsUp \ {p}
    BY <1>1 DEF Delete, InHand
  <2>2. main[t].pc \notin {"none", "find", "release"}
    BY <2>1 DEF Operating
  <2>3. Event(t) \in RsyncEvents /\ Event(t) # "Terminate"
    BY <2>2, ElementType DEF Calm, Event, Element
  <2>4. Event(t) = "UpdateDelete"
    BY <2>1, <2>3 DEF HandsHeld, OperationOf, RsyncEvents
  <2>5. p \in Manifest[main[t].ac] \ Manifest[Element(t).other]
    BY <2>1, <2>4 DEF HandsHeld
  <2>6. \E r \in Updates : r.other = main[t].ac /\ r.ac = Element(t).other
    BY <2>2, <2>4, UpdateOf
  <2> QED BY <2>1, <2>5, <2>6 DEF Dropped
<1>2. ASSUME NEW t \in Threads, NEW p \in Placements, Apply(t, p)
      PROVE  deployed \subseteq deployed' /\ podsUp \subseteq podsUp'
  BY <1>2 DEF Apply
<1>3. ASSUME NEW p \in Placements, PodsStart(p)
      PROVE  deployed \subseteq deployed' /\ podsUp \subseteq podsUp'
  BY <1>3 DEF PodsStart
<1> QED BY <1>1, <1>2, <1>3, ClusterWrites

\* What an update brings in stays where it is.
LEMMA BroughtStays ==
    ASSUME NoneDropsBrought, TypeOK, Coherent, Traced, Calm, HandsHeld, [Next]_vars,
           NEW r \in Updates
    PROVE  /\ \A p \in Manifest[r.ac] : p \in deployed => p \in deployed'
           /\ \A p \in Manifest[r.ac] : p \in podsUp => p \in podsUp'
<1>1. Manifest[r.ac] \subseteq Brought
  BY DEF Brought
<1> QED BY <1>1, OthersRemain DEF NoneDropsBrought

\* Pods that an UpdateDelete has been queued for go on running.
LEMMA ConfirmedInductive ==
    ASSUME NoneDropsBrought, TypeOK, Coherent, InOrder, Traced, Calm, HandsHeld, Confirmed,
           [Next]_vars
    PROVE  Confirmed'
<1> SUFFICES ASSUME NEW c \in AppContexts, NEW i \in DOMAIN queue'[c],
                    queue'[c][i].ev = "UpdateDelete"
             PROVE  Manifest[queue'[c][i].other] \subseteq podsUp'
  BY DEF Confirmed
<1>0. QueueStep
  BY EveryQueueStep
<1>1. CASE i \in DOMAIN queue[c]
  <2>1. queue[c][i].ev = "UpdateDelete" /\ queue'[c][i].other = queue[c][i].other
    BY <1>0, <1>1 DEF QueueStep
  <2>2. PICK r \in Updates : r.ac = queue[c][i].other
    BY <1>1, <2>1 DEF Traced
  <2> QED BY <1>1, <2>1, <2>2, BroughtStays DEF Confirmed
<1>2. ASSUME NEW k \in Callers, queue'[c][i] = NewElement(handler[k].ev, handler[k].other),
             \/ handler[k].ev = "Terminate"
             \/ \E r \in Requests : r.ev = handler[k].ev
      PROVE  FALSE
  BY <1>2, RequestAssumption DEF RequestAssumption, NewElement
<1>3. ASSUME NEW t \in Threads, HandOverQueue(t), queue'[c][i] = NewElement("UpdateDelete", main[t].ac)
      PROVE  Manifest[queue'[c][i].other] \subseteq podsUp'
  <2>1. main[t].pc = "handqueue" /\ podsUp' = podsUp
    BY <1>3 DEF HandOverQueue, world
  <2>2. queue'[c][i].other = main[t].ac
    BY <1>3 DEF NewElement
  <2> QED BY <2>1, <2>2 DEF HandsHeld, Operating, HandingOver
<1> QED BY <1>1, <1>2, <1>3, NewElements

\* What the update keeps of the AppContext it replaces is running.
LEMMA SkipsHeldInductive ==
    ASSUME NoneDropsBrought, TypeOK, Coherent, Traced, Calm, Backed, Confirmed, HandsHeld,
           SkipsHeld, [Next]_vars
    PROVE  SkipsHeld'
<1> SUFFICES ASSUME NEW c \in AppContexts
             PROVE  resSkip'[c] \subseteq deployed' /\ resSkip'[c] \cap Dropped = {}
  BY DEF SkipsHeld
<1>1. CASE resSkip'[c] \subseteq resSkip[c]
  BY <1>1, OthersRemain DEF SkipsHeld
<1>2. ASSUME NEW t \in Threads, LaunchOperation(t), main[t].ac = c,
             resSkip'[c] = resSkip[c] \cup Unaffected(t)
      PROVE  resSkip'[c] \subseteq deployed' /\ resSkip'[c] \cap Dropped = {}
  <2>0. /\ main[t].pc \notin {"none", "find", "release"} /\ c \in AppContexts
        /\ main[t].idx \in DOMAIN queue[c]
    BY <1>2, ElementType DEF LaunchOperation
  <2>1. Unaffected(t) \subseteq deployed /\ Unaffected(t) \cap Dropped = {}
    <3>1. CASE Event(t) = "Update"
      <4>1. Unaffected(t) = Unmodified(c, Element(t).other)
        BY <1>2, <3>1 DEF Unaffected
      <4>2. Unmodified(c, Element(t).other) \subseteq deployed
        BY <1>2, <2>0, <3>1 DEF Backed, Event, Element
      <4>3. \E r \in Updates : r.ac = c
        BY <1>2, <2>0, <3>1, UpdateOf
      <4>4. Unmodified(c, Element(t).other) \subseteq Brought
        BY <4>3 DEF Unmodified, Brought
      <4> QED BY <4>1, <4>2, <4>4 DEF NoneDropsBrought
    <3>2. CASE Event(t) = "UpdateDelete"
      <4>1. Unaffected(t) = Manifest[c] \cap Manifest[Element(t).other]
        BY <1>2, <3>2 DEF Unaffected, Retained
      <4>2. Manifest[Element(t).other] \subseteq podsUp
        BY <1>2, <2>0, <3>2 DEF Confirmed, Event, Element
      <4>3. \E r \in Updates : r.ac = Element(t).other
        BY <2>0, <3>2, UpdateOf
      <4>4. Manifest[Element(t).other] \subseteq Brought
        BY <4>3 DEF Brought
      <4>5. podsUp \subseteq deployed
        BY DEF TypeOK
      <4> QED BY <4>1, <4>2, <4>4, <4>5 DEF NoneDropsBrought
    <3>3. CASE Event(t) \notin {"Update", "UpdateDelete"}
      BY <3>3 DEF Unaffected
    <3> QED BY <3>1, <3>2, <3>3
  <2> QED BY <1>2, <2>1, OthersRemain DEF SkipsHeld
<1> QED BY <1>1, <1>2, SkipWrites

\* Each step leaves on the clusters what a thread is done with.
LEMMA HandsHeldInductive ==
    ASSUME Unhindered, "slow" \notin Faults, NoneDropsBrought, TypeOK, Coherent, InOrder,
           NeverDone, Traced, Calm, Backed, SkipsHeld, HandsHeld, [Next]_vars
    PROVE  HandsHeld'
<1> SUFFICES ASSUME NEW t \in Threads, Operating(t)'
             PROVE  /\ main'[t].op = OperationOf(Event(t)')
                    /\ Event(t)' = "UpdateDelete" =>
                          InHand(t)' \subseteq Manifest[main'[t].ac] \ Manifest[Element(t)'.other]
                    /\ Event(t)' = "Update" => Manifest[main'[t].ac] \ InHand(t)' \subseteq deployed'
                    /\ main'[t].pc = "pods" =>
                          Manifest[main'[t].ac] \ main'[t].await \subseteq podsUp'
                    /\ main'[t].pc \in HandingOver => Manifest[main'[t].ac] \subseteq podsUp'
  BY DEF HandsHeld
<1> DEFINE c == main[t].ac
           other == Element(t).other
<1>0. /\ main[t].pc \notin {"none", "find", "release"} /\ main'[t].ac = c
      /\ Event(t)' = Event(t) /\ Element(t)'.other = other /\ Event(t) \in RsyncEvents
      /\ c \in AppContexts /\ main[t].idx \in DOMAIN queue[c]
      /\ main'[t].pc \in {"pods"} \cup HandingOver => Event(t) = "Update"
  <2>1. Coherent'
    BY CoherentInductive
  <2>2. main'[t].pc \in {"pods"} \cup HandingOver => Event(t)' = "Update"
    BY <2>1 DEF Coherent, HandingOver
  <2> QED BY <2>2, StillOperating, ElementType
<1>1. Event(t) = "Update" => /\ \A p \in Manifest[c] : p \in deployed => p \in deployed'
                             /\ \A p \in Manifest[c] : p \in podsUp => p \in podsUp'
  BY <1>0, UpdateOf, BroughtStays
<1>2. ASSUME Operating(t), main'[t].op = main[t].op, InHand(t)' = InHand(t),
             main'[t].await = main[t].await,
             KeepsStage(t)
      PROVE  /\ main'[t].op = OperationOf(Event(t))
             /\ Event(t) = "UpdateDelete" => InHand(t)' \subseteq Manifest[c] \ Manifest[other]
             /\ Event(t) = "Update" => Manifest[c] \ InHand(t)' \subseteq deployed'
             /\ main'[t].pc = "pods" => Manifest[c] \ main'[t].await \subseteq podsUp'
             /\ main'[t].pc \in HandingOver => Manifest[c] \subseteq podsUp'
  BY <1>0, <1>1, <1>2 DEF HandsHeld, KeepsStage
<1>3. CASE LaunchOperation(t)
  <2>1. Loads(t, OperationOf(Event(t)), Unaffected(t))
    BY <1>3, LaunchHands
  <2>2. deployed' = deployed
    BY <1>3 DEF LaunchOperation, Launch, world
  <2>3. main'[t].pc \notin HandingOver
    BY <1>3, OperationMoves DEF Goes, HandingOver
  <2>4. /\ main'[t].op = OperationOf(Event(t)) /\ main'[t].await = Manifest[c]
        /\ InHand(t)' = Manifest[c] \ Unaffected(t)
    BY <2>1 DEF Loads, InHand
  <2>5. Event(t) = "UpdateDelete" => Unaffected(t) = Manifest[c] \cap Manifest[other]
    BY DEF Unaffected, Retained
  <2>6. Event(t) = "Update" => Unaffected(t) \subseteq deployed
    BY <1>0 DEF Unaffected, Backed, Event, Element
  <2> QED BY <1>0, <2>2, <2>3, <2>4, <2>5, <2>6
<1>4. ~LaunchAfterPhaseError(t)
  BY DEF LaunchAfterPhaseError, NeverDone, Unhindered
<1>5. CASE Operating(t) /\ Routine(t)
  <2>0. main'[t].pc = main[t].pc
    BY <1>5, OperationMoves DEF Goes
  <2>1. PICK p \in Placements :
                 \/ OpenClient(t, p) /\ Opens(t, p)
                 \/ /\ \/ HandleSkipped(t, p) \/ Apply(t, p) \/ Delete(t, p)
                       \/ DeleteLost(t, p) \/ ReadResource(t, p)
                    /\ Drops(t, p)
    BY <1>5, CalmRoutine
  <2>2. CASE OpenClient(t, p) /\ Opens(t, p)
    <3>1. InHand(t)' = InHand(t)
      BY <2>2 DEF OpenClient, Opens, InHand
    <3> QED BY <1>0, <1>2, <1>5, <2>0, <2>2, <3>1 DEF Opens, KeepsStage
  <2>3. CASE /\ \/ HandleSkipped(t, p) \/ Apply(t, p) \/ Delete(t, p)
                \/ DeleteLost(t, p) \/ ReadResource(t, p)
             /\ Drops(t, p)
    <3>1. /\ InHand(t)' = InHand(t) \ {p} /\ main'[t].op = main[t].op
          /\ main'[t].await = main[t].await
      BY <2>3 DEF Drops, InHand
    <3>2. main[t].op = OperationOf(Event(t))
      BY <1>5 DEF HandsHeld
    <3>3. Event(t) = "Update" => p \in deployed'
      <4>1. CASE HandleSkipped(t, p)
        BY <1>0, <4>1 DEF HandleSkipped, Skipped, SkipsHeld
      <4>2. CASE Apply(t, p)
        BY <4>2 DEF Apply
      <4>3. CASE Delete(t, p) \/ DeleteLost(t, p) \/ ReadResource(t, p)
        BY <3>2, <4>3 DEF Delete, DeleteLost, ReadResource, OperationOf
      <4> QED BY <2>3, <4>1, <4>2, <4>3
    <3> QED BY <1>0, <1>1, <1>5, <2>0, <3>1, <3>2, <3>3 DEF HandsHeld
  <2> QED BY <2>1, <2>2, <2>3
<1>6. CASE Operating(t) /\ PodsConfirmed(t)
  <2>1. /\ main[t].pc = "pods" /\ Slept(t) /\ Event(t) = "Update"
        /\ deployed' = deployed /\ podsUp' = podsUp
    BY <1>6 DEF PodsConfirmed, Coherent, world
  <2>2. /\ main'[t].op = main[t].op /\ InHand(t)' = InHand(t)
    BY <1>6, LaunchHands DEF InHand
  <2>3. PICK p \in main[t].await :
           /\ Reachable(p) /\ PodsRunning(p)
           /\ main'[t].await = main[t].await \ {p}
           /\ main'[t].pc = IF main[t].await = {p} THEN "handover" ELSE "pods"
    BY <1>6, LaunchHands
  <2>4. p \notin InHand(t)
    BY <2>1, <2>3 DEF Slept, InHand
  <2>5. p \in Manifest[c] => p \in podsUp
    BY <1>6, <2>1, <2>3, <2>4 DEF HandsHeld, PodsRunning
  <2>6. Manifest[c] \ main'[t].await \subseteq podsUp
    BY <1>6, <2>1, <2>3, <2>5 DEF HandsHeld
  <2>7. main'[t].pc \in HandingOver => Manifest[c] \subseteq podsUp
    BY <2>3, <2>6 DEF HandingOver
  <2> QED BY <1>0, <1>6, <2>1, <2>2, <2>6, <2>7 DEF HandsHeld
<1>7. CASE Operating(t) /\ SameWork(t) /\ KeepsStage(t)
  <2>1. InHand(t)' = InHand(t)
    BY <1>7 DEF SameWork, InHand
  <2> QED BY <1>0, <1>2, <1>7, <2>1 DEF SameWork
<1> QED BY <1>3, <1>4, <1>5, <1>6, <1>7, StillOperating

\* The parts of the invariant that no fault of the clusters breaks.
Replacing == Traced /\ Calm /\ Confirmed /\ SkipsHeld /\ HandsHeld

\* In the beginning there is nothing to replace.
LEMMA InitReplacing ==
    ASSUME Init
    PROVE  Replacing
  BY DEF Init, Replacing, Traced, Calm, Confirmed, SkipsHeld, HandsHeld, Operating, NoMain,
         NoHandler

\* Deletions follow the pods as long as the updates find what they leave unmodified.
LEMMA DeleteAfterRunningBacked ==
    ASSUME Unhindered, "slow" \notin Faults, NoneDropsBrought
    PROVE  Spec /\ []Backed => DeleteAfterRunning
<1>1. "stop" \notin Faults
  BY DEF Unhindered
<1>2. IInv /\ NeverDone /\ Backed /\ Replacing /\ [Next]_vars => Replacing'
  BY TracedInductive, CalmInductive, ConfirmedInductive, SkipsHeldInductive, HandsHeldInductive
     DEF IInv, Replacing
<1>3. ASSUME IInv, Replacing
      PROVE  [\A t \in Threads :
                 (Operating(t) /\ Event(t) = "UpdateDelete" /\ main'[t].open # main[t].open
                               /\ deployed' # deployed)
                 => Manifest[Element(t).other] \subseteq podsUp]_vars
  <2>1. ASSUME NEW t \in Threads, Operating(t), Event(t) = "UpdateDelete"
        PROVE  Manifest[Element(t).other] \subseteq podsUp
    <3>1. main[t].pc \notin {"none", "find", "release"}
      BY <2>1 DEF Operating
    <3>2. main[t].ac \in AppContexts /\ main[t].idx \in DOMAIN queue[main[t].ac]
      BY <1>3, <3>1, ElementType DEF IInv
    <3> QED BY <1>3, <2>1, <3>2 DEF Replacing, Confirmed, Event, Element
  <2> QED BY <2>1
<1>4. Spec => []NeverDone
  BY <1>1, NeverDoneAlways
<1> QED BY <1>2, <1>3, <1>4, InitReplacing, Invariance, PTL DEF Spec, DeleteAfterRunning

\* Every update modifies whatever it shares with the AppContext it replaces.
AllModified == \A r \in Updates : Unmodified(r.ac, r.other) = {}

\* The old placements of an update go only once all pods of the new AppContext run,
\* over any number of AppContexts, updates and crashes of rsync, with clusters that
\* fail for a while, pods that do not come up and deletions that are lost
\* (routines.go:485).  That needs the 30 s the code sleeps to be enough ("slow"), an
\* UpdateDelete that follows no failed apply, and no update that undoes another one.
THEOREM DeleteAfterRunningSafe ==
    ASSUME Unhindered, "slow" \notin Faults, NoneDropsBrought, AllModified
    PROVE  Spec => DeleteAfterRunning
<1>1. ASSUME Traced PROVE Backed
  <2> SUFFICES ASSUME NEW c \in AppContexts, NEW i \in DOMAIN queue[c], queue[c][i].ev = "Update"
               PROVE  Unmodified(c, queue[c][i].other) \subseteq deployed
    BY DEF Backed
  <2>1. PICK r \in Updates : r.ac = c /\ r.other = queue[c][i].other
    BY <1>1 DEF Traced
  <2> QED BY <2>1 DEF AllModified
<1>2. Init => Traced
  BY DEF Init, Traced
<1>3. IInv /\ Traced /\ [Next]_vars => Traced'
  BY TracedInductive DEF IInv
<1>4. Spec => []Backed
  BY <1>1, <1>2, <1>3, Invariance, PTL DEF Spec
<1> QED BY <1>4, DeleteAfterRunningBacked, PTL

-------------------------------------------------------------------------------
(* The clusters follow the states.                                         *)

\* Updates form no cycle: each leads to an AppContext of a higher rank.
Rises(rank) ==
    /\ rank \in [AppContexts -> Nat]
    /\ \A r \in Updates : rank[r.other] < rank[r.ac]

\* What an update takes off, only the AppContext it replaces lists.
OwnDrops ==
    \A r \in Updates : \A c \in AppContexts \ {r.other} :
        Manifest[c] \cap (Manifest[r.other] \ Manifest[r.ac]) = {}

\* AppContexts are installed and updated, and no step of that fails or is lost.
Smooth ==
    /\ Unhindered
    /\ {"crash", "delete", "pods"} \cap Faults = {}
    /\ \A r \in Requests : r.ev \in {"Instantiate", "Update"}

\* The placements of c that updates of c take off, and those that an update to c
\* leaves to the AppContext it replaces.
DroppedOf(c) == UNION {Manifest[c] \ Manifest[r.ac] : r \in {u \in Updates : u.other = c}}
KeptBy(c) ==
    UNION {Unmodified(c, r.other) : r \in {u \in Updates : u.ac = c /\ queue[u.other] # <<>>}}

\* The clusters have what c lists, or will have it; they are rid of what d drops of c.
Has(c)     == Manifest[c] \subseteq deployed \cup KeptBy(c)
Gone(c, d) == deployed \cap (Manifest[c] \ Manifest[d]) = {}

\* The states of an AppContext that answers for what it lists.
Covering == {"Instantiating", "Instantiated", "Updating"}

\* The events of a queue, which starts with one that installs.
UpdatesOnly ==
    /\ \A c \in AppContexts : \A i \in DOMAIN queue[c] :
          /\ queue[c][i].ev \in {"Instantiate", "Update", "UpdateDelete"}
          /\ queue[c][i].ev = "Update" => queue[queue[c][i].other] # <<>>
    /\ \A k \in Callers : handler[k].pc = "queue" /\ handler[k].ev = "Update" =>
          queue[handler[k].other] # <<>>
    /\ \A c \in AppContexts : 1 \in DOMAIN queue[c] => queue[c][1].ev # "UpdateDelete"

\* What is retained has an heir by the time the rest is deleted.
Heir(rank, c, p) ==
    \E e \in AppContexts : rank[e] > rank[c] /\ p \in Manifest[e] /\ current[e] \in Covering

Inherited(rank) ==
    \A c \in AppContexts : \A i \in DOMAIN queue[c] :
        queue[c][i].ev = "UpdateDelete" =>
            \A p \in Manifest[c] \cap Manifest[queue[c][i].other] : Heir(rank, c, p)

\* What is passed over is there, and nobody takes it off.
SkipsPlaced ==
    \A c \in AppContexts :
        /\ resSkip[c] \subseteq Manifest[c] /\ resSkip[c] \subseteq deployed \cup KeptBy(c)
        /\ resSkip[c] \cap DroppedOf(c) = {}

\* What a thread is done with is there, or gone.
HandsPlaced ==
    \A t \in Threads : Operating(t) =>
        /\ main[t].op = OperationOf(Event(t))
        /\ InHand(t) \subseteq Manifest[main[t].ac]
        /\ Event(t) # "UpdateDelete" =>
              Manifest[main[t].ac] \subseteq deployed \cup KeptBy(main[t].ac) \cup InHand(t)
        /\ Event(t) = "UpdateDelete" =>
              /\ InHand(t) \cap Manifest[Element(t).other] = {}
              /\ deployed \cap (Manifest[main[t].ac] \ Manifest[Element(t).other]) \subseteq InHand(t)

\* An event that is worked off has had its effect.
Effective(t) ==
    /\ Event(t) # "UpdateDelete" => Has(main[t].ac)
    /\ Event(t) = "UpdateDelete" => Gone(main[t].ac, Element(t).other)

VerdictsPlaced ==
    \A t \in Threads :
        /\ main[t].pc = "mark" =>
              \/ main[t].verdict = "Done" /\ Effective(t)
              \/ main[t].verdict = "Skip" /\ main[t].final = "none"
        /\ main[t].pc \in {"status", "current"} =>
              /\ current[main[t].ac] = RunningState(Event(t))
              /\ main[t].final = DesiredState(Event(t)) /\ Effective(t)

\* The states of the AppContexts say what is on the clusters.
Standing ==
    /\ \A c \in AppContexts :
          /\ current[c] \in {"Created", "Instantiating", "Instantiated", "Updating", "Updated"}
          /\ current[c] = "Created" /\ queue[c] # <<>> => 1 \in Pending(c)
          /\ current[c] = "Instantiated" => Has(c)
          /\ current[c] \in {"Instantiated", "Updating", "Updated"} =>
                Manifest[c] \ DroppedOf(c) \subseteq deployed \cup KeptBy(c)
    /\ \A p \in deployed : \E c \in AppContexts : p \in Manifest[c] /\ current[c] \in Covering

Placing(rank) ==
    /\ UpdatesOnly /\ Inherited(rank) /\ SkipsPlaced /\ HandsPlaced /\ VerdictsPlaced /\ Standing

\* What the earlier sections show of an engine that nothing hinders.
Steady ==
    IInv /\ NeverCrashed /\ NeverDone /\ Undecided /\ Traced /\ Calm /\ Underway /\ DebtsKept

\* A step of such an engine may count on this ...
LEMMA SteadyFacts ==
    ASSUME Smooth, Steady, [Next]_vars
    PROVE  /\ TypeOK /\ Coherent /\ InOrder /\ OneMainThread /\ NeverDone /\ Undecided /\ Traced
           /\ Calm /\ Underway /\ DebtsKept /\ QueueStep /\ ~Crash /\ crashes = 0
<1>1. TypeOK /\ Coherent /\ InOrder /\ ThreadsAnnounced
  BY DEF Steady, IInv
<1>2. OneMainThread /\ ~Crash /\ crashes = 0
  BY <1>1 DEF Steady, NeverCrashed, ThreadsAnnounced, Crash, Smooth
<1> QED BY <1>1, <1>2, EveryQueueStep DEF Steady

\* ... and keeps it.
LEMMA SteadyKept ==
    ASSUME Smooth, Steady, [Next]_vars
    PROVE  Steady'
<1>1. /\ TypeOK /\ Coherent /\ InOrder /\ OneMainThread /\ NeverDone /\ Undecided /\ Traced
      /\ Calm /\ Underway /\ DebtsKept /\ ~Crash /\ crashes = 0 /\ IInv /\ ThreadsAnnounced
  BY SteadyFacts DEF Steady, IInv
<1>2. IInv'
  BY <1>1, StepIInv
<1>3. NeverCrashed'
  BY <1>1, CrashesCounted DEF NeverCrashed
<1>4. NeverDone'
  BY <1>1, NeverDoneInductive DEF Smooth, Unhindered
<1>5. Undecided' /\ Traced' /\ Underway' /\ DebtsKept'
  BY <1>1, UndecidedInductive, TracedInductive, UnderwayInductive, DebtsInductive
<1>6. Calm'
  BY <1>1, CalmInductive DEF Smooth
<1> QED BY <1>2, <1>3, <1>4, <1>5, <1>6 DEF Steady

\* A new element comes from a request or from the thread of an update.
LEMMA SmoothElements ==
    ASSUME Smooth, Steady, [Next]_vars, NEW c \in AppContexts,
           NEW i \in DOMAIN queue'[c], i \notin DOMAIN queue[c]
    PROVE  \/ \E k \in Callers : \E r \in Requests :
                 /\ HandlerQueue(k) /\ handler[k].ac = c /\ r.ac = c
                 /\ r.ev = handler[k].ev /\ r.other = handler[k].other
                 /\ queue'[c][i] = NewElement(r.ev, r.other)
           \/ \E t \in Threads :
                 /\ HandOverQueue(t) /\ c = Element(t).other
                 /\ queue'[c][i] = NewElement("UpdateDelete", main[t].ac)
<1>1. TypeOK /\ Coherent /\ InOrder /\ Calm
  BY SteadyFacts
<1>2. \A k \in Callers : handler[k].ev # "Terminate"
  BY <1>1 DEF Calm
<1> QED BY <1>1, <1>2, NewElements

\* A queue that has an event keeps it; so what is left to others only gets more.
LEMMA QueuesStay ==
    ASSUME Smooth, Steady, [Next]_vars
    PROVE  /\ \A c \in AppContexts : queue[c] # <<>> <=> 1 \in DOMAIN queue[c]
           /\ \A c \in AppContexts : queue'[c] # <<>> <=> 1 \in DOMAIN queue'[c]
           /\ \A c \in AppContexts : queue[c] # <<>> => queue'[c] # <<>>
           /\ \A c \in AppContexts : KeptBy(c) \subseteq KeptBy(c)'
<1>1. QueueStep /\ TypeOK /\ TypeOK'
  BY SteadyFacts, SteadyKept DEF Steady, IInv
<1>2. ASSUME NEW q \in Seq(QueueElement) PROVE q # <<>> <=> 1 \in DOMAIN q
  <2>1. Len(q) \in Nat /\ DOMAIN q = 1..Len(q)
    OBVIOUS
  <2>2. q # <<>> <=> Len(q) # 0
    BY EmptySeq
  <2> QED BY <2>1, <2>2
<1>3. \A c \in AppContexts : /\ queue[c] # <<>> <=> 1 \in DOMAIN queue[c]
                             /\ queue'[c] # <<>> <=> 1 \in DOMAIN queue'[c]
  BY <1>1, <1>2 DEF TypeOK
<1>4. \A c \in AppContexts : queue[c] # <<>> => queue'[c] # <<>>
  BY <1>1, <1>3 DEF QueueStep
<1>5. \A r \in Updates : r.other \in AppContexts
  BY RequestAssumption DEF RequestAssumption, Updates
<1>6. \A c \in AppContexts : KeptBy(c) \subseteq KeptBy(c)'
  BY <1>4, <1>5 DEF KeptBy
<1> QED BY <1>3, <1>4, <1>6

\* Nothing that an update of c takes off is on the list of another AppContext.
LEMMA DropsApart ==
    ASSUME OwnDrops, NEW c \in AppContexts, NEW d \in AppContexts, c # d
    PROVE  Manifest[d] \cap DroppedOf(c) = {}
  BY DEF OwnDrops, DroppedOf

\* What an update leaves to others is on the list of the new AppContext, and no update of
\* that takes it off.
LEMMA KeptApart ==
    ASSUME OwnDrops, NEW rank, Rises(rank), NEW c \in AppContexts
    PROVE  KeptBy(c) \subseteq Manifest[c] /\ KeptBy(c) \cap DroppedOf(c) = {}
<1>1. ASSUME NEW r \in Updates, r.ac = c PROVE r.other \in AppContexts /\ r.other # c
  <2>1. r.other \in AppContexts /\ rank[r.other] < rank[c] /\ rank[c] \in Nat
    BY <1>1, RequestAssumption DEF RequestAssumption, Updates, Rises
  <2> QED BY <2>1
<1>2. ASSUME NEW r \in Updates, r.ac = c
      PROVE  Unmodified(c, r.other) \subseteq Manifest[c] /\ Unmodified(c, r.other) \cap DroppedOf(c) = {}
  BY <1>1, <1>2, DropsApart DEF Unmodified
<1> QED BY <1>2 DEF KeptBy

\* A placement disappears in the deleting half of an update ...
LEMMA Removals ==
    ASSUME Smooth, OwnDrops, Steady, HandsPlaced, [Next]_vars, NEW c \in AppContexts,
           NEW p \in Manifest[c], p \in deployed, p \notin deployed'
    PROVE  p \in DroppedOf(c) /\ current[c] = "Updating"
<1>0. TypeOK /\ Coherent /\ Traced /\ Calm /\ Underway
  BY SteadyFacts
<1>1. PICK t \in Threads : Delete(t, p)
  <2>1. ASSUME NEW t \in Threads, NEW q \in Placements, Delete(t, q) PROVE Delete(t, p)
    BY <2>1 DEF Delete
  <2>2. ASSUME NEW t \in Threads, NEW q \in Placements, Apply(t, q) PROVE FALSE
    BY <2>2 DEF Apply
  <2>3. ASSUME NEW q \in Placements, PodsStart(q) PROVE FALSE
    BY <2>3 DEF PodsStart
  <2> QED BY <2>1, <2>2, <2>3, ClusterWrites
<1>2. Operating(t) /\ p \in InHand(t) /\ main[t].op = "Delete"
  BY <1>1 DEF Delete, InHand
<1>3. main[t].pc \notin {"none", "find", "release"} /\ main[t].pc \in Engaged \ {"enter"}
  BY <1>2 DEF Operating, Engaged
<1>4. Event(t) \in RsyncEvents /\ Event(t) # "Terminate" /\ main[t].ac \in AppContexts
  BY <1>0, <1>3, ElementType DEF Calm, Event, Element
<1>5. Event(t) = "UpdateDelete"
  BY <1>2, <1>4 DEF HandsPlaced, OperationOf, RsyncEvents
<1>6. p \in Manifest[main[t].ac] /\ p \notin Manifest[Element(t).other]
  BY <1>2, <1>5 DEF HandsPlaced
<1>7. p \in DroppedOf(main[t].ac)
  BY <1>0, <1>3, <1>5, <1>6, UpdateOf DEF DroppedOf
<1>8. c = main[t].ac
  BY <1>4, <1>7, DropsApart
<1>9. current[c] = "Updating"
  BY <1>0, <1>3, <1>5, <1>8 DEF Underway, RunningState
<1> QED BY <1>7, <1>8, <1>9

\* ... and appears while the AppContext that lists it is being instantiated.
LEMMA Additions ==
    ASSUME Smooth, Steady, UpdatesOnly, HandsPlaced, [Next]_vars,
           NEW p \in deployed', p \notin deployed
    PROVE  \E c \in AppContexts : /\ p \in Manifest[c] /\ current[c] = "Instantiating"
                                  /\ current' = current
<1>0. TypeOK /\ Coherent /\ Underway
  BY SteadyFacts
<1>1. PICK t \in Threads : Apply(t, p)
  <2>1. ASSUME NEW t \in Threads, NEW q \in Placements, Apply(t, q) PROVE Apply(t, p)
    BY <2>1 DEF Apply
  <2>2. ASSUME NEW t \in Threads, NEW q \in Placements, Delete(t, q) PROVE FALSE
    BY <2>2 DEF Delete
  <2>3. ASSUME NEW q \in Placements, PodsStart(q) PROVE FALSE
    BY <2>3 DEF PodsStart
  <2> QED BY <2>1, <2>2, <2>3, ClusterWrites
<1>2. Operating(t) /\ p \in InHand(t) /\ main[t].op = "Apply" /\ current' = current
  BY <1>1 DEF Apply, InHand, RoutineEnds, etcd
<1>3. main[t].pc \notin {"none", "find", "release"} /\ main[t].pc \in Engaged \ {"enter"}
  BY <1>2 DEF Operating, Engaged
<1>4. main[t].ac \in AppContexts /\ Event(t) \in {"Instantiate", "Update", "UpdateDelete"}
  BY <1>0, <1>3, ElementType DEF UpdatesOnly, Event, Element
<1>5. Event(t) \in {"Instantiate", "Update"} /\ p \in Manifest[main[t].ac]
  BY <1>2, <1>4 DEF HandsPlaced, OperationOf
<1>6. current[main[t].ac] = "Instantiating"
  BY <1>0, <1>3, <1>5 DEF Underway, RunningState
<1> QED BY <1>2, <1>4, <1>5, <1>6

\* What an AppContext has it keeps, but for what an update of it takes off.
LEMMA Stays ==
    ASSUME Smooth, OwnDrops, NEW rank, Rises(rank), Steady, HandsPlaced, [Next]_vars,
           NEW c \in AppContexts, NEW p \in Manifest[c], p \in deployed \cup KeptBy(c),
           p \notin DroppedOf(c) \/ current[c] # "Updating"
    PROVE  p \in deployed' \cup KeptBy(c)'
  BY Removals, QueuesStay

\* What an update has taken off does not come back while it goes on.
LEMMA StaysGone ==
    ASSUME Smooth, OwnDrops, Steady, UpdatesOnly, HandsPlaced, [Next]_vars,
           NEW c \in AppContexts, current[c] = "Updating", NEW p \in DroppedOf(c),
           p \in deployed'
    PROVE  p \in deployed
<1> SUFFICES ASSUME p \notin deployed PROVE FALSE
  OBVIOUS
<1>1. PICK d \in AppContexts : p \in Manifest[d] /\ current[d] = "Instantiating"
  BY Additions
<1> QED BY <1>1, DropsApart

\* An update is queued on an AppContext that has events, and never first.
LEMMA UpdatesOnlyInductive ==
    ASSUME Smooth, Steady, UpdatesOnly, [Next]_vars
    PROVE  UpdatesOnly'
<1>0. TypeOK /\ Coherent /\ Traced /\ Calm /\ QueueStep
  BY SteadyFacts
<1>1. \A r \in Requests : r.ev = "Update" => r.other \in AppContexts /\ r.other # NoContext
  BY RequestAssumption, NullAssumption DEF RequestAssumption, NullAssumption
<1>5. ASSUME NEW k \in Callers, handler'[k].pc = "queue", handler'[k].ev = "Update"
      PROVE  queue'[handler'[k].other] # <<>>
  <2>1. CASE handler'[k] = handler[k]
    <3>1. handler[k].other \in AppContexts /\ queue[handler[k].other] # <<>>
      BY <1>0, <1>1, <1>5, <2>1 DEF Coherent, UpdatesOnly
    <3> QED BY <2>1, <3>1, QueuesStay
  <2>2. CASE handler'[k] # handler[k]
    <3>1. ~HandlerRetry(k)
      BY <1>0 DEF Calm, HandlerRetry
    <3>2. PICK r \in outbox :
             /\ Allowed(r) /\ UNCHANGED queue
             /\ handler' = [handler EXCEPT ![k] =
                    [pc |-> "queue", ev |-> r.ev, ac |-> r.ac, other |-> r.other]]
      BY <1>0, <1>5, <2>2, <3>1, HandlerComes
    <3>3. handler'[k].ev = r.ev /\ handler'[k].other = r.other /\ r \in Requests
      BY <1>0, <3>2 DEF TypeOK
    <3> QED BY <1>1, <1>5, <3>2, <3>3 DEF Allowed
  <2> QED BY <2>1, <2>2
<1>2. ASSUME NEW t \in Threads, HandOverQueue(t)
      PROVE  Element(t).other \in AppContexts /\ queue[Element(t).other] # <<>>
  <2>1. main[t].pc = "handqueue"
    BY <1>2 DEF HandOverQueue
  <2>2. /\ main[t].ac \in AppContexts /\ main[t].idx \in DOMAIN queue[main[t].ac]
        /\ Event(t) = "Update"
    BY <1>0, <2>1, ElementType DEF Coherent
  <2> QED BY <1>0, <2>2 DEF UpdatesOnly, Coherent, Event, Element
<1>3. ASSUME NEW c \in AppContexts, NEW i \in DOMAIN queue'[c]
      PROVE  /\ queue'[c][i].ev \in {"Instantiate", "Update", "UpdateDelete"}
             /\ queue'[c][i].ev = "Update" => queue'[queue'[c][i].other] # <<>>
  <2>1. CASE i \in DOMAIN queue[c]
    <3>1. queue'[c][i].ev = queue[c][i].ev /\ queue'[c][i].other = queue[c][i].other
      BY <1>0, <2>1 DEF QueueStep
    <3>2. queue[c][i].ev = "Update" => queue[c][i].other \in AppContexts
      BY <1>0, <2>1 DEF Coherent
    <3> QED BY <2>1, <3>1, <3>2, QueuesStay DEF UpdatesOnly
  <2>2. ASSUME NEW k \in Callers, NEW r \in Requests, HandlerQueue(k), r.ev = handler[k].ev,
               r.other = handler[k].other, queue'[c][i] = NewElement(r.ev, r.other)
        PROVE  /\ queue'[c][i].ev \in {"Instantiate", "Update", "UpdateDelete"}
               /\ queue'[c][i].ev = "Update" => queue'[queue'[c][i].other] # <<>>
    <3>1. r.ev = "Update" => queue[r.other] # <<>>
      BY <2>2 DEF UpdatesOnly, HandlerQueue
    <3> QED BY <1>1, <2>2, <3>1, QueuesStay DEF NewElement, Smooth
  <2>3. ASSUME NEW t \in Threads, queue'[c][i] = NewElement("UpdateDelete", main[t].ac)
        PROVE  queue'[c][i].ev = "UpdateDelete"
    BY <2>3 DEF NewElement
  <2> QED BY <2>1, <2>2, <2>3, SmoothElements
<1>4. ASSUME NEW c \in AppContexts, 1 \in DOMAIN queue'[c] PROVE queue'[c][1].ev # "UpdateDelete"
  <2>1. CASE 1 \in DOMAIN queue[c]
    BY <1>0, <2>1 DEF QueueStep, UpdatesOnly
  <2>2. ASSUME 1 \notin DOMAIN queue[c], NEW r \in Requests, queue'[c][1] = NewElement(r.ev, r.other)
        PROVE  queue'[c][1].ev # "UpdateDelete"
    BY <2>2, RequestAssumption DEF RequestAssumption, NewElement
  <2>3. ASSUME 1 \notin DOMAIN queue[c], NEW t \in Threads, HandOverQueue(t), c = Element(t).other
        PROVE  FALSE
    BY <1>2, <2>3, QueuesStay
  <2> QED BY <1>4, <2>1, <2>2, <2>3, SmoothElements
<1> QED BY <1>3, <1>4, <1>5 DEF UpdatesOnly

\* An AppContext ceases to cover what it lists when an update of it is complete.
LEMMA CoverMoves ==
    ASSUME Smooth, Steady, UpdatesOnly, VerdictsPlaced, [Next]_vars, NEW e \in AppContexts,
           current[e] \in Covering, current'[e] \notin Covering
    PROVE  \E t \in Threads : /\ WriteCurrent(t) /\ main[t].ac = e /\ Event(t) = "UpdateDelete"
                              /\ main[t].idx \in DOMAIN queue[e]
                              /\ Gone(e, Element(t).other)
                              /\ deployed' = deployed
                              /\ \A d \in AppContexts \ {e} : current'[d] = current[d]
<1>0. TypeOK /\ Coherent /\ current \in [AppContexts -> AppContextStatuses]
  BY SteadyFacts DEF TypeOK
<1>1. ASSUME NEW t \in Threads, EnterState(t) PROVE FALSE
  <2>1. main[t].pc = "enter"
    BY <1>1 DEF EnterState
  <2>2. main[t].ac \in AppContexts /\ Event(t) \in {"Instantiate", "Update", "UpdateDelete"}
    BY <1>0, <2>1, ElementType DEF UpdatesOnly, Event, Element
  <2>3. RunningState(Event(t)) \in Covering
    BY <2>2 DEF RunningState, Covering
  <2>4. current' = [current EXCEPT ![main[t].ac] = RunningState(Event(t))]
    BY <1>1 DEF EnterState
  <2> QED BY <1>0, <2>2, <2>3, <2>4
<1>2. ASSUME NEW t \in Threads, CheckSupported(t) \/ AnnounceState(t) \/ WriteStatus(t) PROVE FALSE
  BY <1>2 DEF CheckSupported, AnnounceState, WriteStatus
<1>3. PICK t \in Threads : WriteCurrent(t)
  BY <1>1, <1>2, StateWrites
<1>4. /\ main[t].pc = "current" /\ deployed' = deployed
      /\ current' = [current EXCEPT ![main[t].ac] = main[t].final]
  BY <1>3 DEF WriteCurrent, world
<1>5. main[t].ac = e /\ \A d \in AppContexts \ {e} : current'[d] = current[d]
  BY <1>0, <1>4
<1>6. /\ main[t].idx \in DOMAIN queue[e]
      /\ Event(t) \in {"Instantiate", "Update", "UpdateDelete"}
  BY <1>0, <1>4, <1>5, ElementType DEF UpdatesOnly, Event, Element
<1>7. DesiredState(Event(t)) \notin Covering
  BY <1>0, <1>4, <1>5 DEF VerdictsPlaced
<1>8. Event(t) = "UpdateDelete"
  BY <1>6, <1>7 DEF DesiredState, Covering
<1>9. Gone(e, Element(t).other)
  BY <1>4, <1>5, <1>8 DEF VerdictsPlaced, Effective
<1> QED BY <1>3, <1>4, <1>5, <1>6, <1>8, <1>9

\* When an heir is replaced in turn, it leaves an heir of its own.
LEMMA InheritedInductive ==
    ASSUME Smooth, OwnDrops, NEW rank, Rises(rank), Steady, UpdatesOnly, VerdictsPlaced,
           Inherited(rank), [Next]_vars
    PROVE  Inherited(rank)'
<1> SUFFICES ASSUME NEW c \in AppContexts, NEW i \in DOMAIN queue'[c],
                    queue'[c][i].ev = "UpdateDelete",
                    NEW p \in Manifest[c] \cap Manifest[queue'[c][i].other]
             PROVE  Heir(rank, c, p)'
  BY DEF Inherited
<1>0. TypeOK /\ Coherent /\ Traced /\ QueueStep /\ Underway
  BY SteadyFacts
<1>1. ASSUME Heir(rank, c, p) PROVE Heir(rank, c, p)'
  <2>1. PICK e \in AppContexts : rank[e] > rank[c] /\ p \in Manifest[e] /\ current[e] \in Covering
    BY <1>1 DEF Heir
  <2>2. CASE current'[e] \in Covering
    BY <2>1, <2>2 DEF Heir
  <2>3. CASE current'[e] \notin Covering
    <3>1. PICK t \in Threads :
             /\ main[t].ac = e /\ Event(t) = "UpdateDelete" /\ main[t].idx \in DOMAIN queue[e]
             /\ WriteCurrent(t)
             /\ \A d \in AppContexts \ {e} : current'[d] = current[d]
      BY <2>1, <2>3, CoverMoves
    <3>2. main[t].pc \notin {"none", "find", "release"}
      BY <3>1 DEF WriteCurrent
    <3>3. p \in Manifest[Element(t).other]
      <4>1. PICK r \in Updates : r.other = e /\ r.ac = Element(t).other
        BY <1>0, <3>1, <3>2, UpdateOf
      <4>2. c # e
        BY <2>1 DEF Rises
      <4> QED BY <2>1, <4>1, <4>2 DEF OwnDrops
    <3>4. Heir(rank, e, p)
      BY <2>1, <3>1, <3>3 DEF Inherited, Event, Element
    <3>5. PICK d \in AppContexts : rank[d] > rank[e] /\ p \in Manifest[d] /\ current[d] \in Covering
      BY <3>4 DEF Heir
    <3>6. rank[c] \in Nat /\ rank[d] \in Nat /\ rank[e] \in Nat
      BY DEF Rises
    <3>7. rank[d] > rank[c] /\ d # e
      BY <2>1, <3>5, <3>6
    <3> QED BY <3>1, <3>5, <3>7 DEF Heir
  <2> QED BY <2>2, <2>3
<1>2. CASE i \in DOMAIN queue[c]
  BY <1>0, <1>1, <1>2 DEF QueueStep, Inherited
<1>3. ASSUME NEW r \in Requests, queue'[c][i] = NewElement(r.ev, r.other) PROVE FALSE
  BY <1>3, RequestAssumption DEF RequestAssumption, NewElement
<1>4. ASSUME NEW t \in Threads, HandOverQueue(t), c = Element(t).other,
             queue'[c][i] = NewElement("UpdateDelete", main[t].ac)
      PROVE  Heir(rank, c, p)'
  <2>1. main[t].pc = "handqueue" /\ current' = current
    BY <1>4 DEF HandOverQueue
  <2>2. Event(t) = "Update" /\ main[t].ac \in AppContexts
    BY <1>0, <2>1, ElementType DEF Coherent
  <2>3. rank[c] < rank[main[t].ac]
    BY <1>0, <1>4, <2>1, <2>2, UpdateOf DEF Rises
  <2>4. current[main[t].ac] = "Instantiating"
    BY <1>0, <2>1, <2>2 DEF Underway, Engaged, RunningState
  <2>5. p \in Manifest[main[t].ac]
    BY <1>4 DEF NewElement
  <2>6. rank[c] \in Nat /\ rank[main[t].ac] \in Nat
    BY <2>2 DEF Rises
  <2> QED BY <2>1, <2>2, <2>3, <2>4, <2>5, <2>6 DEF Heir, Covering
<1> QED BY <1>2, <1>3, <1>4, SmoothElements

\* Skip bits are set for what the other AppContext has, or keeps.
LEMMA SkipsPlacedInductive ==
    ASSUME Smooth, OwnDrops, NEW rank, Rises(rank), Steady, UpdatesOnly, HandsPlaced, Standing,
           SkipsPlaced, [Next]_vars
    PROVE  SkipsPlaced'
<1> SUFFICES ASSUME NEW c \in AppContexts, NEW p \in resSkip'[c]
             PROVE  p \in Manifest[c] /\ p \in deployed' \cup KeptBy(c)' /\ p \notin DroppedOf(c)
  <2>1. ASSUME NEW c \in AppContexts PROVE DroppedOf(c)' = DroppedOf(c)
    BY DEF DroppedOf
  <2> QED BY <2>1 DEF SkipsPlaced
<1>0. TypeOK /\ Coherent /\ Traced /\ Underway
  BY SteadyFacts
<1>1. ASSUME p \in Manifest[c], p \in deployed \cup KeptBy(c), p \notin DroppedOf(c)
      PROVE  p \in Manifest[c] /\ p \in deployed' \cup KeptBy(c)' /\ p \notin DroppedOf(c)
  BY <1>1, Stays
<1>2. CASE p \in resSkip[c]
  BY <1>1, <1>2 DEF SkipsPlaced
<1>3. ASSUME NEW t \in Threads, LaunchOperation(t), main[t].ac = c, p \in Unaffected(t)
      PROVE  p \in Manifest[c] /\ p \in deployed \cup KeptBy(c) /\ p \notin DroppedOf(c)
  <2>1. main[t].pc = "phase"
    BY <1>3 DEF LaunchOperation
  <2>2. main[t].idx \in DOMAIN queue[c]
    BY <1>0, <1>3, <2>1, ElementType
  <2>3. CASE Event(t) = "Update"
    <3>1. p \in Unmodified(c, Element(t).other)
      BY <1>3, <2>3 DEF Unaffected
    <3>2. PICK r \in Updates : r.ac = c /\ r.other = Element(t).other
      BY <1>0, <1>3, <2>1, <2>3, UpdateOf
    <3>3. queue[r.other] # <<>>
      BY <1>3, <2>2, <2>3, <3>2 DEF UpdatesOnly, Event, Element
    <3>4. p \in KeptBy(c)
      BY <3>1, <3>2, <3>3 DEF KeptBy
    <3> QED BY <3>4, KeptApart
  <2>4. CASE Event(t) = "UpdateDelete"
    <3>1. p \in Manifest[c] /\ p \in Manifest[Element(t).other]
      BY <1>3, <2>4 DEF Unaffected, Retained
    <3>2. PICK r \in Updates : r.other = c /\ r.ac = Element(t).other
      BY <1>0, <1>3, <2>1, <2>4, UpdateOf
    <3>3. r.ac \in AppContexts /\ r.ac # c
      <4>1. r.ac \in AppContexts /\ rank[c] < rank[r.ac] /\ rank[c] \in Nat
        BY <3>2, RequestAssumption DEF RequestAssumption, Request, Updates, Rises
      <4> QED BY <4>1
    <3>4. p \notin DroppedOf(c)
      BY <3>1, <3>2, <3>3, DropsApart
    <3>5. current[c] = "Updating"
      BY <1>0, <1>3, <2>1, <2>4 DEF Underway, Engaged, RunningState
    <3> QED BY <3>1, <3>4, <3>5 DEF Standing
  <2>5. CASE Event(t) \notin {"Update", "UpdateDelete"}
    BY <1>3, <2>5 DEF Unaffected
  <2> QED BY <2>3, <2>4, <2>5
<1> QED BY <1>0, <1>1, <1>2, <1>3, SkipWrites

\* A thread is done with what it has applied, deleted or passed over.
LEMMA HandsPlacedInductive ==
    ASSUME Smooth, OwnDrops, NEW rank, Rises(rank), Steady, UpdatesOnly, SkipsPlaced,
           HandsPlaced, [Next]_vars
    PROVE  HandsPlaced'
<1> SUFFICES ASSUME NEW t \in Threads, Operating(t)', NEW c, c = main'[t].ac,
                    NEW other, other = Element(t)'.other
             PROVE  /\ main'[t].op = OperationOf(Event(t)')
                    /\ InHand(t)' \subseteq Manifest[c]
                    /\ Event(t)' # "UpdateDelete" =>
                          Manifest[c] \subseteq deployed' \cup KeptBy(c)' \cup InHand(t)'
                    /\ Event(t)' = "UpdateDelete" =>
                          /\ InHand(t)' \cap Manifest[other] = {}
                          /\ deployed' \cap (Manifest[c] \ Manifest[other]) \subseteq InHand(t)'
  BY DEF HandsPlaced, KeptBy
<1>a. TypeOK /\ Coherent /\ InOrder /\ NeverDone /\ Traced /\ Calm /\ Underway
  BY SteadyFacts
<1>0. /\ main[t].pc \notin {"none", "find", "release"} /\ main[t].ac = c
      /\ Event(t)' = Event(t) /\ Element(t).other = other
      /\ c \in AppContexts /\ main[t].idx \in DOMAIN queue[c]
      /\ Event(t) \in {"Instantiate", "Update", "UpdateDelete"}
  BY <1>a, StillOperating, ElementType DEF UpdatesOnly, Event, Element
<1>1. main[t].pc \in Engaged \ {"enter"}
  BY <1>0, StillOperating, <1>a DEF Operating, Engaged, LaunchOperation, LaunchAfterPhaseError
<1>2. current[c] = RunningState(Event(t))
  BY <1>0, <1>a, <1>1 DEF Underway
<1>3. Event(t) = "UpdateDelete" => Manifest[c] \ Manifest[other] \subseteq DroppedOf(c)
  <2> SUFFICES ASSUME Event(t) = "UpdateDelete" PROVE Manifest[c] \ Manifest[other] \subseteq DroppedOf(c)
    OBVIOUS
  <2>1. PICK r \in Updates : r.other = c /\ r.ac = other
    BY <1>a, <1>0, UpdateOf
  <2> QED BY <2>1 DEF DroppedOf
<1>4. ASSUME Event(t) # "UpdateDelete", NEW p \in Manifest[c], p \in deployed \cup KeptBy(c)
      PROVE  p \in deployed' \cup KeptBy(c)'
  <2>1. current[c] # "Updating"
    BY <1>0, <1>2, <1>4 DEF RunningState
  <2> QED BY <1>0, <1>4, <2>1, Stays
<1>5. ASSUME Event(t) = "UpdateDelete", NEW p \in Manifest[c] \ Manifest[other], p \in deployed'
      PROVE  p \in deployed
  <2>1. current[c] = "Updating" /\ p \in DroppedOf(c)
    BY <1>2, <1>3, <1>5 DEF RunningState
  <2> QED BY <1>0, <1>5, <2>1, StaysGone
<1>6. ASSUME Operating(t), main'[t].op = main[t].op, InHand(t)' = InHand(t)
      PROVE  /\ main'[t].op = OperationOf(Event(t))
             /\ InHand(t)' \subseteq Manifest[c]
             /\ Event(t) # "UpdateDelete" =>
                   Manifest[c] \subseteq deployed' \cup KeptBy(c)' \cup InHand(t)'
             /\ Event(t) = "UpdateDelete" =>
                   /\ InHand(t)' \cap Manifest[other] = {}
                   /\ deployed' \cap (Manifest[c] \ Manifest[other]) \subseteq InHand(t)'
  BY <1>0, <1>4, <1>5, <1>6 DEF HandsPlaced
<1>7. CASE LaunchOperation(t)
  <2>1. /\ main'[t].op = OperationOf(Event(t)) /\ InHand(t)' = Manifest[c] \ Unaffected(t)
    BY <1>0, <1>a, <1>7, LaunchHands DEF Loads, InHand
  <2>2. Event(t) = "UpdateDelete" => Unaffected(t) = Manifest[c] \cap Manifest[other]
    BY <1>0 DEF Unaffected, Retained
  <2>3. Event(t) = "Instantiate" => Unaffected(t) = {}
    BY DEF Unaffected
  <2>4. Event(t) = "Update" => Unaffected(t) \subseteq KeptBy(c)
    <3> SUFFICES ASSUME Event(t) = "Update" PROVE Unaffected(t) \subseteq KeptBy(c)
      OBVIOUS
    <3>1. PICK r \in Updates : r.ac = c /\ r.other = other
      BY <1>a, <1>0, UpdateOf
    <3>2. queue[r.other] # <<>>
      BY <1>0, <3>1 DEF UpdatesOnly, Event, Element
    <3>3. Unaffected(t) = Unmodified(c, r.other)
      BY <1>0, <3>1 DEF Unaffected
    <3> QED BY <3>1, <3>2, <3>3 DEF KeptBy
  <2>5. KeptBy(c) \subseteq KeptBy(c)'
    BY <1>0, QueuesStay
  <2>6. deployed' \cap (Manifest[c] \ Manifest[other]) \subseteq Manifest[c] \ Manifest[other]
    OBVIOUS
  <2> QED BY <1>0, <2>1, <2>2, <2>3, <2>4, <2>5, <2>6
<1>8. ~LaunchAfterPhaseError(t)
  BY <1>a DEF LaunchAfterPhaseError, NeverDone, Smooth, Unhindered
<1>9. CASE Operating(t) /\ Routine(t)
  <2>1. PICK p \in Placements :
                 \/ OpenClient(t, p) /\ Opens(t, p)
                 \/ /\ \/ HandleSkipped(t, p) \/ Apply(t, p) \/ Delete(t, p)
                       \/ DeleteLost(t, p) \/ ReadResource(t, p)
                    /\ Drops(t, p)
    BY <1>a, <1>9, CalmRoutine DEF Smooth
  <2>2. CASE OpenClient(t, p) /\ Opens(t, p)
    <3>1. InHand(t)' = InHand(t) /\ main'[t].op = main[t].op
      BY <2>2 DEF OpenClient, Opens, InHand
    <3> QED BY <1>0, <1>6, <1>9, <3>1
  <2>3. CASE /\ \/ HandleSkipped(t, p) \/ Apply(t, p) \/ Delete(t, p)
                \/ DeleteLost(t, p) \/ ReadResource(t, p)
             /\ Drops(t, p)
    <3>1. InHand(t)' = InHand(t) \ {p} /\ main'[t].op = main[t].op
      BY <2>3 DEF Drops, InHand
    <3>2. main[t].op = OperationOf(Event(t)) /\ InHand(t) \subseteq Manifest[c]
      BY <1>0, <1>9 DEF HandsPlaced
    <3>3. ~DeleteLost(t, p) /\ ~ReadResource(t, p)
      <4>1. ~Interrupted(t) /\ "delete" \notin Faults
        BY <1>a DEF Interrupted, NeverDone, Calm, Smooth
      <4>2. main[t].op # "Read"
        BY <1>0, <3>2 DEF OperationOf
      <4> QED BY <4>1, <4>2 DEF DeleteLost, ReadResource
    <3>4. ASSUME Event(t) # "UpdateDelete", p \in Manifest[c] PROVE p \in deployed' \cup KeptBy(c)'
      <4>1. CASE HandleSkipped(t, p)
        <5>1. p \in resSkip[c]
          BY <1>0, <4>1 DEF HandleSkipped, Skipped
        <5>2. p \in deployed \cup KeptBy(c)
          BY <1>0, <5>1 DEF SkipsPlaced
        <5> QED BY <1>4, <3>4, <5>2
      <4>2. CASE Apply(t, p)
        BY <4>2 DEF Apply
      <4>3. ~Delete(t, p)
        BY <1>0, <3>2, <3>4 DEF Delete, OperationOf
      <4> QED BY <2>3, <3>3, <4>1, <4>2, <4>3
    <3>5. ASSUME Event(t) = "UpdateDelete" PROVE p \notin deployed' \/ p \notin Manifest[c] \ Manifest[other]
      <4>1. CASE HandleSkipped(t, p)
        <5>1. p \in resSkip[c]
          BY <1>0, <4>1 DEF HandleSkipped, Skipped
        <5>2. p \notin DroppedOf(c)
          BY <1>0, <5>1 DEF SkipsPlaced
        <5> QED BY <1>3, <3>5, <5>2
      <4>2. CASE Delete(t, p)
        BY <4>2 DEF Delete
      <4>3. ~Apply(t, p)
        BY <3>2, <3>5 DEF Apply, OperationOf
      <4> QED BY <2>3, <3>3, <4>1, <4>2, <4>3
    <3>6. Event(t) # "UpdateDelete" => Manifest[c] \subseteq deployed' \cup KeptBy(c)' \cup InHand(t)'
      <4> SUFFICES ASSUME Event(t) # "UpdateDelete", NEW q \in Manifest[c], q \notin InHand(t)'
                   PROVE  q \in deployed' \cup KeptBy(c)'
        OBVIOUS
      <4>1. CASE q = p
        BY <3>4, <4>1
      <4>2. CASE q # p
        <5>1. q \in deployed \cup KeptBy(c)
          BY <1>0, <1>9, <3>1, <4>2 DEF HandsPlaced
        <5> QED BY <1>4, <5>1
      <4> QED BY <4>1, <4>2
    <3>7. Event(t) = "UpdateDelete" =>
             /\ InHand(t)' \cap Manifest[other] = {}
             /\ deployed' \cap (Manifest[c] \ Manifest[other]) \subseteq InHand(t)'
      <4> SUFFICES ASSUME Event(t) = "UpdateDelete"
                   PROVE  /\ InHand(t)' \cap Manifest[other] = {}
                          /\ \A q \in deployed' \cap (Manifest[c] \ Manifest[other]) : q \in InHand(t)'
        OBVIOUS
      <4>1. InHand(t) \cap Manifest[other] = {}
        BY <1>0, <1>9 DEF HandsPlaced
      <4>2. ASSUME NEW q \in deployed' \cap (Manifest[c] \ Manifest[other]) PROVE q \in InHand(t)'
        <5>1. q \in deployed
          BY <1>5, <4>2
        <5>2. q \in InHand(t)
          BY <1>0, <1>9, <4>2, <5>1 DEF HandsPlaced
        <5>3. q # p
          BY <3>5, <4>2
        <5> QED BY <3>1, <5>2, <5>3
      <4> QED BY <3>1, <4>1, <4>2
    <3> QED BY <1>0, <3>1, <3>2, <3>6, <3>7
  <2> QED BY <2>1, <2>2, <2>3
<1>10. CASE Operating(t) /\ PodsConfirmed(t)
  BY <1>a, <1>0, <1>6, <1>10, LaunchHands DEF InHand
<1>11. CASE Operating(t) /\ SameWork(t)
  BY <1>0, <1>6, <1>11 DEF SameWork, InHand
<1> QED BY <1>a, <1>7, <1>8, <1>9, <1>10, <1>11, StillOperating

\* What an event has had for an effect stays until the next event is accepted.
LEMMA EffectStays ==
    ASSUME Smooth, OwnDrops, NEW rank, Rises(rank), Steady, UpdatesOnly, HandsPlaced, [Next]_vars,
           NEW t \in Threads, main[t].pc \notin {"none", "find", "release"},
           main'[t].ac = main[t].ac, main'[t].idx = main[t].idx,
           current[main[t].ac] = RunningState(Event(t)), Effective(t)
    PROVE  Effective(t)' /\ Event(t)' = Event(t)
<1> SUFFICES ASSUME NEW c, c = main'[t].ac, NEW other, other = Element(t)'.other
             PROVE  /\ Event(t)' = Event(t)
                    /\ Event(t)' # "UpdateDelete" => Has(c)'
                    /\ Event(t)' = "UpdateDelete" => Gone(c, other)'
  BY DEF Effective, Has, Gone, KeptBy
<1>a. TypeOK /\ Coherent /\ QueueStep /\ Traced
  BY SteadyFacts, SMTT(40)
<1>0. /\ main[t].ac = c /\ Event(t)' = Event(t) /\ Element(t).other = other
      /\ c \in AppContexts /\ Event(t) \in {"Instantiate", "Update", "UpdateDelete"}
  BY <1>a, ElementStays, ElementType DEF UpdatesOnly, Event, Element
<1>1. ASSUME Event(t) # "UpdateDelete" PROVE Has(c)'
  <2>1. current[c] # "Updating" /\ Manifest[c] \subseteq deployed \cup KeptBy(c)
    BY <1>0, <1>1 DEF RunningState, Effective, Has
  <2>2. ASSUME NEW p \in Manifest[c] PROVE p \in deployed' \cup KeptBy(c)'
    BY <1>0, <2>1, <2>2, Stays
  <2> QED BY <2>2 DEF Has
<1>2. ASSUME Event(t) = "UpdateDelete" PROVE Gone(c, other)'
  <2>1. current[c] = "Updating" /\ deployed \cap (Manifest[c] \ Manifest[other]) = {}
    BY <1>0, <1>2 DEF RunningState, Effective, Gone
  <2>2. Manifest[c] \ Manifest[other] \subseteq DroppedOf(c)
    BY <1>a, <1>0, <1>2, UpdateOf DEF DroppedOf
  <2>3. ASSUME NEW p \in Manifest[c] \ Manifest[other], p \in deployed' PROVE FALSE
    BY <1>0, <2>1, <2>2, <2>3, StaysGone
  <2> QED BY <2>3 DEF Gone
<1> QED BY <1>0, <1>1, <1>2

\* A verdict is given on what has had its effect, and so the state is written.
LEMMA VerdictsPlacedInductive ==
    ASSUME Smooth, OwnDrops, NEW rank, Rises(rank), Steady, UpdatesOnly, HandsPlaced,
           VerdictsPlaced, [Next]_vars
    PROVE  VerdictsPlaced'
<1> SUFFICES ASSUME NEW t \in Threads, main'[t].pc \in {"mark", "status", "current"}
             PROVE  /\ main'[t].pc = "mark" =>
                          \/ main'[t].verdict = "Done" /\ Effective(t)'
                          \/ main'[t].verdict = "Skip" /\ main'[t].final = "none"
                    /\ main'[t].pc \in {"status", "current"} =>
                          /\ current'[main'[t].ac] = RunningState(Event(t)')
                          /\ main'[t].final = DesiredState(Event(t)') /\ Effective(t)'
  BY DEF VerdictsPlaced
<1>0. /\ TypeOK /\ Coherent /\ OneMainThread /\ NeverDone /\ Calm /\ Underway /\ DebtsKept
      /\ ~Crash
  BY SteadyFacts
<1>1. ASSUME main[t].pc \notin {"none", "find", "release"}
      PROVE  Event(t) \in {"Instantiate", "Update", "UpdateDelete"} /\ main[t].ac \in AppContexts
  BY <1>0, <1>1, ElementType DEF UpdatesOnly, Event, Element
<1>2. ASSUME main[t].pc \in {"mark", "status", "current"}, ~WriteCurrent(t),
             main'[t].ac = main[t].ac
      PROVE  current'[main'[t].ac] = current[main[t].ac]
  BY <1>0, <1>2, OwnStates DEF Live, CheckSupported, EnterState
<1>3. CASE Unmoved(t) \/ WatchStop(t)
  <2>1. /\ main'[t].pc = main[t].pc /\ main'[t].ac = main[t].ac /\ main'[t].idx = main[t].idx
        /\ main'[t].verdict = main[t].verdict /\ main'[t].final = main[t].final
    BY <1>0, <1>3, VerdictMoves DEF Unmoved, Holds, Says
  <2>2. ~WriteCurrent(t)
    BY <1>0, <2>1, VerdictMoves DEF WriteCurrent, Goes
  <2>3. main[t].pc = "mark" /\ main[t].verdict = "Done" => current[main[t].ac] = RunningState(Event(t))
    BY <1>0 DEF Underway
  <2> QED BY <1>2, <2>1, <2>2, <2>3, EffectStays DEF VerdictsPlaced
<1>4. ~Begins(t)
  BY NewMainFields DEF Begins
<1>5. CASE MainStep(t)
  <2>1. ~FindNext(t) /\ ~FindNone(t) /\ ~Release(t) /\ ~GiveUp(t) /\ ~PodsAbandoned(t)
    BY <1>0, NewMainFields, SearchMoves DEF Goes
  <2>2. ~CheckIgnored(t) /\ ~CheckSupported(t) /\ ~EnterState(t) /\ ~AnnounceState(t) /\ ~Arm(t)
    <3>1. ~CheckIgnored(t)
      BY <1>0, <1>1 DEF CheckIgnored, Ignored, Calm, NeverDone
    <3> QED BY <1>0, <3>1, CheckMoves DEF Goes
  <2>3. CASE CheckUnsupported(t)
    <3>1. main[t].pc = "check"
      BY <2>3 DEF CheckUnsupported
    <3> QED BY <1>0, <1>1, <2>3, <3>1, CheckMoves DEF Goes, Says
  <2>4. /\ ~LaunchOperation(t) /\ ~LaunchAfterPhaseError(t) /\ ~PodsConfirmed(t)
        /\ ~HandOver(t) /\ ~HandOverQueue(t) /\ ~HandOverStart(t) /\ ~WriteCurrent(t)
    BY <1>0, OperationMoves, StartMoves, VerdictMoves DEF Goes
  <2>5. CASE Wait(t)
    <3>1. main[t].pc = "wait" /\ main[t].todo = {} /\ main[t].open = {}
      BY <2>5 DEF Wait
    <3>2. main'[t].verdict = "Done" /\ main'[t].pc = "mark"
      <4>1. ~main[t].failed
        BY <1>0 DEF Calm
      <4>2. main' = [main EXCEPT ![t] = [main[t] EXCEPT !.pc = "mark", !.verdict = "Done",
                                                        !.final = ErrorState(Event(t))]]
        BY <2>5, <4>1 DEF Wait
      <4> QED BY <1>0, <4>2 DEF TypeOK, MainThread
    <3>3. main'[t].ac = main[t].ac /\ main'[t].idx = main[t].idx
      BY <1>0, <2>5, OperationMoves DEF Goes, Holds
    <3>4. Effective(t)
      BY <3>1 DEF HandsPlaced, Operating, InHand, Effective, Has, Gone
    <3>5. current[main[t].ac] = RunningState(Event(t))
      BY <1>0, <3>1 DEF Underway, Engaged
    <3> QED BY <3>1, <3>2, <3>3, <3>4, <3>5, EffectStays
  <2>6. CASE Mark(t)
    <3>1. /\ main[t].pc = "mark" /\ main'[t].ac = main[t].ac /\ main'[t].idx = main[t].idx
          /\ main'[t].final = FinalState(t) /\ main'[t].pc = AfterMark(FinalState(t))
      BY <1>0, <2>6, VerdictMoves DEF Mark, Goes, Holds, Says
    <3>2. main[t].verdict = "Done" /\ Effective(t)
      BY <3>1 DEF VerdictsPlaced, FinalState, AfterMark
    <3>3. FinalState(t) = DesiredState(Event(t))
      BY <1>0, <3>1, <3>2 DEF DebtsKept, Owes, FinalState
    <3>4. main'[t].pc = "status"
      BY <1>1, <3>1, <3>3 DEF DesiredState, AfterMark
    <3>5. current[main[t].ac] = RunningState(Event(t))
      BY <1>0, <3>1, <3>2 DEF Underway
    <3> QED BY <1>2, <2>4, <3>1, <3>2, <3>3, <3>4, <3>5, EffectStays
  <2>7. CASE WriteStatus(t)
    <3>1. /\ main[t].pc = "status" /\ main'[t].pc = "current"
          /\ main'[t].ac = main[t].ac /\ main'[t].idx = main[t].idx
          /\ main'[t].final = main[t].final
      BY <1>0, <2>7, VerdictMoves DEF WriteStatus, Goes, Holds, Says
    <3> QED BY <1>2, <2>4, <3>1, EffectStays DEF VerdictsPlaced
  <2> QED BY <1>5, <2>1, <2>2, <2>3, <2>4, <2>5, <2>6, <2>7 DEF MainStep
<1> QED BY <1>0, <1>3, <1>4, <1>5, EveryMove

\* The state of an AppContext changes when its thread accepts an event, and when that
\* event has had its effect.
LEMMA SmoothStates ==
    ASSUME Smooth, Steady, UpdatesOnly, VerdictsPlaced, [Next]_vars, NEW c \in AppContexts,
           current'[c] # current[c]
    PROVE  \E e \in {"Instantiate", "Update", "UpdateDelete"} :
              \/ current[c] \in SourceStates(e) /\ current'[c] = RunningState(e)
              \/ /\ current[c] = RunningState(e) /\ current'[c] = DesiredState(e)
                 /\ e # "UpdateDelete" => Has(c)
<1>0. TypeOK /\ Coherent /\ DebtsKept /\ current \in [AppContexts -> AppContextStatuses]
  BY SteadyFacts DEF TypeOK
<1>1. ASSUME NEW t \in Threads, main[t].pc \notin {"none", "find", "release"}
      PROVE  Event(t) \in {"Instantiate", "Update", "UpdateDelete"} /\ main[t].ac \in AppContexts
  BY <1>0, <1>1, ElementType DEF UpdatesOnly, Event, Element
<1>2. CASE \E t \in Threads : EnterState(t)
  <2>1. PICK t \in Threads : EnterState(t)
    BY <1>2
  <2>2. /\ current' = [current EXCEPT ![main[t].ac] = RunningState(Event(t))]
        /\ main[t].pc = "enter" /\ current[main[t].ac] \in SourceStates(Event(t))
    BY <1>0, <2>1 DEF EnterState, DebtsKept, Owes
  <2>3. c = main[t].ac
    BY <1>0, <2>2
  <2> QED BY <1>0, <1>1, <2>2, <2>3
<1>3. CASE \E t \in Threads : WriteCurrent(t)
  <2>1. PICK t \in Threads : WriteCurrent(t)
    BY <1>3
  <2>2. /\ current' = [current EXCEPT ![main[t].ac] = main[t].final]
        /\ main[t].pc = "current"
    BY <2>1 DEF WriteCurrent
  <2>3. c = main[t].ac
    BY <1>0, <2>2
  <2>4. /\ current[c] = RunningState(Event(t)) /\ main[t].final = DesiredState(Event(t))
        /\ Event(t) # "UpdateDelete" => Has(c)
    BY <2>2, <2>3 DEF VerdictsPlaced, Effective
  <2> QED BY <1>0, <1>1, <2>2, <2>3, <2>4
<1>4. ASSUME NEW t \in Threads, CheckSupported(t) \/ AnnounceState(t) \/ WriteStatus(t) PROVE FALSE
  BY <1>4 DEF CheckSupported, AnnounceState, WriteStatus
<1> QED BY <1>2, <1>3, <1>4, StateWrites

\* What the states say stays true.
LEMMA StandingInductive ==
    ASSUME Smooth, OwnDrops, NEW rank, Rises(rank), Steady, Placing(rank), [Next]_vars
    PROVE  Standing'
<1>0. /\ UpdatesOnly /\ HandsPlaced /\ VerdictsPlaced /\ Standing /\ Inherited(rank)
      /\ TypeOK /\ Coherent /\ InOrder /\ Underway /\ DebtsKept
  BY SteadyFacts DEF Placing
<1>1. ASSUME NEW c \in AppContexts
      PROVE  /\ current'[c] \in {"Created", "Instantiating", "Instantiated", "Updating", "Updated"}
             /\ current'[c] = "Created" => current[c] = "Created"
             /\ current'[c] = "Instantiated" => Has(c) /\ current[c] # "Updating"
             /\ current'[c] \in {"Updating", "Updated"} =>
                   current[c] \in {"Instantiated", "Updating", "Updated"}
  <2>1. CASE current'[c] = current[c]
    BY <1>0, <2>1 DEF Standing
  <2>2. CASE current'[c] # current[c]
    <3>1. PICK e \in {"Instantiate", "Update", "UpdateDelete"} :
              \/ current[c] \in SourceStates(e) /\ current'[c] = RunningState(e)
              \/ /\ current[c] = RunningState(e) /\ current'[c] = DesiredState(e)
                 /\ e # "UpdateDelete" => Has(c)
      BY <1>0, <2>2, SmoothStates
    <3>2. CASE e = "UpdateDelete"
      BY <3>1, <3>2 DEF SourceStates, RunningState, DesiredState
    <3>3. CASE e \in {"Instantiate", "Update"}
      BY <3>1, <3>3 DEF RunningState, DesiredState
    <3> QED BY <3>2, <3>3
  <2> QED BY <2>1, <2>2
<1>2. ASSUME NEW c \in AppContexts, current'[c] = "Created", queue'[c] # <<>>
      PROVE  1 \in Pending(c)'
  <2>1. 1 \in DOMAIN queue'[c] /\ current[c] = "Created"
    BY <1>1, <1>2, QueuesStay
  <2>2. CASE 1 \notin DOMAIN queue[c]
    <3>1. \E ev, other : queue'[c][1] = NewElement(ev, other)
      BY <2>1, <2>2, SmoothElements
    <3>2. queue'[c][1].status = "Pending"
      BY <3>1 DEF NewElement
    <3> QED BY <2>1, <3>2 DEF Pending
  <2>3. CASE 1 \in DOMAIN queue[c]
    <3>1. queue[c][1].status = "Pending" /\ queue[c][1].ev \in {"Instantiate", "Update"}
      BY <1>0, <2>1, <2>3, QueuesStay DEF Standing, Pending, UpdatesOnly
    <3>2. ASSUME queue'[c][1] # queue[c][1] PROVE FALSE
      <4>1. PICK t \in Threads : Mark(t) /\ main[t].ac = c /\ main[t].idx = 1
        BY <1>0, <2>3, <3>2, OnlyMarkDecides
      <4>2. main[t].pc = "mark" /\ Event(t) \in {"Instantiate", "Update"}
        BY <3>1, <4>1 DEF Mark, Event, Element
      <4>3. CASE main[t].verdict = "Done"
        <5>1. current[c] = RunningState(Event(t))
          BY <1>0, <4>1, <4>2, <4>3 DEF Underway
        <5> QED BY <2>1, <4>2, <5>1 DEF RunningState
      <4>4. CASE main[t].verdict = "Skip" /\ main[t].final = "none"
        <5>1. "none" = ErrorState(Event(t)) \/ current[c] \notin SourceStates(Event(t))
          BY <1>0, <4>1, <4>2, <4>4 DEF DebtsKept, Owes
        <5> QED BY <2>1, <4>2, <5>1 DEF ErrorState, SourceStates
      <4> QED BY <1>0, <4>2, <4>3, <4>4 DEF VerdictsPlaced
    <3> QED BY <2>1, <3>1, <3>2 DEF Pending
  <2> QED BY <2>2, <2>3
<1>3. ASSUME NEW c \in AppContexts, current'[c] = "Instantiated" PROVE Has(c)'
  BY <1>0, <1>1, <1>3, Stays DEF Has
<1>4. ASSUME NEW c \in AppContexts, current'[c] \in {"Instantiated", "Updating", "Updated"},
             NEW p \in Manifest[c] \ DroppedOf(c)
      PROVE  p \in deployed' \cup KeptBy(c)'
  <2>1. p \in deployed \cup KeptBy(c)
    BY <1>0, <1>1, <1>4 DEF Standing, Has
  <2> QED BY <1>0, <2>1, Stays
<1>5. ASSUME NEW p \in deployed'
      PROVE  \E c \in AppContexts : p \in Manifest[c] /\ current'[c] \in Covering
  <2>1. CASE p \notin deployed
    BY <1>0, <1>5, <2>1, Additions DEF Covering
  <2>2. CASE p \in deployed
    <3>1. PICK c \in AppContexts : p \in Manifest[c] /\ current[c] \in Covering
      BY <1>0, <2>2 DEF Standing
    <3>2. CASE current'[c] \in Covering
      BY <3>1, <3>2
    <3>3. CASE current'[c] \notin Covering
      <4>1. PICK t \in Threads : /\ WriteCurrent(t) /\ main[t].ac = c /\ Event(t) = "UpdateDelete"
                                 /\ main[t].idx \in DOMAIN queue[c]
                                 /\ Gone(c, Element(t).other)
                                 /\ \A d \in AppContexts \ {c} : current'[d] = current[d]
        BY <1>0, <3>1, <3>3, CoverMoves
      <4>2. p \in Manifest[Element(t).other]
        BY <2>2, <3>1, <4>1 DEF Gone
      <4>3. Heir(rank, c, p)
        BY <1>0, <3>1, <4>1, <4>2 DEF Inherited, Event, Element
      <4>4. PICK e \in AppContexts : rank[e] > rank[c] /\ p \in Manifest[e] /\ current[e] \in Covering
        BY <4>3 DEF Heir
      <4>5. e # c
        BY <4>4 DEF Rises
      <4> QED BY <4>1, <4>4, <4>5
    <3> QED BY <3>2, <3>3
  <2> QED BY <2>1, <2>2
<1>6. ASSUME NEW c \in AppContexts PROVE DroppedOf(c)' = DroppedOf(c)
  BY DEF DroppedOf
<1> QED BY <1>1, <1>2, <1>3, <1>4, <1>5, <1>6 DEF Standing

\* Every step keeps the clusters in line with the states ...
LEMMA PlacingInductive ==
    ASSUME Smooth, OwnDrops, NEW rank, Rises(rank), Steady, Placing(rank), [Next]_vars
    PROVE  Placing(rank)'
<1>0. /\ UpdatesOnly /\ Inherited(rank) /\ SkipsPlaced /\ HandsPlaced /\ VerdictsPlaced /\ Standing
  BY DEF Placing
<1>1. UpdatesOnly'
  BY <1>0, UpdatesOnlyInductive
<1>2. Inherited(rank)'
  BY <1>0, InheritedInductive
<1>3. SkipsPlaced'
  BY <1>0, SkipsPlacedInductive
<1>4. HandsPlaced'
  BY <1>0, HandsPlacedInductive
<1>5. VerdictsPlaced'
  BY <1>0, VerdictsPlacedInductive
<1> QED BY <1>1, <1>2, <1>3, <1>4, <1>5, StandingInductive DEF Placing

\* ... and in the beginning they are.
LEMMA InitPlacing ==
    ASSUME Init, Smooth, NEW rank
    PROVE  Steady /\ Placing(rank)
<1>1. IInv /\ NeverCrashed /\ NeverDone /\ Undecided
  BY InitIInv, InitMore DEF Init, NeverCrashed, NeverDone, NoMain
<1>2. /\ queue = [c \in AppContexts |-> <<>>] /\ current = [c \in AppContexts |-> "Created"]
      /\ resSkip = [c \in AppContexts |-> {}] /\ deployed = {}
      /\ \A t \in Threads : main[t].pc = "none"
  BY DEF Init, NoMain
<1>3. Traced /\ Calm
  BY InitReplacing DEF Replacing
<1>4. Underway /\ DebtsKept
  BY <1>2 DEF Underway, DebtsKept, Owes, Engaged
<1>5. UpdatesOnly /\ Inherited(rank) /\ SkipsPlaced
  <2>1. \A k \in Callers : handler[k].pc = "idle"
    BY DEF Init, NoHandler
  <2> QED BY <1>2, <2>1 DEF UpdatesOnly, Inherited, SkipsPlaced
<1>6. HandsPlaced /\ VerdictsPlaced
  BY <1>2 DEF HandsPlaced, VerdictsPlaced, Operating
<1>7. Standing
  BY <1>2 DEF Standing
<1> QED BY <1>1, <1>3, <1>4, <1>5, <1>6, <1>7 DEF Steady, Placing

\* A set of natural numbers that is not empty has a least element.
LEMMA LeastNatural ==
    ASSUME NEW S \in SUBSET Nat, S # {}
    PROVE  \E m \in S : \A n \in S : m <= n
<1>1. \E R : IsWellFoundedOn(R, Nat) /\ \A m, n \in Nat : n < m => <<n, m>> \in R
  <2> WITNESS OpToRel(<, Nat)
  <2> QED BY NatLessThanWellFounded DEF OpToRel
<1>2. PICK R : IsWellFoundedOn(R, Nat) /\ \A m, n \in Nat : n < m => <<n, m>> \in R
  BY <1>1
<1>3. PICK m \in S : \A n \in S : ~(<<n, m>> \in R)
  BY <1>2, WFMin
<1>4. ASSUME NEW n \in S PROVE m <= n
  <2>1. m \in Nat /\ n \in Nat
    OBVIOUS
  <2>2. ~(n < m)
    BY <1>2, <1>3, <2>1
  <2> QED BY <2>1, <2>2
<1> QED BY <1>4

\* At rest an AppContext has what nobody takes off: what an update left to the
\* AppContext it replaces was left to one that has it.
LEMMA PlacedAtRest ==
    ASSUME Smooth, OwnDrops, NEW rank, Rises(rank), Placing(rank), SettledState, Quiescent,
           NEW c \in AppContexts, current[c] \in {"Instantiated", "Updated"},
           NEW p \in Manifest[c] \ DroppedOf(c)
    PROVE  p \in deployed
<1> SUFFICES ASSUME p \notin deployed PROVE FALSE
  OBVIOUS
<1>0. Standing /\ \A d \in AppContexts : current[d] \notin Transient /\ Pending(d) = {}
  BY DEF Placing, SettledState, Quiescent
<1> DEFINE Lacking == {d \in AppContexts : /\ p \in Manifest[d] \ DroppedOf(d)
                                           /\ current[d] \in {"Instantiated", "Updated"}}
<1>1. c \in Lacking
  OBVIOUS
<1>2. ASSUME NEW d \in Lacking PROVE \E a \in Lacking : rank[a] < rank[d]
  <2>1. p \in KeptBy(d)
    BY <1>0 DEF Standing
  <2>2. PICK r \in Updates : r.ac = d /\ queue[r.other] # <<>> /\ p \in Unmodified(d, r.other)
    BY <2>1 DEF KeptBy
  <2>3. r.other \in AppContexts /\ rank[r.other] < rank[d]
    BY <2>2, RequestAssumption DEF RequestAssumption, Updates, Rises
  <2>4. current[r.other] \in {"Instantiated", "Updated"}
    BY <1>0, <2>2, <2>3 DEF Standing, Transient
  <2>5. r.other # d
    BY <2>3 DEF Rises
  <2>6. p \in Manifest[r.other] \ DroppedOf(r.other)
    BY <2>2, <2>3, <2>5, DropsApart DEF Unmodified
  <2> QED BY <2>3, <2>4, <2>6
<1>3. \A d \in Lacking : rank[d] \in Nat
  BY DEF Rises
<1> HIDE DEF Lacking
<1> DEFINE Ranks == {rank[d] : d \in Lacking}
<1>4. PICK m \in Ranks : \A n \in Ranks : m <= n
  <2>1. Ranks \in SUBSET Nat /\ Ranks # {}
    BY <1>1, <1>3
  <2> HIDE DEF Ranks
  <2> QED BY <2>1, LeastNatural
<1>5. PICK d \in Lacking : m = rank[d]
  OBVIOUS
<1>6. PICK a \in Lacking : rank[a] < rank[d]
  BY <1>2
<1>7. rank[d] <= rank[a] /\ rank[a] \in Nat /\ rank[d] \in Nat
  BY <1>3, <1>4, <1>5
<1> QED BY <1>6, <1>7

\* So at rest the clusters have whatever updates leave to the AppContexts they replace.
LEMMA KeptAtRest ==
    ASSUME Smooth, OwnDrops, NEW rank, Rises(rank), Placing(rank), SettledState, Quiescent,
           NEW c \in AppContexts
    PROVE  KeptBy(c) \subseteq deployed
<1> SUFFICES ASSUME NEW p \in KeptBy(c) PROVE p \in deployed
  OBVIOUS
<1>1. PICK r \in Updates : r.ac = c /\ queue[r.other] # <<>> /\ p \in Unmodified(c, r.other)
  BY DEF KeptBy
<1>2. r.other \in AppContexts /\ r.other # c /\ p \in Manifest[c] /\ p \in Manifest[r.other]
  <2>1. r.other \in AppContexts /\ rank[r.other] < rank[c] /\ rank[c] \in Nat
    BY <1>1, RequestAssumption DEF RequestAssumption, Updates, Rises
  <2> QED BY <1>1, <2>1 DEF Unmodified
<1>3. current[r.other] \in {"Instantiated", "Updated"}
  BY <1>1, <1>2 DEF Placing, Standing, SettledState, Quiescent, Transient
<1>4. p \notin DroppedOf(r.other)
  BY <1>2, DropsApart
<1> QED BY <1>2, <1>3, <1>4, PlacedAtRest

\* The clusters follow the states under a given order of the AppContexts ...
LEMMA ConvergedRanked ==
    ASSUME Smooth, OwnDrops, NEW rank, Rises(rank)
    PROVE  Spec => []Converged
<1>1. Init => Steady /\ Placing(rank)
  BY InitPlacing
<1>2. Steady /\ Placing(rank) /\ [Next]_vars => Steady' /\ Placing(rank)'
  BY SteadyKept, PlacingInductive
<1>3. ASSUME Placing(rank), SettledState PROVE Converged
  <2> SUFFICES ASSUME Quiescent
               PROVE  deployed =
                         UNION {Manifest[c] : c \in {a \in AppContexts : current[a] = "Instantiated"}}
    BY DEF Converged
  <2>1. ASSUME NEW c \in AppContexts, current[c] = "Instantiated" PROVE Manifest[c] \subseteq deployed
    BY <1>3, <2>1, KeptAtRest DEF Placing, Standing, Has
  <2>2. ASSUME NEW p \in deployed
        PROVE  \E c \in AppContexts : p \in Manifest[c] /\ current[c] = "Instantiated"
    <3>1. PICK c \in AppContexts : p \in Manifest[c] /\ current[c] \in Covering
      BY <1>3 DEF Placing, Standing
    <3>2. current[c] \notin Transient
      BY <1>3 DEF SettledState
    <3> QED BY <3>1, <3>2 DEF Covering, Transient
  <2> QED BY <2>1, <2>2
<1>4. Spec => []SettledState
  BY SettledStateSafe DEF Smooth, Unhindered
<1> QED BY <1>1, <1>2, <1>3, <1>4, PTL DEF Spec

\* ... and so they do if there is one: when rsync has nothing left to do the clusters
\* hold exactly what the AppContexts in the state Instantiated list.  AppContexts are
\* installed and updated, in any number and one update on top of the other, while the
\* handlers, main threads and cluster routines interleave; clusters come and go and
\* may be slow.  What an update takes off must be on no other AppContext's list, and
\* updates must not go round in a circle.
THEOREM ConvergedSafe ==
    ASSUME Smooth, OwnDrops, \E rank : Rises(rank)
    PROVE  Spec => []Converged
<1>1. PICK rank : Rises(rank)
  OBVIOUS
<1> QED BY <1>1, ConvergedRanked

-------------------------------------------------------------------------------
(* One call at a time.                                                     *)

\* While a handler is about to queue an event nothing else is going on.
Turn ==
    \A k \in Callers : handler[k].pc = "queue" =>
        /\ toRestore = {}
        /\ \A c \in AppContexts : Pending(c) = {}
        /\ \A t \in Threads : ~Live(t)
        /\ \A j \in Callers \ {k} : handler[j].pc = "idle"

\* There is one event to work off, or two, the deleting half of an update and the
\* update it comes from.
Solo ==
    /\ \A c, d \in AppContexts : \A i \in Pending(c), j \in Pending(d) :
          (queue[c][i].ev = "UpdateDelete") = (queue[d][j].ev = "UpdateDelete") => c = d /\ i = j
    /\ \A c, d \in AppContexts : \A i \in Pending(c), j \in Pending(d) :
          queue[c][i].ev = "UpdateDelete" /\ queue[d][j].ev # "UpdateDelete" =>
              \E t \in Threads : /\ main[t].ac = d /\ main[t].idx = j
                                 /\ main[t].pc \in {"handstart", "wait", "mark"}

\* What an update leaves to the AppContext it replaces is there.
SharedThere ==
    /\ \A c \in AppContexts : \A i \in Pending(c) :
          queue[c][i].ev = "Update" => KeptBy(c) \subseteq deployed
    /\ \A k \in Callers :
          handler[k].pc = "queue" => KeptBy(handler[k].ac) \subseteq deployed

\* Pods that an update has seen running run until it has deleted the old ones.
Sure ==
    /\ \A c \in AppContexts : \A i \in Pending(c) :
          queue[c][i].ev = "UpdateDelete" => Manifest[queue[c][i].other] \subseteq podsUp
    /\ \A t \in Threads : main[t].pc = "pods" => Manifest[main[t].ac] \ main[t].await \subseteq podsUp
    /\ \A t \in Threads : main[t].pc \in HandingOver => Manifest[main[t].ac] \subseteq podsUp

\* A handler takes its turn when rsync is at rest, and until it has queued its event
\* only the clusters move.
LEMMA TurnKept ==
    ASSUME Smooth, Steady, Turn, "overlap" \notin Faults, [Next]_vars, NEW k \in Callers,
           handler'[k].pc = "queue"
    PROVE  \/ UNCHANGED <<queue, main, handler, toRestore, deployed>> /\ handler[k].pc = "queue"
           \/ /\ Quiescent /\ UNCHANGED <<queue, main, toRestore, deployed>>
              /\ \A j \in Callers \ {k} : handler'[j] = handler[j]
              /\ \E r \in Requests : handler'[k].ac = r.ac
<1>0. TypeOK /\ Calm /\ ~Crash
  BY SteadyFacts
<1>1. CASE handler'[k] # handler[k]
  <2>1. ~HandlerRetry(k)
    BY <1>0 DEF Calm, HandlerRetry
  <2>2. PICK r \in outbox :
           /\ Receive(k) /\ UNCHANGED queue
           /\ handler' = [handler EXCEPT ![k] =
                  [pc |-> "queue", ev |-> r.ev, ac |-> r.ac, other |-> r.other]]
    BY <1>0, <1>1, <2>1, HandlerComes
  <2>3. Quiescent /\ UNCHANGED <<main, toRestore, deployed>>
    BY <2>2 DEF Receive
  <2>4. handler'[k].ac = r.ac /\ \A j \in Callers \ {k} : handler'[j] = handler[j]
    BY <1>0, <2>2 DEF TypeOK
  <2> QED BY <1>0, <2>2, <2>3, <2>4 DEF TypeOK
<1>2. CASE handler'[k] = handler[k]
  <2>1. /\ handler[k].pc = "queue" /\ toRestore = {} /\ \A t \in Threads : ~Live(t)
        /\ \A j \in Callers \ {k} : handler[j].pc = "idle"
    BY <1>2 DEF Turn
  <2>2. ASSUME NEW j \in Callers, Handler(j) PROVE FALSE
    <3>1. CASE j = k
      <4>1. HandlerQueue(k)
        BY <2>1, <2>2, <3>1 DEF Handler, Receive, HandlerStart, HandlerStartFails, HandlerRetry
      <4> DEFINE g == [handler[k] EXCEPT !.pc = "start"]
      <4>2. handler'[k] = g
        BY <1>0, <4>1 DEF HandlerQueue, TypeOK
      <4>3. g.pc = "start"
        BY <1>0 DEF TypeOK, HandlerState
      <4> HIDE DEF g
      <4> QED BY <1>2, <2>1, <4>2, <4>3
    <3>2. CASE j # k
      <4>1. Receive(j)
        BY <2>1, <2>2, <3>2 DEF Handler, HandlerQueue, HandlerStart, HandlerStartFails, HandlerRetry
      <4> QED BY <2>1, <4>1 DEF Receive, Quiescent
    <3> QED BY <3>1, <3>2
  <2>3. ASSUME NEW t \in Threads, MainStep(t) \/ Routine(t) \/ WatchStop(t) PROVE FALSE
    <3>1. main[t].pc = "none"
      BY <2>1 DEF Live
    <3>2. ~WatchStop(t)
      BY <2>1 DEF WatchStop
    <3>3. ~Routine(t)
      BY <3>1 DEF Routine, OpenClient, OpenClientFails, HandleSkipped, Apply, ApplyFails, Delete,
                  DeleteLost, ReadResource, Unreachable, Operating
    <3>4. ~MainStep(t)
      BY <3>1
         DEF MainStep, FindNext, FindNone, Release, GiveUp, CheckIgnored, CheckUnsupported,
             CheckSupported, EnterState, AnnounceState, Arm, LaunchOperation,
             LaunchAfterPhaseError, PodsConfirmed, PodsAbandoned, HandOver, HandOverQueue,
             HandOverStart, Wait, Mark, WriteStatus, WriteCurrent
    <3> QED BY <2>3, <3>2, <3>3, <3>4
  <2>4. ASSUME NEW c \in AppContexts, Restart(c) \/ RestartFails(c) PROVE FALSE
    BY <2>1, <2>4 DEF Restart, RestartFails
  <2>5. Environment \/ UNCHANGED vars
    BY <1>0, <2>2, <2>3, <2>4 DEF Next
  <2> QED
    BY <2>1, <2>5
       DEF Environment, Stop, ClearStop, PodsStart, ClusterDown, ClusterUp, vars, etcd, memory, world
<1> QED BY <1>1, <1>2

LEMMA TurnInductive ==
    ASSUME Smooth, Steady, "overlap" \notin Faults, Turn, [Next]_vars
    PROVE  Turn'
<1> SUFFICES ASSUME NEW k \in Callers, handler'[k].pc = "queue"
             PROVE  /\ toRestore' = {} /\ \A c \in AppContexts : Pending(c)' = {}
                    /\ \A t \in Threads : ~Live(t)'
                    /\ \A j \in Callers \ {k} : handler'[j].pc = "idle"
  BY DEF Turn
<1>1. /\ UNCHANGED <<queue, main, toRestore>>
      /\ toRestore = {}
      /\ \A c \in AppContexts : Pending(c) = {}
      /\ \A t \in Threads : ~Live(t)
      /\ \A j \in Callers \ {k} : handler'[j].pc = "idle"
  BY TurnKept DEF Turn, Quiescent, Up
<1>2. \A c \in AppContexts : Pending(c)' = {}
  BY <1>1 DEF Pending
<1>3. \A t \in Threads : ~Live(t)'
  BY <1>1 DEF Live
<1> QED BY <1>1, <1>2, <1>3

\* An element that is pending after a step was so before, or is new: it comes from a
\* handler of a request, or from the thread of an update.
LEMMA PendingComes ==
    ASSUME Smooth, Steady, [Next]_vars, NEW c \in AppContexts,
           NEW i \in Pending(c)'
    PROVE  \/ /\ i \in Pending(c) /\ i \in DOMAIN queue[c]
              /\ queue'[c][i].ev = queue[c][i].ev /\ queue'[c][i].other = queue[c][i].other
           \/ \E k \in Callers :
                 /\ handler[k].pc = "queue" /\ handler[k].ac = c
                 /\ deployed' = deployed /\ i = Len(queue[c]) + 1
                 /\ \A d \in AppContexts \ {c} : queue'[d] = queue[d]
                 /\ \E r \in Requests : r.ac = c /\ queue'[c][i] = NewElement(r.ev, r.other)
           \/ \E t \in Threads :
                 /\ HandOverQueue(t) /\ c = Element(t).other /\ i = Len(queue[c]) + 1
                 /\ queue'[c][i] = NewElement("UpdateDelete", main[t].ac)
<1>0. QueueStep /\ queue \in [AppContexts -> Seq(QueueElement)] /\ outbox \subseteq Requests
  BY SteadyFacts DEF TypeOK
<1>1. CASE i \in DOMAIN queue[c]
  BY <1>0, <1>1 DEF QueueStep, Pending
<1>2. CASE i \notin DOMAIN queue[c]
  <2>1. i \in DOMAIN queue'[c] /\ queue[c] \in Seq(QueueElement)
    BY <1>0 DEF Pending
  <2>2. ASSUME NEW d \in AppContexts, NEW e, queue' = [queue EXCEPT ![d] = Append(@, e)]
        PROVE  /\ c = d /\ i = Len(queue[c]) + 1 /\ queue'[c][i] = e
               /\ \A b \in AppContexts \ {c} : queue'[b] = queue[b]
    <3>1. c = d
      BY <1>0, <1>2, <2>1, <2>2
    <3>2. queue'[c] = Append(queue[c], e) /\ \A b \in AppContexts \ {c} : queue'[b] = queue[b]
      BY <1>0, <2>2, <3>1
    <3> QED BY <1>2, <2>1, <3>1, <3>2
  <2>3. ASSUME NEW k \in Callers, HandlerQueue(k), handler[k].ac = c
        PROVE  /\ handler[k].pc = "queue" /\ deployed' = deployed /\ i = Len(queue[c]) + 1
               /\ \A d \in AppContexts \ {c} : queue'[d] = queue[d]
    <3>1. Enqueue(c, handler[k].ev, handler[k].other)
      BY <2>3, SecondWrite DEF HandlerQueue
    <3>2. queue' = [queue EXCEPT ![c] = Append(@, NewElement(handler[k].ev, handler[k].other))]
      BY <3>1 DEF Enqueue
    <3>3. handler[k].pc = "queue" /\ deployed' = deployed
      BY <2>3 DEF HandlerQueue, world
    <3> QED BY <2>2, <3>2, <3>3
  <2>4. ASSUME NEW t \in Threads, HandOverQueue(t), c = Element(t).other PROVE i = Len(queue[c]) + 1
    <3>1. UNCHANGED queue \/ Enqueue(c, "UpdateDelete", main[t].ac)
      BY <2>4, SecondWrite DEF HandOverQueue
    <3>2. UNCHANGED queue \/ queue' = [queue EXCEPT ![c] = Append(@, NewElement("UpdateDelete", main[t].ac))]
      BY <3>1 DEF Enqueue
    <3> QED BY <1>2, <2>1, <2>2, <3>2
  <2> QED BY <1>2, <2>1, <2>3, <2>4, SmoothElements
<1> QED BY <1>1, <1>2

\* The thread of an update is past its hand-over until it gives its verdict.
LEMMA LateStays ==
    ASSUME Smooth, Steady, [Next]_vars, NEW t \in Threads,
           main[t].pc \in {"handstart", "wait", "mark"},
           NEW d, d = main[t].ac, NEW j \in Pending(d)', j = main[t].idx
    PROVE  main'[t].pc \in {"handstart", "wait", "mark"} /\ main'[t].ac = d /\ main'[t].idx = j
<1>0. TypeOK /\ Coherent /\ InOrder /\ NeverDone /\ ~Crash
  BY SteadyFacts
<1>1. CASE Unmoved(t) \/ WatchStop(t)
  BY <1>0, <1>1, VerdictMoves DEF Unmoved, Holds
<1>2. ~Begins(t)
  BY DEF Begins, Live
<1>3. CASE MainStep(t)
  <2>1. ~Mark(t)
    <3> SUFFICES ASSUME Mark(t) PROVE FALSE
      OBVIOUS
    <3>1. d \in AppContexts /\ j \in DOMAIN queue[d] /\ main[t].verdict # "Pending"
      BY <1>0, ElementType DEF InOrder, Mark
    <3>2. queue' = [queue EXCEPT ![d] = [queue[d] EXCEPT ![j] =
                                            [queue[d][j] EXCEPT !.status = main[t].verdict]]]
      BY DEF Mark
    <3>3. queue[d][j] \in QueueElement
      BY <1>0, <3>1, ElementOfSeq DEF TypeOK
    <3>4. queue'[d][j].status = main[t].verdict
      BY <1>0, <3>1, <3>2, <3>3 DEF TypeOK, QueueElement
    <3> QED BY <3>1, <3>4 DEF Pending
  <2>2. HandOverStart(t) \/ Wait(t)
    BY <1>0, <1>3, <2>1
       DEF MainStep, FindNext, FindNone, Release, GiveUp, CheckIgnored, CheckUnsupported, CheckSupported, EnterState, AnnounceState,
           Arm, LaunchOperation, LaunchAfterPhaseError, PodsConfirmed, PodsAbandoned, HandOver,
           HandOverQueue, WriteStatus, WriteCurrent, NeverDone
  <2> QED BY <1>0, <2>2, StartMoves, OperationMoves DEF Goes, Holds
<1> QED BY <1>0, <1>1, <1>2, <1>3, EveryMove

\* A call that waits for the one before it adds the only event, and an update adds the
\* deleting half when it has done its own.
LEMMA SoloInductive ==
    ASSUME Smooth, Steady, Turn, Solo, [Next]_vars
    PROVE  Solo'
<1>0. TypeOK /\ Coherent /\ OneMainThread /\ Undecided /\ crashes = 0
  BY SteadyFacts
<1> DEFINE Calling == \E k \in Callers : handler[k].pc = "queue"
           Request1(c, i) == /\ i = Len(queue[c]) + 1
                             /\ \A d \in AppContexts \ {c} : queue'[d] = queue[d]
           HandedBy(t, c, i) == /\ HandOverQueue(t) /\ c = Element(t).other /\ i = Len(queue[c]) + 1
                                /\ queue'[c][i].ev = "UpdateDelete"
           Kept(c, i) == i \in Pending(c) /\ queue'[c][i].ev = queue[c][i].ev
<1>1. ASSUME NEW c \in AppContexts, NEW i \in Pending(c)'
      PROVE  \/ Kept(c, i) \/ (Calling /\ Request1(c, i) /\ queue'[c][i].ev # "UpdateDelete")
             \/ \E t \in Threads : HandedBy(t, c, i)
  <2>1. \A ev, other : NewElement(ev, other).ev = ev
    BY DEF NewElement
  <2>2. \A r \in Requests : r.ev # "UpdateDelete"
    BY RequestAssumption DEF RequestAssumption
  <2> QED BY <2>1, <2>2, PendingComes
<1>2. ASSUME Calling
      PROVE  \A d \in AppContexts : Pending(d) = {} /\ \A t \in Threads : ~HandOverQueue(t)
  BY <1>2 DEF Turn, HandOverQueue, Live
<1>3. ASSUME NEW t \in Threads, HandOverQueue(t)
      PROVE  /\ main[t].ac \in AppContexts /\ main[t].idx \in Pending(main[t].ac)
             /\ queue[main[t].ac][main[t].idx].ev = "Update"
             /\ main'[t].pc \in {"handstart", "wait", "mark"}
             /\ main'[t].ac = main[t].ac /\ main'[t].idx = main[t].idx
  <2>1. main[t].pc = "handqueue"
    BY <1>3 DEF HandOverQueue
  <2>2. main[t].ac \in AppContexts /\ main[t].idx \in Pending(main[t].ac)
    BY <1>0, <2>1, ElementType DEF Undecided
  <2> QED BY <1>0, <1>3, <2>1, <2>2, OperationMoves DEF Coherent, Event, Element, Goes, Holds
<1>4. ASSUME NEW t \in Threads, HandOverQueue(t), NEW c \in AppContexts, NEW i \in Pending(c)
      PROVE  queue[c][i].ev # "UpdateDelete"
  <2> SUFFICES ASSUME queue[c][i].ev = "UpdateDelete" PROVE FALSE
    OBVIOUS
  <2>1. PICK u \in Threads : /\ main[u].ac = main[t].ac /\ main[u].idx = main[t].idx
                             /\ main[u].pc \in {"handstart", "wait", "mark"}
    BY <1>3, <1>4 DEF Solo
  <2>2. main[t].pc = "handqueue"
    BY <1>4 DEF HandOverQueue
  <2>3. t = u
    BY <1>0, <2>1, <2>2 DEF OneMainThread, Live
  <2> QED BY <2>1, <2>2, <2>3
<1>5. ASSUME NEW t \in Threads, NEW u \in Threads, HandOverQueue(t), HandOverQueue(u) PROVE t = u
  <2>1. main[t].ac = main[u].ac
    BY <1>3, <1>5 DEF Solo
  <2> QED BY <1>0, <1>5, <2>1 DEF OneMainThread, Live, HandOverQueue
<1>6. ASSUME NEW c \in AppContexts, NEW d \in AppContexts, NEW i \in Pending(c)', NEW j \in Pending(d)',
             (queue'[c][i].ev = "UpdateDelete") = (queue'[d][j].ev = "UpdateDelete")
      PROVE  c = d /\ i = j
  <2>1. CASE Kept(c, i) /\ Kept(d, j)
    BY <1>6, <2>1 DEF Solo
  <2>2. CASE Calling
    <3>1. Request1(c, i) /\ Request1(d, j)
      BY <1>1, <1>2, <2>2
    <3>2. c = d
      <4> SUFFICES ASSUME c # d PROVE FALSE
        OBVIOUS
      <4>1. queue'[d] = queue[d] /\ j \in DOMAIN queue[d]
        BY <3>1 DEF Pending
      <4>2. j \notin DOMAIN queue[d]
        BY <1>0, <3>1, LenProperties DEF TypeOK
      <4> QED BY <4>1, <4>2
    <3> QED BY <3>1, <3>2
  <2>3. ASSUME NEW t \in Threads, HandedBy(t, c, i) PROVE c = d /\ i = j
    <3>1. queue'[d][j].ev = "UpdateDelete" /\ ~Calling
      BY <1>2, <1>6, <2>3
    <3>2. ~Kept(d, j)
      BY <1>4, <2>3, <3>1
    <3>3. PICK u \in Threads : HandedBy(u, d, j)
      BY <1>1, <3>1, <3>2
    <3> QED BY <1>5, <2>3, <3>3
  <2>4. ASSUME NEW t \in Threads, HandedBy(t, d, j) PROVE c = d /\ i = j
    <3>1. queue'[c][i].ev = "UpdateDelete" /\ ~Calling
      BY <1>2, <1>6, <2>4
    <3>2. ~Kept(c, i)
      BY <1>4, <2>4, <3>1
    <3>3. PICK u \in Threads : HandedBy(u, c, i)
      BY <1>1, <3>1, <3>2
    <3> QED BY <1>5, <2>4, <3>3
  <2> QED BY <1>1, <2>1, <2>2, <2>3, <2>4
<1>7. ASSUME NEW c \in AppContexts, NEW d \in AppContexts, NEW i \in Pending(c)', NEW j \in Pending(d)',
             queue'[c][i].ev = "UpdateDelete", queue'[d][j].ev # "UpdateDelete"
      PROVE  \E t \in Threads : /\ main'[t].ac = d /\ main'[t].idx = j
                                /\ main'[t].pc \in {"handstart", "wait", "mark"}
  <2>1. ~Calling
    BY <1>1, <1>2, <1>7
  <2>2. Kept(d, j)
    BY <1>1, <1>7, <2>1
  <2>3. CASE Kept(c, i)
    <3>1. PICK t \in Threads : /\ main[t].ac = d /\ main[t].idx = j
                               /\ main[t].pc \in {"handstart", "wait", "mark"}
      BY <1>7, <2>2, <2>3 DEF Solo
    <3> QED BY <3>1, LateStays
  <2>4. ASSUME NEW t \in Threads, HandedBy(t, c, i)
        PROVE  \E u \in Threads : /\ main'[u].ac = d /\ main'[u].idx = j
                                  /\ main'[u].pc \in {"handstart", "wait", "mark"}
    <3>1. main[t].ac = d /\ main[t].idx = j
      BY <1>3, <1>7, <2>2, <2>4 DEF Solo
    <3> QED BY <1>3, <2>4, <3>1
  <2> QED BY <1>1, <2>1, <2>3, <2>4
<1> QED BY <1>6, <1>7 DEF Solo

\* What an update leaves to others stays, since none of them takes it off, and what
\* it leaves is settled when its call comes.
LEMMA SharedThereInductive ==
    ASSUME Smooth, OwnDrops, NEW rank, Rises(rank), Steady, Placing(rank), SettledState,
           "overlap" \notin Faults, Turn, SharedThere, [Next]_vars
    PROVE  SharedThere'
<1>7. ASSUME NEW k \in Callers, handler'[k].pc = "queue"
      PROVE  \E c \in AppContexts : handler'[k].ac = c /\ KeptBy(c) \subseteq deployed
                                  /\ UNCHANGED <<queue, deployed>>
  <2>1. CASE UNCHANGED <<queue, handler, deployed>> /\ handler[k].pc = "queue"
    <3>1. handler[k].ac \in AppContexts
      BY <2>1, SteadyFacts DEF Coherent
    <3> QED BY <2>1, <3>1 DEF SharedThere
  <2>2. CASE Quiescent /\ UNCHANGED <<queue, deployed>> /\ \E r \in Requests : handler'[k].ac = r.ac
    <3>1. PICK c \in AppContexts : handler'[k].ac = c
      BY <2>2, RequestAssumption DEF RequestAssumption, Request
    <3>2. KeptBy(c) \subseteq deployed
      BY <2>2, KeptAtRest DEF Placing
    <3> QED BY <2>2, <3>1, <3>2
  <2> QED BY <1>7, <2>1, <2>2, TurnKept
<1>8. ASSUME NEW k \in Callers, handler'[k].pc = "queue", NEW r \in Updates, r.ac = handler'[k].ac,
             queue'[r.other] # <<>>, NEW p \in Unmodified(r.ac, r.other)
      PROVE  p \in deployed'
  <2>1. PICK c \in AppContexts : handler'[k].ac = c /\ KeptBy(c) \subseteq deployed
                                /\ UNCHANGED <<queue, deployed>>
    BY <1>7, <1>8
  <2>2. r.ac = c /\ queue[r.other] # <<>> /\ p \in Unmodified(c, r.other)
    BY <1>8, <2>1
  <2>3. p \in KeptBy(c)
    BY <2>2 DEF KeptBy
  <2> QED BY <2>1, <2>3
<1> SUFFICES ASSUME NEW c \in AppContexts, NEW i \in Pending(c)', queue'[c][i].ev = "Update",
                    NEW p \in KeptBy(c)'
             PROVE  p \in deployed'
  <2>1. ASSUME NEW k \in Callers, handler'[k].pc = "queue" PROVE KeptBy(handler[k].ac)' \subseteq deployed'
    BY <1>8, <2>1 DEF KeptBy
  <2> QED BY <2>1 DEF SharedThere
<1>0. TypeOK /\ Coherent /\ Traced /\ UpdatesOnly /\ HandsPlaced
  BY SteadyFacts DEF Placing
<1>1. PICK r \in Updates : r.ac = c /\ queue'[r.other] # <<>> /\ p \in Unmodified(c, r.other)
  BY DEF KeptBy
<1>2. r.other \in AppContexts /\ r.other # c
  <2>1. r.other \in AppContexts /\ rank[r.other] < rank[c] /\ rank[c] \in Nat
    BY <1>1, RequestAssumption DEF RequestAssumption, Updates, Rises
  <2> QED BY <2>1
<1>3. ASSUME queue[r.other] # <<>> PROVE p \in KeptBy(c)
  BY <1>1, <1>3 DEF KeptBy
<1>4. CASE i \in Pending(c) /\ queue[c][i].ev = "Update"
  <2>1. queue[r.other] # <<>>
    <3> SUFFICES ASSUME queue[r.other] = <<>> PROVE FALSE
      OBVIOUS
    <3>1. 1 \in DOMAIN queue'[r.other] /\ 1 \notin DOMAIN queue[r.other]
      BY <1>1, <1>2, QueuesStay
    <3>2. CASE \E k \in Callers : HandlerQueue(k)
      BY <1>4, <3>2 DEF HandlerQueue, Turn
    <3>3. ASSUME NEW t \in Threads, HandOverQueue(t), r.other = Element(t).other PROVE FALSE
      <4>1. main[t].pc = "handqueue"
        BY <3>3 DEF HandOverQueue
      <4>2. Event(t) = "Update" /\ main[t].ac \in AppContexts /\ main[t].idx \in DOMAIN queue[main[t].ac]
        BY <1>0, <4>1, ElementType DEF Coherent
      <4> QED BY <1>0, <3>3, <4>2 DEF UpdatesOnly, Event, Element
    <3> QED BY <1>2, <3>1, <3>2, <3>3, SmoothElements
  <2>2. p \in KeptBy(c) /\ p \in deployed
    BY <1>3, <1>4, <2>1 DEF SharedThere
  <2>3. p \in Manifest[c] /\ p \notin DroppedOf(c)
    BY <2>2, KeptApart
  <2> QED BY <1>0, <2>2, <2>3, Removals
<1>5. ASSUME NEW k \in Callers, handler[k].pc = "queue", handler[k].ac = c, deployed' = deployed,
             \A d \in AppContexts \ {c} : queue'[d] = queue[d]
      PROVE  p \in deployed'
  <2>1. p \in KeptBy(c)
    BY <1>1, <1>2, <1>3, <1>5
  <2> QED BY <1>5, <2>1 DEF SharedThere
<1>6. ASSUME NEW t \in Threads, queue'[c][i] = NewElement("UpdateDelete", main[t].ac) PROVE FALSE
  BY <1>6 DEF NewElement
<1> QED BY <1>4, <1>5, <1>6, PendingComes

\* Pods stop in the deleting half of an update.
LEMMA PodsStop ==
    ASSUME Smooth, OwnDrops, Steady, HandsPlaced, [Next]_vars, NEW c \in AppContexts,
           NEW p \in Manifest[c], p \in podsUp, p \notin podsUp'
    PROVE  \E t \in Threads : /\ Operating(t) /\ main[t].ac = c /\ Event(t) = "UpdateDelete"
                              /\ main[t].idx \in Pending(c)
<1>0. TypeOK /\ Coherent /\ Traced /\ Calm /\ Undecided /\ crashes = 0
  BY SteadyFacts
<1>1. PICK t \in Threads : Delete(t, p)
  <2>1. ASSUME NEW t \in Threads, NEW q \in Placements, Delete(t, q) PROVE Delete(t, p)
    BY <2>1 DEF Delete
  <2>2. ASSUME NEW t \in Threads, NEW q \in Placements, Apply(t, q) PROVE FALSE
    BY <2>2 DEF Apply
  <2>3. ASSUME NEW q \in Placements, PodsStart(q) PROVE FALSE
    BY <2>3 DEF PodsStart
  <2> QED BY <2>1, <2>2, <2>3, ClusterWrites
<1>2. Operating(t) /\ p \in InHand(t) /\ main[t].op = "Delete"
  BY <1>1 DEF Delete, InHand
<1>3. main[t].pc \notin {"none", "find", "release", "status", "current"}
  BY <1>2 DEF Operating
<1>4. Event(t) \in RsyncEvents /\ Event(t) # "Terminate" /\ main[t].ac \in AppContexts
  BY <1>0, <1>3, ElementType DEF Calm, Event, Element
<1>5. Event(t) = "UpdateDelete"
  BY <1>2, <1>4 DEF HandsPlaced, OperationOf, RsyncEvents
<1>6. p \in Manifest[main[t].ac] /\ p \notin Manifest[Element(t).other]
  BY <1>2, <1>5 DEF HandsPlaced
<1>7. p \in DroppedOf(main[t].ac)
  BY <1>0, <1>3, <1>5, <1>6, UpdateOf DEF DroppedOf
<1>8. c = main[t].ac
  BY <1>4, <1>7, DropsApart
<1> QED BY <1>0, <1>2, <1>3, <1>5, <1>8 DEF Undecided

\* An update sees the pods of all its placements running before it hands over.
LEMMA SureInductive ==
    ASSUME Smooth, OwnDrops, NEW rank, Rises(rank), Steady, Placing(rank),
           {"overlap", "slow"} \cap Faults = {}, Solo, SharedThere, Sure, [Next]_vars
    PROVE  Sure'
<1>0. /\ TypeOK /\ Coherent /\ InOrder /\ Traced /\ OneMainThread /\ Undecided /\ NeverDone
      /\ crashes = 0 /\ ~Crash /\ HandsPlaced
  BY SteadyFacts DEF Placing
<1>1. ASSUME NEW c \in AppContexts, NEW i \in Pending(c)', queue'[c][i].ev = "UpdateDelete",
             NEW p \in Manifest[queue'[c][i].other]
      PROVE  p \in podsUp'
  <2>1. CASE /\ i \in Pending(c) /\ i \in DOMAIN queue[c]
             /\ queue'[c][i].ev = queue[c][i].ev /\ queue'[c][i].other = queue[c][i].other
    <3>1. PICK r \in Updates : r.other = c /\ r.ac = queue[c][i].other
      BY <1>0, <1>1, <2>1 DEF Traced
    <3>2. r.ac \in AppContexts /\ r.ac # c
      <4>1. r.ac \in AppContexts /\ rank[c] < rank[r.ac] /\ rank[c] \in Nat
        BY <3>1, RequestAssumption DEF RequestAssumption, Request, Updates, Rises
      <4> QED BY <4>1
    <3>3. p \in podsUp
      BY <1>1, <2>1 DEF Sure
    <3>4. ASSUME NEW t \in Threads, main[t].ac = r.ac, Event(t) = "UpdateDelete",
                 main[t].idx \in Pending(r.ac)
          PROVE  FALSE
      BY <1>1, <2>1, <3>2, <3>4 DEF Solo, Event, Element
    <3> QED BY <1>0, <1>1, <2>1, <3>1, <3>2, <3>3, <3>4, PodsStop
  <2>2. ASSUME NEW r \in Requests, queue'[c][i] = NewElement(r.ev, r.other) PROVE FALSE
    BY <1>1, <2>2, RequestAssumption DEF RequestAssumption, NewElement
  <2>3. ASSUME NEW t \in Threads, HandOverQueue(t), queue'[c][i] = NewElement("UpdateDelete", main[t].ac)
        PROVE  p \in podsUp'
    <3>1. main[t].pc = "handqueue" /\ podsUp' = podsUp
      BY <2>3 DEF HandOverQueue, world
    <3>2. queue'[c][i].other = main[t].ac
      BY <2>3 DEF NewElement
    <3> QED BY <1>1, <3>1, <3>2 DEF Sure, HandingOver
  <2> QED BY <1>1, <2>1, <2>2, <2>3, PendingComes
<1>2. ASSUME NEW t \in Threads, main'[t].pc \in {"pods"} \cup HandingOver, NEW c, c = main'[t].ac
      PROVE  IF main'[t].pc = "pods" THEN Manifest[c] \ main'[t].await \subseteq podsUp'
                                     ELSE Manifest[c] \subseteq podsUp'
  <2>0. Operating(t)'
    BY <1>2 DEF Operating, HandingOver
  <2>1. main[t].pc \notin {"none", "find", "release"} /\ main[t].ac = c /\ c \in AppContexts
    BY <1>0, <1>2, <2>0, StillOperating, ElementType
  <2>2. ASSUME main[t].pc \in {"pods"} \cup HandingOver, NEW p \in Manifest[c], p \in podsUp
        PROVE  p \in podsUp'
    <3>1. Event(t) = "Update"
      BY <1>0, <2>2 DEF Coherent, HandingOver
    <3>2. ASSUME NEW u \in Threads, Operating(u), main[u].ac = c, Event(u) = "UpdateDelete" PROVE FALSE
      <4>1. u = t
        BY <1>0, <2>1, <3>2, <2>2 DEF OneMainThread, Live, Operating, HandingOver
      <4> QED BY <3>1, <3>2, <4>1
    <3> QED BY <1>0, <2>1, <2>2, <3>2, PodsStop
  <2>3. CASE LaunchOperation(t)
    <3>1. main'[t].await = Manifest[c] /\ main'[t].pc = "pods"
      BY <1>0, <1>2, <2>1, <2>3, LaunchHands, OperationMoves DEF Loads, Goes, HandingOver
    <3> QED BY <3>1
  <2>4. ~LaunchAfterPhaseError(t)
    BY <1>0 DEF LaunchAfterPhaseError, NeverDone, Smooth, Unhindered
  <2>5. CASE Operating(t) /\ PodsConfirmed(t)
    <3>1. /\ main[t].pc = "pods" /\ Slept(t) /\ Event(t) = "Update"
          /\ podsUp' = podsUp
      BY <1>0, <2>5 DEF PodsConfirmed, Coherent, world
    <3>2. PICK p \in main[t].await :
             /\ Reachable(p) /\ PodsRunning(p)
             /\ main'[t].await = main[t].await \ {p}
             /\ main'[t].pc = IF main[t].await = {p} THEN "handover" ELSE "pods"
      BY <1>0, <2>5, LaunchHands
    <3>3. p \notin InHand(t)
      BY <3>1, <3>2 DEF Slept, InHand
    <3>4. KeptBy(c) \subseteq deployed
      <4>1. main[t].idx \in Pending(c)
        BY <1>0, <2>1, <3>1 DEF Undecided
      <4> QED BY <2>1, <3>1, <4>1 DEF SharedThere, Event, Element
    <3>5. p \in Manifest[c] => p \in podsUp
      <4>1. Event(t) # "UpdateDelete" /\ Operating(t) /\ main[t].ac = c
        BY <2>1, <2>5, <3>1
      <4>2. Manifest[main[t].ac] \subseteq deployed \cup KeptBy(main[t].ac) \cup InHand(t)
        BY <1>0, <4>1 DEF HandsPlaced
      <4>3. Manifest[c] \subseteq deployed \cup KeptBy(c) \cup InHand(t)
        BY <4>1, <4>2
      <4>4. p \in Manifest[c] => p \in deployed
        BY <3>3, <3>4, <4>3
      <4> QED BY <3>2, <4>4 DEF PodsRunning
    <3>6. Manifest[c] \ main'[t].await \subseteq podsUp
      BY <2>1, <3>1, <3>2, <3>5 DEF Sure
    <3>7. main'[t].pc # "pods" => Manifest[c] \subseteq podsUp
      <4>1. main'[t].pc # "pods" => main[t].await = {p}
        BY <3>2
      <4>2. main[t].await = {p} => main'[t].await = {}
        BY <3>2
      <4> QED BY <3>6, <4>1, <4>2
    <3> QED BY <1>2, <3>1, <3>6, <3>7
  <2>6. ASSUME KeepsStage(t), main'[t].await = main[t].await
        PROVE  IF main'[t].pc = "pods" THEN Manifest[c] \ main'[t].await \subseteq podsUp'
                                       ELSE Manifest[c] \subseteq podsUp'
    BY <1>2, <2>1, <2>2, <2>6 DEF Sure, KeepsStage, HandingOver
  <2>7. CASE Operating(t) /\ Routine(t)
    <3>1. KeepsStage(t)
      BY <1>0, <2>7, OperationMoves DEF Goes, KeepsStage
    <3>2. main'[t].await = main[t].await
      BY <1>0, <2>7, CalmRoutine, SteadyFacts DEF Opens, Drops, Smooth
    <3> QED BY <2>6, <3>1, <3>2
  <2>8. CASE SameWork(t) /\ KeepsStage(t)
    BY <1>2, <2>6, <2>8 DEF SameWork
  <2> QED BY <1>0, <2>0, <2>3, <2>4, <2>5, <2>7, <2>8, StillOperating
<1>3. ASSUME NEW t \in Threads, main'[t].pc = "pods"
      PROVE  Manifest[main'[t].ac] \ main'[t].await \subseteq podsUp'
  BY <1>2, <1>3
<1>4. ASSUME NEW t \in Threads, main'[t].pc \in HandingOver PROVE Manifest[main'[t].ac] \subseteq podsUp'
  BY <1>2, <1>4 DEF HandingOver
<1>5. HandingOver' = HandingOver
  BY DEF HandingOver
<1> QED BY <1>1, <1>3, <1>4, <1>5 DEF Sure

\* The old placements of an update go only once all pods of the new AppContext run, for
\* chains of updates of any length, whatever they leave unmodified, if the orchestrator
\* waits for rsync to come to rest between two calls: nothing is done then to what an
\* update shares with the AppContext it replaces before its own deleting half runs.
THEOREM DeleteAfterRunningInTurn ==
    ASSUME Smooth, OwnDrops, \E rank : Rises(rank), {"overlap", "slow"} \cap Faults = {}
    PROVE  Spec => DeleteAfterRunning
<1> DEFINE A == [\A t \in Threads :
                   (Operating(t) /\ Event(t) = "UpdateDelete" /\ main'[t].open # main[t].open
                                 /\ deployed' # deployed)
                   => Manifest[Element(t).other] \subseteq podsUp]_vars
<1>1. PICK rank : Rises(rank)
  OBVIOUS
<1>2. Init => Steady /\ Placing(rank) /\ Turn /\ Solo /\ SharedThere /\ Sure
  <2>1. Init => /\ \A c \in AppContexts : Pending(c) = {}
                /\ \A t \in Threads : main[t].pc = "none"
                /\ \A k \in Callers : handler[k].pc = "idle"
    BY DEF Init, Pending, NoMain, NoHandler
  <2> QED BY <2>1, InitPlacing DEF Turn, Solo, SharedThere, Sure, HandingOver
<1>3. Steady /\ Placing(rank) /\ [Next]_vars => Steady' /\ Placing(rank)'
  BY <1>1, SteadyKept, PlacingInductive
<1>4. Steady /\ Placing(rank) /\ SettledState /\ Turn /\ Solo /\ SharedThere /\ Sure /\ [Next]_vars
         => Turn' /\ Solo' /\ SharedThere' /\ Sure'
  BY <1>1, TurnInductive, SoloInductive, SharedThereInductive, SureInductive
<1>5. ASSUME Steady, Sure PROVE A
  <2>1. ASSUME NEW t \in Threads, Operating(t), Event(t) = "UpdateDelete"
        PROVE  Manifest[Element(t).other] \subseteq podsUp
    <3>1. TypeOK /\ Coherent /\ Undecided /\ crashes = 0
      BY <1>5 DEF Steady, IInv, NeverCrashed
    <3>2. main[t].pc \notin {"none", "find", "release", "status", "current"}
      BY <2>1 DEF Operating
    <3>3. main[t].ac \in AppContexts /\ main[t].idx \in Pending(main[t].ac)
      BY <3>1, <3>2, ElementType DEF Undecided
    <3> QED BY <1>5, <2>1, <3>3 DEF Sure, Event, Element
  <2> QED BY <2>1
<1>6. Spec => []SettledState
  BY SettledStateSafe DEF Smooth, Unhindered
<1> QED BY <1>2, <1>3, <1>4, <1>5, <1>6, PTL DEF Spec, DeleteAfterRunning

================================================================================
