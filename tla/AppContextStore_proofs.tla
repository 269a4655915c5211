------------------------- MODULE AppContextStore_proofs -------------------------
(***************************************************************************)
(* Facts about the state the controllers share, for any AppContexts,       *)
(* faults and bounds: what DigLifecycle_proofs and LogicalCloud_proofs     *)
(* need to know of rsync and of a StateInfo.                               *)
(***************************************************************************)
EXTENDS AppContextStore, SequenceTheorems, TLAPS

\* While rsync handles an event of c, the event is there.
HandledIsPending ==
    \A c \in AppContexts : work[c] \in {"busy", "handed"} => pending[c] # <<>>

StoreInv == StoreTypeOK /\ HandledIsPending

-------------------------------------------------------------------------------
\* The states the table StateChanges names for an event are states.
LEMMA StateTypes ==
    ASSUME NEW e \in RsyncEvents
    PROVE  /\ DesiredState(e) \in AppContextStatuses
           /\ RunningState(e) \in AppContextStatuses
           /\ ErrorState(e) \in AppContextStatuses
  BY DEF RsyncEvents, AppContextStatuses, DesiredState, RunningState, ErrorState

\* The first event of a queue that is not empty is an event, the rest a queue.
LEMMA FirstType ==
    ASSUME StoreTypeOK, NEW c \in AppContexts, pending[c] # <<>>
    PROVE  /\ Head(pending[c]) \in PendingEvent
           /\ First(c) \in RsyncEvents
           /\ Tail(pending[c]) \in Seq(PendingEvent)
<1>1. pending[c] \in Seq(PendingEvent)
  BY DEF StoreTypeOK
<1>2. Head(pending[c]) \in PendingEvent /\ Tail(pending[c]) \in Seq(PendingEvent)
  BY <1>1, HeadTailProperties
<1> QED BY <1>2 DEF First, PendingEvent

\* An event is appended to the queue of an AppContext, whoever does it.
LEMMA SubmitType ==
    ASSUME StoreInv, NEW c \in AppContexts, NEW ev \in RsyncEvents,
           NEW other \in AppContexts \cup {NoContext}, Submit(c, ev, other)
    PROVE  /\ pending' \in [AppContexts -> Seq(PendingEvent)]
           /\ \A d \in AppContexts : pending[d] # <<>> => pending'[d] # <<>>
<1> DEFINE e == [ev |-> ev, other |-> other]
<1>1. e \in PendingEvent
  BY DEF PendingEvent
<1>2. pending \in [AppContexts -> Seq(PendingEvent)]
  BY DEF StoreInv, StoreTypeOK
<1>3. Append(pending[c], e) \in Seq(PendingEvent) /\ Append(pending[c], e) # <<>>
  BY <1>1, <1>2, AppendProperties
<1>4. pending' = [pending EXCEPT ![c] = Append(pending[c], e)]
  BY DEF Submit
<1> QED BY <1>2, <1>3, <1>4

-------------------------------------------------------------------------------
\* Nothing is stored, pending or deployed at the beginning.
LEMMA InitStoreInv == InitStore => StoreInv
<1> SUFFICES ASSUME InitStore PROVE StoreInv
  OBVIOUS
<1> USE DEF InitStore, InitLifecycle
<1>1. StoreTypeOK
  <2>1. pending \in [AppContexts -> Seq(PendingEvent)]
    <3>1. <<>> \in Seq(PendingEvent)
      OBVIOUS
    <3> QED BY <3>1
  <2>2. state \in [AppContexts -> AppContextStatuses] /\ work \in [AppContexts -> Works]
    BY DEF AppContextStatuses, Works
  <2> QED BY <2>1, <2>2 DEF StoreTypeOK
<1>2. HandledIsPending
  BY DEF HandledIsPending
<1> QED BY <1>1, <1>2 DEF StoreInv

\* A controller's call of rsync.
LEMMA CallStoreInv ==
    ASSUME StoreInv, NEW c, NEW ev \in RsyncEvents, NEW other \in AppContexts \cup {NoContext},
           CallRsyncFor(c, ev, other), UNCHANGED <<etcd, holds>>
    PROVE  StoreInv'
<1>1. c \in AppContexts
  BY DEF CallRsyncFor, StoreInv, StoreTypeOK
<1>2. /\ pending' \in [AppContexts -> Seq(PendingEvent)]
      /\ \A d \in AppContexts : pending[d] # <<>> => pending'[d] # <<>>
  BY <1>1, SubmitType DEF CallRsyncFor
<1>3. UNCHANGED <<state, work, stored, used, statusCtx, stopFlag, holds>>
  BY DEF CallRsyncFor, etcd
<1>4. StoreTypeOK'
  BY <1>2, <1>3 DEF StoreInv, StoreTypeOK
<1>5. HandledIsPending'
  BY <1>2, <1>3 DEF StoreInv, HandledIsPending
<1> QED BY <1>4, <1>5 DEF StoreInv

\* An event is decided with w.
LEMMA DecideStoreInv ==
    ASSUME StoreInv, NEW c \in stored, NEW w \in AppContextStatuses \cup {"idle"},
           pending[c] # <<>>, Decide(c, w), UNCHANGED etcd, holds' \subseteq holds \cup {c}
    PROVE  StoreInv'
<1>1. c \in AppContexts /\ c \in used
  BY DEF StoreInv, StoreTypeOK
<1>2. Tail(pending[c]) \in Seq(PendingEvent)
  BY <1>1, FirstType DEF StoreInv
<1>3. UNCHANGED <<state, stored, used, statusCtx, stopFlag>>
  BY DEF Decide, etcd
<1>4. /\ pending' \in [AppContexts -> Seq(PendingEvent)]
      /\ work' \in [AppContexts -> Works]
  BY <1>1, <1>2 DEF StoreInv, StoreTypeOK, Decide, Works
<1>5. StoreTypeOK'
  BY <1>1, <1>3, <1>4 DEF StoreInv, StoreTypeOK
<1>6. HandledIsPending'
  <2> SUFFICES ASSUME NEW d \in AppContexts, work'[d] \in {"busy", "handed"}
               PROVE  pending'[d] # <<>>
    BY DEF HandledIsPending
  <2>1. d # c
    BY <1>1 DEF Decide, StoreInv, StoreTypeOK, AppContextStatuses
  <2>2. pending'[d] = pending[d] /\ work'[d] = work[d]
    BY <2>1 DEF Decide, StoreInv, StoreTypeOK
  <2> QED BY <2>2 DEF StoreInv, HandledIsPending
<1> QED BY <1>5, <1>6 DEF StoreInv

\* Every step of rsync.
LEMMA RsyncStoreInv ==
    ASSUME StoreInv, NEW c \in AppContexts, Rsync(c)
    PROVE  StoreInv'
<1> USE DEF StoreInv
<1>0. c \in stored => c \in used
  BY DEF StoreTypeOK
<1>1. CASE RsyncAccepts(c)
  <2>1. First(c) \in RsyncEvents
    BY <1>1, FirstType DEF RsyncAccepts, Accept
  <2>2. RunningState(First(c)) \in AppContextStatuses
    BY <2>1, StateTypes
  <2>3. UNCHANGED <<pending, stored, used, statusCtx, stopFlag, holds>>
    BY <1>1 DEF RsyncAccepts, Accept, etcd
  <2>4. /\ state' \in [AppContexts -> AppContextStatuses]
        /\ work' \in [AppContexts -> Works]
    BY <1>1, <2>2 DEF RsyncAccepts, Accept, StoreTypeOK, Works
  <2>5. StoreTypeOK'
    BY <2>3, <2>4 DEF StoreTypeOK
  <2>6. HandledIsPending'
    BY <1>1, <2>3 DEF RsyncAccepts, Accept, HandledIsPending, StoreTypeOK
  <2> QED BY <2>5, <2>6
<1>2. CASE RsyncHandsOver(c)
  <2>1. /\ work' = [work EXCEPT ![c] = "handed"]
        /\ UNCHANGED <<state, stored, used, statusCtx, stopFlag>>
        /\ holds' = holds \cup {c} /\ c \in stored
        /\ pending[c] # <<>>
    BY <1>2 DEF RsyncHandsOver, HandsOver, etcd, HandledIsPending
  <2>2. /\ pending' \in [AppContexts -> Seq(PendingEvent)]
        /\ \A d \in AppContexts : pending[d] # <<>> => pending'[d] # <<>>
    <3>1. CASE UNCHANGED pending
      BY <3>1 DEF StoreTypeOK
    <3>2. CASE /\ Head(pending[c]).other \in AppContexts
               /\ Submit(Head(pending[c]).other, "UpdateDelete", c)
      <4>1. "UpdateDelete" \in RsyncEvents
        BY DEF RsyncEvents
      <4> QED BY <3>2, <4>1, SubmitType
    <3> QED BY <1>2, <3>1, <3>2 DEF RsyncHandsOver, HandsOver
  <2>3. work' \in [AppContexts -> Works]
    BY <2>1 DEF StoreTypeOK, Works
  <2>4. StoreTypeOK'
    BY <1>0, <2>1, <2>2, <2>3 DEF StoreTypeOK
  <2>5. HandledIsPending'
    BY <2>1, <2>2 DEF HandledIsPending, StoreTypeOK
  <2> QED BY <2>4, <2>5
<1>3. CASE RsyncSucceeds(c)
  <2>1. pending[c] # <<>>
    BY <1>3 DEF RsyncSucceeds, Succeed, Ended, HandledIsPending
  <2>2. DesiredState(First(c)) \in AppContextStatuses
    BY <2>1, FirstType, StateTypes
  <2>3. /\ c \in stored /\ Decide(c, DesiredState(First(c))) /\ UNCHANGED etcd
        /\ holds' \subseteq holds \cup {c}
    BY <1>3 DEF RsyncSucceeds, Succeed
  <2> QED BY <2>1, <2>2, <2>3, DecideStoreInv
<1>4. CASE RsyncFails(c)
  <2>1. pending[c] # <<>>
    BY <1>4 DEF RsyncFails, Fail, Ended, HandledIsPending
  <2>2. ErrorState(First(c)) \in AppContextStatuses
    BY <2>1, FirstType, StateTypes
  <2>3. /\ c \in stored /\ Decide(c, ErrorState(First(c))) /\ UNCHANGED etcd
        /\ holds' \subseteq holds \cup {c}
    BY <1>4 DEF RsyncFails, Fail
  <2> QED BY <2>1, <2>2, <2>3, DecideStoreInv
<1>5. CASE RsyncRefuses(c)
  <2>1. pending[c] # <<>> /\ c \in stored /\ UNCHANGED etcd /\ holds' \subseteq holds \cup {c}
    BY <1>5 DEF RsyncRefuses, Refused
  <2>2. ErrorState(First(c)) \in AppContextStatuses
    BY <2>1, FirstType, StateTypes
  <2>3. Decide(c, "idle") \/ Decide(c, ErrorState(First(c)))
    BY <1>5 DEF RsyncRefuses, Refused
  <2>4. CASE Decide(c, "idle")
    BY <2>1, <2>4, DecideStoreInv
  <2>5. CASE Decide(c, ErrorState(First(c)))
    BY <2>1, <2>2, <2>5, DecideStoreInv
  <2> QED BY <2>3, <2>4, <2>5
<1>6. CASE RsyncSettles(c)
  <2>1. /\ work[c] \in AppContextStatuses
        /\ state' = [state EXCEPT ![c] = work[c]]
        /\ work' = [work EXCEPT ![c] = "idle"]
        /\ UNCHANGED <<pending, stored, used, statusCtx, stopFlag, holds>>
    BY <1>6 DEF RsyncSettles, Settle, etcd
  <2>2. StoreTypeOK'
    BY <2>1 DEF StoreTypeOK, Works
  <2>3. HandledIsPending'
    BY <2>1 DEF HandledIsPending, StoreTypeOK
  <2> QED BY <2>2, <2>3
<1>7. CASE RsyncAbandons(c)
  <2>1. /\ work' = [work EXCEPT ![c] = "idle"]
        /\ UNCHANGED <<pending, state, stored, used, statusCtx, stopFlag, holds>>
    BY <1>7 DEF RsyncAbandons, Abandon, etcd
  <2>2. StoreTypeOK'
    BY <2>1 DEF StoreTypeOK, Works
  <2>3. HandledIsPending'
    BY <2>1 DEF HandledIsPending, StoreTypeOK
  <2> QED BY <2>2, <2>3
<1> QED BY <1>1, <1>2, <1>3, <1>4, <1>5, <1>6, <1>7 DEF Rsync

\* Steps of handlers: what rsync does is not touched, and the rest of etcd keeps
\* its type.
LEMMA HandlerStoreInv ==
    ASSUME StoreInv, UNCHANGED lifecycle, UNCHANGED holds,
           stored' \subseteq used', used \subseteq used', used' \subseteq AppContexts,
           statusCtx' \in [AppContexts -> AppContexts \cup {NoContext}],
           stopFlag' \in [AppContexts -> BOOLEAN]
    PROVE  StoreInv'
<1>1. UNCHANGED <<pending, state, work>>
  BY DEF lifecycle
<1>2. StoreTypeOK'
  BY <1>1 DEF StoreInv, StoreTypeOK
<1>3. HandledIsPending'
  BY <1>1 DEF StoreInv, HandledIsPending
<1> QED BY <1>2, <1>3 DEF StoreInv

-------------------------------------------------------------------------------
(* Terminates.  An AppContext for which a Terminate was queued when rsync    *)
(* had been told to deploy it is doomed: rsync does not deploy it after it   *)
(* has tried to remove it.                                                   *)

\* Nobody stops anything, and what remains to be written is never "Created".
Unstopped == \A c \in AppContexts : ~stopFlag[c] /\ work[c] # "Created"

\* When rsync comes to the i-th event of c, c is no longer as it was made.
BegunAt(c, i) ==
    \/ state[c] # "Created"
    \/ work[c] \in AppContextStatuses
    \/ \E j \in 1 .. i - 1 : Deploys(pending[c][j].ev)

\* rsync was told to deploy c.
Underway(c) == c \in used /\ (c \notin stored \/ BegunAt(c, Len(pending[c]) + 1))

\* A Terminate of c waits and will not be passed over.
TerminateWaits(c) ==
    \E i \in 1 .. Len(pending[c]) : pending[c][i].ev = "Terminate" /\ BegunAt(c, i)

Doomed(c) ==
    /\ c \in used
    /\ \/ c \notin stored
       \/ TerminateWaits(c)
       \/ work[c] = "Terminated" /\ c \notin holds
       \/ work[c] = "TerminateFailed"
       \/ work[c] = "idle" /\ state[c] = "Terminated" /\ c \notin holds
       \/ work[c] = "idle" /\ state[c] = "TerminateFailed"

\* What is doomed has left the clusters, or is leaving.
LEMMA DoomedIsLeaving ==
    ASSUME StoreInv, NEW c \in AppContexts, Doomed(c), c \in holds \cap stored
    PROVE  Leaving(c)
<1>1. pending[c] \in Seq(PendingEvent)
  BY DEF StoreInv, StoreTypeOK
<1>2. CASE TerminateWaits(c)
  <2>1. PICK i \in 1 .. Len(pending[c]) : pending[c][i].ev = "Terminate"
    BY <1>2 DEF TerminateWaits
  <2>2. i \in DOMAIN pending[c]
    BY <1>1, <2>1, LenProperties
  <2> QED BY <2>1, <2>2 DEF Leaving, Removes
<1> QED BY <1>2 DEF Doomed, Leaving

\* Events are only queued behind those of c, and nothing else becomes of it but
\* that it may be removed from etcd.
LEMMA QueuedBehind ==
    ASSUME StoreInv, NEW c \in AppContexts,
           \/ pending'[c] = pending[c]
           \/ \E e \in PendingEvent : pending'[c] = Append(pending[c], e),
           state'[c] = state[c], work'[c] = work[c], used \subseteq used',
           c \in used /\ c \in stored' => c \in stored, c \in holds' => c \in holds
    PROVE  /\ Doomed(c) => Doomed(c)'
           /\ Underway(c) => Underway(c)'
<1>1. pending[c] \in Seq(PendingEvent) /\ Len(pending[c]) \in Nat
  BY LenProperties DEF StoreInv, StoreTypeOK
<1>2. /\ Len(pending'[c]) \in Nat /\ Len(pending[c]) <= Len(pending'[c])
      /\ \A i \in 1 .. Len(pending[c]) : pending'[c][i] = pending[c][i]
  BY <1>1, AppendProperties
<1>3. \A i \in 1 .. Len(pending[c]) + 1 : BegunAt(c, i) => BegunAt(c, i)'
  BY <1>1, <1>2 DEF BegunAt
<1>4. TerminateWaits(c) => TerminateWaits(c)'
  BY <1>1, <1>2, <1>3 DEF TerminateWaits
<1>5. BegunAt(c, Len(pending[c]) + 1) => BegunAt(c, Len(pending[c]) + 1)'
  <2>1. PICK n \in Nat : n = Len(pending[c]) + 1
    BY <1>1
  <2>2. PICK m \in Nat : m = Len(pending'[c]) + 1
    BY <1>2
  <2>3. BegunAt(c, n) => BegunAt(c, m)'
    BY <1>1, <1>2, <2>1, <2>2 DEF BegunAt
  <2> QED BY <2>1, <2>2, <2>3
<1>6. Doomed(c) => Doomed(c)'
  BY <1>4 DEF Doomed
<1>7. Underway(c) => Underway(c)'
  BY <1>5 DEF Underway
<1> QED BY <1>6, <1>7

\* A Terminate of what rsync was told to deploy dooms it.
LEMMA TerminateDooms ==
    ASSUME StoreInv, NEW c \in AppContexts, NEW other \in AppContexts \cup {NoContext}, Underway(c),
           CallRsyncFor(c, "Terminate", other), UNCHANGED <<etcd, holds>>
    PROVE  Doomed(c)'
<1> DEFINE e == [ev |-> "Terminate", other |-> other]
<1>1. pending[c] \in Seq(PendingEvent) /\ Len(pending[c]) \in Nat /\ e \in PendingEvent
  BY LenProperties DEF StoreInv, StoreTypeOK, PendingEvent, RsyncEvents
<1>2. /\ pending'[c] = Append(pending[c], e)
      /\ UNCHANGED <<state, work, used, stored>> /\ c \in stored
  BY DEF CallRsyncFor, Submit, StoreInv, StoreTypeOK, etcd
<1>3. e.ev = "Terminate"
  OBVIOUS
<1> HIDE DEF e
<1>4. /\ Len(pending'[c]) = Len(pending[c]) + 1
      /\ pending'[c][Len(pending[c]) + 1] = e
      /\ \A i \in 1 .. Len(pending[c]) : pending'[c][i] = pending[c][i]
  BY <1>1, <1>2, AppendProperties
<1>5. BegunAt(c, Len(pending[c]) + 1)
  BY <1>2 DEF Underway
<1>6. PICK n \in Nat : n = Len(pending[c]) + 1
  BY <1>1
<1>7. BegunAt(c, n)'
  BY <1>1, <1>2, <1>4, <1>5, <1>6 DEF BegunAt
<1>8. TerminateWaits(c)'
  BY <1>1, <1>3, <1>4, <1>6, <1>7 DEF TerminateWaits
<1> QED BY <1>2, <1>8 DEF Doomed, Underway

\* A request to deploy.
LEMMA RequestBegins ==
    ASSUME StoreInv, NEW c \in AppContexts, NEW ev \in {"Instantiate", "Update"},
           NEW other \in AppContexts \cup {NoContext},
           CallRsyncFor(c, ev, other), UNCHANGED <<etcd, holds>>
    PROVE  Underway(c)'
<1> DEFINE e == [ev |-> ev, other |-> other]
<1>1. pending[c] \in Seq(PendingEvent) /\ Len(pending[c]) \in Nat /\ e \in PendingEvent
  BY LenProperties DEF StoreInv, StoreTypeOK, PendingEvent, RsyncEvents
<1>2. /\ pending'[c] = Append(pending[c], e)
      /\ UNCHANGED <<used, stored>> /\ c \in stored /\ c \in used
  BY DEF CallRsyncFor, Submit, StoreInv, StoreTypeOK, etcd
<1>3. Deploys(e.ev)
  BY DEF Deploys
<1> HIDE DEF e
<1>4. /\ Len(pending'[c]) = Len(pending[c]) + 1
      /\ pending'[c][Len(pending[c]) + 1] = e
  BY <1>1, <1>2, AppendProperties
<1>5. PICK n \in Nat : n = Len(pending[c]) + 1
  BY <1>1
<1>6. n \in 1 .. n + 1 - 1 /\ pending'[c][n] = e /\ Len(pending'[c]) = n
  BY <1>4, <1>5
<1>7. BegunAt(c, n + 1)'
  BY <1>3, <1>5, <1>6 DEF BegunAt
<1>8. BegunAt(c, Len(pending[c]) + 1)'
  BY <1>6, <1>7
<1> QED BY <1>2, <1>8 DEF Underway

\* The queue after its first event was decided.
LEMMA DecidedQueue ==
    ASSUME StoreInv, NEW c \in AppContexts, NEW w, pending[c] # <<>>, Decide(c, w)
    PROVE  /\ Len(pending[c]) \in Nat /\ Len(pending[c]) >= 1
           /\ Len(pending'[c]) = Len(pending[c]) - 1
           /\ \A i \in 1 .. Len(pending[c]) - 1 : pending'[c][i] = pending[c][i + 1]
           /\ First(c) = pending[c][1].ev
           /\ work'[c] = w /\ state'[c] = state[c]
<1>1. pending[c] \in Seq(PendingEvent)
  BY DEF StoreInv, StoreTypeOK
<1>2. pending'[c] = Tail(pending[c]) /\ work'[c] = w /\ state'[c] = state[c]
  BY DEF Decide, StoreInv, StoreTypeOK
<1>3. /\ Len(pending[c]) \in Nat /\ Len(pending[c]) # 0
      /\ Head(pending[c]) = pending[c][1]
      /\ Len(Tail(pending[c])) = Len(pending[c]) - 1
      /\ \A i \in 1 .. Len(pending[c]) - 1 : Tail(pending[c])[i] = pending[c][i + 1]
  BY <1>1, EmptySeq, LenProperties, HeadTailProperties
<1> QED BY <1>2, <1>3 DEF First

\* Deciding an event keeps what is begun and the Terminates behind the event,
\* provided that a request to deploy c leaves its mark.
LEMMA DecideKeeps ==
    ASSUME StoreInv, NEW c \in AppContexts, NEW w, pending[c] # <<>>, Decide(c, w),
           UNCHANGED etcd, work[c] \notin AppContextStatuses,
           Deploys(First(c)) => w \in AppContextStatuses \/ state[c] # "Created"
    PROVE  /\ Underway(c) => Underway(c)'
           /\ (TerminateWaits(c) /\ ~TerminateWaits(c)') => First(c) = "Terminate" /\ BegunAt(c, 1)
<1>1. /\ Len(pending[c]) \in Nat /\ Len(pending[c]) >= 1
      /\ Len(pending'[c]) = Len(pending[c]) - 1
      /\ \A i \in 1 .. Len(pending[c]) - 1 : pending'[c][i] = pending[c][i + 1]
      /\ First(c) = pending[c][1].ev
      /\ work'[c] = w /\ state'[c] = state[c]
  BY DecidedQueue
<1>2. ASSUME NEW i \in 2 .. Len(pending[c]) + 1, NEW m \in Nat, m = i - 1, BegunAt(c, i)
      PROVE  BegunAt(c, m)'
  <2>1. CASE state[c] # "Created"
    BY <1>1, <2>1 DEF BegunAt
  <2>2. CASE \E j \in 1 .. i - 1 : Deploys(pending[c][j].ev)
    <3>1. PICK j \in 1 .. i - 1 : Deploys(pending[c][j].ev)
      BY <2>2
    <3>2. CASE j = 1
      BY <1>1, <3>1, <3>2 DEF BegunAt
    <3>3. CASE j # 1
      <4>1. PICK l \in Nat : l = j - 1
        BY <3>1, <3>3
      <4>2. l \in 1 .. Len(pending[c]) - 1 /\ l \in 1 .. m - 1 /\ l + 1 = j
        BY <1>1, <1>2, <3>1, <3>3, <4>1
      <4>3. pending'[c][l] = pending[c][j]
        BY <1>1, <4>2
      <4> QED BY <3>1, <4>2, <4>3 DEF BegunAt, Deploys
    <3> QED BY <3>2, <3>3
  <2> QED BY <1>2, <2>1, <2>2 DEF BegunAt
<1>3. Underway(c) => Underway(c)'
  <2>1. PICK n \in Nat : n = Len(pending[c])
    BY <1>1
  <2>2. n + 1 \in 2 .. Len(pending[c]) + 1 /\ n = n + 1 - 1
    BY <1>1, <2>1
  <2>3. BegunAt(c, n + 1) => BegunAt(c, n)'
    BY <1>2, <2>2
  <2>4. n = Len(pending'[c]) + 1
    BY <1>1, <2>1
  <2>5. UNCHANGED <<used, stored>>
    BY DEF etcd
  <2> QED BY <2>1, <2>3, <2>4, <2>5 DEF Underway
<1>4. ASSUME TerminateWaits(c), ~TerminateWaits(c)'
      PROVE  First(c) = "Terminate" /\ BegunAt(c, 1)
  <2>1. PICK i \in 1 .. Len(pending[c]) : pending[c][i].ev = "Terminate" /\ BegunAt(c, i)
    BY <1>4 DEF TerminateWaits
  <2>2. CASE i # 1
    <3>1. PICK m \in Nat : m = i - 1
      BY <2>1, <1>1
    <3>2. BegunAt(c, m)' /\ m \in 1 .. Len(pending'[c]) /\ pending'[c][m] = pending[c][i]
      BY <1>1, <1>2, <2>1, <2>2, <3>1
    <3>3. TerminateWaits(c)'
      BY <2>1, <3>2 DEF TerminateWaits
    <3> QED BY <1>4, <3>3
  <2> QED BY <1>1, <2>1, <2>2
<1> QED BY <1>3, <1>4

\* rsync leaves other AppContexts alone, but for the event an Update hands over.
LEMMA RsyncElsewhere ==
    ASSUME StoreInv, NEW d \in AppContexts, Rsync(d), NEW c \in AppContexts, c # d
    PROVE  /\ Doomed(c) => Doomed(c)'
           /\ Underway(c) => Underway(c)'
<1> USE DEF StoreInv, StoreTypeOK
<1>1. UNCHANGED etcd
  BY DEF Rsync, RsyncAccepts, RsyncHandsOver, RsyncSucceeds, RsyncFails, RsyncRefuses,
         RsyncSettles, RsyncAbandons
<1>2. UNCHANGED <<used, stored>>
  BY <1>1 DEF etcd
<1>3. c \in holds' => c \in holds
  BY DEF Rsync, RsyncAccepts, RsyncHandsOver, RsyncSucceeds, RsyncFails, RsyncRefuses,
         RsyncSettles, RsyncAbandons
<1>4. state'[c] = state[c] /\ work'[c] = work[c]
  BY DEF Rsync, RsyncAccepts, RsyncHandsOver, RsyncSucceeds, RsyncFails, RsyncRefuses,
         RsyncSettles, RsyncAbandons, Accept, HandsOver, Succeed, Fail, Refused, Settle, Abandon, Decide
<1>5. \/ pending'[c] = pending[c]
      \/ \E e \in PendingEvent : pending'[c] = Append(pending[c], e)
  <2>1. CASE RsyncHandsOver(d)
    <3>1. CASE UNCHANGED pending
      BY <3>1
    <3>2. CASE Submit(Head(pending[d]).other, "UpdateDelete", d)
      <4>1. [ev |-> "UpdateDelete", other |-> d] \in PendingEvent
        BY DEF PendingEvent, RsyncEvents
      <4> QED BY <3>2, <4>1 DEF Submit
    <3> QED BY <2>1, <3>1, <3>2 DEF RsyncHandsOver, HandsOver
  <2>2. CASE ~RsyncHandsOver(d)
    BY <2>2 DEF Rsync, RsyncAccepts, RsyncSucceeds, RsyncFails, RsyncRefuses,
         RsyncSettles, RsyncAbandons, Accept, Succeed, Fail, Refused, Settle, Abandon, Decide
  <2> QED BY <2>1, <2>2
<1> QED BY <1>2, <1>3, <1>4, <1>5, QueuedBehind

\* What rsync does for c itself.
LEMMA RsyncHere ==
    ASSUME StoreInv, Unstopped, NEW c \in AppContexts, Rsync(c)
    PROVE  /\ Doomed(c) => Doomed(c)'
           /\ Underway(c) => Underway(c)'
<1>1. UNCHANGED etcd /\ UNCHANGED <<used, stored>>
  BY DEF Rsync, RsyncAccepts, RsyncHandsOver, RsyncSucceeds, RsyncFails, RsyncRefuses,
         RsyncSettles, RsyncAbandons, etcd
<1>2. CASE c \notin stored
  BY <1>1, <1>2 DEF Doomed, Underway
<1>3. /\ "idle" \notin AppContextStatuses /\ "busy" \notin AppContextStatuses
      /\ "handed" \notin AppContextStatuses
      /\ {"Terminated", "TerminateFailed"} \subseteq AppContextStatuses
  BY DEF AppContextStatuses
<1>4. ~stopFlag[c] /\ work[c] # "Created"
  BY DEF Unstopped
<1> DEFINE Kept == (Doomed(c) => Doomed(c)') /\ (Underway(c) => Underway(c)')
<1>5. CASE c \in stored /\ RsyncAccepts(c)
  <2>1. /\ work[c] = "idle" /\ pending[c] # <<>> /\ state[c] \in SourceStates(First(c))
        /\ state'[c] = RunningState(First(c)) /\ work'[c] = "busy"
        /\ UNCHANGED <<pending, holds>>
    BY <1>5 DEF RsyncAccepts, Accept, StoreInv, StoreTypeOK
  <2>2. First(c) \in RsyncEvents /\ pending[c] \in Seq(PendingEvent)
    BY <2>1, FirstType DEF StoreInv, StoreTypeOK
  <2>3. RunningState(First(c)) # "Created" /\ state[c] # "Terminated"
        /\ (state[c] = "TerminateFailed" => First(c) = "Terminate")
    BY <2>1, <2>2 DEF RunningState, SourceStates, RsyncEvents
  <2>4. \A i : BegunAt(c, i)'
    BY <2>1, <2>3 DEF BegunAt
  <2>5. TerminateWaits(c) \/ First(c) = "Terminate" => TerminateWaits(c)'
    <3>1. Len(pending[c]) \in Nat /\ Len(pending[c]) >= 1 /\ First(c) = pending[c][1].ev
      BY <2>1, <2>2, EmptySeq, LenProperties, HeadTailProperties DEF First
    <3> QED BY <2>1, <2>4, <3>1 DEF TerminateWaits
  <2>6. Doomed(c) => Doomed(c)'
    BY <1>1, <2>1, <2>3, <2>5 DEF Doomed
  <2> QED BY <1>1, <2>4, <2>6 DEF Underway
<1>6. CASE c \in stored /\ RsyncHandsOver(c)
  <2>1. work[c] = "busy" /\ work'[c] = "handed" /\ state'[c] = state[c]
    BY <1>6 DEF RsyncHandsOver, HandsOver, StoreInv, StoreTypeOK
  <2>2. \/ pending'[c] = pending[c]
        \/ \E e \in PendingEvent : pending'[c] = Append(pending[c], e)
    <3>1. CASE UNCHANGED pending
      BY <3>1
    <3>2. CASE Submit(Head(pending[c]).other, "UpdateDelete", c)
      <4>1. [ev |-> "UpdateDelete", other |-> c] \in PendingEvent
        BY DEF PendingEvent, RsyncEvents
      <4> QED BY <3>2, <4>1 DEF Submit, StoreInv, StoreTypeOK
    <3> QED BY <1>6, <3>1, <3>2 DEF RsyncHandsOver, HandsOver
  <2>3. pending[c] \in Seq(PendingEvent) /\ Len(pending[c]) \in Nat
    BY LenProperties DEF StoreInv, StoreTypeOK
  <2>4. /\ Len(pending'[c]) \in Nat /\ Len(pending[c]) <= Len(pending'[c])
        /\ \A i \in 1 .. Len(pending[c]) : pending'[c][i] = pending[c][i]
    BY <2>2, <2>3, AppendProperties
  <2>5. \A i \in 1 .. Len(pending[c]) : BegunAt(c, i) => BegunAt(c, i)'
    BY <1>3, <2>1, <2>3, <2>4 DEF BegunAt
  <2>6. TerminateWaits(c) => TerminateWaits(c)'
    BY <2>3, <2>4, <2>5 DEF TerminateWaits
  <2>7. BegunAt(c, Len(pending[c]) + 1) => BegunAt(c, Len(pending[c]) + 1)'
    <3>1. PICK n \in Nat : n = Len(pending[c]) + 1
      BY <2>3
    <3>2. PICK m \in Nat : m = Len(pending'[c]) + 1
      BY <2>4
    <3>3. BegunAt(c, n) => BegunAt(c, m)'
      BY <1>3, <2>1, <2>3, <2>4, <3>1, <3>2 DEF BegunAt
    <3> QED BY <3>1, <3>2, <3>3
  <2>8. Doomed(c) => Doomed(c)'
    BY <1>1, <2>1, <2>6, <1>6 DEF Doomed
  <2> QED BY <1>1, <1>6, <2>7, <2>8 DEF Underway
<1>7. CASE c \in stored /\ (RsyncSucceeds(c) \/ RsyncFails(c))
  <2>1. work[c] \in {"busy", "handed"} /\ pending[c] # <<>>
    BY <1>7 DEF RsyncSucceeds, RsyncFails, Succeed, Fail, Ended, StoreInv, HandledIsPending
  <2>2. PICK w : /\ Decide(c, w)
                 /\ \/ /\ RsyncSucceeds(c) /\ w = DesiredState(First(c))
                    \/ w = ErrorState(First(c))
    BY <1>7 DEF RsyncSucceeds, RsyncFails, Succeed, Fail
  <2>3. First(c) \in RsyncEvents
    BY <2>1, FirstType DEF StoreInv
  <2>4. w \in AppContextStatuses /\ work'[c] = w
    BY <2>1, <2>2, <2>3, StateTypes, DecidedQueue
  <2>5. /\ Underway(c) => Underway(c)'
        /\ (TerminateWaits(c) /\ ~TerminateWaits(c)') => First(c) = "Terminate" /\ BegunAt(c, 1)
    BY <1>1, <1>3, <2>1, <2>2, <2>4, DecideKeeps
  <2>6. First(c) = "Terminate" => \/ w = "TerminateFailed"
                                  \/ w = "Terminated" /\ c \notin holds'
    BY <2>2 DEF DesiredState, ErrorState, RsyncSucceeds, Deploys
  <2>7. Doomed(c) => Doomed(c)'
    BY <1>1, <1>7, <2>1, <2>4, <2>5, <2>6 DEF Doomed
  <2> QED BY <2>5, <2>7
<1>8. CASE c \in stored /\ RsyncRefuses(c)
  <2>1. work[c] = "idle" /\ pending[c] # <<>> /\ UNCHANGED holds
    BY <1>8 DEF RsyncRefuses, Refused
  <2>2. PICK w : Decide(c, w)
    BY <1>8 DEF RsyncRefuses, Refused
  <2>3. First(c) \in RsyncEvents
    BY <2>1, FirstType DEF StoreInv
  <2>4. work'[c] = w /\ state'[c] = state[c]
    BY <2>1, <2>2, DecidedQueue
  <2>5. \/ /\ Ignored(c) /\ w = ErrorState(First(c)) /\ First(c) # "Terminate"
        \/ /\ ~Ignored(c) /\ state[c] \notin SourceStates(First(c))
           /\ w = IF First(c) = "Terminate" /\ state[c] = "Terminated"
                  THEN "TerminateFailed" ELSE "idle"
    BY <1>4, <1>8, <2>4 DEF RsyncRefuses, Ignored
  <2>6. Deploys(First(c)) => w \in AppContextStatuses \/ state[c] # "Created"
    BY <2>3, <2>5, StateTypes DEF Deploys, SourceStates
  <2>7. /\ Underway(c) => Underway(c)'
        /\ (TerminateWaits(c) /\ ~TerminateWaits(c)') => First(c) = "Terminate" /\ BegunAt(c, 1)
    BY <1>1, <1>3, <2>1, <2>2, <2>6, DecideKeeps
  <2>8. First(c) = "Terminate" /\ BegunAt(c, 1) => w = "TerminateFailed"
    <3>1. First(c) = "Terminate" /\ BegunAt(c, 1) => state[c] # "Created"
      BY <1>3, <2>1 DEF BegunAt
    <3>2. First(c) = "Terminate" => state[c] \in {"Created", "Terminated"}
      BY <2>5 DEF SourceStates, AppContextStatuses, StoreInv, StoreTypeOK
    <3> QED BY <2>5, <3>1, <3>2
  <2>9. CASE TerminateWaits(c)
    BY <1>1, <2>4, <2>7, <2>8, <2>9 DEF Doomed
  <2>10. CASE ~TerminateWaits(c) /\ state[c] \in {"Terminated", "TerminateFailed"}
    <3>1. CASE Ignored(c)
      <4>1. \E i \in DOMAIN pending[c] : pending[c][i].ev = "Terminate"
        BY <1>4, <3>1 DEF Ignored
      <4>2. \E i \in 1 .. Len(pending[c]) : pending[c][i].ev = "Terminate"
        BY <4>1, LenProperties DEF StoreInv, StoreTypeOK
      <4> QED BY <2>10, <4>2 DEF TerminateWaits, BegunAt
    <3>2. CASE ~Ignored(c)
      <4>1. w \in {"idle", "TerminateFailed"}
        BY <2>5, <3>2
      <4> QED BY <1>1, <2>1, <2>4, <2>7, <2>10, <4>1 DEF Doomed
    <3> QED BY <3>1, <3>2
  <2>11. Doomed(c) /\ ~TerminateWaits(c) => state[c] \in {"Terminated", "TerminateFailed"}
    BY <1>8, <2>1 DEF Doomed
  <2> QED BY <2>7, <2>9, <2>10, <2>11
<1>9. CASE c \in stored /\ RsyncSettles(c)
  <2>1. /\ work[c] \in AppContextStatuses /\ state'[c] = work[c] /\ work'[c] = "idle"
        /\ UNCHANGED <<pending, holds>>
    BY <1>9 DEF RsyncSettles, Settle, StoreInv, StoreTypeOK
  <2>2. \A i : BegunAt(c, i)'
    BY <1>4, <2>1 DEF BegunAt
  <2>3. TerminateWaits(c) => TerminateWaits(c)'
    BY <2>1, <2>2 DEF TerminateWaits
  <2>4. Doomed(c) => Doomed(c)'
    BY <1>1, <1>3, <1>9, <2>1, <2>3 DEF Doomed
  <2> QED BY <1>1, <2>2, <2>4 DEF Underway
<1>10. CASE c \in stored /\ RsyncAbandons(c)
  BY <1>4, <1>10 DEF RsyncAbandons
<1> QED BY <1>2, <1>5, <1>6, <1>7, <1>8, <1>9, <1>10 DEF Rsync

\* Nothing that rsync does stops anything or brings a doomed AppContext back.
LEMMA RsyncDooms ==
    ASSUME StoreInv, Unstopped, NEW d \in AppContexts, Rsync(d)
    PROVE  /\ Unstopped'
           /\ \A c \in AppContexts : Doomed(c) => Doomed(c)'
           /\ \A c \in AppContexts : Underway(c) => Underway(c)'
<1>1. UNCHANGED stopFlag
  BY DEF Rsync, RsyncAccepts, RsyncHandsOver, RsyncSucceeds, RsyncFails, RsyncRefuses,
         RsyncSettles, RsyncAbandons, etcd
<1>2. work'[d] # "Created" /\ \A c \in AppContexts \ {d} : work'[c] = work[c]
  <2>1. CASE RsyncSucceeds(d) \/ RsyncFails(d) \/ RsyncRefuses(d)
    <3>1. pending[d] # <<>>
      BY <2>1 DEF RsyncSucceeds, RsyncFails, RsyncRefuses, Succeed, Fail, Refused, Ended,
                  StoreInv, HandledIsPending
    <3>2. First(d) \in RsyncEvents
      BY <3>1, FirstType DEF StoreInv
    <3>3. ErrorState(First(d)) # "Created" /\ DesiredState(First(d)) # "Created"
      BY <3>2 DEF ErrorState, DesiredState, RsyncEvents
    <3> QED BY <2>1, <3>3 DEF RsyncSucceeds, RsyncFails, RsyncRefuses, Succeed, Fail, Refused, Decide,
                  StoreInv, StoreTypeOK
  <2>2. CASE ~(RsyncSucceeds(d) \/ RsyncFails(d) \/ RsyncRefuses(d))
    BY <2>2 DEF Rsync, RsyncAccepts, RsyncHandsOver, RsyncSettles, RsyncAbandons,
                Accept, HandsOver, Settle, Abandon, StoreInv, StoreTypeOK
  <2> QED BY <2>1, <2>2
<1>3. Unstopped'
  BY <1>1, <1>2 DEF Unstopped
<1> QED BY <1>3, RsyncHere, RsyncElsewhere

-------------------------------------------------------------------------------
(* StateInfo.                                                              *)

\* A StateInfo with one more action.
LEMMA WithActionType ==
    ASSUME NEW s \in StateInfo, NEW st \in States, NEW c \in AppContexts \cup {NoContext},
           NEW r \in Nat
    PROVE  LET t == WithAction(s, st, c, r) IN
           /\ t \in StateInfo
           /\ t.statusCtx = s.statusCtx
           /\ Len(t.actions) = Len(s.actions) + 1
           /\ t.actions # <<>>
           /\ \A i \in 1 .. Len(s.actions) : t.actions[i] = s.actions[i]
           /\ LastAction(t) = [state |-> st, ctx |-> c, rev |-> r]
<1> DEFINE e == [state |-> st, ctx |-> c, rev |-> r]
           t == WithAction(s, st, c, r)
<1>1. e \in ActionEntry /\ s.actions \in Seq(ActionEntry)
  BY DEF ActionEntry, StateInfo
<1>2. t = [statusCtx |-> s.statusCtx, actions |-> Append(s.actions, e)]
  <2>1. /\ DOMAIN s = {"statusCtx", "actions"}
        /\ s = [x \in {"statusCtx", "actions"} |-> s[x]]
    BY DEF StateInfo
  <2>2. t = [s EXCEPT !.actions = Append(s.actions, e)]
    BY DEF WithAction
  <2> QED BY <2>1, <2>2
<1>3. /\ Append(s.actions, e) \in Seq(ActionEntry)
      /\ Len(Append(s.actions, e)) = Len(s.actions) + 1
      /\ Append(s.actions, e) # <<>>
      /\ \A i \in 1 .. Len(s.actions) : Append(s.actions, e)[i] = s.actions[i]
      /\ Append(s.actions, e)[Len(s.actions) + 1] = e
  BY <1>1, AppendProperties
<1>4. t \in StateInfo
  BY <1>2, <1>3 DEF StateInfo
<1>5. LastAction(t) = e
  BY <1>2, <1>3 DEF LastAction
<1> QED BY <1>2, <1>3, <1>4, <1>5

\* The actions of a StateInfo.
LEMMA ActionTypes ==
    ASSUME NEW s \in StateInfo
    PROVE  /\ Len(s.actions) \in Nat
           /\ DOMAIN s.actions = 1 .. Len(s.actions)
           /\ \A i \in 1 .. Len(s.actions) :
                 /\ s.actions[i] \in ActionEntry
                 /\ s.actions[i].state \in States
                 /\ s.actions[i].ctx \in AppContexts \cup {NoContext}
                 /\ s.actions[i].rev \in Nat
<1>1. s.actions \in Seq(ActionEntry)
  BY DEF StateInfo
<1>2. Len(s.actions) \in Nat /\ DOMAIN s.actions = 1 .. Len(s.actions)
  BY <1>1, LenProperties
<1>3. \A i \in 1 .. Len(s.actions) : s.actions[i] \in ActionEntry
  BY <1>1, ElementOfSeq
<1> QED BY <1>2, <1>3 DEF ActionEntry

\* The last action of a StateInfo.
LEMMA LastActionType ==
    ASSUME NEW s \in StateInfo, Exists(s)
    PROVE  /\ Len(s.actions) \in DOMAIN s.actions
           /\ LastAction(s) \in ActionEntry
           /\ LastAction(s) = s.actions[Len(s.actions)]
           /\ LastContextId(s) \in AppContexts \cup {NoContext}
           /\ LatestRevision(s) \in Nat
           /\ CurrentState(s) = LastAction(s).state
<1>1. s.actions \in Seq(ActionEntry) /\ s.actions # <<>>
  BY DEF StateInfo, Exists
<1>2. Len(s.actions) \in DOMAIN s.actions /\ s.actions[Len(s.actions)] \in ActionEntry
  BY <1>1, EmptySeq, LenProperties, ElementOfSeq
<1> QED BY <1>2 DEF LastAction, LastContextId, LatestRevision, CurrentState, ActionEntry

\* What is read when there is no StateInfo has the type of one.
LEMMA NoInfoType == NoInfo \in StateInfo
  BY DEF NoInfo, StateInfo

================================================================================
