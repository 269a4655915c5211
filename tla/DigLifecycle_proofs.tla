-------------------------- MODULE DigLifecycle_proofs --------------------------
(***************************************************************************)
(* Proofs about DigLifecycle for any DIGs, AppContexts, clients,           *)
(* operations and faults, handlers that overwrite each other's records     *)
(* included.  The StateInfos in MongoDB, those that handlers have still to *)
(* write and those that they have read are the versions of a record.       *)
(* Every step makes a version from an earlier one of the same DIG, with at *)
(* most one AppContext more that belongs to no other DIG, so it is enough  *)
(* to know what such a version inherits.                                   *)
(* At the end: what a record says of a termination is true, since no step  *)
(* brings back an AppContext that is doomed to leave the clusters; and     *)
(* what rsync deploys is known, since what handlers write names all that   *)
(* the record names by then.                                               *)
(***************************************************************************)
EXTENDS DigLifecycle, AppContextStore_proofs, WellFoundedInduction, NaturalsInduction

\* What StatusShared says of every entry of one StateInfo, where f says where
\* AppContexts report to.
ReportsTo(s, f) ==
    \A i \in Lifetime(s) :
        LET c == s.actions[i].ctx IN
        (c # NoContext /\ \A j \in DOMAIN s.actions : s.actions[j].ctx = c => j \in Lifetime(s))
        => f[c] = s.statusCtx

-------------------------------------------------------------------------------
(* StateInfos with one more action.                                        *)

\* The AppContexts a StateInfo names, with one more action.
LEMMA AppendContexts ==
    ASSUME NEW s \in StateInfo, NEW st \in States, NEW c \in AppContexts \cup {NoContext},
           NEW r \in Nat
    PROVE  ContextIds(WithAction(s, st, c, r)) \subseteq ContextIds(s) \cup ({c} \ {NoContext})
<1> DEFINE t == WithAction(s, st, c, r)
           n == Len(s.actions)
<1>1. /\ t \in StateInfo /\ Len(t.actions) = n + 1
      /\ \A i \in 1 .. n : t.actions[i] = s.actions[i]
      /\ LastAction(t) = [state |-> st, ctx |-> c, rev |-> r]
  BY WithActionType
<1>2. n \in Nat /\ DOMAIN t.actions = 1 .. n + 1 /\ DOMAIN s.actions = 1 .. n
  BY <1>1, ActionTypes
<1>3. t.actions[n + 1].ctx = c
  BY <1>1 DEF LastAction
<1> HIDE DEF t, n
<1> SUFFICES ASSUME NEW i \in DOMAIN t.actions
             PROVE  t.actions[i].ctx \in ContextIds(s) \cup {c, NoContext}
  BY DEF ContextIds, t
<1>4. CASE i = n + 1
  BY <1>3, <1>4
<1>5. CASE i \in 1 .. n
  BY <1>1, <1>2, <1>5 DEF ContextIds
<1> QED BY <1>2, <1>4, <1>5

\* The entries since the last termination or approval, with one more action.
LEMMA AppendLifetime ==
    ASSUME NEW s \in StateInfo, NEW st \in States, NEW c \in AppContexts \cup {NoContext},
           NEW r \in Nat
    PROVE  LET t == WithAction(s, st, c, r) IN
           /\ st \in {"Approved", "Terminated", "TerminateStopped"} => Lifetime(t) = {}
           /\ st \notin {"Approved", "Terminated", "TerminateStopped"} =>
                 Lifetime(t) = Lifetime(s) \cup {Len(s.actions) + 1}
<1> DEFINE t == WithAction(s, st, c, r)
           n == Len(s.actions)
           ends == {"Approved", "Terminated", "TerminateStopped"}
<1>1. /\ t \in StateInfo /\ Len(t.actions) = n + 1
      /\ \A i \in 1 .. n : t.actions[i] = s.actions[i]
      /\ LastAction(t) = [state |-> st, ctx |-> c, rev |-> r]
  BY WithActionType
<1>2. n \in Nat /\ DOMAIN t.actions = 1 .. n + 1 /\ DOMAIN s.actions = 1 .. n
  BY <1>1, ActionTypes
<1>3. t.actions[n + 1].state = st
  BY <1>1 DEF LastAction
<1>4. Lifetime(t) = {i \in 1 .. n + 1 : \A j \in i .. n + 1 : t.actions[j].state \notin ends}
  BY <1>1, <1>2 DEF Lifetime
<1>5. Lifetime(s) = {i \in 1 .. n : \A j \in i .. n : s.actions[j].state \notin ends}
  BY <1>2 DEF Lifetime
<1> HIDE DEF t, n, ends
<1>6. ASSUME st \in ends PROVE Lifetime(t) = {}
  <2> SUFFICES ASSUME NEW i \in Lifetime(t) PROVE FALSE
    OBVIOUS
  <2>1. n + 1 \in i .. n + 1
    BY <1>2, <1>4
  <2> QED BY <1>3, <1>4, <1>6, <2>1
<1>7. ASSUME st \notin ends PROVE Lifetime(t) = Lifetime(s) \cup {n + 1}
  <2>1. ASSUME NEW i \in Lifetime(t), i # n + 1 PROVE i \in Lifetime(s)
    <3>1. i \in 1 .. n
      BY <1>2, <1>4, <2>1
    <3>2. \A j \in i .. n : j \in i .. n + 1 /\ j \in 1 .. n
      BY <1>2, <3>1
    <3> QED BY <1>1, <1>4, <1>5, <3>1, <3>2
  <2>2. ASSUME NEW i \in Lifetime(s) PROVE i \in Lifetime(t)
    <3>1. i \in 1 .. n /\ i \in 1 .. n + 1
      BY <1>2, <1>5
    <3>2. \A j \in i .. n + 1 : j = n + 1 \/ (j \in i .. n /\ j \in 1 .. n)
      BY <1>2, <3>1
    <3> QED BY <1>1, <1>3, <1>4, <1>5, <1>7, <3>1, <3>2
  <2>3. n + 1 \in Lifetime(t)
    <3>1. n + 1 \in 1 .. n + 1 /\ \A j \in n + 1 .. n + 1 : j = n + 1
      BY <1>2
    <3> QED BY <1>3, <1>4, <1>7, <3>1
  <2> QED BY <2>1, <2>2, <2>3
<1> QED BY <1>6, <1>7 DEF t, n, ends

\* The AppContexts still report to the one of the StateInfo when the new action
\* begins another life, names none, or one of the StateInfo, or one that does.
LEMMA AppendReports ==
    ASSUME NEW s \in StateInfo, NEW st \in States, NEW c \in AppContexts \cup {NoContext},
           NEW r \in Nat, NEW f, ReportsTo(s, f),
           \/ st \in {"Approved", "Terminated", "TerminateStopped"}
           \/ c = NoContext \/ c \in ContextIds(s) \/ f[c] = s.statusCtx
    PROVE  ReportsTo(WithAction(s, st, c, r), f)
<1> DEFINE t == WithAction(s, st, c, r)
           n == Len(s.actions)
<1>1. /\ t \in StateInfo /\ Len(t.actions) = n + 1 /\ t.statusCtx = s.statusCtx
      /\ \A i \in 1 .. n : t.actions[i] = s.actions[i]
      /\ LastAction(t) = [state |-> st, ctx |-> c, rev |-> r]
  BY WithActionType
<1>2. n \in Nat /\ DOMAIN t.actions = 1 .. n + 1 /\ DOMAIN s.actions = 1 .. n
  BY <1>1, ActionTypes
<1>3. t.actions[n + 1].ctx = c
  BY <1>1 DEF LastAction
<1>4. \/ st \in {"Approved", "Terminated", "TerminateStopped"} /\ Lifetime(t) = {}
      \/ st \notin {"Approved", "Terminated", "TerminateStopped"} /\ Lifetime(t) = Lifetime(s) \cup {n + 1}
  BY AppendLifetime
<1>5. Lifetime(s) \subseteq 1 .. n
  BY <1>2 DEF Lifetime
<1> HIDE DEF t, n
<1> SUFFICES ASSUME NEW i \in Lifetime(t), t.actions[i].ctx # NoContext,
                    \A j \in DOMAIN t.actions : t.actions[j].ctx = t.actions[i].ctx => j \in Lifetime(t)
             PROVE  f[t.actions[i].ctx] = t.statusCtx
  BY DEF ReportsTo, t
<1>6. \A j \in 1 .. n : s.actions[j].ctx = t.actions[i].ctx => j \in Lifetime(s)
  <2> SUFFICES ASSUME NEW j \in 1 .. n, s.actions[j].ctx = t.actions[i].ctx PROVE j \in Lifetime(s)
    OBVIOUS
  <2>1. j \in DOMAIN t.actions /\ t.actions[j].ctx = t.actions[i].ctx /\ j # n + 1
    BY <1>1, <1>2
  <2> QED BY <1>4, <2>1
<1>7. ASSUME NEW j \in 1 .. n, s.actions[j].ctx = t.actions[i].ctx
      PROVE  f[t.actions[i].ctx] = t.statusCtx
  BY <1>1, <1>2, <1>6, <1>7 DEF ReportsTo
<1>8. CASE i \in 1 .. n
  BY <1>1, <1>7, <1>8
<1>9. CASE i = n + 1
  <2>1. CASE c \in ContextIds(s)
    <3>1. PICK j \in 1 .. n : s.actions[j].ctx = c
      BY <1>2, <2>1 DEF ContextIds
    <3> QED BY <1>3, <1>7, <1>9, <3>1
  <2>2. CASE f[c] = s.statusCtx
    BY <1>1, <1>3, <1>9, <2>2
  <2> QED BY <1>3, <1>4, <1>9, <2>1, <2>2
<1> QED BY <1>4, <1>5, <1>8, <1>9

\* A StateInfo that begins another life with an instantiation.
LEMMA OpenReports ==
    ASSUME NEW s \in StateInfo, NEW c \in AppContexts, NEW r \in Nat, NEW f,
           NEW z \in AppContexts \cup {NoContext}, f[c] = z,
           CurrentState(s) \in {"Approved", "Terminated", "TerminateStopped"}
    PROVE  LET t == [WithAction(s, "Instantiated", c, r) EXCEPT !.statusCtx = z] IN
           /\ t \in StateInfo
           /\ t.actions = WithAction(s, "Instantiated", c, r).actions
           /\ ReportsTo(t, f)
<1> DEFINE u == WithAction(s, "Instantiated", c, r)
           t == [u EXCEPT !.statusCtx = z]
           n == Len(s.actions)
<1>1. "Instantiated" \in States
  BY DEF States
<1>2. /\ u \in StateInfo /\ Len(u.actions) = n + 1
      /\ LastAction(u) = [state |-> "Instantiated", ctx |-> c, rev |-> r]
  BY <1>1, WithActionType
<1>3. Lifetime(u) = Lifetime(s) \cup {n + 1}
  BY <1>1, AppendLifetime
<1>4. n \in Nat /\ DOMAIN s.actions = 1 .. n
  BY ActionTypes
<1>5. Exists(s)
  BY DEF CurrentState
<1>6. s.actions[n].state \in {"Approved", "Terminated", "TerminateStopped"}
  BY <1>5 DEF CurrentState, LastAction
<1> HIDE DEF u, n
<1>7. Lifetime(s) = {}
  <2> SUFFICES ASSUME NEW i \in Lifetime(s) PROVE FALSE
    OBVIOUS
  <2>1. i \in 1 .. n /\ \A j \in i .. n : s.actions[j].state \notin {"Approved", "Terminated", "TerminateStopped"}
    BY <1>4 DEF Lifetime, n
  <2>2. n \in i .. n
    BY <1>4, <2>1
  <2> QED BY <1>6, <2>1, <2>2
<1>8. t \in StateInfo /\ t.actions = u.actions /\ t.statusCtx = z
  BY <1>2 DEF StateInfo
<1>9. u.actions[n + 1].ctx = c
  BY <1>2 DEF LastAction
<1> HIDE DEF t
<1>10. Lifetime(t) = {n + 1}
  BY <1>3, <1>7, <1>8 DEF Lifetime
<1>11. ReportsTo(t, f)
  BY <1>8, <1>9, <1>10 DEF ReportsTo
<1> QED BY <1>8, <1>11 DEF t, u

-------------------------------------------------------------------------------
(* What handlers hold at each point of their program.                      *)

\* A handler that wrote has something to write, and a Migrate that waits for its
\* target DIG knows what it read of its source.
Coherent(h) ==
    /\ h.pc # "idle" => h.dig \in Digs
    /\ h.pc \in {"group", "flag", "call", "insert"} => h.writes # <<>>
    /\ h.pc = "check" => h.op = "Delete" \/ (h.op = "Stop" /\ h.writes # <<>>)
    /\ h.pc = "target" =>
           /\ h.peer \in Digs /\ h.target \in AppContexts
           /\ Exists(h.snap) /\ h.ctx = LastContextId(h.snap)

\* A DIG that is instantiated has an AppContext.
Firm(s) == Instantiated(s) => LastContextId(s) \in AppContexts

\* So have those that a handler is going to record, once rsync has taken the
\* AppContext.
FirmWrites(h) ==
    (h.pc = "call" => Subject(h) \in AppContexts) =>
        \A i \in DOMAIN h.writes : Firm(h.writes[i].info)

Sound(h) == h \in HandlerState /\ Coherent(h) /\ FirmWrites(h)

MongoInv ==
    /\ groups \subseteq Digs
    /\ info \in [Digs -> StateInfo]
    /\ \A d \in Digs : Firm(info[d])

ClientInv == client \in [Clients -> HandlerState] /\ \A k \in Clients : Sound(client[k])

TypeInv == StoreInv /\ MongoInv /\ ClientInv

\* A handler that does nothing is sound.
LEMMA IdleSound == Sound(Idle)
<1>1. <<>> \in Seq(Write)
  OBVIOUS
<1>2. Idle \in HandlerState
  BY <1>1, NoInfoType DEF Idle, HandlerState, PCs, OperationKinds
<1>3. DOMAIN Idle.writes = {} /\ Idle.pc = "idle"
  BY DEF Idle
<1> QED BY <1>2, <1>3 DEF Sound, Coherent, FirmWrites

\* A handler that has just been started.
LEMMA HandlerType ==
    ASSUME NEW op \in OperationKinds, NEW d \in Digs, NEW pc \in PCs
    PROVE  /\ Handler(op, d, pc) \in HandlerState
           /\ Handler(op, d, pc).pc = pc
           /\ Handler(op, d, pc).op = op
           /\ Handler(op, d, pc).dig = d
           /\ Handler(op, d, pc).peer = NoDig
           /\ Handler(op, d, pc).snap = NoInfo
           /\ Handler(op, d, pc).writes = <<>>
<1>1. Idle \in HandlerState
  BY IdleSound DEF Sound
<1>2. Idle.peer = NoDig /\ Idle.snap = NoInfo /\ Idle.writes = <<>>
  BY DEF Idle
<1> HIDE DEF Idle
<1> QED BY <1>1, <1>2 DEF Handler, HandlerState

\* Writes of one and of two StateInfos.
LEMMA WritesType ==
    ASSUME NEW d \in Digs, NEW e \in Digs, NEW s \in StateInfo, NEW t \in StateInfo
    PROVE  /\ <<To(d, s)>> \in Seq(Write) /\ <<To(d, s)>> # <<>>
           /\ DOMAIN <<To(d, s)>> = {1}
           /\ <<To(d, s), To(e, t)>> \in Seq(Write) /\ <<To(d, s), To(e, t)>> # <<>>
           /\ DOMAIN <<To(d, s), To(e, t)>> = {1, 2}
<1>1. To(d, s) \in Write /\ To(e, t) \in Write
  BY DEF To, Write
<1> HIDE DEF To
<1> QED BY <1>1

\* Putting a sound handler in place of one leaves the handlers sound.
LEMMA GoesSound ==
    ASSUME ClientInv, NEW k \in Clients, NEW h, Sound(h), Goes(k, h)
    PROVE  ClientInv'
<1>1. h \in HandlerState
  BY DEF Sound
<1>2. client' = [client EXCEPT ![k] = h]
  BY DEF Goes
<1>3. client' \in [Clients -> HandlerState]
  BY <1>1, <1>2 DEF ClientInv
<1>4. \A j \in Clients : client'[j] = h \/ client'[j] = client[j]
  BY <1>2 DEF ClientInv
<1>5. \A j \in Clients : Sound(client'[j])
  BY <1>4 DEF ClientInv
<1> QED BY <1>3, <1>5 DEF ClientInv

\* An Update's two StateInfos.
LEMMA SuccessorType ==
    ASSUME NEW s \in StateInfo, Exists(s), NEW c \in AppContexts \cup {NoContext}
    PROVE  /\ Replaced(s) \in StateInfo /\ Successor(s, c) \in StateInfo
           /\ LastContextId(s) \in AppContexts \cup {NoContext} /\ LatestRevision(s) \in Nat
           /\ Exists(Replaced(s)) /\ CurrentState(Replaced(s)) = "Updated"
           /\ LatestRevision(Replaced(s)) = LatestRevision(s)
           /\ Replaced(s).statusCtx = s.statusCtx
           /\ LastContextId(Successor(s, c)) = c
<1>1. LastContextId(s) \in AppContexts \cup {NoContext} /\ LatestRevision(s) \in Nat
  BY LastActionType
<1>2. "Updated" \in States /\ "Instantiated" \in States
  BY DEF States
<1>3. /\ Replaced(s) \in StateInfo /\ Replaced(s).statusCtx = s.statusCtx
      /\ Replaced(s).actions # <<>>
      /\ LastAction(Replaced(s)) = [state |-> "Updated", ctx |-> LastContextId(s), rev |-> LatestRevision(s)]
  BY <1>1, <1>2, WithActionType, ZenonT(60) DEF Replaced
<1>4. LatestRevision(s) + 1 \in Nat
  BY <1>1
<1>5. /\ Successor(s, c) \in StateInfo
      /\ LastAction(Successor(s, c)) = [state |-> "Instantiated", ctx |-> c, rev |-> LatestRevision(s) + 1]
  BY <1>2, <1>3, <1>4, WithActionType DEF Successor
<1> QED BY <1>1, <1>3, <1>5 DEF Exists, CurrentState, LatestRevision, LastContextId

\* The AppContext a Rollback picks is one of the record, or none.
LEMMA MatchingType ==
    ASSUME NEW s \in StateInfo, NEW r \in Nat, Matching(s, r) # {}
    PROVE  /\ MatchingContext(s, r) \in AppContexts \cup {NoContext}
           /\ MatchingContext(s, r) \in ContextIds(s) \cup {NoContext}
<1>1. Matching(s, r) \subseteq DOMAIN s.actions /\ DOMAIN s.actions \subseteq Nat
  BY ActionTypes DEF Matching
<1>2. \E i \in Matching(s, r) : \A j \in Matching(s, r) : <<j, i>> \notin OpToRel(<, Nat)
  BY <1>1, NatLessThanWellFounded, WFMin
<1>3. \E i \in Matching(s, r) : \A j \in Matching(s, r) : i <= j
  <2>1. PICK i \in Matching(s, r) : \A j \in Matching(s, r) : <<j, i>> \notin OpToRel(<, Nat)
    BY <1>2
  <2>2. \A j \in Matching(s, r) : ~(j < i)
    BY <1>1, <2>1 DEF OpToRel
  <2> QED BY <1>1, <2>2
<1>4. (CHOOSE i \in Matching(s, r) : \A j \in Matching(s, r) : i <= j) \in Matching(s, r)
  BY <1>3
<1>5. PICK i \in DOMAIN s.actions : MatchingContext(s, r) = s.actions[i].ctx
  BY <1>1, <1>4 DEF MatchingContext
<1> QED BY <1>5, ActionTypes DEF ContextIds

-------------------------------------------------------------------------------
(* Every handler that is started is sound.                                 *)

\* Create begins with a record of one action that has no AppContext.
LEMMA CreateSound ==
    ASSUME NEW d \in Digs
    PROVE  LET t == WithAction(NoInfo, "Created", NoContext, 0) IN
           /\ t \in StateInfo
           /\ Sound([Handler("Create", d, "group") EXCEPT !.writes = <<To(d, t)>>])
<1> DEFINE t == WithAction(NoInfo, "Created", NoContext, 0)
           b == Handler("Create", d, "group")
           h == [b EXCEPT !.writes = <<To(d, t)>>]
<1>1. /\ t \in StateInfo /\ t.actions # <<>>
      /\ LastAction(t) = [state |-> "Created", ctx |-> NoContext, rev |-> 0]
  <2>1. "Created" \in States /\ 0 \in Nat
    BY DEF States
  <2> QED BY <2>1, NoInfoType, WithActionType
<1>2. Firm(t)
  BY <1>1 DEF Firm, Instantiated, CurrentState
<1> HIDE DEF t
<1>0. "Create" \in OperationKinds /\ "group" \in PCs
  BY DEF OperationKinds, PCs
<1>3. /\ b \in HandlerState /\ b.pc = "group" /\ b.op = "Create" /\ b.dig = d
  BY <1>0, HandlerType
<1>4. /\ <<To(d, t)>> \in Seq(Write) /\ <<To(d, t)>> # <<>> /\ DOMAIN <<To(d, t)>> = {1}
      /\ <<To(d, t)>>[1].info = t
  BY <1>1, WritesType DEF To
<1> HIDE DEF b
<1>5. h \in HandlerState /\ h.pc = "group" /\ h.dig = d /\ h.writes = <<To(d, t)>>
  BY <1>3, <1>4 DEF HandlerState
<1> HIDE DEF h
<1>6. Sound(h)
  BY <1>2, <1>4, <1>5 DEF Sound, Coherent, FirmWrites
<1> QED BY <1>1, <1>6 DEF h, b, t

\* A handler that is to write one StateInfo, as Approve, Instantiate, Terminate
\* and Stop are.
LEMMA OneWriteSound ==
    ASSUME NEW h \in HandlerState, NEW d \in Digs, NEW t \in StateInfo, Firm(t),
           h.dig = d, h.writes = <<To(d, t)>>, h.pc # "target", h.pc = "check" => h.op = "Stop"
    PROVE  Sound(h)
<1>1. /\ <<To(d, t)>> # <<>> /\ DOMAIN <<To(d, t)>> = {1}
      /\ <<To(d, t)>>[1].info = t
  BY WritesType DEF To
<1> QED BY <1>1 DEF Sound, Coherent, FirmWrites

\* Updates and Rollbacks write the record without and with the AppContext c.
LEMMA TwoWritesSound ==
    ASSUME NEW d \in Digs, NEW op \in {"Update", "Rollback"},
           NEW s \in StateInfo, Exists(s), NEW c \in AppContexts \cup {NoContext}
    PROVE  Sound([Handler(op, d, "call") EXCEPT
                     !.ctx = LastContextId(s), !.target = c,
                     !.writes = <<To(d, Replaced(s)), To(d, Successor(s, c))>>])
<1> DEFINE b == Handler(op, d, "call")
           l == LastContextId(s)
           t == Replaced(s)
           u == Successor(s, c)
           w == <<To(d, t), To(d, u)>>
           h == [b EXCEPT !.ctx = l, !.target = c, !.writes = w]
<1>0. op \in OperationKinds /\ "call" \in PCs
  BY DEF OperationKinds, PCs
<1>1. b \in HandlerState /\ b.pc = "call" /\ b.op = op /\ b.dig = d
  BY <1>0, HandlerType
<1>2. /\ t \in StateInfo /\ u \in StateInfo /\ l \in AppContexts \cup {NoContext}
      /\ CurrentState(t) = "Updated" /\ LastContextId(u) = c
  BY SuccessorType
<1>3. Firm(t) /\ (c \in AppContexts => Firm(u))
  BY <1>2 DEF Firm, Instantiated
<1> HIDE DEF b, t, u, l
<1>4. /\ w \in Seq(Write) /\ w # <<>> /\ DOMAIN w = {1, 2}
      /\ w[1].info = t /\ w[2].info = u
  BY <1>2, WritesType DEF To
<1> HIDE DEF w
<1>5. /\ h \in HandlerState /\ h.pc = "call" /\ h.op = op /\ h.dig = d
      /\ h.target = c /\ h.writes = w
  BY <1>1, <1>2, <1>4 DEF HandlerState
<1> HIDE DEF h
<1>6. Subject(h) = c
  BY <1>5 DEF Subject
<1>7. Sound(h)
  BY <1>3, <1>4, <1>5, <1>6 DEF Sound, Coherent, FirmWrites
<1> QED BY <1>7 DEF h, w, b, t, u, l

\* A Migrate that waits for its target DIG.
LEMMA MigrateSound ==
    ASSUME NEW d \in Digs, NEW e \in Digs, NEW s \in StateInfo, Exists(s),
           NEW c \in AppContexts
    PROVE  Sound([Handler("Migrate", d, "target") EXCEPT
                     !.peer = e, !.snap = s, !.ctx = LastContextId(s), !.target = c])
<1> DEFINE b == Handler("Migrate", d, "target")
           l == LastContextId(s)
           h == [b EXCEPT !.peer = e, !.snap = s, !.ctx = l, !.target = c]
<1>0. "Migrate" \in OperationKinds /\ "target" \in PCs
  BY DEF OperationKinds, PCs
<1>1. b \in HandlerState /\ b.pc = "target" /\ b.dig = d /\ b.writes = <<>>
  BY <1>0, HandlerType
<1>2. l \in AppContexts \cup {NoContext}
  BY LastActionType
<1> HIDE DEF b, l
<1>3. /\ h \in HandlerState /\ h.pc = "target" /\ h.dig = d /\ h.peer = e /\ h.snap = s
      /\ h.ctx = l /\ h.target = c /\ h.writes = <<>>
  BY <1>1, <1>2 DEF HandlerState
<1> HIDE DEF h
<1>4. Sound(h)
  BY <1>3 DEF Sound, Coherent, FirmWrites, l
<1> QED BY <1>4 DEF h, b, l

\* A Delete.
LEMMA DeleteSound ==
    ASSUME NEW d \in Digs, NEW s \in StateInfo
    PROVE  /\ Exists(s) => Sound([Handler("Delete", d, "check") EXCEPT
                                     !.ctx = LastContextId(s), !.drop = ContextIds(s)])
           /\ Sound(Handler("Delete", d, "remove"))
<1> DEFINE b == Handler("Delete", d, "check")
           l == LastContextId(s)
           z == ContextIds(s)
           h == [b EXCEPT !.ctx = l, !.drop = z]
           r == Handler("Delete", d, "remove")
<1>0. "Delete" \in OperationKinds /\ "check" \in PCs /\ "remove" \in PCs
  BY DEF OperationKinds, PCs
<1>1. b \in HandlerState /\ b.pc = "check" /\ b.op = "Delete" /\ b.dig = d /\ b.writes = <<>>
  BY <1>0, HandlerType
<1>2. r \in HandlerState /\ r.pc = "remove" /\ r.dig = d /\ r.writes = <<>>
  BY <1>0, HandlerType
<1>3. Sound(r)
  BY <1>2 DEF Sound, Coherent, FirmWrites
<1>4. z \subseteq AppContexts
  BY ActionTypes DEF ContextIds
<1>5. ASSUME Exists(s) PROVE Sound(h)
  <2>1. l \in AppContexts \cup {NoContext}
    BY <1>5, LastActionType
  <2> HIDE DEF b, l, z
  <2>2. h \in HandlerState /\ h.pc = "check" /\ h.op = "Delete" /\ h.dig = d /\ h.writes = <<>>
    BY <1>1, <1>4, <2>1 DEF HandlerState
  <2> HIDE DEF h
  <2> QED BY <2>2 DEF Sound, Coherent, FirmWrites
<1> QED BY <1>3, <1>5 DEF h, b, l, z, r

-------------------------------------------------------------------------------
(* Types: every step keeps TypeInv.                                        *)

\* Steps that change neither etcd nor what rsync does.
LEMMA QuietStore ==
    ASSUME StoreInv, UNCHANGED <<lifecycle, etcd, holds>>
    PROVE  StoreInv'
<1>1. /\ stored' \subseteq used' /\ used \subseteq used' /\ used' \subseteq AppContexts
      /\ statusCtx' \in [AppContexts -> AppContexts \cup {NoContext}]
      /\ stopFlag' \in [AppContexts -> BOOLEAN]
  BY DEF StoreInv, StoreTypeOK, etcd
<1> QED BY <1>1, HandlerStoreInv

\* Steps that do not change MongoDB.
LEMMA QuietMongo == ASSUME MongoInv, UNCHANGED mongo PROVE MongoInv'
  BY DEF MongoInv, mongo

\* A handler makes an AppContext and says where it reports to.
LEMMA MakeStore ==
    ASSUME StoreInv, NEW c, MakeAppContext(c), UNCHANGED <<lifecycle, holds>>,
           statusCtx' \in [AppContexts -> AppContexts \cup {NoContext}]
    PROVE  /\ StoreInv'
           /\ c \in AppContexts \ used /\ used' = used \cup {c}
<1>1. c \in AppContexts \ used /\ used' = used \cup {c}
  BY DEF MakeAppContext
<1>2. stored' \subseteq used' /\ used' \subseteq AppContexts /\ used \subseteq used'
      /\ stopFlag' \in [AppContexts -> BOOLEAN]
  BY <1>1 DEF MakeAppContext, StoreInv, StoreTypeOK
<1> QED BY <1>1, <1>2, HandlerStoreInv

\* An AppContext that reports to another one, or to none.
LEMMA StatusType ==
    ASSUME StoreInv, NEW c \in AppContexts, NEW z \in AppContexts \cup {NoContext},
           UpdateAppContextStatusContextID(c, z)
    PROVE  /\ statusCtx' \in [AppContexts -> AppContexts \cup {NoContext}]
           /\ statusCtx'[c] = z
           /\ \A d \in AppContexts \ {c} : statusCtx'[d] = statusCtx[d]
  BY DEF StoreInv, StoreTypeOK, UpdateAppContextStatusContextID

\* The record of an instantiated DIG.
LEMMA InstantiatedInfo ==
    ASSUME MongoInv, NEW d \in Digs, Instantiated(info[d])
    PROVE  /\ info[d] \in StateInfo /\ Exists(info[d])
           /\ LastContextId(info[d]) \in AppContexts
           /\ LastContextId(info[d]) \in ContextIds(info[d])
<1>1. info[d] \in StateInfo /\ Exists(info[d]) /\ LastContextId(info[d]) \in AppContexts
  BY DEF MongoInv, Firm, Instantiated, CurrentState
<1>2. LastContextId(info[d]) \in ContextIds(info[d])
  BY <1>1, LastActionType, ContextAssumption DEF ContextIds, LastContextId
<1> QED BY <1>1, <1>2

\* An instantiation with an AppContext of its own.
LEMMA InstantiationType ==
    ASSUME NEW s \in StateInfo, NEW c \in AppContexts, NEW r \in Nat,
           NEW z \in AppContexts \cup {NoContext}
    PROVE  LET t == [WithAction(s, "Instantiated", c, r) EXCEPT !.statusCtx = z] IN
           t \in StateInfo /\ Firm(t)
<1> DEFINE u == WithAction(s, "Instantiated", c, r)
           t == [u EXCEPT !.statusCtx = z]
<1>1. "Instantiated" \in States
  BY DEF States
<1>2. u \in StateInfo /\ LastAction(u) = [state |-> "Instantiated", ctx |-> c, rev |-> r]
  BY <1>1, WithActionType
<1> HIDE DEF u
<1>3. t \in StateInfo /\ t.actions = u.actions
  BY <1>2 DEF StateInfo
<1> HIDE DEF t
<1>4. LastContextId(t) = c
  BY <1>2, <1>3 DEF LastContextId, LastAction
<1> QED BY <1>3, <1>4 DEF t, u, Firm

\* The record with an action that leaves no DIG instantiated, or leaves it so.
LEMMA ActionFirm ==
    ASSUME NEW s \in StateInfo, NEW st \in States, NEW c \in AppContexts \cup {NoContext},
           NEW r \in Nat, st \in {"Instantiated", "InstantiateStopped"} => c \in AppContexts
    PROVE  WithAction(s, st, c, r) \in StateInfo /\ Firm(WithAction(s, st, c, r))
<1> DEFINE t == WithAction(s, st, c, r)
<1>1. /\ t \in StateInfo /\ t.actions # <<>>
      /\ LastAction(t) = [state |-> st, ctx |-> c, rev |-> r]
  BY WithActionType
<1> HIDE DEF t
<1>2. Firm(t)
  BY <1>1 DEF Firm, Instantiated, CurrentState, LastContextId, Exists
<1> QED BY <1>1, <1>2 DEF t

\* A client calls an operation.
LEMMA StartTypeInv ==
    ASSUME TypeInv, NEW k \in Clients, Start(k)
    PROVE  TypeInv'
<1> USE DEF TypeInv
<1>0. NoContext \in AppContexts \cup {NoContext} /\ 0 \in Nat /\ 1 \in Nat
  OBVIOUS
<1>1. ASSUME NEW d \in Digs, Create(k, d) PROVE TypeInv'
  <2>1. StoreInv' /\ MongoInv'
    BY <1>1, QuietStore, QuietMongo DEF Create
  <2>2. ClientInv'
    BY <1>1, CreateSound, GoesSound DEF Create
  <2> QED BY <2>1, <2>2
<1>2. ASSUME NEW d \in Digs, Approve(k, d) PROVE TypeInv'
  <2> DEFINE t == WithAction(info[d], "Approved", NoContext, 0)
             b == Handler("Approve", d, "insert")
             h == [b EXCEPT !.writes = <<To(d, t)>>]
  <2>1. StoreInv' /\ MongoInv' /\ Goes(k, h)
    BY <1>2, QuietStore, QuietMongo DEF Approve
  <2>2. t \in StateInfo /\ Firm(t)
    <3>1. info[d] \in StateInfo /\ "Approved" \in States
      BY DEF MongoInv, States
    <3> QED BY <1>0, <3>1, ActionFirm
  <2> HIDE DEF t
  <2>3. "Approve" \in OperationKinds /\ "insert" \in PCs
    BY DEF OperationKinds, PCs
  <2>4. /\ b \in HandlerState /\ b.pc = "insert" /\ b.op = "Approve" /\ b.dig = d
    BY <2>3, HandlerType
  <2> HIDE DEF b
  <2>5. /\ h \in HandlerState /\ h.pc = "insert" /\ h.op = "Approve" /\ h.dig = d
        /\ h.writes = <<To(d, t)>>
    BY <2>2, <2>4, WritesType DEF HandlerState
  <2> HIDE DEF h
  <2> QED BY <2>1, <2>2, <2>5, OneWriteSound, GoesSound
<1>3. ASSUME NEW d \in Digs, Instantiate(k, d) PROVE TypeInv'
  <2>1. PICK c \in AppContexts :
            /\ MakeAppContext(c)
            /\ UpdateAppContextStatusContextID(c, c)
            /\ Goes(k, [Handler("Instantiate", d, "call") EXCEPT
                   !.target = c,
                   !.writes = <<To(d, [WithAction(info[d], "Instantiated", c, 1) EXCEPT
                                          !.statusCtx = c])>>])
    BY <1>3 DEF Instantiate
  <2> DEFINE t == [WithAction(info[d], "Instantiated", c, 1) EXCEPT !.statusCtx = c]
             b == Handler("Instantiate", d, "call")
             h == [b EXCEPT !.target = c, !.writes = <<To(d, t)>>]
  <2>2. StoreInv' /\ MongoInv'
    BY <1>3, <2>1, MakeStore, StatusType, QuietMongo DEF Instantiate
  <2>3. t \in StateInfo /\ Firm(t)
    <3>1. info[d] \in StateInfo
      BY DEF MongoInv
    <3> QED BY <1>0, <3>1, InstantiationType
  <2>7. Goes(k, h)
    BY <2>1
  <2> HIDE DEF t
  <2>4. "Instantiate" \in OperationKinds /\ "call" \in PCs
    BY DEF OperationKinds, PCs
  <2>5. /\ b \in HandlerState /\ b.pc = "call" /\ b.op = "Instantiate" /\ b.dig = d
    BY <2>4, HandlerType
  <2> HIDE DEF b
  <2>6. /\ h \in HandlerState /\ h.pc = "call" /\ h.op = "Instantiate" /\ h.dig = d
        /\ h.writes = <<To(d, t)>>
    BY <2>3, <2>5, WritesType DEF HandlerState
  <2> HIDE DEF h
  <2> QED BY <2>2, <2>3, <2>6, <2>7, OneWriteSound, GoesSound
<1>4. ASSUME NEW d \in Digs, Terminate(k, d) PROVE TypeInv'
  <2> DEFINE c == LastContextId(info[d])
             pc == IF CurrentState(info[d]) = "Instantiated" THEN "call" ELSE "flag"
             t == WithAction(info[d], "Terminated", c, 0)
             b == Handler("Terminate", d, pc)
             h == [b EXCEPT !.ctx = c, !.writes = <<To(d, t)>>]
  <2>1. StoreInv' /\ MongoInv' /\ Goes(k, h) /\ Instantiated(info[d])
    BY <1>4, QuietStore, QuietMongo DEF Terminate
  <2>2. info[d] \in StateInfo /\ c \in AppContexts
    BY <2>1, InstantiatedInfo
  <2>3. /\ "Terminate" \in OperationKinds /\ pc \in PCs
        /\ pc \notin {"check", "target"} /\ "Terminated" \in States
    BY DEF OperationKinds, PCs, States
  <2> HIDE DEF c, pc
  <2>4. t \in StateInfo /\ Firm(t)
    BY <1>0, <2>2, <2>3, ActionFirm
  <2> HIDE DEF t
  <2>5. /\ b \in HandlerState /\ b.pc = pc /\ b.op = "Terminate" /\ b.dig = d
    BY <2>3, HandlerType
  <2> HIDE DEF b
  <2>6. /\ h \in HandlerState /\ h.pc = pc /\ h.op = "Terminate" /\ h.dig = d
        /\ h.writes = <<To(d, t)>>
    BY <2>4, <2>2, <2>5, WritesType DEF HandlerState
  <2> HIDE DEF h
  <2> QED BY <2>1, <2>3, <2>4, <2>6, OneWriteSound, GoesSound
<1>5. ASSUME NEW d \in Digs, Stop(k, d) PROVE TypeInv'
  <2> DEFINE c == LastContextId(info[d])
             st == IF CurrentState(info[d]) = "Instantiated"
                   THEN "InstantiateStopped" ELSE "TerminateStopped"
             t == WithAction(info[d], st, c, 0)
             b == Handler("Stop", d, "check")
             h == [b EXCEPT !.ctx = c, !.writes = <<To(d, t)>>]
  <2>1. StoreInv' /\ MongoInv' /\ Goes(k, h) /\ CurrentState(info[d]) \in {"Instantiated", "Terminated"}
    BY <1>5, QuietStore, QuietMongo DEF Stop
  <2>2. info[d] \in StateInfo /\ Exists(info[d])
    BY <2>1 DEF CurrentState, MongoInv
  <2>3. /\ "Stop" \in OperationKinds /\ "check" \in PCs
        /\ st \in States
    BY DEF OperationKinds, PCs, States
  <2>4. c \in AppContexts \cup {NoContext} /\ (st = "InstantiateStopped" => c \in AppContexts)
    BY <2>2, LastActionType DEF MongoInv, Firm, Instantiated
  <2>5. st # "Instantiated"
    OBVIOUS
  <2> HIDE DEF c, st
  <2>6. t \in StateInfo /\ Firm(t)
    BY <1>0, <2>2, <2>3, <2>4, <2>5, ActionFirm
  <2> HIDE DEF t
  <2>7. /\ b \in HandlerState /\ b.pc = "check" /\ b.op = "Stop" /\ b.dig = d
    BY <2>3, HandlerType
  <2> HIDE DEF b
  <2>8. /\ h \in HandlerState /\ h.pc = "check" /\ h.op = "Stop" /\ h.dig = d
        /\ h.writes = <<To(d, t)>>
    BY <2>6, <2>4, <2>7, WritesType DEF HandlerState
  <2> HIDE DEF h
  <2> QED BY <2>1, <2>3, <2>6, <2>8, OneWriteSound, GoesSound
<1>6. ASSUME NEW d \in Digs, Update(k, d) PROVE TypeInv'
  <2>1. PICK c \in AppContexts :
            /\ MakeAppContext(c)
            /\ UpdateAppContextStatusContextID(c, info[d].statusCtx)
            /\ Goes(k, [Handler("Update", d, "call") EXCEPT
                   !.ctx = LastContextId(info[d]), !.target = c,
                   !.writes = <<To(d, Replaced(info[d])), To(d, Successor(info[d], c))>>])
    BY <1>6 DEF Update
  <2>2. info[d] \in StateInfo /\ Exists(info[d])
    BY <1>6, InstantiatedInfo DEF Update
  <2>3. info[d].statusCtx \in AppContexts \cup {NoContext}
    BY <2>2 DEF StateInfo
  <2>4. StoreInv' /\ MongoInv'
    BY <1>6, <2>1, <2>3, MakeStore, StatusType, QuietMongo DEF Update
  <2> DEFINE h == [Handler("Update", d, "call") EXCEPT
                   !.ctx = LastContextId(info[d]), !.target = c,
                   !.writes = <<To(d, Replaced(info[d])), To(d, Successor(info[d], c))>>]
  <2>5. Sound(h)
    BY <2>2, TwoWritesSound
  <2> QED BY <2>1, <2>4, <2>5, GoesSound
<1>7. ASSUME NEW d \in Digs, Rollback(k, d) PROVE TypeInv'
  <2>1. PICK r \in 0 .. MaxActions :
            /\ Matching(info[d], r) # {}
            /\ Goes(k, [Handler("Rollback", d, "call") EXCEPT
                   !.ctx = LastContextId(info[d]), !.target = MatchingContext(info[d], r),
                   !.writes = <<To(d, Replaced(info[d])),
                                To(d, Successor(info[d], MatchingContext(info[d], r)))>>])
    BY <1>7 DEF Rollback
  <2>2. StoreInv' /\ MongoInv' /\ Exists(info[d]) /\ info[d] \in StateInfo
    BY <1>7, QuietStore, QuietMongo DEF Rollback, MongoInv
  <2>3. MatchingContext(info[d], r) \in AppContexts \cup {NoContext}
    BY <2>1, <2>2, MatchingType
  <2> DEFINE c == MatchingContext(info[d], r)
             h == [Handler("Rollback", d, "call") EXCEPT
                   !.ctx = LastContextId(info[d]), !.target = c,
                   !.writes = <<To(d, Replaced(info[d])), To(d, Successor(info[d], c))>>]
  <2>4. Goes(k, h)
    BY <2>1
  <2> HIDE DEF c
  <2>5. Sound(h)
    BY <2>2, <2>3, TwoWritesSound DEF c
  <2> HIDE DEF h
  <2> QED BY <2>2, <2>4, <2>5, GoesSound
<1>8. ASSUME NEW d \in Digs, NEW e \in Digs, Migrate(k, d, e) PROVE TypeInv'
  <2>1. PICK c \in AppContexts :
            /\ MakeAppContext(c)
            /\ Goes(k, [Handler("Migrate", d, "target") EXCEPT
                   !.peer = e, !.snap = info[d], !.ctx = LastContextId(info[d]), !.target = c])
    BY <1>8 DEF Migrate
  <2>2. info[d] \in StateInfo /\ Exists(info[d])
    BY <1>8, InstantiatedInfo DEF Migrate
  <2>3. statusCtx' \in [AppContexts -> AppContexts \cup {NoContext}]
    BY <1>8 DEF Migrate, StoreInv, StoreTypeOK
  <2>4. StoreInv' /\ MongoInv'
    BY <1>8, <2>1, <2>3, MakeStore, QuietMongo DEF Migrate
  <2> QED BY <2>1, <2>2, <2>4, MigrateSound, GoesSound
<1>9. ASSUME NEW d \in Digs, Delete(k, d) PROVE TypeInv'
  <2>1. StoreInv' /\ MongoInv' /\ info[d] \in StateInfo
    BY <1>9, QuietStore, QuietMongo DEF Delete, MongoInv
  <2>2. CASE CurrentState(info[d]) \in {"Terminated", "TerminateStopped"}
    <3>1. Exists(info[d])
      BY <2>2 DEF CurrentState
    <3>2. Goes(k, [Handler("Delete", d, "check") EXCEPT
                      !.ctx = LastContextId(info[d]), !.drop = ContextIds(info[d])])
      BY <1>9, <2>2 DEF Delete
    <3> QED BY <2>1, <3>1, <3>2, DeleteSound, GoesSound
  <2>3. CASE CurrentState(info[d]) \notin {"Terminated", "TerminateStopped"}
    <3>1. Goes(k, Handler("Delete", d, "remove"))
      BY <1>9, <2>3 DEF Delete
    <3> QED BY <2>1, <3>1, DeleteSound, GoesSound
  <2> QED BY <2>2, <2>3
<1> QED BY <1>1, <1>2, <1>3, <1>4, <1>5, <1>6, <1>7, <1>8, <1>9 DEF Start

\* What is still to write when one of several StateInfos has been written.
LEMMA TailWrites ==
    ASSUME NEW q \in Seq(Write), q # <<>>, Len(q) # 1
    PROVE  /\ Tail(q) \in Seq(Write) /\ Tail(q) # <<>>
           /\ \A i \in DOMAIN Tail(q) : Tail(q)[i] = q[i + 1] /\ i + 1 \in DOMAIN q
<1>1. Len(q) \in Nat /\ DOMAIN q = 1 .. Len(q)
  BY LenProperties
<1>2. /\ Tail(q) \in Seq(Write) /\ Len(Tail(q)) = Len(q) - 1
      /\ \A i \in 1 .. Len(Tail(q)) : Tail(q)[i] = q[i + 1]
  BY HeadTailProperties
<1>3. DOMAIN Tail(q) = 1 .. Len(q) - 1
  BY <1>2, LenProperties
<1>4. Len(q) > 1
  BY <1>1, EmptySeq
<1>5. Tail(q) # <<>>
  <2>1. Len(Tail(q)) # 0
    BY <1>1, <1>2, <1>4
  <2> QED BY <1>2, <2>1, EmptySeq
<1>6. \A i \in DOMAIN Tail(q) : i \in 1 .. Len(Tail(q)) /\ i + 1 \in DOMAIN q
  BY <1>1, <1>2, <1>3
<1> QED BY <1>2, <1>5, <1>6

\* A client goes on.
LEMMA ContinueTypeInv ==
    ASSUME TypeInv, NEW k \in Clients, Continue(k)
    PROVE  TypeInv'
<1> USE DEF TypeInv
<1> DEFINE h == client[k]
<1>0. Sound(h) /\ h \in HandlerState /\ h.ctx \in AppContexts \cup {NoContext}
  BY DEF ClientInv, Sound, HandlerState
<1>1. ASSUME Done(k) PROVE ClientInv'
  BY <1>1, IdleSound, GoesSound DEF Done
<1>2. ASSUME stored' \subseteq stored, UNCHANGED <<lifecycle, used, statusCtx, stopFlag, holds>>
      PROVE  StoreInv'
  BY <1>2, HandlerStoreInv DEF StoreInv, StoreTypeOK
<1>3. ASSUME MigrateTarget(k) PROVE TypeInv'
  <2> DEFINE s == info[h.peer]
             t == WithAction(h.snap, "Updated", h.ctx, 0)
             u == [WithAction(s, "Instantiated", h.target, 0) EXCEPT !.statusCtx = h.snap.statusCtx]
             w == <<To(h.dig, t), To(h.peer, u)>>
             g == [h EXCEPT !.pc = "call", !.writes = w]
  <2>1. h.pc = "target" /\ Goes(k, g)
    BY <1>3 DEF MigrateTarget
  <2>2. h.dig \in Digs /\ h.peer \in Digs /\ h.target \in AppContexts
    BY <1>0, <2>1 DEF Sound, Coherent
  <2>3. s \in StateInfo /\ h.snap \in StateInfo /\ h.snap.statusCtx \in AppContexts \cup {NoContext}
    BY <1>0, <2>2 DEF MongoInv, HandlerState, StateInfo
  <2>4. t \in StateInfo /\ Firm(t)
    <3>1. "Updated" \in States /\ 0 \in Nat
      BY DEF States
    <3> QED BY <1>0, <2>3, <3>1, ActionFirm
  <2>5. u \in StateInfo /\ Firm(u)
    BY <2>2, <2>3, InstantiationType
  <2>6. statusCtx' \in [AppContexts -> AppContexts \cup {NoContext}]
    BY <1>3, <2>2, <2>3, StatusType DEF MigrateTarget
  <2>7. StoreInv' /\ MongoInv'
    BY <1>3, <2>6, HandlerStoreInv, QuietMongo DEF MigrateTarget, StoreInv, StoreTypeOK
  <2> HIDE DEF t, u
  <2>8. /\ w \in Seq(Write) /\ w # <<>> /\ DOMAIN w = {1, 2} /\ w[1].info = t /\ w[2].info = u
    BY <2>2, <2>4, <2>5, WritesType DEF To
  <2> HIDE DEF w, h
  <2>9. g \in HandlerState /\ g.pc = "call" /\ g.dig = h.dig /\ g.writes = w
    BY <1>0, <2>8 DEF HandlerState, PCs
  <2> HIDE DEF g
  <2>10. Sound(g)
    BY <2>2, <2>4, <2>5, <2>8, <2>9 DEF Sound, Coherent, FirmWrites
  <2> QED BY <2>1, <2>7, <2>10, GoesSound
<1>4. ASSUME MigrateRefused(k) PROVE TypeInv'
  BY <1>1, <1>4, QuietStore, QuietMongo DEF MigrateRefused
<1>5. ASSUME NEW pc \in PCs, pc \notin {"idle", "target", "check"},
             h.pc \notin {"idle", "target"}, h.pc # "check" \/ pc \in {"flag", "drop"},
             h.pc = "check" /\ pc = "flag" => h.op = "Stop",
             h.pc = "call" => Subject(h) \in AppContexts,
             pc \in {"group", "flag", "call", "insert"} => h.writes # <<>>,
             Goes(k, [h EXCEPT !.pc = pc])
      PROVE  ClientInv'
  <2> DEFINE g == [h EXCEPT !.pc = pc]
  <2>1. Goes(k, g)
    BY <1>5
  <2> HIDE DEF h
  <2>2. g \in HandlerState /\ g.pc = pc /\ g.dig = h.dig /\ g.writes = h.writes
    BY <1>0, <1>5 DEF HandlerState
  <2> HIDE DEF g
  <2>3. Sound(g)
    BY <1>0, <1>5, <2>2 DEF Sound, Coherent, FirmWrites
  <2> QED BY <2>1, <2>3, GoesSound
<1>6. ASSUME Check(k) PROVE TypeInv'
  <2>1. StoreInv' /\ MongoInv'
    BY <1>6, QuietStore, QuietMongo DEF Check
  <2>2. CASE ~Checked(k)
    BY <1>1, <1>6, <2>1, <2>2 DEF Check
  <2>3. CASE Checked(k) /\ h.op = "Stop"
    <3>1. h.pc = "check" /\ Goes(k, [h EXCEPT !.pc = "flag"]) /\ h.writes # <<>> /\ "flag" \in PCs
      BY <1>0, <1>6, <2>3 DEF Check, Sound, Coherent, PCs
    <3> QED BY <1>5, <2>1, <2>3, <3>1
  <2>4. CASE Checked(k) /\ h.op # "Stop"
    <3>1. h.pc = "check" /\ Goes(k, [h EXCEPT !.pc = "drop"]) /\ "drop" \in PCs
      BY <1>6, <2>4 DEF Check, PCs
    <3> QED BY <1>5, <2>1, <3>1
  <2> QED BY <2>2, <2>3, <2>4
<1>7. ASSUME SetStopFlag(k) PROVE TypeInv'
  <2>1. MongoInv' /\ h.pc = "flag" /\ h.writes # <<>>
    BY <1>0, <1>7, QuietMongo DEF SetStopFlag, Sound, Coherent
  <2>2. CASE h.ctx \notin stored
    BY <1>1, <1>2, <1>7, <2>1, <2>2 DEF SetStopFlag
  <2>3. CASE h.ctx \in stored
    <3>1. SetFlag(h.ctx, h.op = "Stop")
      BY <1>7, <2>3 DEF SetStopFlag
    <3>2. stopFlag' \in [AppContexts -> BOOLEAN]
      <4>1. (h.op = "Stop") \in BOOLEAN
        OBVIOUS
      <4> HIDE DEF h
      <4> QED BY <3>1, <4>1 DEF SetFlag, StoreInv, StoreTypeOK
    <3>3. StoreInv'
      BY <1>7, <3>2, HandlerStoreInv DEF SetStopFlag, StoreInv, StoreTypeOK
    <3>4. \/ Goes(k, [h EXCEPT !.pc = "insert"])
          \/ Goes(k, [h EXCEPT !.pc = "call"])
      BY <1>7, <2>3 DEF SetStopFlag
    <3>5. "insert" \in PCs /\ "call" \in PCs
      BY DEF PCs
    <3>6. ClientInv'
      BY <1>5, <2>1, <3>4, <3>5
    <3> QED BY <2>1, <3>3, <3>6
  <2> QED BY <2>2, <2>3
<1>8. ASSUME SchedulerFails(k) PROVE TypeInv'
  BY <1>1, <1>2, <1>8, QuietMongo DEF SchedulerFails
<1>9. ASSUME CallRsync(k) PROVE TypeInv'
  <2>1. /\ h.pc = "call" /\ h.writes # <<>> /\ MongoInv' /\ UNCHANGED <<etcd, holds>>
        /\ CallRsyncFor(Subject(h), Request(h), IF Request(h) = "Update" THEN h.ctx ELSE NoContext)
        /\ Goes(k, [h EXCEPT !.pc = "insert"])
    BY <1>0, <1>9, QuietMongo DEF CallRsync, Sound, Coherent
  <2>2. Request(h) \in RsyncEvents
    BY DEF Request, RsyncEvents
  <2>3. (IF Request(h) = "Update" THEN h.ctx ELSE NoContext) \in AppContexts \cup {NoContext}
    BY <1>0
  <2>4. StoreInv'
    BY <2>1, <2>2, <2>3, CallStoreInv
  <2>5. Subject(h) \in AppContexts /\ "insert" \in PCs
    BY <2>1 DEF CallRsyncFor, StoreInv, StoreTypeOK, PCs
  <2> QED BY <1>5, <2>1, <2>4, <2>5
<1>10. ASSUME CallFails(k) PROVE TypeInv'
  BY <1>1, <1>2, <1>10, QuietMongo DEF CallFails
<1>11. ASSUME InsertGroup(k) PROVE TypeInv'
  <2>1. h.pc = "group" /\ h.dig \in Digs /\ h.writes # <<>>
    BY <1>0, <1>11 DEF InsertGroup, Sound, Coherent
  <2>2. StoreInv'
    BY <1>11, QuietStore DEF InsertGroup
  <2>3. MongoInv'
    BY <1>11, <2>1 DEF InsertGroup, MongoInv
  <2>4. Goes(k, [h EXCEPT !.pc = "insert"]) /\ "insert" \in PCs
    BY <1>11 DEF InsertGroup, PCs
  <2> QED BY <1>5, <2>1, <2>2, <2>3, <2>4
<1>12. ASSUME Insert(k) PROVE TypeInv'
  <2> DEFINE w == Head(h.writes)
             g == [h EXCEPT !.writes = Tail(h.writes)]
  <2>1. /\ h.pc = "insert" /\ h.writes # <<>> /\ h.writes \in Seq(Write) /\ h.dig \in Digs
        /\ \A i \in DOMAIN h.writes : Firm(h.writes[i].info)
    BY <1>0, <1>12 DEF Insert, Sound, Coherent, HandlerState, FirmWrites
  <2>2. w \in Write /\ w = h.writes[1] /\ 1 \in DOMAIN h.writes
    BY <2>1, HeadTailProperties, EmptySeq, LenProperties
  <2>3. StoreInv'
    BY <1>12, QuietStore DEF Insert
  <2>4. info' = [info EXCEPT ![w.dig] = w.info] /\ UNCHANGED groups
    BY <1>12 DEF Insert
  <2> HIDE DEF w
  <2>5. w.dig \in Digs /\ w.info \in StateInfo /\ Firm(w.info)
    BY <2>1, <2>2 DEF Write
  <2>6. MongoInv'
    BY <2>4, <2>5 DEF MongoInv
  <2>7. CASE Len(h.writes) = 1
    BY <1>1, <1>12, <2>3, <2>6, <2>7 DEF Insert
  <2>8. CASE Len(h.writes) # 1
    <3>1. Goes(k, g)
      BY <1>12, <2>8 DEF Insert
    <3>2. /\ Tail(h.writes) \in Seq(Write) /\ Tail(h.writes) # <<>>
          /\ \A i \in DOMAIN Tail(h.writes) :
                Tail(h.writes)[i] = h.writes[i + 1] /\ i + 1 \in DOMAIN h.writes
      BY <2>1, <2>8, TailWrites
    <3> DEFINE y == Tail(h.writes)
    <3> HIDE DEF h, y
    <3>3. g \in HandlerState /\ g.pc = "insert" /\ g.dig = h.dig /\ g.writes = y
      BY <1>0, <2>1, <3>2 DEF HandlerState, y
    <3> HIDE DEF g
    <3>4. \A i \in DOMAIN y : Firm(y[i].info)
      BY <2>1, <3>2 DEF y
    <3>5. Sound(g)
      BY <2>1, <3>2, <3>3, <3>4 DEF Sound, Coherent, FirmWrites, y
    <3> QED BY <2>3, <2>6, <3>1, <3>5, GoesSound
  <2> QED BY <2>7, <2>8
<1>13. ASSUME DropContext(k) PROVE TypeInv'
  <2>1. PICK c \in h.drop :
            /\ stored' = stored \ {c}
            /\ IF c \in stored THEN Goes(k, [h EXCEPT !.drop = @ \ {c}]) ELSE Done(k)
    BY <1>13 DEF DropContext
  <2> DEFINE g == [h EXCEPT !.drop = h.drop \ {c}]
  <2>2. StoreInv' /\ MongoInv'
    BY <1>2, <1>13, <2>1, QuietMongo DEF DropContext
  <2>3. Goes(k, g) \/ Done(k)
    BY <2>1
  <2>4. h.pc = "drop"
    BY <1>13 DEF DropContext
  <2> HIDE DEF h
  <2>5. /\ g \in HandlerState /\ g.pc = "drop" /\ g.dig = h.dig /\ g.writes = h.writes
    BY <1>0, <2>4 DEF HandlerState
  <2> HIDE DEF g
  <2>6. Sound(g)
    BY <1>0, <2>4, <2>5 DEF Sound, Coherent, FirmWrites
  <2> QED BY <1>1, <2>2, <2>3, <2>6, GoesSound
<1>14. ASSUME Remove(k) PROVE TypeInv'
  <2>1. StoreInv' /\ ClientInv'
    BY <1>1, <1>14, QuietStore DEF Remove
  <2>2. Firm(NoInfo)
    BY DEF Firm, Instantiated, CurrentState, Exists, NoInfo
  <2>3. MongoInv'
    BY <1>14, <2>2, NoInfoType DEF Remove, MongoInv
  <2> QED BY <2>1, <2>3
<1>15. ASSUME Ends(k) PROVE TypeInv'
  BY <1>1, <1>15, QuietStore, QuietMongo DEF Ends
<1> QED BY <1>3, <1>4, <1>6, <1>7, <1>8, <1>9, <1>10, <1>11, <1>12, <1>13, <1>14, <1>15 DEF Continue

\* TypeInv is an invariant.
LEMMA TypeInvariance == Spec => []TypeInv
<1>1. Init => TypeInv
  <2> SUFFICES ASSUME Init PROVE TypeInv
    OBVIOUS
  <2>1. Firm(NoInfo)
    BY DEF Firm, Instantiated, CurrentState, Exists, NoInfo
  <2>2. StoreInv /\ MongoInv
    BY <2>1, InitStoreInv, NoInfoType DEF Init, MongoInv
  <2>3. Idle \in HandlerState
    BY IdleSound DEF Sound
  <2>4. ClientInv
    BY <2>3, IdleSound DEF Init, ClientInv
  <2> QED BY <2>2, <2>4 DEF TypeInv
<1>2. TypeInv /\ [Next]_vars => TypeInv'
  <2> SUFFICES ASSUME TypeInv, [Next]_vars PROVE TypeInv'
    OBVIOUS
  <2>1. ASSUME NEW k \in Clients, Start(k) \/ Continue(k) PROVE TypeInv'
    BY <2>1, StartTypeInv, ContinueTypeInv
  <2>2. ASSUME NEW c \in AppContexts, Rsync(c), UNCHANGED <<mongo, client>> PROVE TypeInv'
    BY <2>2, RsyncStoreInv, QuietMongo DEF TypeInv, ClientInv
  <2>3. CASE UNCHANGED vars
    BY <2>3, QuietStore, QuietMongo DEF TypeInv, ClientInv, vars
  <2> QED BY <2>1, <2>2, <2>3 DEF Next
<1> QED BY <1>1, <1>2, PTL DEF Spec

\* Every variable has its type, whatever handlers, rsync and faults do.
THEOREM TypeCorrect == Spec => []TypeOK
<1>1. TypeInv => TypeOK
  BY DEF TypeInv, StoreInv, MongoInv, ClientInv, TypeOK
<1> QED BY <1>1, TypeInvariance, PTL

-------------------------------------------------------------------------------
(* Versions of a record.                                                   *)

\* What a handler has read or is going to write of DIG d.
HasVersion(h, d, s) ==
    \/ h.dig = d /\ h.snap = s
    \/ \E i \in DOMAIN h.writes : h.writes[i] = To(d, s)

IsVersion(d, s) == s = info[d] \/ \E k \in Clients : HasVersion(client[k], d, s)

\* Versions of different DIGs name different AppContexts, and the AppContext of a
\* Migrate that waits for its target DIG is its own.
VersionInv ==
    /\ \A d \in Digs : \A s : IsVersion(d, s) =>
           ReportsTo(s, statusCtx) /\ ContextIds(s) \subseteq used
    /\ \A d \in Digs, e \in Digs : \A s, t :
           (IsVersion(d, s) /\ IsVersion(e, t) /\ d # e) => ContextIds(s) \cap ContextIds(t) = {}
    /\ \A k \in Clients : client[k].pc = "target" =>
           /\ client[k].target \in used
           /\ \A d \in Digs : \A s : IsVersion(d, s) => client[k].target \notin ContextIds(s)
           /\ \A j \in Clients :
                 (client[j].pc = "target" /\ client[j].target = client[k].target) => j = k

\* A version a handler makes: its AppContexts report to the one it names, and it
\* names those of an earlier version and new ones.
Inherited(d, s, new, f) ==
    /\ ReportsTo(s, f)
    /\ \E t : IsVersion(d, t) /\ ContextIds(s) \subseteq ContextIds(t) \cup new

\* Versions are records.
LEMMA VersionType ==
    ASSUME TypeInv, NEW d \in Digs, NEW s, IsVersion(d, s)
    PROVE  s \in StateInfo
<1>1. CASE s = info[d]
  BY <1>1 DEF TypeInv, MongoInv
<1>2. ASSUME NEW k \in Clients, HasVersion(client[k], d, s) PROVE s \in StateInfo
  <2>1. client[k].snap \in StateInfo /\ client[k].writes \in Seq(Write)
    BY DEF TypeInv, ClientInv, HandlerState
  <2>2. CASE client[k].snap = s
    BY <2>1, <2>2
  <2>3. ASSUME NEW i \in DOMAIN client[k].writes, client[k].writes[i] = To(d, s)
        PROVE  s \in StateInfo
    <3>1. To(d, s) \in Write
      BY <2>1, <2>3, LenProperties, ElementOfSeq
    <3> QED BY <3>1 DEF To, Write
  <2> QED BY <1>2, <2>2, <2>3 DEF HasVersion
<1> QED BY <1>1, <1>2 DEF IsVersion

\* No record is a version that names nothing.
LEMMA NoInfoInherited ==
    ASSUME NEW d \in Digs, NEW new, NEW f
    PROVE  Inherited(d, NoInfo, new, f)
<1>1. NoInfo.actions = <<>> /\ Len(NoInfo.actions) = 0 /\ DOMAIN NoInfo.actions = {}
  BY DEF NoInfo
<1>2. ReportsTo(NoInfo, f) /\ ContextIds(NoInfo) = {}
  BY <1>1 DEF ReportsTo, Lifetime, ContextIds
<1>3. IsVersion(d, info[d])
  BY DEF IsVersion
<1> QED BY <1>2, <1>3 DEF Inherited

\* An AppContext that no version names reports elsewhere: the records do not
\* notice.
LEMMA ReportsElsewhere ==
    ASSUME NEW s \in StateInfo, NEW f, NEW g, ReportsTo(s, f), NEW x,
           \A c \in AppContexts \ {x} : g[c] = f[c], x \notin ContextIds(s)
    PROVE  ReportsTo(s, g)
<1> SUFFICES ASSUME NEW i \in Lifetime(s), s.actions[i].ctx # NoContext,
                    \A j \in DOMAIN s.actions : s.actions[j].ctx = s.actions[i].ctx => j \in Lifetime(s)
             PROVE  g[s.actions[i].ctx] = s.statusCtx
  BY DEF ReportsTo
<1>1. i \in DOMAIN s.actions
  BY DEF Lifetime
<1>2. s.actions[i].ctx \in AppContexts /\ s.actions[i].ctx \in ContextIds(s)
  BY <1>1, ActionTypes DEF ContextIds
<1>3. f[s.actions[i].ctx] = s.statusCtx
  BY DEF ReportsTo
<1> QED BY <1>2, <1>3

\* A step of one handler kk, in which at most the AppContext x is added to the
\* versions of DIG dx.
LEMMA VersionStep ==
    ASSUME TypeInv, VersionInv, NEW kk \in Clients, NEW h, Goes(kk, h),
           NEW dx \in Digs, NEW x \in AppContexts \cup {NoContext},
           used \subseteq used', x = NoContext \/ x \in used',
           \A c \in AppContexts \ {x} : statusCtx'[c] = statusCtx[c],
           \A d \in Digs : \A s : IsVersion(d, s) => x \notin ContextIds(s),
           \A j \in Clients \ {kk} : client[j].pc = "target" => client[j].target # x,
           \A d \in Digs : info'[d] = NoInfo \/ IsVersion(d, info'[d]),
           \A d \in Digs : \A s : HasVersion(h, d, s) =>
               IsVersion(d, s) \/ Inherited(d, s, IF d = dx THEN {x} \ {NoContext} ELSE {}, statusCtx'),
           h.pc = "target" =>
               /\ x = NoContext
               /\ h.target \in used' \ used
               /\ \A d \in Digs : \A s : HasVersion(h, d, s) => IsVersion(d, s)
    PROVE  VersionInv'
<1> DEFINE new(d) == IF d = dx THEN {x} \ {NoContext} ELSE {}
<1>1. client'[kk] = h /\ \A j \in Clients \ {kk} : client'[j] = client[j]
  BY DEF Goes, TypeInv, ClientInv
<1>2. ASSUME NEW d \in Digs, NEW s, IsVersion(d, s)'
      PROVE  IsVersion(d, s) \/ s = NoInfo \/ HasVersion(h, d, s)
  <2>1. CASE s = info'[d]
    BY <2>1
  <2>2. ASSUME NEW j \in Clients, HasVersion(client'[j], d, s)
        PROVE  IsVersion(d, s) \/ HasVersion(h, d, s)
    <3>1. CASE j = kk
      BY <1>1, <2>2, <3>1
    <3>2. CASE j # kk
      <4>1. HasVersion(client[j], d, s)
        BY <1>1, <2>2, <3>2
      <4> QED BY <4>1 DEF IsVersion
    <3> QED BY <3>1, <3>2
  <2>3. s = info'[d] \/ \E j \in Clients : HasVersion(client'[j], d, s)
    BY <1>2 DEF IsVersion, HasVersion
  <2> QED BY <2>1, <2>2, <2>3
<1>3. ASSUME NEW d \in Digs, NEW s, IsVersion(d, s)'
      PROVE  Inherited(d, s, new(d), statusCtx')
  <2>1. CASE IsVersion(d, s)
    <3>1. s \in StateInfo
      BY <2>1, VersionType
    <3>2. ReportsTo(s, statusCtx) /\ x \notin ContextIds(s)
      BY <2>1 DEF VersionInv
    <3>3. ReportsTo(s, statusCtx')
      BY <3>1, <3>2, ReportsElsewhere
    <3> QED BY <2>1, <3>2, <3>3 DEF Inherited
  <2>2. CASE s = NoInfo
    BY <2>2, NoInfoInherited
  <2> QED BY <1>2, <1>3, <2>1, <2>2
<1>4. ASSUME NEW d \in Digs, NEW s, IsVersion(d, s)'
      PROVE  \E t : IsVersion(d, t) /\ ContextIds(s) \subseteq ContextIds(t) \cup new(d)
  BY <1>3, <1>4 DEF Inherited
<1> HIDE DEF new
<1>5. \A d \in Digs : new(d) \subseteq {x} \ {NoContext} /\ (new(d) # {} => d = dx)
  BY DEF new
<1>6. ASSUME NEW d \in Digs, NEW s, IsVersion(d, s)'
      PROVE  ReportsTo(s, statusCtx') /\ ContextIds(s) \subseteq used'
  <2>1. PICK t : IsVersion(d, t) /\ ContextIds(s) \subseteq ContextIds(t) \cup new(d)
    BY <1>4, <1>6
  <2>2. ContextIds(t) \subseteq used
    BY <2>1 DEF VersionInv
  <2> QED BY <1>3, <1>5, <1>6, <2>1, <2>2 DEF Inherited
<1>7. ASSUME NEW d \in Digs, NEW e \in Digs, NEW s, NEW t, IsVersion(d, s)', IsVersion(e, t)', d # e
      PROVE  ContextIds(s) \cap ContextIds(t) = {}
  <2>1. PICK u : IsVersion(d, u) /\ ContextIds(s) \subseteq ContextIds(u) \cup new(d)
    BY <1>4, <1>7
  <2>2. PICK v : IsVersion(e, v) /\ ContextIds(t) \subseteq ContextIds(v) \cup new(e)
    BY <1>4, <1>7
  <2>3. ContextIds(u) \cap ContextIds(v) = {}
    BY <1>7, <2>1, <2>2 DEF VersionInv
  <2>4. x \notin ContextIds(u) /\ x \notin ContextIds(v)
    BY <2>1, <2>2
  <2>5. new(d) = {} \/ new(e) = {}
    BY <1>5, <1>7
  <2> QED BY <1>5, <2>1, <2>2, <2>3, <2>4, <2>5
<1>8. ASSUME NEW k \in Clients, client'[k].pc = "target"
      PROVE  /\ client'[k].target \in used'
             /\ \A d \in Digs : \A s : IsVersion(d, s)' => client'[k].target \notin ContextIds(s)
             /\ \A j \in Clients :
                   (client'[j].pc = "target" /\ client'[j].target = client'[k].target) => j = k
  <2>1. CASE k = kk
    <3>1. h.pc = "target" /\ client'[k] = h /\ h.target \in used' \ used /\ x = NoContext
      BY <1>1, <1>8, <2>1
    <3>2. ASSUME NEW d \in Digs, NEW s, IsVersion(d, s)' PROVE h.target \notin ContextIds(s)
      <4>1. PICK u : IsVersion(d, u) /\ ContextIds(s) \subseteq ContextIds(u) \cup new(d)
        BY <1>4, <3>2
      <4>2. ContextIds(u) \subseteq used
        BY <4>1 DEF VersionInv
      <4> QED BY <1>5, <3>1, <4>1, <4>2
    <3>3. ASSUME NEW j \in Clients, client'[j].pc = "target", client'[j].target = h.target, j # kk
          PROVE  FALSE
      <4>1. client[j].pc = "target" /\ client[j].target = h.target
        BY <1>1, <3>3
      <4>2. client[j].target \in used
        BY <4>1 DEF VersionInv
      <4> QED BY <3>1, <4>1, <4>2
    <3> QED BY <2>1, <3>1, <3>2, <3>3
  <2>2. CASE k # kk
    <3>1. client'[k] = client[k] /\ client[k].pc = "target" /\ client[k].target # x
      BY <1>1, <1>8, <2>2
    <3>2. client[k].target \in used
      BY <3>1 DEF VersionInv
    <3>3. ASSUME NEW d \in Digs, NEW s, IsVersion(d, s)' PROVE client[k].target \notin ContextIds(s)
      <4>1. PICK u : IsVersion(d, u) /\ ContextIds(s) \subseteq ContextIds(u) \cup new(d)
        BY <1>4, <3>3
      <4>2. client[k].target \notin ContextIds(u)
        BY <3>1, <4>1 DEF VersionInv
      <4> QED BY <1>5, <3>1, <4>1, <4>2
    <3>4. ASSUME NEW j \in Clients, client'[j].pc = "target", client'[j].target = client[k].target
          PROVE  j = k
      <4>1. CASE j = kk
        BY <1>1, <3>2, <3>4, <4>1
      <4>2. CASE j # kk
        <5>1. client[j].pc = "target" /\ client[j].target = client[k].target
          BY <1>1, <3>4, <4>2
        <5> QED BY <3>1, <5>1 DEF VersionInv
      <4> QED BY <4>1, <4>2
    <3> QED BY <3>1, <3>2, <3>3, <3>4
  <2> QED BY <2>1, <2>2
<1> QED BY <1>6, <1>7, <1>8 DEF VersionInv

\* The same for a handler that makes no AppContext.
LEMMA QuietVersions ==
    ASSUME TypeInv, VersionInv, NEW k \in Clients, NEW h, Goes(k, h), NEW dx \in Digs,
           UNCHANGED <<used, statusCtx>>, h.pc # "target",
           \A d \in Digs : info'[d] = NoInfo \/ IsVersion(d, info'[d]),
           \A d \in Digs : \A s : HasVersion(h, d, s) => IsVersion(d, s) \/ Inherited(d, s, {}, statusCtx)
    PROVE  VersionInv'
<1>1. \A d \in Digs : \A s : IsVersion(d, s) => NoContext \notin ContextIds(s)
  BY DEF ContextIds
<1>2. \A d \in Digs : (IF d = dx THEN {NoContext} \ {NoContext} ELSE {}) = {}
  OBVIOUS
<1>3. \A j \in Clients \ {k} : client[j].pc = "target" => client[j].target # NoContext
  BY ContextAssumption DEF TypeInv, ClientInv, Sound, Coherent
<1>4. \A d \in Digs : \A s : HasVersion(h, d, s) =>
          IsVersion(d, s)
          \/ Inherited(d, s, IF d = dx THEN {NoContext} \ {NoContext} ELSE {}, statusCtx')
  BY <1>2
<1> QED BY <1>1, <1>3, <1>4, VersionStep

\* Two writes are the same only when the DIGs and the StateInfos are.
LEMMA SameWrite == \A g, s, d, t : To(g, s) = To(d, t) => g = d /\ s = t
  BY DEF To

\* The versions of a handler that is to write one StateInfo.
LEMMA OneWritten ==
    ASSUME NEW h, NEW d, NEW t, h.writes = <<To(d, t)>>, NEW g, NEW s, HasVersion(h, g, s)
    PROVE  (h.dig = g /\ h.snap = s) \/ (g = d /\ s = t)
<1>1. ASSUME NEW i \in DOMAIN h.writes, h.writes[i] = To(g, s) PROVE g = d /\ s = t
  <2>1. h.writes[i] = To(d, t)
    BY <1>1
  <2> QED BY <1>1, <2>1, SameWrite
<1> QED BY <1>1 DEF HasVersion

\* The versions of a handler that is to write two.
LEMMA TwoWritten ==
    ASSUME NEW h, NEW d, NEW t, NEW e, NEW u,
           DOMAIN h.writes = {1, 2}, h.writes[1] = To(d, t), h.writes[2] = To(e, u),
           NEW g, NEW s, HasVersion(h, g, s)
    PROVE  (h.dig = g /\ h.snap = s) \/ (g = d /\ s = t) \/ (g = e /\ s = u)
<1>1. ASSUME NEW i \in DOMAIN h.writes, h.writes[i] = To(g, s)
      PROVE  (g = d /\ s = t) \/ (g = e /\ s = u)
  <2>1. h.writes[i] = To(d, t) \/ h.writes[i] = To(e, u)
    BY <1>1
  <2> QED BY <1>1, <2>1, SameWrite
<1> QED BY <1>1 DEF HasVersion

\* A version with one more action.
LEMMA ActionInherited ==
    ASSUME NEW d \in Digs, NEW s \in StateInfo, IsVersion(d, s),
           NEW f, ReportsTo(s, f), NEW new,
           NEW st \in States, NEW c \in AppContexts \cup {NoContext}, NEW r \in Nat,
           c \in ContextIds(s) \cup {NoContext} \cup new,
           \/ st \in {"Approved", "Terminated", "TerminateStopped"}
           \/ c = NoContext \/ c \in ContextIds(s) \/ f[c] = s.statusCtx
    PROVE  Inherited(d, WithAction(s, st, c, r), new, f)
<1>1. ReportsTo(WithAction(s, st, c, r), f)
  BY AppendReports
<1>2. ContextIds(WithAction(s, st, c, r)) \subseteq ContextIds(s) \cup new
  BY AppendContexts
<1> QED BY <1>1, <1>2 DEF Inherited

\* The last AppContext of a record is one it names, or none.
LEMMA LastContextNamed ==
    ASSUME NEW s \in StateInfo, Exists(s)
    PROVE  LastContextId(s) \in ContextIds(s) \cup {NoContext}
  BY LastActionType DEF ContextIds, LastContextId

\* The two versions of an Update or a Rollback.
LEMMA SuccessorInherited ==
    ASSUME NEW d \in Digs, NEW s \in StateInfo, IsVersion(d, s), Exists(s),
           NEW f, ReportsTo(s, f), NEW new, NEW c \in AppContexts \cup {NoContext},
           c \in ContextIds(s) \cup {NoContext} \/ (c \in new /\ f[c] = s.statusCtx)
    PROVE  Inherited(d, Replaced(s), new, f) /\ Inherited(d, Successor(s, c), new, f)
<1> DEFINE l == LastContextId(s)
           t == Replaced(s)
           u == Successor(s, c)
<1>1. /\ t \in StateInfo /\ l \in AppContexts \cup {NoContext} /\ LatestRevision(s) \in Nat
      /\ LatestRevision(t) = LatestRevision(s) /\ t.statusCtx = s.statusCtx
  BY SuccessorType
<1>2. l \in ContextIds(s) \cup {NoContext}
  BY LastContextNamed
<1>3. "Updated" \in States /\ "Instantiated" \in States
  BY DEF States
<1> DEFINE r == LatestRevision(s)
<1>4. t = WithAction(s, "Updated", l, r) /\ u = WithAction(t, "Instantiated", c, r + 1)
  BY DEF Replaced, Successor
<1>5. r \in Nat /\ r + 1 \in Nat
  BY <1>1
<1> HIDE DEF l, t, u, r
<1>6. Inherited(d, t, new, f)
  BY <1>1, <1>2, <1>3, <1>4, <1>5, ActionInherited
<1>7. ReportsTo(t, f)
  BY <1>6 DEF Inherited
<1>8. ContextIds(t) \subseteq ContextIds(s)
  BY <1>1, <1>2, <1>3, <1>4, <1>5, AppendContexts
<1>9. ReportsTo(u, f)
  <2>1. s.actions \in Seq(ActionEntry) /\ ContextIds(s) \subseteq ContextIds(t)
    <3>1. /\ Len(t.actions) = Len(s.actions) + 1
          /\ \A i \in 1 .. Len(s.actions) : t.actions[i] = s.actions[i]
      <4>1. LET w == WithAction(s, "Updated", l, r) IN
              /\ Len(w.actions) = Len(s.actions) + 1
              /\ \A i \in 1 .. Len(s.actions) : w.actions[i] = s.actions[i]
        BY <1>1, <1>3, <1>5, WithActionType, ZenonT(60)
      <4> QED BY <1>4, <4>1
    <3>2. /\ DOMAIN s.actions = 1 .. Len(s.actions) /\ Len(s.actions) \in Nat
          /\ DOMAIN t.actions = 1 .. Len(s.actions) + 1
      BY <1>1, <3>1, ActionTypes
    <3>3. \A i \in DOMAIN s.actions : i \in DOMAIN t.actions /\ t.actions[i] = s.actions[i]
      BY <3>1, <3>2
    <3> QED BY <3>3 DEF ContextIds, StateInfo
  <2>2. c = NoContext \/ c \in ContextIds(t) \/ f[c] = t.statusCtx
    BY <1>1, <2>1
  <2> QED BY <1>1, <1>3, <1>4, <1>5, <1>7, <2>2, AppendReports
<1>10. ContextIds(u) \subseteq ContextIds(t) \cup ({c} \ {NoContext})
  BY <1>1, <1>3, <1>4, <1>5, AppendContexts
<1>11. Inherited(d, u, new, f)
  BY <1>8, <1>9, <1>10 DEF Inherited
<1> QED BY <1>6, <1>11 DEF t, u

\* The version of an instantiation, which begins another life.
LEMMA InstantiationInherited ==
    ASSUME NEW d \in Digs, NEW s \in StateInfo, IsVersion(d, s),
           CurrentState(s) \in {"Approved", "Terminated", "TerminateStopped"},
           NEW c \in AppContexts, NEW r \in Nat, NEW f, NEW z \in AppContexts \cup {NoContext},
           f[c] = z, NEW new, c \in new
    PROVE  Inherited(d, [WithAction(s, "Instantiated", c, r) EXCEPT !.statusCtx = z], new, f)
<1> DEFINE u == WithAction(s, "Instantiated", c, r)
           t == [u EXCEPT !.statusCtx = z]
<1>1. t.actions = u.actions /\ ReportsTo(t, f)
  BY OpenReports
<1>2. "Instantiated" \in States
  BY DEF States
<1>3. ContextIds(u) \subseteq ContextIds(s) \cup {c}
  BY <1>2, AppendContexts
<1> HIDE DEF u, t
<1>4. ContextIds(t) = ContextIds(u)
  BY <1>1 DEF ContextIds
<1>5. Inherited(d, t, new, f)
  BY <1>1, <1>3, <1>4 DEF Inherited
<1> QED BY <1>5 DEF t, u

\* An AppContext that has not been drawn is named nowhere.
LEMMA FreshContext ==
    ASSUME TypeInv, VersionInv, NEW c \in AppContexts \ used
    PROVE  /\ \A d \in Digs : \A s : IsVersion(d, s) => c \notin ContextIds(s)
           /\ \A j \in Clients : client[j].pc = "target" => client[j].target # c
  BY DEF VersionInv

\* A client calls an operation.
LEMMA StartVersions ==
    ASSUME TypeInv, VersionInv, NEW k \in Clients, Start(k)
    PROVE  VersionInv'
<1>0. \A d \in Digs : /\ IsVersion(d, info[d]) /\ info[d] \in StateInfo
                      /\ ReportsTo(info[d], statusCtx)
  BY DEF IsVersion, VersionInv, TypeInv, MongoInv
<1>1. /\ NoContext \in AppContexts \cup {NoContext} /\ 0 \in Nat /\ 1 \in Nat
      /\ {"Created", "Approved", "Terminated", "InstantiateStopped", "TerminateStopped"} \subseteq States
  BY DEF States
\* A handler that makes no AppContext and is to write one StateInfo.
<1>2. ASSUME NEW d \in Digs, NEW op \in OperationKinds, NEW pc \in PCs \ {"target"}, NEW h, Goes(k, h),
             h.pc = pc, h.dig = d, h.snap = NoInfo, UNCHANGED <<etcd, mongo>>,
             NEW t, h.writes = <<To(d, t)>>, Inherited(d, t, {}, statusCtx)
      PROVE  VersionInv'
  <2>1. \A e \in Digs : \A s : HasVersion(h, e, s) => s = NoInfo \/ (e = d /\ s = t)
    BY <1>2, OneWritten
  <2>2. \A e \in Digs : \A s : HasVersion(h, e, s) => Inherited(e, s, {}, statusCtx)
    BY <1>2, <2>1, NoInfoInherited
  <2> QED BY <1>0, <1>2, <2>2, QuietVersions DEF etcd, mongo
<1>3. ASSUME NEW d \in Digs, Create(k, d) PROVE VersionInv'
  <2> DEFINE t == WithAction(NoInfo, "Created", NoContext, 0)
             b == Handler("Create", d, "group")
             h == [b EXCEPT !.writes = <<To(d, t)>>]
  <2>1. Goes(k, h) /\ UNCHANGED <<etcd, mongo>>
    BY <1>3 DEF Create
  <2>2. Inherited(d, t, {}, statusCtx)
    <3>1. /\ NoInfo.actions = <<>> /\ Len(NoInfo.actions) = 0 /\ DOMAIN NoInfo.actions = {}
          /\ ~Exists(NoInfo)
      BY DEF NoInfo, Exists
    <3>2. ReportsTo(NoInfo, statusCtx) /\ ContextIds(NoInfo) = {}
      BY <3>1 DEF ReportsTo, Lifetime, ContextIds
    <3>3. ReportsTo(t, statusCtx)
      BY <1>1, <3>2, NoInfoType, AppendReports
    <3>4. ContextIds(t) \subseteq ContextIds(NoInfo) \cup ({NoContext} \ {NoContext})
      BY <1>1, NoInfoType, AppendContexts
    <3> HIDE DEF t
    <3> QED BY <1>0, <3>2, <3>3, <3>4 DEF Inherited
  <2> HIDE DEF t
  <2>3. "Create" \in OperationKinds /\ "group" \in PCs
    BY DEF OperationKinds, PCs
  <2>4. b \in HandlerState /\ b.pc = "group" /\ b.dig = d /\ b.snap = NoInfo
    BY <2>3, HandlerType
  <2> HIDE DEF b
  <2>5. h.pc = "group" /\ h.dig = d /\ h.snap = NoInfo /\ h.writes = <<To(d, t)>>
    BY <2>4 DEF HandlerState
  <2> HIDE DEF h
  <2> QED BY <1>2, <2>1, <2>2, <2>3, <2>5
<1>4. ASSUME NEW d \in Digs, Approve(k, d) PROVE VersionInv'
  <2> DEFINE t == WithAction(info[d], "Approved", NoContext, 0)
             b == Handler("Approve", d, "insert")
             h == [b EXCEPT !.writes = <<To(d, t)>>]
  <2>1. Goes(k, h) /\ UNCHANGED <<etcd, mongo>>
    BY <1>4 DEF Approve
  <2>2. Inherited(d, t, {}, statusCtx)
    BY <1>0, <1>1, ActionInherited
  <2> HIDE DEF t
  <2>3. "Approve" \in OperationKinds /\ "insert" \in PCs
    BY DEF OperationKinds, PCs
  <2>4. b \in HandlerState /\ b.pc = "insert" /\ b.dig = d /\ b.snap = NoInfo
    BY <2>3, HandlerType
  <2> HIDE DEF b
  <2>5. h.pc = "insert" /\ h.dig = d /\ h.snap = NoInfo /\ h.writes = <<To(d, t)>>
    BY <2>4 DEF HandlerState
  <2> HIDE DEF h
  <2> QED BY <1>2, <2>1, <2>2, <2>3, <2>5
<1>5. ASSUME NEW d \in Digs, Terminate(k, d) PROVE VersionInv'
  <2> DEFINE c == LastContextId(info[d])
             pc == IF CurrentState(info[d]) = "Instantiated" THEN "call" ELSE "flag"
             t == WithAction(info[d], "Terminated", c, 0)
             b == Handler("Terminate", d, pc)
             h == [b EXCEPT !.ctx = c, !.writes = <<To(d, t)>>]
  <2>1. Goes(k, h) /\ UNCHANGED <<etcd, mongo>> /\ Instantiated(info[d])
    BY <1>5 DEF Terminate
  <2>2. c \in ContextIds(info[d]) \cup {NoContext} /\ c \in AppContexts \cup {NoContext}
    BY <2>1, InstantiatedInfo DEF TypeInv
  <2>3. "Terminate" \in OperationKinds /\ pc \in PCs \ {"target"}
    BY DEF OperationKinds, PCs
  <2> HIDE DEF c, pc
  <2>4. Inherited(d, t, {}, statusCtx)
    BY <1>0, <1>1, <2>2, ActionInherited
  <2> HIDE DEF t
  <2>5. b \in HandlerState /\ b.pc = pc /\ b.dig = d /\ b.snap = NoInfo
    BY <2>3, HandlerType
  <2> HIDE DEF b
  <2>6. h.pc = pc /\ h.dig = d /\ h.snap = NoInfo /\ h.writes = <<To(d, t)>>
    BY <2>5 DEF HandlerState
  <2> HIDE DEF h
  <2> QED BY <1>2, <2>1, <2>3, <2>4, <2>6
<1>6. ASSUME NEW d \in Digs, Stop(k, d) PROVE VersionInv'
  <2> DEFINE c == LastContextId(info[d])
             st == IF CurrentState(info[d]) = "Instantiated"
                   THEN "InstantiateStopped" ELSE "TerminateStopped"
             t == WithAction(info[d], st, c, 0)
             b == Handler("Stop", d, "check")
             h == [b EXCEPT !.ctx = c, !.writes = <<To(d, t)>>]
  <2>1. Goes(k, h) /\ UNCHANGED <<etcd, mongo>> /\ CurrentState(info[d]) \in {"Instantiated", "Terminated"}
    BY <1>6 DEF Stop
  <2>2. Exists(info[d])
    BY <2>1 DEF CurrentState
  <2>3. c \in ContextIds(info[d]) \cup {NoContext} /\ c \in AppContexts \cup {NoContext}
    BY <1>0, <2>2, LastContextNamed, LastActionType
  <2>4. "Stop" \in OperationKinds /\ "check" \in PCs /\ st \in States /\ st \notin {"Instantiated", "Updated"}
    BY DEF OperationKinds, PCs, States
  <2> HIDE DEF c, st
  <2>5. Inherited(d, t, {}, statusCtx)
    BY <1>0, <1>1, <2>3, <2>4, ActionInherited
  <2> HIDE DEF t
  <2>6. b \in HandlerState /\ b.pc = "check" /\ b.dig = d /\ b.snap = NoInfo
    BY <2>4, HandlerType
  <2> HIDE DEF b
  <2>7. h.pc = "check" /\ h.dig = d /\ h.snap = NoInfo /\ h.writes = <<To(d, t)>>
    BY <2>6 DEF HandlerState
  <2> HIDE DEF h
  <2> QED BY <1>2, <2>1, <2>4, <2>5, <2>7
<1>7. ASSUME NEW d \in Digs, Instantiate(k, d) PROVE VersionInv'
  <2>1. PICK c \in AppContexts :
            /\ MakeAppContext(c)
            /\ UpdateAppContextStatusContextID(c, c)
            /\ Goes(k, [Handler("Instantiate", d, "call") EXCEPT
                   !.target = c,
                   !.writes = <<To(d, [WithAction(info[d], "Instantiated", c, 1) EXCEPT
                                          !.statusCtx = c])>>])
    BY <1>7 DEF Instantiate
  <2> DEFINE t == [WithAction(info[d], "Instantiated", c, 1) EXCEPT !.statusCtx = c]
             b == Handler("Instantiate", d, "call")
             h == [b EXCEPT !.target = c, !.writes = <<To(d, t)>>]
  <2>2. /\ c \notin used /\ used' = used \cup {c} /\ statusCtx'[c] = c
        /\ \A x \in AppContexts \ {c} : statusCtx'[x] = statusCtx[x]
    BY <2>1, StatusType DEF MakeAppContext, TypeInv
  <2>3. Inherited(d, t, {c}, statusCtx')
    <3>1. CurrentState(info[d]) \in {"Approved", "Terminated", "TerminateStopped"} /\ c \in {c}
      BY <1>7 DEF Instantiate
    <3> QED BY <1>0, <1>1, <2>2, <3>1, InstantiationInherited
  <2>4. Goes(k, h)
    BY <2>1
  <2> HIDE DEF t
  <2>5. "Instantiate" \in OperationKinds /\ "call" \in PCs
    BY DEF OperationKinds, PCs
  <2>6. b \in HandlerState /\ b.pc = "call" /\ b.dig = d /\ b.snap = NoInfo
    BY <2>5, HandlerType
  <2> HIDE DEF b
  <2>7. h.pc = "call" /\ h.dig = d /\ h.snap = NoInfo /\ h.writes = <<To(d, t)>>
    BY <2>6 DEF HandlerState
  <2> HIDE DEF h
  <2>8. \A e \in Digs : \A s : HasVersion(h, e, s) => s = NoInfo \/ (e = d /\ s = t)
    BY <2>7, OneWritten
  <2>9. \A e \in Digs : \A s : HasVersion(h, e, s) =>
            Inherited(e, s, IF e = d THEN {c} \ {NoContext} ELSE {}, statusCtx')
    <3>1. {c} \ {NoContext} = {c}
      BY ContextAssumption
    <3> QED BY <2>3, <2>8, <3>1, NoInfoInherited
  <2>10. \A e \in Digs : info'[e] = NoInfo \/ IsVersion(e, info'[e])
    BY <1>0, <1>7 DEF Instantiate, mongo
  <2> QED BY <2>2, <2>4, <2>7, <2>9, <2>10, FreshContext, VersionStep, SMTT(40)
<1>8. ASSUME NEW d \in Digs, Update(k, d) PROVE VersionInv'
  <2>1. PICK c \in AppContexts :
            /\ MakeAppContext(c)
            /\ UpdateAppContextStatusContextID(c, info[d].statusCtx)
            /\ Goes(k, [Handler("Update", d, "call") EXCEPT
                   !.ctx = LastContextId(info[d]), !.target = c,
                   !.writes = <<To(d, Replaced(info[d])), To(d, Successor(info[d], c))>>])
    BY <1>8 DEF Update
  <2> DEFINE l == LastContextId(info[d])
             t == Replaced(info[d])
             u == Successor(info[d], c)
             b == Handler("Update", d, "call")
             h == [b EXCEPT !.ctx = l, !.target = c, !.writes = <<To(d, t), To(d, u)>>]
  <2>2. Exists(info[d]) /\ info[d].statusCtx \in AppContexts \cup {NoContext}
    BY <1>8, InstantiatedInfo DEF Update, TypeInv, StateInfo
  <2>3. /\ c \notin used /\ used' = used \cup {c} /\ statusCtx'[c] = info[d].statusCtx
        /\ \A x \in AppContexts \ {c} : statusCtx'[x] = statusCtx[x]
    BY <2>1, <2>2, StatusType DEF MakeAppContext, TypeInv
  <2>4. Inherited(d, t, {c}, statusCtx') /\ Inherited(d, u, {c}, statusCtx')
    <3>1. ReportsTo(info[d], statusCtx')
      BY <1>0, <2>3, FreshContext, ReportsElsewhere
    <3> QED BY <1>0, <2>2, <2>3, <3>1, SuccessorInherited
  <2>5. Goes(k, h)
    BY <2>1
  <2> HIDE DEF t, u, l
  <2>6. "Update" \in OperationKinds /\ "call" \in PCs
    BY DEF OperationKinds, PCs
  <2>7. b \in HandlerState /\ b.pc = "call" /\ b.dig = d /\ b.snap = NoInfo
    BY <2>6, HandlerType
  <2> HIDE DEF b
  <2>8. h.pc = "call" /\ h.dig = d /\ h.snap = NoInfo /\ h.writes = <<To(d, t), To(d, u)>>
    BY <2>7 DEF HandlerState
  <2> HIDE DEF h
  <2>9. ASSUME NEW e \in Digs, NEW s, HasVersion(h, e, s)
        PROVE  s = NoInfo \/ (e = d /\ (s = t \/ s = u))
    <3>1. DOMAIN h.writes = {1, 2} /\ h.writes[1] = To(d, t) /\ h.writes[2] = To(d, u)
      BY <2>8
    <3>2. (h.dig = e /\ h.snap = s) \/ (e = d /\ s = t) \/ (e = d /\ s = u)
      BY <2>9, <3>1, TwoWritten
    <3> QED BY <2>8, <3>2
  <2>10. \A e \in Digs : \A s : HasVersion(h, e, s) =>
            Inherited(e, s, IF e = d THEN {c} \ {NoContext} ELSE {}, statusCtx')
    <3>1. {c} \ {NoContext} = {c}
      BY ContextAssumption
    <3> QED BY <2>4, <2>9, <3>1, NoInfoInherited
  <2>11. \A e \in Digs : info'[e] = NoInfo \/ IsVersion(e, info'[e])
    BY <1>0, <1>8 DEF Update, mongo
  <2> QED BY <2>3, <2>5, <2>8, <2>10, <2>11, FreshContext, VersionStep
<1>9. ASSUME NEW d \in Digs, Rollback(k, d) PROVE VersionInv'
  <2>1. PICK r \in 0 .. MaxActions :
            /\ Matching(info[d], r) # {}
            /\ Goes(k, [Handler("Rollback", d, "call") EXCEPT
                   !.ctx = LastContextId(info[d]), !.target = MatchingContext(info[d], r),
                   !.writes = <<To(d, Replaced(info[d])),
                                To(d, Successor(info[d], MatchingContext(info[d], r)))>>])
    BY <1>9 DEF Rollback
  <2> DEFINE l == LastContextId(info[d])
             c == MatchingContext(info[d], r)
             t == Replaced(info[d])
             u == Successor(info[d], c)
             b == Handler("Rollback", d, "call")
             h == [b EXCEPT !.ctx = l, !.target = c, !.writes = <<To(d, t), To(d, u)>>]
  <2>2. Exists(info[d]) /\ UNCHANGED <<etcd, mongo>>
    BY <1>9 DEF Rollback
  <2>3. c \in AppContexts \cup {NoContext} /\ c \in ContextIds(info[d]) \cup {NoContext}
    BY <1>0, <2>1, MatchingType
  <2>4. Goes(k, h)
    BY <2>1
  <2> HIDE DEF c
  <2>5. Inherited(d, t, {}, statusCtx) /\ Inherited(d, u, {}, statusCtx)
    BY <1>0, <2>2, <2>3, SuccessorInherited
  <2> HIDE DEF t, u, l
  <2>6. "Rollback" \in OperationKinds /\ "call" \in PCs
    BY DEF OperationKinds, PCs
  <2>7. b \in HandlerState /\ b.pc = "call" /\ b.dig = d /\ b.snap = NoInfo
    BY <2>6, HandlerType
  <2> HIDE DEF b
  <2>8. h.pc = "call" /\ h.dig = d /\ h.snap = NoInfo /\ h.writes = <<To(d, t), To(d, u)>>
    BY <2>7 DEF HandlerState
  <2> HIDE DEF h
  <2>9. ASSUME NEW e \in Digs, NEW s, HasVersion(h, e, s)
        PROVE  s = NoInfo \/ (e = d /\ (s = t \/ s = u))
    <3>1. DOMAIN h.writes = {1, 2} /\ h.writes[1] = To(d, t) /\ h.writes[2] = To(d, u)
      BY <2>8
    <3>2. (h.dig = e /\ h.snap = s) \/ (e = d /\ s = t) \/ (e = d /\ s = u)
      BY <2>9, <3>1, TwoWritten
    <3> QED BY <2>8, <3>2
  <2>10. \A e \in Digs : \A s : HasVersion(h, e, s) => Inherited(e, s, {}, statusCtx)
    BY <2>5, <2>9, NoInfoInherited
  <2> QED BY <1>0, <2>2, <2>4, <2>8, <2>10, QuietVersions DEF etcd, mongo
<1>10. ASSUME NEW d \in Digs, NEW e \in Digs, Migrate(k, d, e) PROVE VersionInv'
  <2>1. PICK c \in AppContexts :
            /\ MakeAppContext(c)
            /\ Goes(k, [Handler("Migrate", d, "target") EXCEPT
                   !.peer = e, !.snap = info[d], !.ctx = LastContextId(info[d]), !.target = c])
    BY <1>10 DEF Migrate
  <2> DEFINE l == LastContextId(info[d])
             i == info[d]
             b == Handler("Migrate", d, "target")
             h == [b EXCEPT !.peer = e, !.snap = i, !.ctx = l, !.target = c]
  <2>2. c \notin used /\ used' = used \cup {c} /\ UNCHANGED <<mongo, statusCtx>>
    BY <1>10, <2>1 DEF MakeAppContext, Migrate
  <2>3. Goes(k, h)
    BY <2>1
  <2>4. "Migrate" \in OperationKinds /\ "target" \in PCs
    BY DEF OperationKinds, PCs
  <2>5. b \in HandlerState /\ b.pc = "target" /\ b.dig = d /\ b.writes = <<>>
    BY <2>4, HandlerType
  <2> HIDE DEF b, l, i
  <2>6. h.dig = d /\ h.snap = i /\ h.target = c /\ h.writes = <<>>
    BY <2>5 DEF HandlerState
  <2> HIDE DEF h
  <2>7. \A g \in Digs : \A s : HasVersion(h, g, s) => IsVersion(g, s)
    BY <1>0, <2>6 DEF HasVersion, i
  <2>8. \A g \in Digs : \A s : IsVersion(g, s) => NoContext \notin ContextIds(s)
    BY DEF ContextIds
  <2>9. \A j \in Clients \ {k} : client[j].pc = "target" => client[j].target # NoContext
    BY ContextAssumption DEF TypeInv, ClientInv, Sound, Coherent
  <2>10. \A g \in Digs : info'[g] = NoInfo \/ IsVersion(g, info'[g])
    BY <1>0, <2>2 DEF mongo
  <2> QED BY <1>1, <2>2, <2>3, <2>6, <2>7, <2>8, <2>9, <2>10, VersionStep
<1>11. ASSUME NEW d \in Digs, Delete(k, d) PROVE VersionInv'
  <2>1. UNCHANGED <<etcd, mongo>>
    BY <1>11 DEF Delete
  <2>2. ASSUME NEW h, Goes(k, h), h.pc # "target", h.snap = NoInfo, h.writes = <<>> PROVE VersionInv'
    <3>1. \A e \in Digs : \A s : HasVersion(h, e, s) => s = NoInfo
      BY <2>2 DEF HasVersion
    <3>2. \A e \in Digs : \A s : HasVersion(h, e, s) => Inherited(e, s, {}, statusCtx)
      BY <3>1, NoInfoInherited
    <3> QED BY <1>0, <2>1, <2>2, <3>2, QuietVersions DEF etcd, mongo
  <2> DEFINE l == LastContextId(info[d])
             z == ContextIds(info[d])
             b == Handler("Delete", d, "check")
             h == [b EXCEPT !.ctx = l, !.drop = z]
             r == Handler("Delete", d, "remove")
  <2>3. Goes(k, h) \/ Goes(k, r)
    BY <1>11 DEF Delete
  <2>4. "Delete" \in OperationKinds /\ "check" \in PCs /\ "remove" \in PCs
    BY DEF OperationKinds, PCs
  <2>5. b \in HandlerState /\ b.pc = "check" /\ b.snap = NoInfo /\ b.writes = <<>>
    BY <2>4, HandlerType
  <2>6. r.pc = "remove" /\ r.snap = NoInfo /\ r.writes = <<>>
    BY <2>4, HandlerType
  <2> HIDE DEF b, l, z, r
  <2>7. h.pc = "check" /\ h.snap = NoInfo /\ h.writes = <<>>
    BY <2>5 DEF HandlerState
  <2> HIDE DEF h
  <2> QED BY <2>2, <2>3, <2>6, <2>7
<1> QED BY <1>3, <1>4, <1>5, <1>6, <1>7, <1>8, <1>9, <1>10, <1>11 DEF Start

\* A client goes on.
LEMMA ContinueVersions ==
    ASSUME TypeInv, VersionInv, NEW k \in Clients, Continue(k)
    PROVE  VersionInv'
<1> DEFINE h == client[k]
<1>0. /\ \A d \in Digs : IsVersion(d, info[d])
      /\ Sound(h) /\ h \in HandlerState
      /\ \A d, s : HasVersion(h, d, s) => IsVersion(d, s)
  BY DEF IsVersion, TypeInv, ClientInv, Sound
\* The handler ends.
<1>1. ASSUME h.pc # "idle", Done(k), UNCHANGED <<used, statusCtx>>,
             \A d \in Digs : info'[d] = NoInfo \/ IsVersion(d, info'[d])
      PROVE  VersionInv'
  <2>1. h.dig \in Digs
    BY <1>0, <1>1 DEF Sound, Coherent
  <2>2. Idle.dig = NoDig /\ Idle.pc = "idle" /\ DOMAIN Idle.writes = {}
    BY DEF Idle
  <2>3. \A d \in Digs : \A s : ~HasVersion(Idle, d, s)
    BY <2>2, NullAssumption DEF HasVersion
  <2> QED BY <1>1, <2>1, <2>2, <2>3, QuietVersions DEF Done
\* It goes on with what it has to write, or less.
<1>2. ASSUME h.pc # "idle", NEW g, Goes(k, g), g.pc # "target", g.dig = h.dig, g.snap = h.snap,
             \A i \in DOMAIN g.writes : \E j \in DOMAIN h.writes : g.writes[i] = h.writes[j],
             UNCHANGED <<used, statusCtx>>,
             \A d \in Digs : info'[d] = NoInfo \/ IsVersion(d, info'[d])
      PROVE  VersionInv'
  <2>1. h.dig \in Digs
    BY <1>0, <1>2 DEF Sound, Coherent
  <2> HIDE DEF h
  <2>2. ASSUME NEW d \in Digs, NEW s, HasVersion(g, d, s) PROVE HasVersion(h, d, s)
    <3>1. CASE g.dig = d /\ g.snap = s
      BY <1>2, <3>1 DEF HasVersion
    <3>2. ASSUME NEW i \in DOMAIN g.writes, g.writes[i] = To(d, s) PROVE HasVersion(h, d, s)
      <4>1. PICK j \in DOMAIN h.writes : g.writes[i] = h.writes[j]
        BY <1>2, <3>2
      <4>2. h.writes[j] = To(d, s)
        BY <3>2, <4>1
      <4> QED BY <4>2 DEF HasVersion
    <3> QED BY <2>2, <3>1, <3>2 DEF HasVersion
  <2>3. \A d \in Digs : \A s : HasVersion(g, d, s) => IsVersion(d, s)
    BY <1>0, <2>2
  <2> QED BY <1>2, <2>1, <2>3, QuietVersions
\* It goes on at another point with all of it.
<1>3. ASSUME h.pc # "idle", NEW pc, pc # "target", Goes(k, [h EXCEPT !.pc = pc]),
             UNCHANGED <<used, statusCtx, mongo>>
      PROVE  VersionInv'
  <2> DEFINE g == [h EXCEPT !.pc = pc]
  <2>1. Goes(k, g)
    BY <1>3
  <2> HIDE DEF h
  <2>2. g.pc = pc /\ g.dig = h.dig /\ g.snap = h.snap /\ g.writes = h.writes
    BY <1>0 DEF HandlerState
  <2> HIDE DEF g
  <2>3. \A d \in Digs : info'[d] = NoInfo \/ IsVersion(d, info'[d])
    BY <1>0, <1>3 DEF mongo
  <2> QED BY <1>2, <1>3, <2>1, <2>2, <2>3
<1>4. ASSUME UNCHANGED mongo
      PROVE  \A d \in Digs : info'[d] = NoInfo \/ IsVersion(d, info'[d])
  BY <1>0, <1>4 DEF mongo
<1>5. ASSUME MigrateTarget(k) PROVE VersionInv'
  <2> DEFINE i == info[h.peer]
             t == WithAction(h.snap, "Updated", h.ctx, 0)
             u == [WithAction(i, "Instantiated", h.target, 0) EXCEPT !.statusCtx = h.snap.statusCtx]
             w == <<To(h.dig, t), To(h.peer, u)>>
             g == [h EXCEPT !.pc = "call", !.writes = w]
  <2>1. /\ h.pc = "target" /\ Goes(k, g) /\ UNCHANGED <<mongo, used>>
        /\ CurrentState(i) = "Approved"
        /\ UpdateAppContextStatusContextID(h.target, h.snap.statusCtx)
    BY <1>5 DEF MigrateTarget
  <2>2. /\ h.dig \in Digs /\ h.peer \in Digs /\ h.target \in AppContexts
        /\ Exists(h.snap) /\ h.ctx = LastContextId(h.snap)
    BY <1>0, <2>1 DEF Sound, Coherent
  <2>3. /\ IsVersion(h.dig, h.snap) /\ IsVersion(h.peer, i)
        /\ h.snap \in StateInfo /\ i \in StateInfo
        /\ h.snap.statusCtx \in AppContexts \cup {NoContext}
        /\ h.ctx \in AppContexts \cup {NoContext}
    <3>1. HasVersion(h, h.dig, h.snap)
      BY DEF HasVersion
    <3>2. h.snap \in StateInfo /\ h.ctx \in AppContexts \cup {NoContext}
      BY <1>0 DEF HandlerState
    <3>3. i \in StateInfo
      BY <2>2 DEF TypeInv, MongoInv
    <3> QED BY <1>0, <2>2, <3>1, <3>2, <3>3 DEF StateInfo
  <2>4. /\ statusCtx'[h.target] = h.snap.statusCtx
        /\ \A x \in AppContexts \ {h.target} : statusCtx'[x] = statusCtx[x]
    BY <2>1, <2>2, <2>3, StatusType DEF TypeInv
  <2>5. /\ \A d \in Digs : \A s : IsVersion(d, s) => h.target \notin ContextIds(s)
        /\ h.target \in used
        /\ \A j \in Clients : (client[j].pc = "target" /\ client[j].target = h.target) => j = k
    BY <2>1 DEF VersionInv
  <2>6. Inherited(h.dig, t, {}, statusCtx')
    <3>1. ReportsTo(h.snap, statusCtx)
      BY <2>2, <2>3 DEF VersionInv
    <3>2. ReportsTo(h.snap, statusCtx')
      BY <2>2, <2>3, <2>4, <2>5, <3>1, ReportsElsewhere
    <3>3. h.ctx \in ContextIds(h.snap) \cup {NoContext}
      BY <2>2, <2>3, LastContextNamed
    <3>4. "Updated" \in States /\ 0 \in Nat
      BY DEF States
    <3> HIDE DEF h
    <3> QED BY <2>2, <2>3, <3>1, <3>2, <3>3, <3>4, ActionInherited
  <2>7. Inherited(h.peer, u, {h.target}, statusCtx')
    <3>1. h.target \in {h.target} /\ 0 \in Nat
      OBVIOUS
    <3> HIDE DEF h, i
    <3> QED BY <2>1, <2>2, <2>3, <2>4, <3>1, InstantiationInherited
  <2> HIDE DEF t, u
  <2>8. DOMAIN w = {1, 2} /\ w[1] = To(h.dig, t) /\ w[2] = To(h.peer, u)
    OBVIOUS
  <2> HIDE DEF w, h
  <2>9. g.pc = "call" /\ g.dig = h.dig /\ g.snap = h.snap /\ g.writes = w
    BY <1>0 DEF HandlerState
  <2> HIDE DEF g
  <2>10. ASSUME NEW d \in Digs, NEW s, HasVersion(g, d, s)
        PROVE  \/ IsVersion(d, s)
               \/ Inherited(d, s, IF d = h.peer THEN {h.target} \ {NoContext} ELSE {}, statusCtx')
    <3>1. (h.dig = d /\ h.snap = s) \/ (d = h.dig /\ s = t) \/ (d = h.peer /\ s = u)
      <4>1. /\ DOMAIN g.writes = {1, 2} /\ g.writes[1] = To(h.dig, t) /\ g.writes[2] = To(h.peer, u)
        BY <2>8, <2>9
      <4>2. (g.dig = d /\ g.snap = s) \/ (d = h.dig /\ s = t) \/ (d = h.peer /\ s = u)
        <5> DEFINE a == h.dig
                   b == h.peer
        <5>1. DOMAIN g.writes = {1, 2} /\ g.writes[1] = To(a, t) /\ g.writes[2] = To(b, u)
          BY <4>1
        <5> HIDE DEF a, b, i
        <5>2. (g.dig = d /\ g.snap = s) \/ (d = a /\ s = t) \/ (d = b /\ s = u)
          BY <2>10, <5>1, TwoWritten
        <5> QED BY <5>2 DEF a, b
      <4> QED BY <2>9, <4>2
    <3>2. {h.target} \ {NoContext} = {h.target}
      BY <2>2, ContextAssumption
    <3>3. CASE h.dig = d /\ h.snap = s
      BY <2>3, <3>3
    <3>4. CASE d = h.dig /\ s = t
      BY <2>6, <3>4 DEF Inherited
    <3>5. CASE d = h.peer /\ s = u
      BY <2>7, <3>2, <3>5
    <3> QED BY <3>1, <3>3, <3>4, <3>5
  <2>11. \A d \in Digs : info'[d] = NoInfo \/ IsVersion(d, info'[d])
    BY <1>4, <2>1
  <2>12. \A j \in Clients \ {k} : client[j].pc = "target" => client[j].target # h.target
    BY <2>5
  <2>13. /\ g.pc # "target" /\ used \subseteq used' /\ h.target \in used'
         /\ h.target \in AppContexts \cup {NoContext} /\ h.peer \in Digs
    BY <2>1, <2>2, <2>5, <2>9
  <2>14. \A d \in Digs : \A s : HasVersion(g, d, s) =>
            \/ IsVersion(d, s)
            \/ Inherited(d, s, IF d = h.peer THEN {h.target} \ {NoContext} ELSE {}, statusCtx')
    BY <2>10
  <2> QED BY <2>1, <2>4, <2>5, <2>11, <2>12, <2>13, <2>14, VersionStep
<1>6. ASSUME MigrateRefused(k) PROVE VersionInv'
  BY <1>1, <1>4, <1>6 DEF MigrateRefused, etcd
<1>7. ASSUME Check(k) PROVE VersionInv'
  <2>1. h.pc = "check" /\ UNCHANGED <<used, statusCtx, mongo>>
    BY <1>7 DEF Check, etcd
  <2>2. \/ Goes(k, [h EXCEPT !.pc = "flag"])
        \/ Goes(k, [h EXCEPT !.pc = "drop"])
        \/ Done(k)
    BY <1>7 DEF Check
  <2> QED BY <1>1, <1>3, <1>4, <2>1, <2>2
<1>8. ASSUME SetStopFlag(k) PROVE VersionInv'
  <2>1. h.pc = "flag" /\ UNCHANGED <<used, statusCtx, mongo>>
    BY <1>8 DEF SetStopFlag
  <2>2. \/ Goes(k, [h EXCEPT !.pc = "insert"])
        \/ Goes(k, [h EXCEPT !.pc = "call"])
        \/ Done(k)
    BY <1>8 DEF SetStopFlag
  <2> QED BY <1>1, <1>3, <1>4, <2>1, <2>2
<1>9. ASSUME SchedulerFails(k) PROVE VersionInv'
  <2>1. h.pc \in {"target", "call"} /\ Done(k) /\ UNCHANGED <<used, statusCtx, mongo>>
    BY <1>9 DEF SchedulerFails
  <2> QED BY <1>1, <1>4, <2>1
<1>10. ASSUME CallRsync(k) PROVE VersionInv'
  <2>1. h.pc = "call" /\ UNCHANGED <<used, statusCtx, mongo>> /\ Goes(k, [h EXCEPT !.pc = "insert"])
    BY <1>10 DEF CallRsync, etcd
  <2> QED BY <1>3, <2>1
<1>11. ASSUME CallFails(k) PROVE VersionInv'
  <2>1. h.pc = "call" /\ Done(k) /\ UNCHANGED <<used, statusCtx, mongo>>
    BY <1>11 DEF CallFails
  <2> QED BY <1>1, <1>4, <2>1
<1>12. ASSUME InsertGroup(k) PROVE VersionInv'
  <2>1. h.pc = "group" /\ UNCHANGED <<used, statusCtx, info>> /\ Goes(k, [h EXCEPT !.pc = "insert"])
    BY <1>12 DEF InsertGroup, etcd
  <2> DEFINE g == [h EXCEPT !.pc = "insert"]
  <2>2. \A d \in Digs : info'[d] = NoInfo \/ IsVersion(d, info'[d])
    BY <1>0, <2>1
  <2>3. Goes(k, g)
    BY <2>1
  <2> HIDE DEF h
  <2>4. g.pc = "insert" /\ g.dig = h.dig /\ g.snap = h.snap /\ g.writes = h.writes
    BY <1>0 DEF HandlerState
  <2> HIDE DEF g
  <2> QED BY <1>2, <2>1, <2>2, <2>3, <2>4
<1>13. ASSUME Insert(k) PROVE VersionInv'
  <2> DEFINE w == Head(h.writes)
             q == Tail(h.writes)
             g == [h EXCEPT !.writes = q]
  <2>1. /\ h.pc = "insert" /\ h.writes # <<>> /\ h.writes \in Seq(Write)
        /\ UNCHANGED <<used, statusCtx>> /\ info' = [info EXCEPT ![w.dig] = w.info]
    BY <1>0, <1>13 DEF Insert, Sound, Coherent, HandlerState, etcd
  <2>2. w \in Write /\ w = h.writes[1] /\ 1 \in DOMAIN h.writes
    BY <2>1, HeadTailProperties, EmptySeq, LenProperties
  <2>3. CASE Len(h.writes) = 1 \/ Goes(k, g)
    <3> HIDE DEF w, g, q
    <3>1. w = To(w.dig, w.info) /\ w.dig \in Digs
      BY <2>2 DEF Write, To
    <3>2. IsVersion(w.dig, w.info)
      BY <1>0, <2>2, <3>1 DEF HasVersion
    <3>3. \A d \in Digs : info'[d] = NoInfo \/ IsVersion(d, info'[d])
      BY <1>0, <2>1, <3>2 DEF TypeInv, MongoInv
    <3>4. CASE Len(h.writes) = 1
      <4>1. Done(k)
        BY <1>13, <3>4 DEF Insert
      <4> QED BY <1>1, <2>1, <3>3, <4>1
    <3>5. CASE Len(h.writes) # 1 /\ Goes(k, g)
      <4>1. \A i \in DOMAIN q : q[i] = h.writes[i + 1] /\ i + 1 \in DOMAIN h.writes
        BY <2>1, <3>5, TailWrites DEF q
      <4> HIDE DEF h
      <4>2. g.pc = h.pc /\ g.dig = h.dig /\ g.snap = h.snap /\ g.writes = q
        BY <1>0 DEF HandlerState, g
      <4>3. \A i \in DOMAIN g.writes : \E j \in DOMAIN h.writes : g.writes[i] = h.writes[j]
        BY <4>1, <4>2
      <4> QED BY <1>2, <2>1, <3>3, <3>5, <4>2, <4>3
    <3> QED BY <2>3, <3>4, <3>5
  <2>4. Len(h.writes) = 1 \/ Goes(k, g)
    BY <1>13 DEF Insert
  <2> QED BY <2>3, <2>4
<1>14. ASSUME DropContext(k) PROVE VersionInv'
  <2>1. h.pc = "drop" /\ UNCHANGED <<used, statusCtx, mongo>>
    BY <1>14 DEF DropContext
  <2>2. PICK c \in h.drop :
            IF c \in stored THEN Goes(k, [h EXCEPT !.drop = @ \ {c}]) ELSE Done(k)
    BY <1>14 DEF DropContext
  <2> DEFINE g == [h EXCEPT !.drop = h.drop \ {c}]
  <2>3. Goes(k, g) \/ Done(k)
    BY <2>2
  <2> HIDE DEF h
  <2>4. g.pc = h.pc /\ g.dig = h.dig /\ g.snap = h.snap /\ g.writes = h.writes
    BY <1>0 DEF HandlerState
  <2> HIDE DEF g
  <2> QED BY <1>1, <1>2, <1>4, <2>1, <2>3, <2>4
<1>15. ASSUME Remove(k) PROVE VersionInv'
  <2>1. /\ h.pc \in {"remove", "drop"} /\ Done(k) /\ UNCHANGED <<used, statusCtx>>
        /\ info' = [info EXCEPT ![h.dig] = NoInfo]
    BY <1>15 DEF Remove, etcd
  <2>2. \A d \in Digs : info'[d] = NoInfo \/ IsVersion(d, info'[d])
    BY <1>0, <2>1 DEF TypeInv, MongoInv
  <2> QED BY <1>1, <2>1, <2>2
<1>16. ASSUME Ends(k) PROVE VersionInv'
  <2>1. h.pc # "idle" /\ Done(k) /\ UNCHANGED <<used, statusCtx, mongo>>
    BY <1>16 DEF Ends, Busy, etcd
  <2> QED BY <1>1, <1>4, <2>1
<1> QED BY <1>5, <1>6, <1>7, <1>8, <1>9, <1>10, <1>11, <1>12, <1>13, <1>14, <1>15, <1>16 DEF Continue

\* VersionInv is an invariant.
LEMMA VersionInvariance == Spec => []VersionInv
<1>1. Init => VersionInv
  <2> SUFFICES ASSUME Init PROVE VersionInv
    OBVIOUS
  <2>1. Idle.dig = NoDig /\ Idle.pc = "idle" /\ DOMAIN Idle.writes = {}
    BY DEF Idle
  <2>2. \A d \in Digs : \A s : IsVersion(d, s) => s = NoInfo
    BY <2>1, NullAssumption DEF Init, IsVersion, HasVersion
  <2>3. NoInfo.actions = <<>> /\ Len(NoInfo.actions) = 0 /\ DOMAIN NoInfo.actions = {}
    BY DEF NoInfo
  <2>4. ReportsTo(NoInfo, statusCtx) /\ ContextIds(NoInfo) = {}
    BY <2>3 DEF ReportsTo, Lifetime, ContextIds
  <2>5. \A k \in Clients : client[k].pc # "target"
    BY <2>1 DEF Init
  <2> QED BY <2>2, <2>4, <2>5 DEF VersionInv
<1>2. TypeInv /\ VersionInv /\ [Next]_vars => VersionInv'
  <2> SUFFICES ASSUME TypeInv, VersionInv, [Next]_vars PROVE VersionInv'
    OBVIOUS
  <2>1. ASSUME NEW k \in Clients, Start(k) \/ Continue(k) PROVE VersionInv'
    BY <2>1, StartVersions, ContinueVersions
  <2>2. ASSUME UNCHANGED <<etcd, mongo, client>> PROVE VersionInv'
    BY <2>2 DEF VersionInv, IsVersion, HasVersion, etcd, mongo
  <2>3. ASSUME NEW c \in AppContexts, Rsync(c), UNCHANGED <<mongo, client>> PROVE VersionInv'
    <3>1. UNCHANGED etcd
      BY <2>3 DEF Rsync, RsyncAccepts, RsyncHandsOver, RsyncSucceeds, RsyncFails, RsyncRefuses,
                  RsyncSettles, RsyncAbandons
    <3> QED BY <2>2, <2>3, <3>1
  <2>4. CASE UNCHANGED vars
    BY <2>2, <2>4 DEF vars
  <2> QED BY <2>1, <2>3, <2>4 DEF Next
<1> QED BY <1>1, <1>2, TypeInvariance, PTL DEF Spec

-------------------------------------------------------------------------------
\* The AppContext of an instantiated DIG reports to the one its StateInfo names,
\* unless a Rollback fetched it from an earlier life of the DIG.
THEOREM StatusIsShared == Spec => []StatusShared
<1>1. TypeInv /\ VersionInv => StatusShared
  <2> SUFFICES ASSUME TypeInv, VersionInv, NEW d \in Digs, Instantiated(info[d]),
                      \A i \in DOMAIN info[d].actions :
                          info[d].actions[i].ctx = LastContextId(info[d]) => i \in Lifetime(info[d])
               PROVE  statusCtx[LastContextId(info[d])] = info[d].statusCtx
    BY DEF StatusShared
  <2>1. /\ info[d] \in StateInfo /\ Exists(info[d]) /\ LastContextId(info[d]) \in AppContexts
    BY InstantiatedInfo DEF TypeInv
  <2>2. ReportsTo(info[d], statusCtx)
    BY DEF VersionInv, IsVersion
  <2>3. PICK i \in DOMAIN info[d].actions : info[d].actions[i].ctx = LastContextId(info[d])
    BY <2>1, LastActionType DEF LastContextId
  <2>4. i \in Lifetime(info[d]) /\ LastContextId(info[d]) # NoContext
    BY <2>1, <2>3, ContextAssumption
  <2> QED BY <2>2, <2>3, <2>4 DEF ReportsTo
<1> QED BY <1>1, TypeInvariance, VersionInvariance, PTL

\* No AppContext is the current one of two DIGs, whatever Migrates do.
THEOREM ContextHasOneOwner == Spec => []OneOwner
<1>1. TypeInv /\ VersionInv => OneOwner
  <2> SUFFICES ASSUME TypeInv, VersionInv, NEW d \in Digs, NEW e \in Digs,
                      Instantiated(info[d]), Instantiated(info[e]),
                      LastContextId(info[d]) = LastContextId(info[e]), d # e
               PROVE  FALSE
    BY DEF OneOwner
  <2>1. LastContextId(info[d]) \in ContextIds(info[d]) /\ LastContextId(info[e]) \in ContextIds(info[e])
    BY InstantiatedInfo DEF TypeInv
  <2>2. IsVersion(d, info[d]) /\ IsVersion(e, info[e])
    BY DEF IsVersion
  <2>3. ContextIds(info[d]) \cap ContextIds(info[e]) = {}
    BY <2>2 DEF VersionInv
  <2> QED BY <2>1, <2>3
<1> QED BY <1>1, TypeInvariance, VersionInvariance, PTL

-------------------------------------------------------------------------------
(* Terminated DIGs.                                                        *)

\* The operations that end with an AppContext of theirs instantiated.
Deployments == {"Instantiate", "Update", "Rollback", "Migrate"}

\* A record that says "terminated", or instantiated, says so of the AppContext c.
TerminatedOf(s, c) == CurrentState(s) = "Terminated" => LastContextId(s) = c
InstantiatedOf(s, c) == Instantiated(s) => LastContextId(s) = c

\* What a handler is going to record of a termination and of an instantiation is
\* about the AppContexts it works on.
Intends(h) ==
    \A i \in DOMAIN h.writes : LET s == h.writes[i].info IN
        /\ IF h.op = "Terminate" THEN TerminatedOf(s, h.ctx) ELSE CurrentState(s) # "Terminated"
        /\ IF h.op \in Deployments THEN InstantiatedOf(s, h.target) ELSE ~Instantiated(s)

\* What is promised of these AppContexts before and after the call of rsync.
Promised(h) ==
    h.pc # "idle" =>
        /\ h.op \in Operations
        /\ Intends(h)
        /\ h.op = "Terminate" => h.pc \in {"flag", "call", "insert"} /\ h.ctx \in AppContexts
        /\ h.op = "Terminate" /\ h.pc \in {"flag", "call"} => Underway(h.ctx)
        /\ h.op = "Terminate" /\ h.pc = "insert" => Doomed(h.ctx)
        /\ h.pc = "target" => h.op \in Deployments
        /\ h.op \in Deployments => h.pc \in {"target", "call", "insert"}
        /\ h.op \in Deployments /\ h.pc = "insert" => h.target \in AppContexts /\ Underway(h.target)

\* What a record says is true.
Kept(s) ==
    /\ CurrentState(s) = "Terminated" => LastContextId(s) \in AppContexts /\ Doomed(LastContextId(s))
    /\ Instantiated(s) => LastContextId(s) \in AppContexts /\ Underway(LastContextId(s))

TerminatedInv ==
    /\ Unstopped
    /\ \A d \in Digs : Kept(info[d])
    /\ \A k \in Clients : Promised(client[k])

\* The state and the AppContext of a record that got one more action.
LEMMA ActionLast ==
    ASSUME NEW s \in StateInfo, NEW st \in States, NEW c \in AppContexts \cup {NoContext},
           NEW r \in Nat
    PROVE  /\ CurrentState(WithAction(s, st, c, r)) = st
           /\ LastContextId(WithAction(s, st, c, r)) = c
  BY WithActionType DEF CurrentState, LastContextId, Exists

\* The same when it also says where it reports to.
LEMMA InstantiationLast ==
    ASSUME NEW s \in StateInfo, NEW c \in AppContexts, NEW r \in Nat,
           NEW z \in AppContexts \cup {NoContext}
    PROVE  LET t == [WithAction(s, "Instantiated", c, r) EXCEPT !.statusCtx = z] IN
           CurrentState(t) = "Instantiated" /\ LastContextId(t) = c
<1> DEFINE u == WithAction(s, "Instantiated", c, r)
           t == [u EXCEPT !.statusCtx = z]
<1>1. "Instantiated" \in States
  BY DEF States
<1>2. u \in StateInfo /\ CurrentState(u) = "Instantiated" /\ LastContextId(u) = c
  BY <1>1, WithActionType, ActionLast
<1> HIDE DEF u
<1>3. t.actions = u.actions
  BY <1>2 DEF StateInfo
<1> HIDE DEF t
<1>4. CurrentState(t) = "Instantiated" /\ LastContextId(t) = c
  BY <1>2, <1>3 DEF CurrentState, LastContextId, LastAction, Exists
<1> QED BY <1>4 DEF t, u

\* The two records of an Update or a Rollback.
LEMMA SuccessorLast ==
    ASSUME NEW s \in StateInfo, Exists(s), NEW c \in AppContexts \cup {NoContext}
    PROVE  /\ CurrentState(Replaced(s)) = "Updated"
           /\ CurrentState(Successor(s, c)) = "Instantiated"
           /\ LastContextId(Successor(s, c)) = c
<1>1. /\ Replaced(s) \in StateInfo /\ CurrentState(Replaced(s)) = "Updated"
      /\ LatestRevision(s) + 1 \in Nat
  BY SuccessorType
<1>2. "Instantiated" \in States
  BY DEF States
<1>3. /\ CurrentState(WithAction(Replaced(s), "Instantiated", c, LatestRevision(s) + 1)) = "Instantiated"
      /\ LastContextId(WithAction(Replaced(s), "Instantiated", c, LatestRevision(s) + 1)) = c
  BY <1>1, <1>2, ActionLast
<1> QED BY <1>1, <1>3 DEF Successor

\* No step brings a doomed AppContext back: handlers make new AppContexts only,
\* and rsync does not deploy what it has begun to remove.
LEMMA NoReturn ==
    ASSUME TypeInv, TerminatedInv, "Stop" \notin Operations, [Next]_vars
    PROVE  /\ Unstopped'
           /\ \A c \in AppContexts : Doomed(c) => Doomed(c)'
           /\ \A c \in AppContexts : Underway(c) => Underway(c)'
<1>1. StoreInv /\ Unstopped
  BY DEF TypeInv, TerminatedInv
<1> DEFINE Quiet == /\ UNCHANGED <<state, work, holds>> /\ used \subseteq used'
                    /\ \A c \in AppContexts : c \in used /\ c \in stored' => c \in stored
                    /\ \A c \in AppContexts : ~stopFlag'[c]
                    /\ \A c \in AppContexts :
                          \/ pending'[c] = pending[c]
                          \/ \E e \in PendingEvent : pending'[c] = Append(pending[c], e)
<1>2. ASSUME Quiet
      PROVE  /\ Unstopped'
             /\ \A c \in AppContexts : Doomed(c) => Doomed(c)'
             /\ \A c \in AppContexts : Underway(c) => Underway(c)'
  <2>1. Unstopped'
    BY <1>1, <1>2 DEF Unstopped
  <2> QED BY <1>1, <1>2, <2>1, QueuedBehind
<1>3. UNCHANGED lifecycle => UNCHANGED <<pending, state, work>>
  BY DEF lifecycle
<1>4. UNCHANGED etcd => UNCHANGED <<stored, used, statusCtx, stopFlag>>
  BY DEF etcd
<1>5. ASSUME UNCHANGED <<lifecycle, used, holds>>, stored' \subseteq stored,
             UNCHANGED stopFlag \/ \E c : SetFlag(c, FALSE)
      PROVE  Quiet
  <2>1. \A c \in AppContexts : ~stopFlag'[c]
    BY <1>1, <1>5 DEF SetFlag, Unstopped, StoreInv, StoreTypeOK
  <2> QED BY <1>3, <1>5, <2>1
<1>6. ASSUME NEW c \in AppContexts, MakeAppContext(c), UNCHANGED <<lifecycle, holds>>
      PROVE  Quiet
  BY <1>1, <1>3, <1>6 DEF MakeAppContext, Unstopped
<1>7. ASSUME NEW k \in Clients, Start(k) PROVE Quiet
  <2>1. ASSUME NEW d \in Digs,
               Create(k, d) \/ Approve(k, d) \/ Terminate(k, d) \/ Rollback(k, d) \/ Delete(k, d)
        PROVE  Quiet
    <3>1. UNCHANGED <<lifecycle, stored, used, holds, stopFlag>>
      BY <1>4, <2>1 DEF Create, Approve, Terminate, Rollback, Delete
    <3> HIDE DEF Quiet
    <3> QED BY <1>5, <3>1
  <2>2. ASSUME NEW d \in Digs, Instantiate(k, d) \/ Update(k, d) \/ \E e \in Digs : Migrate(k, d, e)
        PROVE  Quiet
    <3> HIDE DEF Quiet
    <3> QED BY <1>6, <2>2 DEF Instantiate, Update, Migrate
  <2>3. \A d \in Digs : ~Stop(k, d)
    BY DEF Stop
  <2> HIDE DEF Quiet
  <2> QED BY <1>7, <2>1, <2>2, <2>3 DEF Start
<1>8. ASSUME NEW k \in Clients, Continue(k) PROVE Quiet
  <2>0. client[k] \in HandlerState /\ (client[k].pc # "idle" => client[k].op \in Operations)
    BY DEF TypeInv, ClientInv, TerminatedInv, Promised
  <2>1. CASE CallRsync(k)
    <3>1. PICK c, ev, other :
             /\ c = Subject(client[k]) /\ ev = Request(client[k])
             /\ other = IF Request(client[k]) = "Update" THEN client[k].ctx ELSE NoContext
      OBVIOUS
    <3>2. CallRsyncFor(c, ev, other) /\ UNCHANGED <<stored, used, stopFlag, holds>>
      BY <1>4, <2>1, <3>1 DEF CallRsync
    <3>3. ev \in RsyncEvents /\ other \in AppContexts \cup {NoContext}
      BY <2>0, <3>1 DEF Request, RsyncEvents, HandlerState
    <3>4. [ev |-> ev, other |-> other] \in PendingEvent
      BY <3>3 DEF PendingEvent
    <3>5. \A d \in AppContexts :
             \/ pending'[d] = pending[d]
             \/ \E e \in PendingEvent : pending'[d] = Append(pending[d], e)
      BY <1>1, <3>2, <3>4 DEF CallRsyncFor, Submit, StoreInv, StoreTypeOK
    <3> QED BY <1>1, <3>2, <3>5 DEF CallRsyncFor, Unstopped
  <2>2. CASE SetStopFlag(k)
    <3>1. client[k].op # "Stop"
      BY <2>0, <2>2 DEF SetStopFlag
    <3>2. UNCHANGED stopFlag \/ SetFlag(client[k].ctx, client[k].op = "Stop")
      BY <2>2 DEF SetStopFlag
    <3>3. UNCHANGED stopFlag \/ \E c : SetFlag(c, FALSE)
      <4>1. (client[k].op = "Stop") = FALSE
        BY <3>1
      <4> QED BY <3>2, <4>1
    <3>4. UNCHANGED <<lifecycle, stored, used, holds>>
      BY <2>2 DEF SetStopFlag
    <3> HIDE DEF Quiet
    <3> QED BY <1>5, <3>3, <3>4
  <2>3. CASE ~CallRsync(k) /\ ~SetStopFlag(k)
    <3>1. UNCHANGED <<lifecycle, used, holds, stopFlag>> /\ stored' \subseteq stored
      BY <1>4, <1>8, <2>3 DEF Continue, MigrateTarget, MigrateRefused, Check, SchedulerFails,
           CallFails, InsertGroup, Insert, DropContext, Remove, Ends
    <3> HIDE DEF Quiet
    <3> QED BY <1>5, <3>1
  <2> QED BY <2>1, <2>2, <2>3
<1>9. ASSUME UNCHANGED vars PROVE Quiet
  <2>1. UNCHANGED <<lifecycle, etcd, holds>>
    BY <1>9 DEF vars
  <2> HIDE DEF Quiet
  <2> QED BY <1>4, <1>5, <2>1
<1> HIDE DEF Quiet
<1> QED BY <1>1, <1>2, <1>7, <1>8, <1>9, RsyncDooms DEF Next

\* What is promised of a handler, or recorded, stays so.
LEMMA PromisedStays ==
    ASSUME \A c \in AppContexts : Doomed(c) => Doomed(c)',
           \A c \in AppContexts : Underway(c) => Underway(c)'
    PROVE  /\ \A h : Promised(h) => Promised(h)'
           /\ \A s : Kept(s) => Kept(s)'
<1>1. ASSUME NEW h, Promised(h) PROVE Promised(h)'
  BY <1>1 DEF Promised
<1>2. ASSUME NEW s, Kept(s) PROVE Kept(s)'
  <2>1. PICK c : c = LastContextId(s)
    OBVIOUS
  <2> QED BY <1>2, <2>1 DEF Kept
<1> QED BY <1>1, <1>2

\* One handler moves.
LEMMA MoverPromised ==
    ASSUME TypeInv, TerminatedInv, NEW k \in Clients, NEW h, Goes(k, h), Promised(h)',
           \A c \in AppContexts : Doomed(c) => Doomed(c)',
           \A c \in AppContexts : Underway(c) => Underway(c)'
    PROVE  \A j \in Clients : Promised(client[j])'
<1> TAKE j \in Clients
<1>1. client'[j] = IF j = k THEN h ELSE client[j]
  BY DEF Goes, TypeInv, ClientInv
<1>2. PICK g : g = client'[j]
  OBVIOUS
<1>3. Promised(g)'
  BY <1>1, <1>2, PromisedStays DEF TerminatedInv
<1> QED BY <1>2, <1>3 DEF Promised

\* What one write, and two, say.
LEMMA WrittenIntends ==
    ASSUME NEW h, NEW d, NEW t, NEW e, NEW u,
           h.writes = <<To(d, t)>> \/ (h.writes = <<To(d, u), To(e, t)>> /\ CurrentState(u) = "Updated"),
           IF h.op = "Terminate" THEN TerminatedOf(t, h.ctx) ELSE CurrentState(t) # "Terminated",
           IF h.op \in Deployments THEN InstantiatedOf(t, h.target) ELSE ~Instantiated(t)
    PROVE  Intends(h)
<1> SUFFICES ASSUME NEW i \in DOMAIN h.writes
             PROVE  h.writes[i].info = t \/ CurrentState(h.writes[i].info) = "Updated"
  BY DEF Intends, TerminatedOf, InstantiatedOf, Instantiated
<1>1. To(d, t).info = t /\ To(d, u).info = u /\ To(e, t).info = t
  BY DEF To
<1> HIDE DEF To
<1> QED BY <1>1

\* A handler starts.
LEMMA StartPromised ==
    ASSUME TypeInv, TerminatedInv, "Stop" \notin Operations, NEW k \in Clients, Start(k),
           \A c \in AppContexts : Doomed(c) => Doomed(c)',
           \A c \in AppContexts : Underway(c) => Underway(c)'
    PROVE  \A j \in Clients : Promised(client[j])'
<1>0. NoContext \in AppContexts \cup {NoContext} /\ 0 \in Nat /\ 1 \in Nat
  OBVIOUS
<1>1. ASSUME NEW h, Goes(k, h), h.op \in Operations, Intends(h),
             h.op = "Terminate" =>
                 h.pc \in {"flag", "call"} /\ h.ctx \in AppContexts /\ Underway(h.ctx),
             h.op \in Deployments => h.pc \in {"target", "call"},
             h.pc = "target" => h.op \in Deployments
      PROVE  \A j \in Clients : Promised(client[j])'
  <2>1. Promised(h)
    BY <1>1 DEF Promised
  <2> QED BY <1>1, <2>1, MoverPromised, PromisedStays
<1>2. ASSUME NEW d \in Digs, NEW op \in {"Create", "Approve"}, NEW pc \in {"group", "insert"}, NEW s \in StateInfo,
             NEW st \in {"Created", "Approved"}, op \in Operations,
             Goes(k, [Handler(op, d, pc) EXCEPT !.writes = <<To(d, WithAction(s, st, NoContext, 0))>>])
      PROVE  \A j \in Clients : Promised(client[j])'
  <2>1. PICK t : t = WithAction(s, st, NoContext, 0)
    OBVIOUS
  <2>2. CurrentState(t) = st
    <3>1. st \in States
      BY DEF States
    <3> QED BY <1>0, <2>1, <3>1, ActionLast
  <2>3. PICK h : h = [Handler(op, d, pc) EXCEPT !.writes = <<To(d, t)>>]
    OBVIOUS
  <2>4. h.op = op /\ h.pc = pc /\ h.writes = <<To(d, t)>>
    BY <2>3 DEF Handler, Idle
  <2>5. Intends(h)
    BY <2>2, <2>4, WrittenIntends DEF Instantiated, Deployments
  <2> QED BY <1>1, <1>2, <2>1, <2>3, <2>4, <2>5 DEF Deployments
<1>3. ASSUME NEW d \in Digs, Create(k, d) \/ Approve(k, d)
      PROVE  \A j \in Clients : Promised(client[j])'
  <2>1. info[d] \in StateInfo /\ NoInfo \in StateInfo
    BY NoInfoType DEF TypeInv, MongoInv
  <2> QED BY <1>2, <1>3, <2>1 DEF Create, Approve
<1>4. ASSUME NEW d \in Digs, Instantiate(k, d) PROVE \A j \in Clients : Promised(client[j])'
  <2>1. PICK c \in AppContexts :
            Goes(k, [Handler("Instantiate", d, "call") EXCEPT
                   !.target = c,
                   !.writes = <<To(d, [WithAction(info[d], "Instantiated", c, 1) EXCEPT
                                          !.statusCtx = c])>>])
    BY <1>4 DEF Instantiate
  <2>2. PICK t : t = [WithAction(info[d], "Instantiated", c, 1) EXCEPT !.statusCtx = c]
    OBVIOUS
  <2>3. CurrentState(t) = "Instantiated" /\ LastContextId(t) = c
    <3>1. info[d] \in StateInfo
      BY DEF TypeInv, MongoInv
    <3> QED BY <1>0, <2>2, <3>1, InstantiationLast
  <2>4. PICK h : h = [Handler("Instantiate", d, "call") EXCEPT !.target = c, !.writes = <<To(d, t)>>]
    OBVIOUS
  <2>5. h.op = "Instantiate" /\ h.pc = "call" /\ h.target = c /\ h.writes = <<To(d, t)>>
    BY <2>4 DEF Handler, Idle
  <2>6. Intends(h)
    BY <2>3, <2>5, WrittenIntends DEF InstantiatedOf, Deployments
  <2> QED BY <1>1, <1>4, <2>1, <2>2, <2>4, <2>5, <2>6 DEF Instantiate
<1>5. ASSUME NEW d \in Digs, Terminate(k, d) PROVE \A j \in Clients : Promised(client[j])'
  <2>1. PICK c : c = LastContextId(info[d])
    OBVIOUS
  <2>2. PICK t : t = WithAction(info[d], "Terminated", c, 0)
    OBVIOUS
  <2>3. Instantiated(info[d]) /\ c \in AppContexts /\ Underway(c)
    BY <1>5, <2>1 DEF Terminate, TerminatedInv, Kept
  <2>4. CurrentState(t) = "Terminated" /\ LastContextId(t) = c
    <3>1. info[d] \in StateInfo /\ "Terminated" \in States
      BY DEF TypeInv, MongoInv, States
    <3> QED BY <1>0, <2>2, <2>3, <3>1, ActionLast
  <2>5. PICK pc \in {"call", "flag"} :
            Goes(k, [Handler("Terminate", d, pc) EXCEPT !.ctx = c, !.writes = <<To(d, t)>>])
    BY <1>5, <2>1, <2>2 DEF Terminate
  <2>6. PICK h : h = [Handler("Terminate", d, pc) EXCEPT !.ctx = c, !.writes = <<To(d, t)>>]
    OBVIOUS
  <2>7. h.op = "Terminate" /\ h.pc = pc /\ h.ctx = c /\ h.writes = <<To(d, t)>>
    BY <2>6 DEF Handler, Idle
  <2>8. Intends(h)
    BY <2>4, <2>7, WrittenIntends DEF TerminatedOf, Instantiated, Deployments
  <2> QED BY <1>1, <1>5, <2>3, <2>5, <2>6, <2>7, <2>8 DEF Terminate, Deployments
<1>6. ASSUME NEW d \in Digs, NEW op \in {"Update", "Rollback"}, op \in Operations,
             NEW c \in AppContexts \cup {NoContext}, Exists(info[d]),
             Goes(k, [Handler(op, d, "call") EXCEPT
                   !.ctx = LastContextId(info[d]), !.target = c,
                   !.writes = <<To(d, Replaced(info[d])), To(d, Successor(info[d], c))>>])
      PROVE  \A j \in Clients : Promised(client[j])'
  <2>1. PICK l, t, u : l = LastContextId(info[d]) /\ u = Replaced(info[d]) /\ t = Successor(info[d], c)
    OBVIOUS
  <2>2. CurrentState(u) = "Updated" /\ CurrentState(t) = "Instantiated" /\ LastContextId(t) = c
    <3>1. info[d] \in StateInfo
      BY DEF TypeInv, MongoInv
    <3> QED BY <1>6, <2>1, <3>1, SuccessorLast
  <2>3. PICK h : h = [Handler(op, d, "call") EXCEPT !.ctx = l, !.target = c,
                                                    !.writes = <<To(d, u), To(d, t)>>]
    OBVIOUS
  <2>4. h.op = op /\ h.pc = "call" /\ h.target = c /\ h.writes = <<To(d, u), To(d, t)>>
    BY <2>3 DEF Handler, Idle
  <2>5. Intends(h)
    BY <2>2, <2>4, WrittenIntends DEF InstantiatedOf, Deployments
  <2> QED BY <1>1, <1>6, <2>1, <2>3, <2>4, <2>5
<1>7. ASSUME NEW d \in Digs, Update(k, d) PROVE \A j \in Clients : Promised(client[j])'
  <2>1. Exists(info[d])
    BY <1>7, InstantiatedInfo DEF Update, TypeInv
  <2> QED BY <1>6, <1>7, <2>1 DEF Update
<1>8. ASSUME NEW d \in Digs, Rollback(k, d) PROVE \A j \in Clients : Promised(client[j])'
  <2>1. PICK r \in 0 .. MaxActions :
            /\ Matching(info[d], r) # {}
            /\ Goes(k, [Handler("Rollback", d, "call") EXCEPT
                   !.ctx = LastContextId(info[d]), !.target = MatchingContext(info[d], r),
                   !.writes = <<To(d, Replaced(info[d])),
                                To(d, Successor(info[d], MatchingContext(info[d], r)))>>])
    BY <1>8 DEF Rollback
  <2>2. MatchingContext(info[d], r) \in AppContexts \cup {NoContext}
    BY <2>1, MatchingType DEF TypeInv, MongoInv
  <2>3. PICK c \in AppContexts \cup {NoContext} : c = MatchingContext(info[d], r)
    BY <2>2
  <2>4. Exists(info[d]) /\ "Rollback" \in Operations
    BY <1>8 DEF Rollback
  <2> QED BY <1>6, <2>1, <2>3, <2>4
<1>9. ASSUME NEW d \in Digs, NEW e \in Digs, Migrate(k, d, e)
      PROVE  \A j \in Clients : Promised(client[j])'
  <2>1. PICK c \in AppContexts :
            Goes(k, [Handler("Migrate", d, "target") EXCEPT
                   !.peer = e, !.snap = info[d], !.ctx = LastContextId(info[d]), !.target = c])
    BY <1>9 DEF Migrate
  <2>2. PICK l : l = LastContextId(info[d])
    OBVIOUS
  <2>3. PICK h : h = [Handler("Migrate", d, "target") EXCEPT
                         !.peer = e, !.snap = info[d], !.ctx = l, !.target = c]
    OBVIOUS
  <2>4. h.op = "Migrate" /\ h.pc = "target" /\ h.writes = <<>>
    BY <2>3 DEF Handler, Idle
  <2>5. Intends(h)
    BY <2>4 DEF Intends
  <2> QED BY <1>1, <1>9, <2>1, <2>2, <2>3, <2>4, <2>5 DEF Migrate, Deployments
<1>10. ASSUME NEW d \in Digs, Delete(k, d) PROVE \A j \in Clients : Promised(client[j])'
  <2>1. PICK l, z : l = LastContextId(info[d]) /\ z = ContextIds(info[d])
    OBVIOUS
  <2>2. PICK h : /\ Goes(k, h)
                 /\ \/ h = [Handler("Delete", d, "check") EXCEPT !.ctx = l, !.drop = z]
                    \/ h = Handler("Delete", d, "remove")
    BY <1>10, <2>1 DEF Delete
  <2>3. h.op = "Delete" /\ h.pc # "target" /\ h.writes = <<>>
    BY <2>2 DEF Handler, Idle
  <2>4. Intends(h)
    BY <2>3 DEF Intends
  <2> QED BY <1>1, <1>10, <2>2, <2>3, <2>4 DEF Delete, Deployments
<1>11. \A d \in Digs : ~Stop(k, d)
  BY DEF Stop
<1> QED BY <1>3, <1>4, <1>5, <1>7, <1>8, <1>9, <1>10, <1>11 DEF Start

\* A handler goes on.
LEMMA ContinuePromised ==
    ASSUME TypeInv, TerminatedInv, "Stop" \notin Operations, NEW k \in Clients, Continue(k),
           \A c \in AppContexts : Doomed(c) => Doomed(c)',
           \A c \in AppContexts : Underway(c) => Underway(c)'
    PROVE  \A j \in Clients : Promised(client[j])'
<1>1. /\ client[k] \in HandlerState /\ Coherent(client[k]) /\ client[k].pc # "idle"
      /\ Promised(client[k]) /\ client[k].op \in Operations /\ client[k].op # "Stop"
  <2>1. client[k].pc # "idle"
    BY DEF Continue, MigrateTarget, MigrateRefused, Check, SetStopFlag, SchedulerFails, CallRsync,
           CallFails, InsertGroup, Insert, DropContext, Remove, Ends, Busy
  <2> QED BY <2>1 DEF TypeInv, ClientInv, Sound, TerminatedInv, Promised
<1>2. ASSUME NEW h, Goes(k, h), Promised(h)'
      PROVE  \A j \in Clients : Promised(client[j])'
  BY <1>2, MoverPromised
<1>3. CASE Done(k)
  <2>1. Promised(Idle)'
    BY DEF Promised, Idle
  <2> QED BY <1>2, <1>3, <2>1 DEF Done
<1>4. PICK c, a : c = client[k].ctx /\ a = client[k].target
  OBVIOUS
<1>5. ASSUME NEW pc \in PCs \ {"target"}, Goes(k, [client[k] EXCEPT !.pc = pc]),
             client[k].op = "Terminate" =>
                 \/ pc = "call" /\ client[k].pc = "flag"
                 \/ pc = "insert" /\ Doomed(c)',
             client[k].op \in Deployments => pc = "insert" /\ a \in AppContexts /\ Underway(a)'
      PROVE  \A j \in Clients : Promised(client[j])'
  <2>1. PICK h : h = [client[k] EXCEPT !.pc = pc]
    OBVIOUS
  <2>2. /\ h.pc = pc /\ h.op = client[k].op /\ h.ctx = c /\ h.target = a
        /\ h.writes = client[k].writes
    BY <1>1, <1>4, <2>1 DEF HandlerState
  <2>3. Intends(h)
    BY <1>1, <1>4, <2>2 DEF Promised, Intends
  <2>4. h.op = "Terminate" => c \in AppContexts /\ (h.pc = "call" => Underway(c)')
    BY <1>1, <1>4, <1>5, <2>2 DEF Promised
  <2>5. Promised(h)'
    BY <1>1, <1>5, <2>2, <2>3, <2>4 DEF Promised
  <2> QED BY <1>2, <1>5, <2>1, <2>5
<1>6. CASE MigrateTarget(k)
  <2>1. /\ client[k].pc = "target" /\ client[k].op \notin {"Terminate"}
        /\ client[k].peer \in Digs /\ a \in AppContexts
    BY <1>1, <1>4, <1>6 DEF MigrateTarget, Coherent, Promised
  <2>2. PICK d, e, z, s : /\ d = client[k].dig /\ e = client[k].peer /\ z = client[k].snap
                          /\ s = info[client[k].peer]
    OBVIOUS
  <2>3. z \in StateInfo /\ s \in StateInfo /\ z.statusCtx \in AppContexts \cup {NoContext}
        /\ c \in AppContexts \cup {NoContext}
    BY <1>1, <1>4, <2>1, <2>2 DEF HandlerState, StateInfo, TypeInv, MongoInv
  <2>4. PICK u : u = WithAction(z, "Updated", c, 0)
    OBVIOUS
  <2>5. PICK t : t = [WithAction(s, "Instantiated", a, 0) EXCEPT !.statusCtx = z.statusCtx]
    OBVIOUS
  <2>6. CurrentState(u) = "Updated" /\ CurrentState(t) = "Instantiated" /\ LastContextId(t) = a
    <3>1. "Updated" \in States /\ 0 \in Nat
      BY DEF States
    <3> QED BY <2>1, <2>3, <2>4, <2>5, <3>1, ActionLast, InstantiationLast
  <2>7. Goes(k, [client[k] EXCEPT !.pc = "call", !.writes = <<To(d, u), To(e, t)>>])
    BY <1>4, <1>6, <2>2, <2>4, <2>5 DEF MigrateTarget
  <2>8. PICK w : w = <<To(d, u), To(e, t)>>
    OBVIOUS
  <2>9. PICK h : h = [client[k] EXCEPT !.pc = "call", !.writes = w]
    OBVIOUS
  <2>10. h.pc = "call" /\ h.op = client[k].op /\ h.target = a /\ h.writes = w
    BY <1>1, <1>4, <2>9 DEF HandlerState
  <2>11. client[k].op \in Deployments
    BY <1>1, <2>1 DEF Promised
  <2>12. Intends(h)
    BY <2>6, <2>8, <2>10, <2>11, WrittenIntends DEF InstantiatedOf, Deployments
  <2>13. Promised(h)'
    BY <1>1, <2>10, <2>11, <2>12 DEF Promised, Deployments
  <2> QED BY <1>2, <2>7, <2>8, <2>9, <2>13
<1>7. CASE Check(k)
  <2>1. client[k].op = "Delete"
    BY <1>1, <1>7 DEF Check, Coherent
  <2>2. Done(k) \/ Goes(k, [client[k] EXCEPT !.pc = "drop"])
    BY <1>7, <2>1 DEF Check
  <2> QED BY <1>3, <1>5, <2>1, <2>2 DEF PCs, Deployments
<1>8. CASE SetStopFlag(k)
  <2>1. client[k].pc = "flag" /\ client[k].op \notin Deployments
    BY <1>1, <1>8 DEF SetStopFlag, Promised
  <2>2. Done(k) \/ Goes(k, [client[k] EXCEPT !.pc = "call"])
    BY <1>1, <1>8 DEF SetStopFlag
  <2> QED BY <1>3, <1>5, <2>1, <2>2 DEF PCs
<1>9. CASE CallRsync(k)
  <2>1. /\ client[k].pc = "call" /\ UNCHANGED <<etcd, holds>>
        /\ Goes(k, [client[k] EXCEPT !.pc = "insert"])
    BY <1>9 DEF CallRsync
  <2>2. StoreInv /\ "insert" \in PCs
    BY DEF TypeInv, PCs
  <2>3. CASE client[k].op = "Terminate"
    <3>1. c \in AppContexts /\ Underway(c)
      BY <1>1, <1>4, <2>1, <2>3 DEF Promised
    <3>2. CallRsyncFor(c, "Terminate", NoContext)
      BY <1>4, <1>9, <2>3 DEF CallRsync, Subject, Request
    <3>3. NoContext \in AppContexts \cup {NoContext}
      OBVIOUS
    <3>4. Doomed(c)'
      BY <2>1, <2>2, <3>1, <3>2, <3>3, TerminateDooms
    <3> QED BY <1>5, <2>1, <2>2, <2>3, <3>4 DEF Deployments
  <2>4. CASE client[k].op # "Terminate"
    <3>1. PICK ev, other : /\ ev = Request(client[k])
                           /\ other = IF ev = "Update" THEN c ELSE NoContext
                           /\ CallRsyncFor(a, ev, other)
      BY <1>4, <1>9, <2>4 DEF CallRsync, Subject
    <3>2. ev \in {"Instantiate", "Update"} /\ other \in AppContexts \cup {NoContext}
      BY <1>1, <1>4, <2>4, <3>1 DEF Request, HandlerState
    <3>3. a \in AppContexts
      BY <2>2, <3>1 DEF CallRsyncFor, StoreInv, StoreTypeOK
    <3>4. Underway(a)'
      BY <2>1, <2>2, <3>1, <3>2, <3>3, RequestBegins
    <3> QED BY <1>5, <2>1, <2>2, <2>4, <3>3, <3>4
  <2> QED BY <2>3, <2>4
<1>10. CASE InsertGroup(k)
  <2>1. client[k].op \notin {"Terminate"} \cup Deployments
    BY <1>1, <1>10 DEF InsertGroup, Promised
  <2> QED BY <1>5, <1>10, <2>1 DEF InsertGroup, PCs
<1>11. CASE Insert(k) /\ ~Done(k)
  <2>1. PICK q : q = client[k].writes
    OBVIOUS
  <2>2. q \in Seq(Write) /\ q # <<>>
    BY <1>1, <1>11, <2>1 DEF Insert, HandlerState, Coherent
  <2>3. Len(q) # 1 /\ Goes(k, [client[k] EXCEPT !.writes = Tail(q)])
    BY <1>11, <2>1 DEF Insert
  <2>4. PICK y : y = Tail(q)
    OBVIOUS
  <2>5. PICK h : h = [client[k] EXCEPT !.writes = y]
    OBVIOUS
  <2>6. /\ h.pc = "insert" /\ h.op = client[k].op /\ h.ctx = c /\ h.target = a /\ h.writes = y
    BY <1>1, <1>4, <1>11, <2>5 DEF HandlerState, Insert
  <2>7. \A i \in DOMAIN y : y[i] = q[i + 1] /\ i + 1 \in DOMAIN q
    BY <2>2, <2>3, <2>4, TailWrites
  <2>8. Intends(h)
    <3>1. Intends(client[k])
      BY <1>1 DEF Promised
    <3> QED BY <1>4, <2>1, <2>6, <2>7, <3>1 DEF Intends
  <2>9. Promised(h)
    BY <1>1, <1>4, <1>11, <2>6, <2>8 DEF Promised, Insert
  <2> QED BY <1>2, <2>3, <2>4, <2>5, <2>9, PromisedStays
<1>12. CASE DropContext(k) /\ ~Done(k)
  <2>1. client[k].op \notin {"Terminate"} \cup Deployments /\ client[k].pc = "drop"
    BY <1>1, <1>12 DEF DropContext, Promised
  <2>2. PICK d : Goes(k, [client[k] EXCEPT !.drop = @ \ {d}])
    BY <1>12 DEF DropContext
  <2>3. PICK h : h = [client[k] EXCEPT !.drop = @ \ {d}]
    OBVIOUS
  <2>4. h.pc = "drop" /\ h.op = client[k].op /\ h.writes = client[k].writes
    BY <1>1, <2>1, <2>3 DEF HandlerState
  <2>5. Intends(h)
    BY <1>1, <2>1, <2>4 DEF Promised, Intends
  <2>6. Promised(h)'
    BY <1>1, <2>1, <2>4, <2>5 DEF Promised
  <2> QED BY <1>2, <2>2, <2>3, <2>6
<1> QED BY <1>3, <1>6, <1>7, <1>8, <1>9, <1>10, <1>11, <1>12
        DEF Continue, MigrateRefused, SchedulerFails, CallFails, Remove, Ends

\* What is recorded of terminated and instantiated DIGs is true.
LEMMA RecordsKept ==
    ASSUME TypeInv, TerminatedInv, [Next]_vars,
           \A c \in AppContexts : Doomed(c) => Doomed(c)',
           \A c \in AppContexts : Underway(c) => Underway(c)'
    PROVE  (\A d \in Digs : Kept(info[d]))'
<1>1. UNCHANGED info \/ \E k \in Clients : Insert(k) \/ Remove(k)
  <2>1. ASSUME NEW k \in Clients, Start(k) PROVE UNCHANGED mongo
    BY <2>1 DEF Start, Create, Approve, Instantiate, Terminate, Stop, Update, Rollback, Migrate, Delete
  <2>2. ASSUME NEW k \in Clients, Continue(k), ~Insert(k), ~Remove(k) PROVE UNCHANGED info
    BY <2>2 DEF Continue, MigrateTarget, MigrateRefused, Check, SetStopFlag, SchedulerFails,
         CallRsync, CallFails, InsertGroup, DropContext, Ends, mongo
  <2> QED BY <2>1, <2>2, SMTT(40) DEF Next, Continue, mongo, vars
<1>2. CASE UNCHANGED info
  <2> TAKE d \in Digs
  <2>1. PICK s : s = info[d]
    OBVIOUS
  <2>2. Kept(s)' /\ s = info'[d]
    BY <1>2, <2>1, PromisedStays DEF TerminatedInv
  <2> QED BY <2>2 DEF Kept
<1>3. ASSUME NEW e \in Digs, NEW t, info' = [info EXCEPT ![e] = t], Kept(t)
      PROVE  (\A d \in Digs : Kept(info[d]))'
  <2> TAKE d \in Digs
  <2>1. PICK s : s = info'[d]
    OBVIOUS
  <2>2. s = t \/ s = info[d]
    BY <1>3, <2>1 DEF TypeInv, MongoInv
  <2>3. Kept(s)'
    BY <1>3, <2>2, PromisedStays DEF TerminatedInv
  <2> QED BY <2>1, <2>3 DEF Kept
<1>4. ASSUME NEW k \in Clients, Insert(k) PROVE (\A d \in Digs : Kept(info[d]))'
  <2>1. /\ client[k].writes \in Seq(Write) /\ client[k].writes # <<>>
        /\ client[k].pc = "insert" /\ Promised(client[k])
    BY <1>4 DEF Insert, TypeInv, ClientInv, Sound, Coherent, HandlerState, TerminatedInv
  <2>2. PICK w : w = Head(client[k].writes)
    OBVIOUS
  <2>3. w \in Write /\ w = client[k].writes[1] /\ 1 \in DOMAIN client[k].writes
    BY <2>1, <2>2, HeadTailProperties, EmptySeq, LenProperties
  <2>4. w.dig \in Digs /\ info' = [info EXCEPT ![w.dig] = w.info]
    BY <1>4, <2>2, <2>3 DEF Insert, Write
  <2>5. Kept(w.info)
    BY <2>1, <2>3 DEF Promised, Intends, TerminatedOf, InstantiatedOf, Kept
  <2> QED BY <1>3, <2>4, <2>5
<1>5. ASSUME NEW k \in Clients, Remove(k) PROVE (\A d \in Digs : Kept(info[d]))'
  <2>1. client[k].dig \in Digs /\ info' = [info EXCEPT ![client[k].dig] = NoInfo]
    BY <1>5 DEF Remove, TypeInv, ClientInv, Sound, Coherent
  <2>2. Kept(NoInfo)
    BY DEF Kept, Instantiated, CurrentState, Exists, NoInfo
  <2> QED BY <1>3, <2>1, <2>2
<1> QED BY <1>1, <1>2, <1>4, <1>5

\* Without Stop, however many handlers overwrite each other's records, whatever
\* rsync makes of its events and whenever the orchestrator dies: what a DIG that is
\* recorded as terminated left on the clusters is leaving them
\* (terminateContext in orchestrator/pkg/module/instantiation.go).
THEOREM TerminatedIsLeavingSafe ==
    ASSUME "Stop" \notin Operations
    PROVE  Spec => []TerminatedIsLeaving
<1>1. Init => TerminatedInv
  <2> SUFFICES ASSUME Init PROVE TerminatedInv
    OBVIOUS
  <2>1. Kept(NoInfo) /\ Promised(Idle)
    BY DEF Kept, Instantiated, CurrentState, Exists, NoInfo, Promised, Idle
  <2>2. (\A d \in Digs : info[d] = NoInfo) /\ (\A k \in Clients : client[k] = Idle)
    BY DEF Init
  <2>3. Unstopped
    BY DEF Init, InitStore, InitLifecycle, Unstopped
  <2> QED BY <2>1, <2>2, <2>3 DEF TerminatedInv
<1>2. TypeInv /\ TerminatedInv /\ [Next]_vars => TerminatedInv'
  <2> SUFFICES ASSUME TypeInv, TerminatedInv, [Next]_vars PROVE TerminatedInv'
    OBVIOUS
  <2>1. /\ Unstopped'
        /\ \A c \in AppContexts : Doomed(c) => Doomed(c)'
        /\ \A c \in AppContexts : Underway(c) => Underway(c)'
    BY NoReturn
  <2>2. (\A d \in Digs : Kept(info[d]))'
    BY <2>1, RecordsKept
  <2>3. \A j \in Clients : Promised(client[j])'
    <3>1. CASE \E k \in Clients : Start(k)
      BY <2>1, <3>1, StartPromised
    <3>2. CASE \E k \in Clients : Continue(k)
      BY <2>1, <3>2, ContinuePromised
    <3>3. CASE UNCHANGED client
      <4> TAKE j \in Clients
      <4>1. PICK g : g = client[j]
        OBVIOUS
      <4>2. Promised(g)' /\ g = client'[j]
        BY <2>1, <3>3, <4>1, PromisedStays DEF TerminatedInv
      <4> QED BY <4>2 DEF Promised
    <3> QED BY <3>1, <3>2, <3>3 DEF Next, vars
  <2> QED BY <2>1, <2>2, <2>3 DEF TerminatedInv
<1>3. TypeInv /\ TerminatedInv => TerminatedIsLeaving
  BY DoomedIsLeaving DEF TypeInv, TerminatedInv, Kept, TerminatedIsLeaving
<1> QED BY <1>1, <1>2, <1>3, TypeInvariance, PTL DEF Spec

-------------------------------------------------------------------------------
(* AppContexts that nobody knows.                                          *)

\* What a handler is going to write names what the record names by then, the
\* AppContext it has made in the end, and its DIGs are in MongoDB.
WorksOn(h) == {h.dig, h.peer} \cap Digs

Grown(h) ==
    h.pc # "idle" =>
        /\ h.op \in Operations
        /\ h.pc \notin {"drop", "remove"}
        /\ h.pc = "group" => h.target = NoContext /\ h.peer = NoDig
        /\ h.pc = "group" \/ WorksOn(h) \subseteq groups
        /\ \A i \in DOMAIN h.writes :
              /\ h.writes[i].dig \in WorksOn(h)
              /\ ContextIds(info[h.writes[i].dig]) \subseteq ContextIds(h.writes[i].info)
              /\ \A j \in DOMAIN h.writes :
                    i < j /\ h.writes[i].dig = h.writes[j].dig
                    => ContextIds(h.writes[i].info) \subseteq ContextIds(h.writes[j].info)
        /\ h.pc = "target" => h.dig # h.peer /\ ContextIds(info[h.dig]) \subseteq ContextIds(h.snap)
        /\ h.pc # "target" /\ h.target # NoContext =>
               h.target \in ContextIds(h.writes[Len(h.writes)].info)

\* rsync has deployed c, or was told to.
Wanted(c) == c \in holds \/ \E i \in DOMAIN pending[c] : Deploys(pending[c][i].ev)

Known(c) ==
    \/ \E d \in Digs : c \in ContextIds(info[d])
    \/ \E k \in Clients : client[k].pc = "insert" /\ client[k].target = c

KnownInv ==
    /\ \A j, k \in Clients :
          j # k /\ Busy(j) /\ Busy(k) => WorksOn(client[j]) \cap WorksOn(client[k]) = {}
    /\ \A d \in Digs : Exists(info[d]) => d \in groups
    /\ \A k \in Clients : Grown(client[k])
    /\ \A c \in AppContexts : Wanted(c) => Known(c)

\* A record with one more action names what it named and the new AppContext.
LEMMA ContextsGrow ==
    ASSUME NEW s \in StateInfo, NEW st \in States, NEW c \in AppContexts \cup {NoContext},
           NEW r \in Nat
    PROVE  /\ ContextIds(s) \subseteq ContextIds(WithAction(s, st, c, r))
           /\ c # NoContext => c \in ContextIds(WithAction(s, st, c, r))
<1> DEFINE t == WithAction(s, st, c, r)
           n == Len(s.actions)
<1>1. /\ t \in StateInfo /\ Len(t.actions) = n + 1
      /\ \A i \in 1 .. n : t.actions[i] = s.actions[i]
      /\ LastAction(t) = [state |-> st, ctx |-> c, rev |-> r]
  BY WithActionType
<1>2. n \in Nat /\ DOMAIN t.actions = 1 .. n + 1 /\ DOMAIN s.actions = 1 .. n
  BY <1>1, ActionTypes
<1>3. t.actions[n + 1].ctx = c
  BY <1>1 DEF LastAction
<1> HIDE DEF t, n
<1>4. \A i \in DOMAIN s.actions : i \in DOMAIN t.actions /\ t.actions[i] = s.actions[i]
  BY <1>1, <1>2
<1>5. n + 1 \in DOMAIN t.actions
  BY <1>2
<1> QED BY <1>3, <1>4, <1>5 DEF ContextIds, t

\* The same when it also says where it reports to.
LEMMA InstantiationGrows ==
    ASSUME NEW s \in StateInfo, NEW c \in AppContexts, NEW r \in Nat,
           NEW z \in AppContexts \cup {NoContext}
    PROVE  LET t == [WithAction(s, "Instantiated", c, r) EXCEPT !.statusCtx = z] IN
           ContextIds(s) \subseteq ContextIds(t) /\ c \in ContextIds(t)
<1> DEFINE u == WithAction(s, "Instantiated", c, r)
           t == [u EXCEPT !.statusCtx = z]
<1>1. "Instantiated" \in States
  BY DEF States
<1>2. u \in StateInfo /\ ContextIds(s) \subseteq ContextIds(u) /\ c \in ContextIds(u)
  BY <1>1, WithActionType, ContextsGrow, ContextAssumption
<1> HIDE DEF u
<1>3. t.actions = u.actions
  BY <1>2 DEF StateInfo
<1> HIDE DEF t
<1>4. ContextIds(t) = ContextIds(u)
  BY <1>3 DEF ContextIds
<1> QED BY <1>2, <1>4 DEF t, u

\* The two records of an Update or a Rollback.
LEMMA SuccessorGrows ==
    ASSUME NEW s \in StateInfo, Exists(s), NEW c \in AppContexts \cup {NoContext}
    PROVE  /\ ContextIds(s) \subseteq ContextIds(Replaced(s))
           /\ ContextIds(Replaced(s)) \subseteq ContextIds(Successor(s, c))
           /\ c # NoContext => c \in ContextIds(Successor(s, c))
<1>1. /\ Replaced(s) \in StateInfo /\ LatestRevision(s) + 1 \in Nat
      /\ LastContextId(s) \in AppContexts \cup {NoContext} /\ LatestRevision(s) \in Nat
  BY SuccessorType
<1>2. "Instantiated" \in States /\ "Updated" \in States
  BY DEF States
<1>3. ContextIds(s) \subseteq ContextIds(Replaced(s))
  BY <1>1, <1>2, ContextsGrow DEF Replaced
<1>4. /\ ContextIds(Replaced(s)) \subseteq
             ContextIds(WithAction(Replaced(s), "Instantiated", c, LatestRevision(s) + 1))
      /\ c # NoContext =>
             c \in ContextIds(WithAction(Replaced(s), "Instantiated", c, LatestRevision(s) + 1))
  BY <1>1, <1>2, ContextsGrow
<1> QED BY <1>1, <1>3, <1>4 DEF Successor

\* A handler that is to write one StateInfo.
LEMMA OneGrown ==
    ASSUME NEW h, NEW d \in Digs, NEW t,
           h.op \in Operations, h.pc \notin {"drop", "remove", "target"}, h.dig = d,
           h.writes = <<To(d, t)>>, ContextIds(info[d]) \subseteq ContextIds(t),
           IF h.pc = "group" THEN h.target = NoContext /\ h.peer = NoDig ELSE WorksOn(h) \subseteq groups,
           h.target # NoContext => h.target \in ContextIds(t)
    PROVE  Grown(h)
<1>1. /\ DOMAIN h.writes = {1} /\ Len(h.writes) = 1
      /\ h.writes[1].dig = d /\ h.writes[1].info = t
  BY DEF To
<1>2. d \in WorksOn(h)
  BY DEF WorksOn
<1> QED BY <1>1, <1>2 DEF Grown

\* One that is to write two.
LEMMA TwoGrown ==
    ASSUME NEW h, NEW d \in Digs, NEW u, NEW e \in Digs, NEW t,
           h.op \in Operations, h.pc = "call", {d, e} \subseteq WorksOn(h),
           WorksOn(h) \subseteq groups,
           h.writes = <<To(d, u), To(e, t)>>,
           ContextIds(info[d]) \subseteq ContextIds(u), ContextIds(info[e]) \subseteq ContextIds(t),
           d = e => ContextIds(u) \subseteq ContextIds(t),
           h.target # NoContext => h.target \in ContextIds(t)
    PROVE  Grown(h)
<1>1. /\ DOMAIN h.writes = {1, 2} /\ Len(h.writes) = 2
      /\ h.writes[1].dig = d /\ h.writes[1].info = u
      /\ h.writes[2].dig = e /\ h.writes[2].info = t
  BY DEF To
<1> QED BY <1>1 DEF Grown

\* A handler whose DIGs nobody touches stays so.
LEMMA GrownStays ==
    ASSUME NEW h, Grown(h), h.pc # "idle" => h.dig \in Digs, groups \subseteq groups',
           h.pc # "idle" => \A d \in WorksOn(h) : info'[d] = info[d]
    PROVE  Grown(h)'
<1> SUFFICES ASSUME h.pc # "idle" PROVE Grown(h)'
  BY DEF Grown
<1>1. \A i \in DOMAIN h.writes : info'[h.writes[i].dig] = info[h.writes[i].dig]
  BY DEF Grown
<1>2. info'[h.dig] = info[h.dig]
  BY DEF WorksOn
<1>3. WorksOn(h)' = WorksOn(h)
  BY DEF WorksOn
<1>4. \A i \in DOMAIN h.writes :
         ContextIds(info'[h.writes[i].dig]) \subseteq ContextIds(h.writes[i].info)
  BY <1>1 DEF Grown
<1>5. h.pc = "target" => ContextIds(info'[h.dig]) \subseteq ContextIds(h.snap)
  BY <1>2 DEF Grown
<1> QED BY <1>3, <1>4, <1>5 DEF Grown

\* A handler moves, and MongoDB is left alone but for a group that is inserted.
LEMMA StepKnown ==
    ASSUME TypeInv, KnownInv, NEW k \in Clients, NEW g, Goes(k, g), UNCHANGED info,
           groups \subseteq groups', Grown(g)',
           \/ g.pc = "idle"
           \/ \A j \in Clients \ {k} : Busy(j) => WorksOn(client[j]) \cap WorksOn(g) = {},
           client[k].pc = "insert" => g.pc = "insert" /\ g.target = client[k].target,
           \A c \in AppContexts : Wanted(c)' => Wanted(c) \/ (g.pc = "insert" /\ g.target = c)
    PROVE  KnownInv'
<1>1. \A j \in Clients : client'[j] = IF j = k THEN g ELSE client[j]
  BY DEF Goes, TypeInv, ClientInv
<1>2. \A j \in Clients : client[j].pc # "idle" => client[j].dig \in Digs
  BY DEF TypeInv, ClientInv, Sound, Coherent
<1>3. ASSUME NEW i \in Clients, NEW j \in Clients, i # j, Busy(i)', Busy(j)'
      PROVE  WorksOn(client'[i]) \cap WorksOn(client'[j]) = {}
  BY <1>1, <1>3 DEF KnownInv, Busy
<1>4. ASSUME NEW j \in Clients PROVE Grown(client[j])'
  <2>1. PICK h : h = client'[j]
    OBVIOUS
  <2>2. CASE j = k
    <3>1. g = client'[j]
      BY <1>1, <2>2
    <3> QED BY <3>1 DEF Grown
  <2>3. CASE j # k
    <3>1. Grown(h) /\ (h.pc # "idle" => h.dig \in Digs)
      BY <1>1, <1>2, <2>1, <2>3 DEF KnownInv
    <3>2. Grown(h)'
      BY <3>1, GrownStays
    <3> QED BY <2>1, <3>2 DEF Grown
  <2> QED BY <2>2, <2>3
<1>5. ASSUME NEW c \in AppContexts, Wanted(c)' PROVE Known(c)'
  <2>1. CASE g.pc = "insert" /\ g.target = c
    BY <1>1, <2>1 DEF Known
  <2>2. CASE Wanted(c)
    BY <1>1, <2>2 DEF KnownInv, Known
  <2> QED BY <1>5, <2>1, <2>2
<1>6. \A d \in Digs : Exists(info'[d]) => d \in groups'
  BY DEF KnownInv
<1> QED BY <1>3, <1>4, <1>5, <1>6 DEF KnownInv, WorksOn, Exists

\* A queue that got one more event, or lost its first one.
LEMMA QueueWanted ==
    ASSUME NEW c \in AppContexts, pending[c] \in Seq(PendingEvent),
           \/ pending'[c] = pending[c]
           \/ pending[c] # <<>> /\ pending'[c] = Tail(pending[c])
           \/ \E e \in PendingEvent : pending'[c] = Append(pending[c], e) /\ ~Deploys(e.ev),
           NEW i \in DOMAIN pending'[c], Deploys(pending'[c][i].ev)
    PROVE  \E j \in DOMAIN pending[c] : Deploys(pending[c][j].ev)
<1>1. Len(pending[c]) \in Nat /\ DOMAIN pending[c] = 1 .. Len(pending[c])
  BY LenProperties
<1>2. CASE pending'[c] = pending[c]
  BY <1>2
<1>3. CASE pending[c] # <<>> /\ pending'[c] = Tail(pending[c])
  <2>1. /\ Tail(pending[c]) \in Seq(PendingEvent) /\ Len(Tail(pending[c])) = Len(pending[c]) - 1
        /\ \A j \in 1 .. Len(Tail(pending[c])) : Tail(pending[c])[j] = pending[c][j + 1]
    BY <1>3, HeadTailProperties
  <2>2. i \in 1 .. Len(Tail(pending[c]))
    BY <1>3, <2>1, LenProperties
  <2>3. i + 1 \in DOMAIN pending[c] /\ pending'[c][i] = pending[c][i + 1]
    BY <1>1, <1>3, <2>1, <2>2
  <2> QED BY <2>3
<1>4. CASE \E e \in PendingEvent : pending'[c] = Append(pending[c], e) /\ ~Deploys(e.ev)
  <2>1. PICK e \in PendingEvent : pending'[c] = Append(pending[c], e) /\ ~Deploys(e.ev)
    BY <1>4
  <2>2. /\ Len(Append(pending[c], e)) = Len(pending[c]) + 1
        /\ Append(pending[c], e) \in Seq(PendingEvent)
        /\ \A j \in 1 .. Len(pending[c]) : Append(pending[c], e)[j] = pending[c][j]
        /\ Append(pending[c], e)[Len(pending[c]) + 1] = e
    BY AppendProperties
  <2>3. i \in 1 .. Len(pending[c]) + 1
    BY <2>1, <2>2, LenProperties
  <2>4. i # Len(pending[c]) + 1
    BY <2>1, <2>2
  <2>5. i \in DOMAIN pending[c] /\ pending'[c][i] = pending[c][i]
    BY <1>1, <2>1, <2>2, <2>3, <2>4
  <2> QED BY <2>5
<1> QED BY <1>2, <1>3, <1>4

\* rsync deploys only what it was told to.
LEMMA RsyncWanted ==
    ASSUME StoreInv, NEW d \in AppContexts, Rsync(d), NEW c \in AppContexts, Wanted(c)'
    PROVE  Wanted(c)
<1>1. pending[c] \in Seq(PendingEvent) /\ pending[d] \in Seq(PendingEvent)
  BY DEF StoreInv, StoreTypeOK
<1>2. work[d] \in {"busy", "handed"} => pending[d] # <<>>
  BY DEF StoreInv, HandledIsPending
<1>3. c \in holds' => c \in holds \/ (c = d /\ pending[d] # <<>> /\ Deploys(First(d)))
  <2>1. CASE RsyncHandsOver(d)
    BY <1>2, <2>1 DEF RsyncHandsOver, HandsOver, Deploys
  <2>2. CASE RsyncSucceeds(d) \/ RsyncFails(d)
    BY <1>2, <2>2 DEF RsyncSucceeds, RsyncFails, Succeed, Fail, Ended
  <2>3. CASE ~RsyncHandsOver(d) /\ ~RsyncSucceeds(d) /\ ~RsyncFails(d)
    BY <2>3 DEF Rsync, RsyncAccepts, RsyncRefuses, RsyncSettles, RsyncAbandons
  <2> QED BY <2>1, <2>2, <2>3
<1>4. pending[d] # <<>> /\ Deploys(First(d)) => \E j \in DOMAIN pending[d] : Deploys(pending[d][j].ev)
  <2>1. pending[d] # <<>> => 1 \in DOMAIN pending[d] /\ Head(pending[d]) = pending[d][1]
    BY <1>1, EmptySeq, LenProperties, HeadTailProperties
  <2> QED BY <2>1 DEF First
<1>5. \/ pending'[c] = pending[c]
      \/ pending[c] # <<>> /\ pending'[c] = Tail(pending[c])
      \/ \E e \in PendingEvent : pending'[c] = Append(pending[c], e) /\ ~Deploys(e.ev)
  <2>1. CASE RsyncHandsOver(d)
    <3>1. CASE UNCHANGED pending
      BY <3>1
    <3>2. CASE Submit(Head(pending[d]).other, "UpdateDelete", d)
      <4>1. [ev |-> "UpdateDelete", other |-> d] \in PendingEvent
        BY DEF PendingEvent, RsyncEvents
      <4>2. ~Deploys([ev |-> "UpdateDelete", other |-> d].ev)
        BY DEF Deploys
      <4> QED BY <3>2, <4>1, <4>2 DEF Submit, StoreInv, StoreTypeOK
    <3> QED BY <2>1, <3>1, <3>2 DEF RsyncHandsOver, HandsOver
  <2>2. CASE RsyncSucceeds(d) \/ RsyncFails(d) \/ RsyncRefuses(d)
    <3>1. pending[d] # <<>> /\ \E w : Decide(d, w)
      BY <1>2, <2>2 DEF RsyncSucceeds, RsyncFails, RsyncRefuses, Succeed, Fail, Refused, Ended
    <3> QED BY <3>1 DEF Decide, StoreInv, StoreTypeOK
  <2>3. CASE RsyncAccepts(d) \/ RsyncSettles(d) \/ RsyncAbandons(d)
    BY <2>3 DEF RsyncAccepts, RsyncSettles, RsyncAbandons, Accept, Settle, Abandon
  <2> QED BY <2>1, <2>2, <2>3 DEF Rsync
<1> QED BY <1>1, <1>3, <1>4, <1>5, QueueWanted DEF Wanted

\* A call of rsync.
LEMMA CallWanted ==
    ASSUME StoreInv, NEW x, NEW ev \in RsyncEvents, NEW other \in AppContexts \cup {NoContext},
           CallRsyncFor(x, ev, other), UNCHANGED holds, NEW c \in AppContexts, Wanted(c)'
    PROVE  Wanted(c) \/ (c = x /\ Deploys(ev))
<1>1. pending[c] \in Seq(PendingEvent)
  BY DEF StoreInv, StoreTypeOK
<1>2. [ev |-> ev, other |-> other] \in PendingEvent /\ [ev |-> ev, other |-> other].ev = ev
  BY DEF PendingEvent
<1>3. \/ pending'[c] = pending[c]
      \/ c = x /\ \E e \in PendingEvent : pending'[c] = Append(pending[c], e) /\ e.ev = ev
  BY <1>2 DEF CallRsyncFor, Submit, StoreInv, StoreTypeOK
<1> QED BY <1>1, <1>3, QueueWanted DEF Wanted

\* A handler starts.
LEMMA StartKnown ==
    ASSUME TypeInv, KnownInv, "concurrent" \notin Faults, "Delete" \notin Operations,
           NEW k \in Clients, Start(k)
    PROVE  KnownInv'
<1>0. NoContext \in AppContexts \cup {NoContext} /\ 0 \in Nat /\ 1 \in Nat
  OBVIOUS
<1>1. UNCHANGED <<info, groups>> /\ \A c \in AppContexts : Wanted(c)' => Wanted(c)
  <2>1. UNCHANGED mongo /\ UNCHANGED lifecycle /\ UNCHANGED holds
    BY DEF Start, Create, Approve, Instantiate, Terminate, Stop, Update, Rollback, Migrate, Delete
  <2> QED BY <2>1, SMTT(40) DEF mongo, lifecycle, Wanted
<1>2. \A d \in Digs : info[d] \in StateInfo /\ (Exists(info[d]) => d \in groups)
  BY DEF TypeInv, MongoInv, KnownInv
<1>3. ASSUME NEW h, Goes(k, h), Grown(h), h.dig \in Digs, ~Busy(k),
             \A d \in WorksOn(h) : Free(k, d)
      PROVE  KnownInv'
  <2>1. \A j \in Clients \ {k} : Busy(j) => WorksOn(client[j]) \cap WorksOn(h) = {}
    BY <1>3 DEF Free, WorksOn
  <2>2. Grown(h)'
    BY <1>1, <1>3, GrownStays
  <2> QED BY <1>1, <1>3, <2>1, <2>2, StepKnown DEF Busy
<1>4. ASSUME NEW d \in Digs, NEW t, NEW h, Goes(k, h), h.op \in Operations,
             h.pc \notin {"drop", "remove", "target"}, h.dig = d, h.peer = NoDig,
             h.writes = <<To(d, t)>>, ContextIds(info[d]) \subseteq ContextIds(t), Free(k, d),
             IF h.pc = "group" THEN h.target = NoContext ELSE d \in groups,
             h.target # NoContext => h.target \in ContextIds(t)
      PROVE  KnownInv'
  <2>1. WorksOn(h) = {d}
    BY <1>4, NullAssumption DEF WorksOn
  <2>2. Grown(h)
    BY <1>4, <2>1, OneGrown
  <2> QED BY <1>3, <1>4, <2>1, <2>2 DEF Free
<1>5. ASSUME NEW d \in Digs, Create(k, d) PROVE KnownInv'
  <2>1. PICK t : t = WithAction(NoInfo, "Created", NoContext, 0)
    OBVIOUS
  <2>2. PICK h : h = [Handler("Create", d, "group") EXCEPT !.writes = <<To(d, t)>>]
    OBVIOUS
  <2>3. /\ h.op = "Create" /\ h.pc = "group" /\ h.dig = d /\ h.peer = NoDig /\ h.target = NoContext
        /\ h.writes = <<To(d, t)>>
    BY <2>2 DEF Handler, Idle
  <2>4. ContextIds(info[d]) = {}
    BY <1>2, <1>5 DEF Create, Exists, ContextIds
  <2>5. Goes(k, h) /\ Free(k, d) /\ "Create" \in Operations
    BY <1>5, <2>1, <2>2 DEF Create
  <2>6. ContextIds(info[d]) \subseteq ContextIds(t)
    BY <2>4
  <2> QED BY <1>4, <2>3, <2>5, <2>6
<1>6. ASSUME NEW d \in Digs, NEW op \in Operations, NEW pc \in {"insert", "call", "flag", "check"},
             NEW c, NEW st \in States, NEW a \in AppContexts \cup {NoContext},
             Exists(info[d]), Free(k, d),
             Goes(k, [Handler(op, d, pc) EXCEPT
                         !.ctx = c, !.writes = <<To(d, WithAction(info[d], st, a, 0))>>])
      PROVE  KnownInv'
  <2>1. PICK t : t = WithAction(info[d], st, a, 0)
    OBVIOUS
  <2>2. PICK h : h = [Handler(op, d, pc) EXCEPT !.ctx = c, !.writes = <<To(d, t)>>]
    OBVIOUS
  <2>3. /\ h.op = op /\ h.pc = pc /\ h.dig = d /\ h.peer = NoDig /\ h.target = NoContext
        /\ h.writes = <<To(d, t)>>
    BY <2>2 DEF Handler, Idle
  <2>4. ContextIds(info[d]) \subseteq ContextIds(t) /\ d \in groups
    BY <1>0, <1>2, <1>6, <2>1, ContextsGrow
  <2>5. Goes(k, h) /\ Free(k, d)
    BY <1>6, <2>1, <2>2
  <2> QED BY <1>4, <2>3, <2>4, <2>5
<1>7. ASSUME NEW d \in Digs, Approve(k, d) PROVE KnownInv'
  <2>1. Exists(info[d]) /\ "Approved" \in States /\ "Approve" \in Operations
    BY <1>7 DEF Approve, CurrentState, States
  <2>2. PICK t : t = WithAction(info[d], "Approved", NoContext, 0)
    OBVIOUS
  <2>3. PICK h : h = [Handler("Approve", d, "insert") EXCEPT !.writes = <<To(d, t)>>]
    OBVIOUS
  <2>4. /\ h.op = "Approve" /\ h.pc = "insert" /\ h.dig = d /\ h.peer = NoDig /\ h.target = NoContext
        /\ h.writes = <<To(d, t)>>
    BY <2>3 DEF Handler, Idle
  <2>5. ContextIds(info[d]) \subseteq ContextIds(t) /\ d \in groups
    BY <1>0, <1>2, <2>1, <2>2, ContextsGrow
  <2> QED BY <1>4, <1>7, <2>1, <2>2, <2>3, <2>4, <2>5 DEF Approve
<1>8. ASSUME NEW d \in Digs, Instantiate(k, d) PROVE KnownInv'
  <2>1. PICK c \in AppContexts :
            Goes(k, [Handler("Instantiate", d, "call") EXCEPT
                   !.target = c,
                   !.writes = <<To(d, [WithAction(info[d], "Instantiated", c, 1) EXCEPT
                                          !.statusCtx = c])>>])
    BY <1>8 DEF Instantiate
  <2>2. PICK t : t = [WithAction(info[d], "Instantiated", c, 1) EXCEPT !.statusCtx = c]
    OBVIOUS
  <2>3. PICK h : h = [Handler("Instantiate", d, "call") EXCEPT !.target = c, !.writes = <<To(d, t)>>]
    OBVIOUS
  <2>4. /\ h.op = "Instantiate" /\ h.pc = "call" /\ h.dig = d /\ h.peer = NoDig /\ h.target = c
        /\ h.writes = <<To(d, t)>>
    BY <2>3 DEF Handler, Idle
  <2>5. ContextIds(info[d]) \subseteq ContextIds(t) /\ c \in ContextIds(t)
    BY <1>0, <1>2, <2>2, InstantiationGrows
  <2> QED BY <1>4, <1>8, <2>1, <2>2, <2>3, <2>4, <2>5 DEF Instantiate
<1>9. ASSUME NEW d \in Digs, Terminate(k, d) PROVE KnownInv'
  <2>1. PICK c, pc : /\ c = LastContextId(info[d])
                     /\ pc = IF CurrentState(info[d]) = "Instantiated" THEN "call" ELSE "flag"
    OBVIOUS
  <2>2. /\ Exists(info[d]) /\ "Terminated" \in States /\ "Terminate" \in Operations
        /\ c \in AppContexts /\ pc \in {"call", "flag"} /\ Free(k, d)
    BY <1>9, <2>1, InstantiatedInfo DEF Terminate, States, TypeInv
  <2>3. Goes(k, [Handler("Terminate", d, pc) EXCEPT
                    !.ctx = c, !.writes = <<To(d, WithAction(info[d], "Terminated", c, 0))>>])
    BY <1>9, <2>1, SMTT(40) DEF Terminate
  <2> QED BY <1>6, <2>2, <2>3
<1>10. ASSUME NEW d \in Digs, Stop(k, d) PROVE KnownInv'
  <2>1. PICK c, st : /\ c = LastContextId(info[d])
                     /\ st = IF CurrentState(info[d]) = "Instantiated"
                             THEN "InstantiateStopped" ELSE "TerminateStopped"
    OBVIOUS
  <2>2. Exists(info[d]) /\ st \in States /\ "Stop" \in Operations /\ Free(k, d)
    BY <1>10, <2>1 DEF Stop, CurrentState, States
  <2>3. c \in AppContexts \cup {NoContext}
    BY <1>2, <2>1, <2>2, LastActionType
  <2>4. Goes(k, [Handler("Stop", d, "check") EXCEPT
                    !.ctx = c, !.writes = <<To(d, WithAction(info[d], st, c, 0))>>])
    BY <1>10, <2>1 DEF Stop
  <2> QED BY <1>6, <2>2, <2>3, <2>4
<1>11. ASSUME NEW d \in Digs, NEW op \in {"Update", "Rollback"}, op \in Operations,
              NEW c \in AppContexts \cup {NoContext}, Exists(info[d]), Free(k, d),
              Goes(k, [Handler(op, d, "call") EXCEPT
                   !.ctx = LastContextId(info[d]), !.target = c,
                   !.writes = <<To(d, Replaced(info[d])), To(d, Successor(info[d], c))>>])
       PROVE  KnownInv'
  <2>1. PICK l, t, u : l = LastContextId(info[d]) /\ u = Replaced(info[d]) /\ t = Successor(info[d], c)
    OBVIOUS
  <2>2. /\ ContextIds(info[d]) \subseteq ContextIds(u) /\ ContextIds(u) \subseteq ContextIds(t)
        /\ c # NoContext => c \in ContextIds(t)
    BY <1>2, <1>11, <2>1, SuccessorGrows
  <2>3. PICK h : h = [Handler(op, d, "call") EXCEPT !.ctx = l, !.target = c,
                                                    !.writes = <<To(d, u), To(d, t)>>]
    OBVIOUS
  <2>4. /\ h.op = op /\ h.pc = "call" /\ h.dig = d /\ h.peer = NoDig /\ h.target = c
        /\ h.writes = <<To(d, u), To(d, t)>>
    BY <2>3 DEF Handler, Idle
  <2>5. WorksOn(h) = {d} /\ d \in groups
    BY <1>2, <1>11, <2>4, NullAssumption DEF WorksOn
  <2>6. Grown(h)
    BY <1>11, <2>2, <2>4, <2>5, TwoGrown
  <2> QED BY <1>3, <1>11, <2>1, <2>3, <2>4, <2>5, <2>6 DEF Free
<1>12. ASSUME NEW d \in Digs, Update(k, d) PROVE KnownInv'
  <2>1. Exists(info[d])
    BY <1>12, InstantiatedInfo DEF Update, TypeInv
  <2> QED BY <1>11, <1>12, <2>1 DEF Update
<1>13. ASSUME NEW d \in Digs, Rollback(k, d) PROVE KnownInv'
  <2>1. PICK r \in 0 .. MaxActions :
            /\ Matching(info[d], r) # {}
            /\ Goes(k, [Handler("Rollback", d, "call") EXCEPT
                   !.ctx = LastContextId(info[d]), !.target = MatchingContext(info[d], r),
                   !.writes = <<To(d, Replaced(info[d])),
                                To(d, Successor(info[d], MatchingContext(info[d], r)))>>])
    BY <1>13 DEF Rollback
  <2>2. MatchingContext(info[d], r) \in AppContexts \cup {NoContext}
    BY <1>2, <2>1, MatchingType
  <2>3. PICK c \in AppContexts \cup {NoContext} : c = MatchingContext(info[d], r)
    BY <2>2
  <2>4. Exists(info[d]) /\ "Rollback" \in Operations /\ Free(k, d)
    BY <1>13 DEF Rollback
  <2> QED BY <1>11, <2>1, <2>3, <2>4
<1>14. ASSUME NEW d \in Digs, NEW e \in Digs, Migrate(k, d, e) PROVE KnownInv'
  <2>1. PICK c \in AppContexts :
            Goes(k, [Handler("Migrate", d, "target") EXCEPT
                   !.peer = e, !.snap = info[d], !.ctx = LastContextId(info[d]), !.target = c])
    BY <1>14 DEF Migrate
  <2>2. PICK l, s : l = LastContextId(info[d]) /\ s = info[d]
    OBVIOUS
  <2>3. PICK h : h = [Handler("Migrate", d, "target") EXCEPT
                         !.peer = e, !.snap = s, !.ctx = l, !.target = c]
    OBVIOUS
  <2>4. /\ h.op = "Migrate" /\ h.pc = "target" /\ h.dig = d /\ h.peer = e /\ h.snap = s
        /\ h.writes = <<>>
    BY <2>3 DEF Handler, Idle
  <2>5. d \in groups /\ e \in groups /\ d # e /\ Free(k, d) /\ Free(k, e) /\ "Migrate" \in Operations
    BY <1>2, <1>14, InstantiatedInfo DEF Migrate, TypeInv
  <2>6. WorksOn(h) = {d, e}
    BY <2>4 DEF WorksOn
  <2>7. Grown(h)
    BY <2>2, <2>4, <2>5, <2>6 DEF Grown
  <2> QED BY <1>3, <2>1, <2>2, <2>3, <2>4, <2>5, <2>6, <2>7 DEF Free
<1>15. \A d \in Digs : ~Delete(k, d)
  BY DEF Delete
<1> QED BY <1>5, <1>7, <1>8, <1>9, <1>10, <1>12, <1>13, <1>14, <1>15 DEF Start

\* A handler goes on, but for its inserts.
LEMMA ContinueKnown ==
    ASSUME TypeInv, KnownInv, "crash" \notin Faults, "Delete" \notin Operations,
           NEW k \in Clients, Continue(k), ~Insert(k)
    PROVE  KnownInv'
<1>1. /\ client[k] \in HandlerState /\ Coherent(client[k]) /\ client[k].pc # "idle"
      /\ Grown(client[k]) /\ client[k].op # "Delete" /\ client[k].pc \notin {"drop", "remove"}
  <2>1. client[k].pc # "idle"
    BY DEF Continue, MigrateTarget, MigrateRefused, Check, SetStopFlag, SchedulerFails, CallRsync,
           CallFails, InsertGroup, Insert, DropContext, Remove, Ends, Busy
  <2>2. client[k] \in HandlerState /\ Coherent(client[k]) /\ Grown(client[k])
    BY DEF TypeInv, ClientInv, Sound, KnownInv
  <2> QED BY <2>1, <2>2 DEF Grown
<1>2. ~DropContext(k) /\ ~Remove(k) /\ ~Ends(k)
  BY <1>1 DEF DropContext, Remove, Ends
<1>3. UNCHANGED info /\ groups \subseteq groups' /\ client[k].pc # "insert"
  BY <1>2 DEF Continue, MigrateTarget, MigrateRefused, Check, SetStopFlag, SchedulerFails,
         CallRsync, CallFails, InsertGroup, mongo
<1>4. CASE Done(k)
  <2>1. Grown(Idle)' /\ Idle.pc = "idle"
    BY DEF Grown, Idle
  <2>2. \A c \in AppContexts : Wanted(c)' => Wanted(c)
    <3>1. ~CallRsync(k)
      <4>1. ASSUME CallRsync(k) PROVE FALSE
        <5>1. client'[k].pc = "insert" /\ client'[k].pc = "idle"
          BY <1>1, <1>4, <4>1 DEF CallRsync, Goes, Done, TypeInv, ClientInv, HandlerState, Idle
        <5> QED BY <5>1
      <4> QED BY <4>1
    <3>2. UNCHANGED lifecycle /\ UNCHANGED holds
      BY <1>2, <3>1 DEF Continue, MigrateTarget, MigrateRefused, Check, SetStopFlag, SchedulerFails,
           CallFails, InsertGroup
    <3> QED BY <3>2 DEF Wanted, lifecycle
  <2> QED BY <1>3, <1>4, <2>1, <2>2, StepKnown DEF Done
<1>5. ASSUME NEW g, Goes(k, g), g.pc # "idle", Grown(g)', WorksOn(g) = WorksOn(client[k]),
             \A c \in AppContexts : Wanted(c)' => Wanted(c) \/ (g.pc = "insert" /\ g.target = c)
      PROVE  KnownInv'
  <2>1. \A j \in Clients \ {k} : Busy(j) => WorksOn(client[j]) \cap WorksOn(g) = {}
    BY <1>1, <1>5 DEF KnownInv, Busy
  <2> QED BY <1>3, <1>5, <2>1, StepKnown
<1>6. ASSUME NEW pc \in PCs \ {"idle", "group", "target", "drop", "remove"}, client[k].pc # "target",
             Goes(k, [client[k] EXCEPT !.pc = pc]), WorksOn(client[k]) \subseteq groups',
             \A c \in AppContexts :
                Wanted(c)' => Wanted(c) \/ (pc = "insert" /\ client[k].target = c)
      PROVE  KnownInv'
  <2>1. PICK g : g = [client[k] EXCEPT !.pc = pc]
    OBVIOUS
  <2>2. /\ g.pc = pc /\ g.op = client[k].op /\ g.dig = client[k].dig /\ g.peer = client[k].peer
        /\ g.target = client[k].target /\ g.writes = client[k].writes
    BY <1>1, <2>1 DEF HandlerState
  <2>3. WorksOn(g) = WorksOn(client[k])
    BY <2>2 DEF WorksOn
  <2>4. \A i \in DOMAIN g.writes : info'[g.writes[i].dig] = info[g.writes[i].dig]
    BY <1>3
  <2>5. Grown(g)'
    BY <1>1, <1>3, <1>6, <2>2, <2>3, ZenonT(60) DEF Grown, WorksOn
  <2> QED BY <1>5, <1>6, <2>1, <2>2, <2>3, <2>5
<1>7. UNCHANGED <<lifecycle, holds>> => \A c \in AppContexts : Wanted(c)' => Wanted(c)
  BY DEF Wanted, lifecycle
<1>8. client[k].pc # "group" => WorksOn(client[k]) \subseteq groups'
  BY <1>1, <1>3 DEF Grown
<1>9. CASE MigrateTarget(k)
  <2>1. PICK a, c, d, e, z, s :
            /\ a = client[k].target /\ c = client[k].ctx /\ d = client[k].dig /\ e = client[k].peer
            /\ z = client[k].snap /\ s = info[client[k].peer]
    OBVIOUS
  <2>2. /\ d \in Digs /\ e \in Digs /\ d # e /\ a \in AppContexts /\ client[k].pc = "target"
        /\ ContextIds(info[d]) \subseteq ContextIds(z)
    BY <1>1, <1>9, <2>1 DEF MigrateTarget, Coherent, Grown
  <2>3. z \in StateInfo /\ s \in StateInfo /\ z.statusCtx \in AppContexts \cup {NoContext}
        /\ c \in AppContexts \cup {NoContext}
    BY <1>1, <2>1, <2>2 DEF HandlerState, StateInfo, TypeInv, MongoInv
  <2>4. PICK u : u = WithAction(z, "Updated", c, 0)
    OBVIOUS
  <2>5. PICK t : t = [WithAction(s, "Instantiated", a, 0) EXCEPT !.statusCtx = z.statusCtx]
    OBVIOUS
  <2>6. /\ ContextIds(info[d]) \subseteq ContextIds(u)
        /\ ContextIds(info[e]) \subseteq ContextIds(t) /\ a \in ContextIds(t)
    <3>1. "Updated" \in States /\ 0 \in Nat
      BY DEF States
    <3>2. ContextIds(z) \subseteq ContextIds(u)
      BY <2>3, <2>4, <3>1, ContextsGrow
    <3> QED BY <2>1, <2>2, <2>3, <2>5, <3>1, <3>2, InstantiationGrows
  <2>7. Goes(k, [client[k] EXCEPT !.pc = "call", !.writes = <<To(d, u), To(e, t)>>])
    BY <1>9, <2>1, <2>4, <2>5 DEF MigrateTarget
  <2>8. PICK w : w = <<To(d, u), To(e, t)>>
    OBVIOUS
  <2>9. PICK g : g = [client[k] EXCEPT !.pc = "call", !.writes = w]
    OBVIOUS
  <2>10. /\ g.pc = "call" /\ g.op = client[k].op /\ g.dig = d /\ g.peer = e /\ g.target = a
         /\ g.writes = w
    BY <1>1, <2>1, <2>9 DEF HandlerState
  <2>11. WorksOn(g) = WorksOn(client[k]) /\ WorksOn(g) = {d, e}
    BY <2>1, <2>2, <2>10 DEF WorksOn
  <2>12. Grown(g)
    <3>1. WorksOn(g) \subseteq groups /\ g.op \in Operations
      BY <1>1, <2>2, <2>10, <2>11 DEF Grown
    <3> QED BY <2>2, <2>6, <2>8, <2>10, <2>11, <3>1, TwoGrown
  <2>13. Grown(g)'
    BY <1>3, <2>2, <2>10, <2>12, GrownStays
  <2>14. UNCHANGED <<lifecycle, holds>>
    BY <1>9 DEF MigrateTarget
  <2> QED BY <1>5, <1>7, <2>7, <2>8, <2>9, <2>10, <2>11, <2>13, <2>14
<1>10. CASE Check(k) \/ SetStopFlag(k)
  <2>1. UNCHANGED <<lifecycle, holds>> /\ client[k].pc \in {"check", "flag"}
    BY <1>10 DEF Check, SetStopFlag
  <2>2. \/ Done(k)
        \/ \E pc \in {"flag", "insert", "call"} : Goes(k, [client[k] EXCEPT !.pc = pc])
    BY <1>1, <1>10 DEF Check, SetStopFlag, Coherent
  <2> QED BY <1>4, <1>6, <1>7, <1>8, <2>1, <2>2 DEF PCs
<1>11. CASE CallRsync(k)
  <2>1. PICK x, ev, other :
            /\ x = Subject(client[k]) /\ ev = Request(client[k])
            /\ other = IF Request(client[k]) = "Update" THEN client[k].ctx ELSE NoContext
    OBVIOUS
  <2>2. /\ CallRsyncFor(x, ev, other) /\ UNCHANGED holds /\ client[k].pc = "call"
        /\ Goes(k, [client[k] EXCEPT !.pc = "insert"])
    BY <1>11, <2>1 DEF CallRsync
  <2>3. ev \in RsyncEvents /\ other \in AppContexts \cup {NoContext}
    BY <1>1, <2>1 DEF Request, RsyncEvents, HandlerState
  <2>4. Deploys(ev) => x = client[k].target
    BY <2>1 DEF Deploys, Request, Subject
  <2>5. \A c \in AppContexts : Wanted(c)' => Wanted(c) \/ client[k].target = c
    BY <2>2, <2>3, <2>4, CallWanted DEF TypeInv
  <2> QED BY <1>6, <1>8, <2>2, <2>5 DEF PCs
<1>12. CASE InsertGroup(k)
  <2>1. /\ UNCHANGED <<lifecycle, holds>> /\ client[k].pc = "group"
        /\ groups' = groups \cup {client[k].dig} /\ Goes(k, [client[k] EXCEPT !.pc = "insert"])
    BY <1>12 DEF InsertGroup, lifecycle
  <2>2. WorksOn(client[k]) \subseteq groups'
    BY <1>1, <2>1, NullAssumption DEF WorksOn, Grown
  <2> QED BY <1>6, <1>7, <2>1, <2>2 DEF PCs
<1> QED BY <1>2, <1>4, <1>9, <1>10, <1>11, <1>12 DEF Continue, MigrateRefused, SchedulerFails, CallFails

\* A handler inserts.
LEMMA InsertKnown ==
    ASSUME TypeInv, KnownInv, NEW k \in Clients, Insert(k)
    PROVE  KnownInv'
<1> DEFINE h == client[k]
<1>1. PICK q : q = h.writes
  OBVIOUS
<1>2. /\ h \in HandlerState /\ h.pc = "insert" /\ q \in Seq(Write) /\ q # <<>> /\ Grown(h)
      /\ h.dig \in Digs
  BY <1>1 DEF Insert, TypeInv, ClientInv, Sound, Coherent, HandlerState, KnownInv
<1>3. PICK d, t : d = q[1].dig /\ t = q[1].info
  OBVIOUS
<1>4. /\ Head(q) = q[1] /\ 1 \in DOMAIN q /\ DOMAIN q = 1 .. Len(q) /\ Len(q) \in Nat
      /\ q[1] \in Write
  BY <1>2, HeadTailProperties, EmptySeq, LenProperties
<1>5. /\ d \in Digs /\ d \in WorksOn(h) /\ d \in groups
      /\ ContextIds(info[d]) \subseteq ContextIds(t)
  BY <1>1, <1>2, <1>3, <1>4 DEF Grown, Write
<1>6. /\ info' = [info EXCEPT ![d] = t] /\ UNCHANGED <<groups, lifecycle, holds>>
      /\ IF Len(q) = 1 THEN Done(k) ELSE Goes(k, [h EXCEPT !.writes = Tail(q)])
  BY <1>1, <1>3, <1>4 DEF Insert
<1>7. /\ info'[d] = t /\ \A e \in Digs \ {d} : info'[e] = info[e]
      /\ \A e \in Digs : ContextIds(info[e]) \subseteq ContextIds(info'[e])
  BY <1>5, <1>6 DEF TypeInv, MongoInv
<1>8. PICK g : Goes(k, g) /\ g = IF Len(q) = 1 THEN Idle ELSE [h EXCEPT !.writes = Tail(q)]
  BY <1>6 DEF Done
<1>9. Len(q) = 1 => g.pc = "idle"
  BY <1>8 DEF Idle
<1>10. Len(q) # 1 => /\ g.pc = "insert" /\ g.op = h.op /\ g.dig = h.dig /\ g.peer = h.peer
                     /\ g.target = h.target /\ g.writes = Tail(q)
  BY <1>2, <1>8 DEF HandlerState
<1>11. \A j \in Clients : client'[j] = IF j = k THEN g ELSE client[j]
  BY <1>8 DEF Goes, TypeInv, ClientInv
<1> HIDE DEF h
<1>12. g.pc # "idle" => WorksOn(g) = WorksOn(h)
  BY <1>9, <1>10 DEF WorksOn
<1>13. Grown(g)'
  <2>1. CASE Len(q) = 1
    BY <1>9, <2>1 DEF Grown
  <2>2. CASE Len(q) # 1
    <3>1. PICK y : y = Tail(q)
      OBVIOUS
    <3>2. /\ y \in Seq(Write) /\ Len(y) = Len(q) - 1 /\ DOMAIN y = 1 .. Len(q) - 1
          /\ \A i \in 1 .. Len(q) - 1 : y[i] = q[i + 1]
      BY <1>2, <3>1, HeadTailProperties, LenProperties
    <3>3. g.writes = y /\ g.pc = "insert" /\ g.op = h.op /\ g.target = h.target /\ WorksOn(g) = WorksOn(h)
      BY <1>10, <1>12, <2>2, <3>1
    <3>4. /\ \A i \in DOMAIN q : /\ q[i].dig \in WorksOn(h)
                                 /\ ContextIds(info[q[i].dig]) \subseteq ContextIds(q[i].info)
          /\ \A i, j \in DOMAIN q : i < j /\ q[i].dig = q[j].dig
                 => ContextIds(q[i].info) \subseteq ContextIds(q[j].info)
          /\ h.target # NoContext => h.target \in ContextIds(q[Len(q)].info)
          /\ WorksOn(h) \subseteq groups /\ h.op \in Operations
      BY <1>1, <1>2 DEF Grown, h
    <3>5. ASSUME NEW i \in DOMAIN y
          PROVE  /\ y[i].dig \in WorksOn(h)
                 /\ ContextIds(info'[y[i].dig]) \subseteq ContextIds(y[i].info)
                 /\ \A j \in DOMAIN y : i < j /\ y[i].dig = y[j].dig
                        => ContextIds(y[i].info) \subseteq ContextIds(y[j].info)
      <4>1. PICK l : l = i + 1
        OBVIOUS
      <4>2. l \in DOMAIN q /\ 1 < l /\ y[i] = q[l]
        BY <1>4, <3>2, <3>5, <4>1
      <4>3. y[i].dig \in WorksOn(h) /\ y[i].dig \in Digs
        BY <3>4, <4>2 DEF WorksOn
      <4>4. ContextIds(info'[y[i].dig]) \subseteq ContextIds(y[i].info)
        <5>1. CASE y[i].dig = d
          BY <1>3, <1>4, <1>7, <3>4, <4>2, <5>1
        <5>2. CASE y[i].dig # d
          BY <1>7, <3>4, <4>2, <4>3, <5>2
        <5> QED BY <5>1, <5>2
      <4>5. ASSUME NEW j \in DOMAIN y, i < j, y[i].dig = y[j].dig
            PROVE  ContextIds(y[i].info) \subseteq ContextIds(y[j].info)
        <5>1. PICK m : m = j + 1
          OBVIOUS
        <5>2. m \in DOMAIN q /\ l < m /\ y[j] = q[m]
          BY <1>4, <3>2, <4>1, <4>5, <5>1
        <5> QED BY <3>4, <4>2, <4>5, <5>2
      <4> QED BY <4>3, <4>4, <4>5
    <3>6. y[Len(y)] = q[Len(q)]
      <4>1. PICK n : n = Len(q) - 1
        OBVIOUS
      <4>2. n \in 1 .. Len(q) - 1 /\ Len(y) = n /\ n + 1 = Len(q)
        BY <1>2, <1>4, <2>2, <3>2, <4>1
      <4> QED BY <3>2, <4>2
    <3>7. WorksOn(g)' = WorksOn(g) /\ groups' = groups
      BY <1>6 DEF WorksOn
    <3> QED BY <3>3, <3>4, <3>5, <3>6, <3>7 DEF Grown
  <2> QED BY <2>1, <2>2
<1>14. ASSUME NEW i \in Clients, NEW j \in Clients, i # j, Busy(i)', Busy(j)'
       PROVE  WorksOn(client'[i]) \cap WorksOn(client'[j]) = {}
  BY <1>2, <1>11, <1>12, <1>14 DEF KnownInv, Busy, h
<1>15. ASSUME NEW j \in Clients PROVE Grown(client[j])'
  <2>1. PICK f : f = client'[j]
    OBVIOUS
  <2>2. CASE j = k
    <3>1. g = client'[j]
      BY <1>11, <2>2
    <3> QED BY <1>13, <3>1 DEF Grown
  <2>3. CASE j # k
    <3>1. Grown(f) /\ (f.pc # "idle" => f.dig \in Digs) /\ f = client[j]
      BY <1>11, <2>1, <2>3 DEF KnownInv, TypeInv, ClientInv, Sound, Coherent
    <3>2. f.pc # "idle" => WorksOn(f) \cap WorksOn(h) = {}
      BY <1>2, <2>3, <3>1 DEF KnownInv, Busy, h
    <3>3. f.pc # "idle" => \A e \in WorksOn(f) : info'[e] = info[e]
      BY <1>5, <1>7, <3>2 DEF WorksOn
    <3>4. Grown(f)'
      BY <1>6, <3>1, <3>3, GrownStays
    <3> QED BY <2>1, <3>4 DEF Grown
  <2> QED BY <2>2, <2>3
<1>16. ASSUME NEW c \in AppContexts, Wanted(c)' PROVE Known(c)'
  <2>1. Known(c)
    BY <1>6, <1>16 DEF KnownInv, Wanted, lifecycle
  <2>2. CASE \E e \in Digs : c \in ContextIds(info[e])
    BY <1>7, <2>2 DEF Known
  <2>3. CASE \E j \in Clients : client[j].pc = "insert" /\ client[j].target = c /\ (j # k \/ Len(q) # 1)
    BY <1>10, <1>11, <2>3 DEF Known, h
  <2>4. CASE h.target = c /\ Len(q) = 1
    <3>1. c \in ContextIds(t)
      BY <1>1, <1>2, <1>3, <1>16, <2>4, ContextAssumption DEF Grown
    <3> QED BY <1>5, <1>7, <3>1 DEF Known
  <2> QED BY <2>1, <2>2, <2>3, <2>4 DEF Known, h
<1>17. \A e \in Digs : Exists(info'[e]) => e \in groups'
  BY <1>5, <1>6, <1>7 DEF KnownInv
<1> QED BY <1>14, <1>15, <1>16, <1>17 DEF KnownInv, WorksOn, Exists

\* While handlers work on different DIGs and do not die on the way, and nobody
\* deletes a DIG: every AppContext with resources on the clusters is named in a
\* record, or the handler that had rsync deploy it is about to record it, whatever
\* calls fail (HandleStateInfo after callRsync* in orchestrator/pkg/module).
THEOREM KnownResourcesSafe ==
    ASSUME "concurrent" \notin Faults, "crash" \notin Faults, "Delete" \notin Operations
    PROVE  Spec => []KnownResources
<1>1. Init => KnownInv
  <2> SUFFICES ASSUME Init PROVE KnownInv
    OBVIOUS
  <2>1. Grown(Idle) /\ Idle.pc = "idle"
    BY DEF Grown, Idle
  <2>2. (\A d \in Digs : info[d] = NoInfo) /\ (\A k \in Clients : client[k] = Idle)
    BY DEF Init
  <2>3. \A c \in AppContexts : ~Wanted(c)
    BY DEF Init, InitStore, InitLifecycle, Wanted
  <2>4. ~Exists(NoInfo)
    BY DEF Exists, NoInfo
  <2> QED BY <2>1, <2>2, <2>3, <2>4 DEF KnownInv, Busy
<1>2. TypeInv /\ KnownInv /\ [Next]_vars => KnownInv'
  <2> SUFFICES ASSUME TypeInv, KnownInv, [Next]_vars PROVE KnownInv'
    OBVIOUS
  <2>1. ASSUME UNCHANGED <<mongo, client>>, \A c \in AppContexts : Wanted(c)' => Wanted(c)
        PROVE  KnownInv'
    <3>1. UNCHANGED <<groups, info, client>>
      BY <2>1 DEF mongo
    <3>2. ASSUME NEW k \in Clients PROVE Grown(client[k])'
      <4>1. PICK h : h = client[k]
        OBVIOUS
      <4>2. Grown(h) /\ (h.pc # "idle" => h.dig \in Digs)
        BY <4>1 DEF KnownInv, TypeInv, ClientInv, Sound, Coherent
      <4>3. Grown(h)' /\ h = client'[k]
        BY <3>1, <4>1, <4>2, GrownStays
      <4> QED BY <4>3 DEF Grown
    <3>3. \A c \in AppContexts : Known(c) => Known(c)'
      BY <3>1 DEF Known
    <3> QED BY <2>1, <3>1, <3>2, <3>3 DEF KnownInv, WorksOn, Busy, Exists
  <2>2. CASE \E k \in Clients : Start(k) \/ Continue(k)
    BY <2>2, StartKnown, ContinueKnown, InsertKnown
  <2>3. CASE \E c \in AppContexts : Rsync(c) /\ UNCHANGED <<mongo, client>>
    BY <2>1, <2>3, RsyncWanted DEF TypeInv
  <2>4. CASE UNCHANGED vars
    BY <2>1, <2>4 DEF vars, lifecycle, Wanted
  <2> QED BY <2>2, <2>3, <2>4 DEF Next
<1>3. TypeInv /\ KnownInv => KnownResources
  BY DEF TypeInv, StoreInv, StoreTypeOK, KnownInv, Wanted, Known, KnownResources
<1> QED BY <1>1, <1>2, <1>3, TypeInvariance, PTL DEF Spec

================================================================================
