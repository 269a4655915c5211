----------------------------- MODULE DigLifecycle -----------------------------
(***************************************************************************)
(* The life of Deployment Intent Groups in the orchestrator                *)
(* (orchestrator/pkg/module): REST handlers read the StateInfo of a DIG    *)
(* from MongoDB, create AppContexts in etcd, call rsync and write the      *)
(* StateInfo back.  No lock is held between the read and the writes.       *)
(*                                                                         *)
(* What a handler is going to write follows from the StateInfo it read at  *)
(* the beginning, so it is put together there.  rsync is the one           *)
(* AppContextLifecycle promises.                                           *)
(*                                                                         *)
(* Definitions marked "variant" are faulty forms of the definition that    *)
(* follows them; no specification uses them.                               *)
(***************************************************************************)
EXTENDS AppContextStore

CONSTANTS
    Digs,
    Clients,      \* REST handlers served at a time (a bound)
    Operations,   \* the operations clients call
    MaxActions,   \* entries a StateInfo may have (a bound)
    NoDig

OperationKinds == {"Create", "Approve", "Instantiate", "Terminate", "Stop",
                   "Update", "Rollback", "Migrate", "Delete"}

\* concurrent: several clients work on one DIG
\* crash: an insert fails, or the orchestrator dies
\* call: rsync, or a controller of the scheduler, cannot be reached
\* fail: an operation of rsync fails
FaultKinds == {"concurrent", "crash", "call", "fail"}

ASSUME OperationAssumption == Operations \subseteq OperationKinds
ASSUME FaultAssumption == Faults \subseteq FaultKinds
ASSUME BoundAssumption == MaxActions \in Nat
ASSUME NullAssumption  == NoDig \notin Digs

VARIABLES
    groups,     \* the DIGs whose specification is in MongoDB
    info,       \* info[d]: the StateInfo of DIG d in MongoDB
    client      \* client[k]: a REST handler

mongo == <<groups, info>>
vars  == <<lifecycle, mongo, etcd, holds, client>>

-------------------------------------------------------------------------------
(* StateInfo: what Updates and Rollbacks append.                           *)

\* An Update closes the revision it leaves and opens the next one.
Replaced(s) == WithAction(s, "Updated", LastContextId(s), LatestRevision(s))

\* variant: the entry names the AppContext that was replaced
SuccessorOfSource(s, c) ==
    WithAction(Replaced(s), "Instantiated", LastContextId(s), LatestRevision(s) + 1)

Successor(s, c) == WithAction(Replaced(s), "Instantiated", c, LatestRevision(s) + 1)

\* GetMatchingContextIDforRevision: the first action with this revision.
Matching(s, r) == {i \in DOMAIN s.actions : s.actions[i].rev = r}

MatchingContext(s, r) ==
    s.actions[CHOOSE i \in Matching(s, r) : \A j \in Matching(s, r) : i <= j].ctx

-------------------------------------------------------------------------------
(* REST handlers.                                                          *)

\* A handler: the AppContext that is current and the one it makes so, the
\* StateInfos it has still to write and the AppContexts it has still to delete.
\* Migrate keeps the StateInfo it read of its source.
Idle == [pc |-> "idle", op |-> "Create", dig |-> NoDig, peer |-> NoDig,
         snap |-> NoInfo, ctx |-> NoContext, target |-> NoContext,
         writes |-> <<>>, drop |-> {}]

PCs == {"idle", "group", "target", "check", "flag", "call", "insert", "drop", "remove"}

Write == [dig : Digs, info : StateInfo]

HandlerState ==
    [pc : PCs, op : OperationKinds, dig : Digs \cup {NoDig}, peer : Digs \cup {NoDig},
     snap : StateInfo, ctx : AppContexts \cup {NoContext},
     target : AppContexts \cup {NoContext}, writes : Seq(Write),
     drop : SUBSET AppContexts]

Busy(k) == client[k].pc # "idle"

\* Without "concurrent", one operation at a time on a DIG.
Free(k, d) ==
    /\ ~Busy(k)
    /\ \/ "concurrent" \in Faults
       \/ \A j \in Clients : Busy(j) => d \notin {client[j].dig, client[j].peer}

Room(s, n) == Len(s.actions) + n <= MaxActions

Goes(k, handler) == client' = [client EXCEPT ![k] = handler]
Done(k) == Goes(k, Idle)

Handler(op, d, pc) == [Idle EXCEPT !.pc = pc, !.op = op, !.dig = d]

To(d, s) == [dig |-> d, info |-> s]

Create(k, d) ==
    /\ "Create" \in Operations
    /\ Free(k, d) /\ d \notin groups
    /\ Goes(k, [Handler("Create", d, "group") EXCEPT
                   !.writes = <<To(d, WithAction(NoInfo, "Created", NoContext, 0))>>])
    /\ UNCHANGED <<lifecycle, mongo, etcd, holds>>

Approve(k, d) ==
    /\ "Approve" \in Operations
    /\ Free(k, d) /\ Room(info[d], 1)
    /\ CurrentState(info[d]) \in {"Created", "Terminated", "Updated"}
    /\ Goes(k, [Handler("Approve", d, "insert") EXCEPT
                   !.writes = <<To(d, WithAction(info[d], "Approved", NoContext, 0))>>])
    /\ UNCHANGED <<lifecycle, mongo, etcd, holds>>

\* rsync has an AppContext that names no other one collect its own status.
Instantiate(k, d) ==
    /\ "Instantiate" \in Operations
    /\ Free(k, d) /\ Room(info[d], 1)
    /\ d \in groups
    /\ CurrentState(info[d]) \in {"Approved", "Terminated", "TerminateStopped"}
    /\ \E c \in AppContexts :
         /\ MakeAppContext(c)
         /\ UpdateAppContextStatusContextID(c, c)
         /\ Goes(k, [Handler("Instantiate", d, "call") EXCEPT
                !.target = c,
                !.writes = <<To(d, [WithAction(info[d], "Instantiated", c, 1) EXCEPT
                                       !.statusCtx = c])>>])
    /\ UNCHANGED <<lifecycle, mongo, holds>>

Instantiated(s) == CurrentState(s) \in {"Instantiated", "InstantiateStopped"}

Terminate(k, d) ==
    LET c == LastContextId(info[d]) IN
    /\ "Terminate" \in Operations
    /\ Free(k, d) /\ Room(info[d], 1)
    /\ Instantiated(info[d])
    /\ Goes(k, [Handler("Terminate", d,
                       IF CurrentState(info[d]) = "Instantiated" THEN "call" ELSE "flag")
                EXCEPT !.ctx = c,
                       !.writes = <<To(d, WithAction(info[d], "Terminated", c, 0))>>])
    /\ UNCHANGED <<lifecycle, mongo, etcd, holds>>

Stop(k, d) ==
    LET c == LastContextId(info[d])
        stopped == IF CurrentState(info[d]) = "Instantiated"
                   THEN "InstantiateStopped" ELSE "TerminateStopped"
    IN
    /\ "Stop" \in Operations
    /\ Free(k, d) /\ Room(info[d], 1)
    /\ CurrentState(info[d]) \in {"Instantiated", "Terminated"}
    /\ Goes(k, [Handler("Stop", d, "check") EXCEPT
                   !.ctx = c, !.writes = <<To(d, WithAction(info[d], stopped, c, 0))>>])
    /\ UNCHANGED <<lifecycle, mongo, etcd, holds>>

\* The new AppContext is to report to the one that collects the status so far.
Update(k, d) ==
    /\ "Update" \in Operations
    /\ Free(k, d) /\ Room(info[d], 2)
    /\ d \in groups
    /\ Instantiated(info[d])
    /\ \E c \in AppContexts :
         /\ MakeAppContext(c)
         /\ UpdateAppContextStatusContextID(c, info[d].statusCtx)
         /\ Goes(k, [Handler("Update", d, "call") EXCEPT
                !.ctx = LastContextId(info[d]), !.target = c,
                !.writes = <<To(d, Replaced(info[d])), To(d, Successor(info[d], c))>>])
    /\ UNCHANGED <<lifecycle, mongo, holds>>

\* In any state, to the first AppContext that had the revision.
Rollback(k, d) ==
    /\ "Rollback" \in Operations
    /\ Free(k, d) /\ Room(info[d], 2)
    /\ Exists(info[d])
    /\ \E r \in 0..MaxActions :
         LET c == MatchingContext(info[d], r) IN
         /\ Matching(info[d], r) # {}
         /\ Goes(k, [Handler("Rollback", d, "call") EXCEPT
                !.ctx = LastContextId(info[d]), !.target = c,
                !.writes = <<To(d, Replaced(info[d])), To(d, Successor(info[d], c))>>])
    /\ UNCHANGED <<lifecycle, mongo, etcd, holds>>

\* The AppContext of the target DIG e is made first, its StateInfo read then.
Migrate(k, d, e) ==
    /\ "Migrate" \in Operations
    /\ d # e /\ Free(k, d) /\ Free(k, e)
    /\ Room(info[d], 1) /\ Room(info[e], 1)
    /\ e \in groups
    /\ Instantiated(info[d])
    /\ \E c \in AppContexts :
         /\ MakeAppContext(c)
         /\ Goes(k, [Handler("Migrate", d, "target") EXCEPT
                !.peer = e, !.snap = info[d], !.ctx = LastContextId(info[d]), !.target = c])
    /\ UNCHANGED <<lifecycle, mongo, statusCtx, holds>>

MigrateTarget(k) ==
    LET h == client[k] IN
    /\ h.pc = "target"
    /\ CurrentState(info[h.peer]) = "Approved"
    /\ UpdateAppContextStatusContextID(h.target, h.snap.statusCtx)
    /\ Goes(k, [h EXCEPT
           !.pc = "call",
           !.writes = <<To(h.dig, WithAction(h.snap, "Updated", h.ctx, 0)),
                        To(h.peer, [WithAction(info[h.peer], "Instantiated", h.target, 0)
                                       EXCEPT !.statusCtx = h.snap.statusCtx])>>])
    /\ UNCHANGED <<lifecycle, mongo, stored, used, stopFlag, holds>>

MigrateRefused(k) ==
    /\ client[k].pc = "target"
    /\ CurrentState(info[client[k].peer]) # "Approved"
    /\ Done(k)
    /\ UNCHANGED <<lifecycle, mongo, etcd, holds>>

Delete(k, d) ==
    LET s == info[d] IN
    /\ "Delete" \in Operations
    /\ Free(k, d)
    /\ d \in groups \/ Exists(s)
    /\ ~Instantiated(s)
    /\ Goes(k, IF CurrentState(s) \in {"Terminated", "TerminateStopped"}
               THEN [Handler("Delete", d, "check") EXCEPT
                        !.ctx = LastContextId(s), !.drop = ContextIds(s)]
               ELSE Handler("Delete", d, "remove"))
    /\ UNCHANGED <<lifecycle, mongo, etcd, holds>>

\* Stop and Delete look at the state rsync reports of the AppContext.  Delete
\* takes one that is gone for terminated.
Checked(k) ==
    LET h == client[k] IN
    \/ h.op = "Stop" /\ h.ctx \in stored /\ state[h.ctx] \in {"Instantiating", "Terminating"}
    \/ h.op = "Delete" /\ (h.ctx \in stored => state[h.ctx] \in {"Terminated", "TerminateFailed"})

Check(k) ==
    /\ client[k].pc = "check"
    /\ IF Checked(k)
       THEN Goes(k, [client[k] EXCEPT !.pc = IF client[k].op = "Stop" THEN "flag" ELSE "drop"])
       ELSE Done(k)
    /\ UNCHANGED <<lifecycle, mongo, etcd, holds>>

\* Stop raises the flag; Terminate clears it for what was stopped.
SetStopFlag(k) ==
    LET h == client[k] IN
    /\ h.pc = "flag"
    /\ IF h.ctx \in stored
       THEN /\ SetFlag(h.ctx, h.op = "Stop")
            /\ Goes(k, [h EXCEPT !.pc = IF h.op = "Stop" THEN "insert" ELSE "call"])
       ELSE Done(k) /\ UNCHANGED stopFlag
    /\ UNCHANGED <<lifecycle, mongo, stored, used, statusCtx, holds>>

\* The call to rsync: which AppContext gets which event.
Subject(h) == IF h.op = "Terminate" THEN h.ctx ELSE h.target

\* variant: Terminate makes the call of Instantiate
RequestInstall(h) == IF h.op \in {"Instantiate", "Terminate"} THEN "Instantiate" ELSE "Update"

Request(h) ==
    CASE h.op = "Instantiate" -> "Instantiate"
      [] h.op = "Terminate" -> "Terminate"
      [] OTHER -> "Update"

CallRsync(k) ==
    LET h == client[k] IN
    /\ h.pc = "call"
    /\ CallRsyncFor(Subject(h), Request(h), IF Request(h) = "Update" THEN h.ctx ELSE NoContext)
    /\ Goes(k, [h EXCEPT !.pc = "insert"])
    /\ UNCHANGED <<mongo, etcd, holds>>

\* callScheduler fails: the AppContext it was to work on is removed.
SchedulerFails(k) ==
    LET h == client[k] IN
    /\ "call" \in Faults
    /\ h.pc \in {"target", "call"} /\ h.op \in {"Instantiate", "Update", "Migrate"}
    /\ h.pc = "target" <=> h.op = "Migrate"
    /\ stored' = stored \ {h.target}
    /\ Done(k)
    /\ UNCHANGED <<lifecycle, mongo, used, statusCtx, stopFlag, holds>>

\* Only Instantiate removes the AppContext it has made when rsync fails.
CallFails(k) ==
    LET h == client[k] IN
    /\ h.pc = "call"
    /\ "call" \in Faults \/ Subject(h) \notin stored
    /\ stored' = IF h.op = "Instantiate" THEN stored \ {h.target} ELSE stored
    /\ Done(k)
    /\ UNCHANGED <<lifecycle, mongo, used, statusCtx, stopFlag, holds>>

InsertGroup(k) ==
    /\ client[k].pc = "group"
    /\ groups' = groups \cup {client[k].dig}
    /\ Goes(k, [client[k] EXCEPT !.pc = "insert"])
    /\ UNCHANGED <<lifecycle, info, etcd, holds>>

\* variant: Terminate adds its entry to the StateInfo of that moment
InsertAfresh(k) ==
    LET h == client[k]
        w == Head(h.writes)
        s == info[w.dig]
        r == IF h.op = "Terminate" /\ Exists(s)
             THEN WithAction(s, "Terminated", LastContextId(s), 0) ELSE w.info
    IN
    /\ h.pc = "insert"
    /\ info' = [info EXCEPT ![w.dig] = r]
    /\ IF Len(h.writes) = 1 THEN Done(k) ELSE Goes(k, [h EXCEPT !.writes = Tail(@)])
    /\ UNCHANGED <<lifecycle, groups, etcd, holds>>

\* One insert: it replaces the StateInfo as a whole.
Insert(k) ==
    LET h == client[k]
        w == Head(h.writes)
    IN
    /\ h.pc = "insert"
    /\ info' = [info EXCEPT ![w.dig] = w.info]
    /\ IF Len(h.writes) = 1 THEN Done(k) ELSE Goes(k, [h EXCEPT !.writes = Tail(@)])
    /\ UNCHANGED <<lifecycle, groups, etcd, holds>>

\* DeleteCompositeApp for the AppContexts of the DIG, in no particular order.
DropContext(k) ==
    LET h == client[k] IN
    /\ h.pc = "drop"
    /\ \E c \in h.drop :
         /\ stored' = stored \ {c}
         /\ IF c \in stored THEN Goes(k, [h EXCEPT !.drop = @ \ {c}]) ELSE Done(k)
    /\ UNCHANGED <<lifecycle, mongo, used, statusCtx, stopFlag, holds>>

Remove(k) ==
    LET h == client[k] IN
    /\ h.pc = "remove" \/ (h.pc = "drop" /\ h.drop = {})
    /\ groups' = groups \ {h.dig}
    /\ info' = [info EXCEPT ![h.dig] = NoInfo]
    /\ Done(k)
    /\ UNCHANGED <<lifecycle, etcd, holds>>

\* The rest of what the handler does is not done.
Ends(k) ==
    /\ Busy(k) /\ "crash" \in Faults
    /\ Done(k)
    /\ UNCHANGED <<lifecycle, mongo, etcd, holds>>

-------------------------------------------------------------------------------
Init ==
    /\ InitStore
    /\ groups = {}
    /\ info = [d \in Digs |-> NoInfo]
    /\ client = [k \in Clients |-> Idle]

Start(k) ==
    \E d \in Digs :
        \/ Create(k, d) \/ Approve(k, d) \/ Instantiate(k, d) \/ Terminate(k, d)
        \/ Stop(k, d) \/ Update(k, d) \/ Rollback(k, d) \/ Delete(k, d)
        \/ \E e \in Digs : Migrate(k, d, e)

Continue(k) ==
    \/ MigrateTarget(k) \/ MigrateRefused(k) \/ Check(k) \/ SetStopFlag(k)
    \/ SchedulerFails(k) \/ CallRsync(k) \/ CallFails(k) \/ InsertGroup(k) \/ Insert(k)
    \/ DropContext(k) \/ Remove(k) \/ Ends(k)

Next ==
    \/ \E k \in Clients : Start(k) \/ Continue(k)
    \/ \E c \in AppContexts : Rsync(c) /\ UNCHANGED <<mongo, client>>

Spec == Init /\ [][Next]_vars

-------------------------------------------------------------------------------
TypeOK ==
    /\ StoreTypeOK
    /\ groups \subseteq Digs
    /\ info \in [Digs -> StateInfo]
    /\ client \in [Clients -> HandlerState]

\* The entries since the DIG was last terminated, or approved again after it was
\* migrated into another one.
Lifetime(s) ==
    {i \in DOMAIN s.actions : \A j \in i..Len(s.actions) :
        s.actions[j].state \notin {"Approved", "Terminated", "TerminateStopped"}}

\* "Same Status AppContext between instantiation and termination for a DIG"
\* (state/types.go): the current AppContext reports to the one in the StateInfo.
SameStatusContext ==
    \A d \in Digs : Instantiated(info[d]) =>
        statusCtx[LastContextId(info[d])] = info[d].statusCtx

\* The same but for an AppContext that a Rollback fetched from an earlier life of
\* the DIG: whatever Updates, Rollbacks and Migrates came in between, and whatever
\* else handlers overwrote, all AppContexts since then report to the one in its
\* StateInfo.
StatusShared ==
    \A d \in Digs : Instantiated(info[d]) =>
        LET c == LastContextId(info[d]) IN
        (\A i \in DOMAIN info[d].actions : info[d].actions[i].ctx = c => i \in Lifetime(info[d]))
        => statusCtx[c] = info[d].statusCtx

\* No AppContext is the current one of two DIGs.
OneOwner ==
    \A d, e \in Digs :
        (Instantiated(info[d]) /\ Instantiated(info[e])
         /\ LastContextId(info[d]) = LastContextId(info[e])) => d = e

\* What a DIG that is recorded as terminated left on the clusters is being
\* removed, or rsync reports that this failed, or a client stops it: also when
\* handlers that read the same StateInfo overwrite one another's entries, or die
\* between the call to rsync and the insert, a record never names as terminated
\* an AppContext that another handler has had deployed or updated to.
TerminatedIsLeaving ==
    \A d \in Digs : CurrentState(info[d]) = "Terminated" =>
        LET c == LastContextId(info[d]) IN
        c \in holds \cap stored => Leaving(c) \/ stopFlag[c]

\* Every AppContext with resources on the clusters is recorded in a DIG, or the
\* handler that had it deployed is about to record it.
KnownResources ==
    \A c \in holds :
        \/ \E d \in Digs : c \in ContextIds(info[d])
        \/ \E k \in Clients : client[k].pc = "insert" /\ client[k].target = c

\* Delete verifies "that the appcontext has completed terminating"
\* (deployment_intent_groups.go): an AppContext is deleted from etcd only when
\* its resources are gone, or when rsync has tried to remove them.
DeletedIsGone == \A c \in holds : c \in stored \/ Leaving(c)

================================================================================
