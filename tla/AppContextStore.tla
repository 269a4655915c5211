---------------------------- MODULE AppContextStore ----------------------------
(***************************************************************************)
(* What the controllers of EMCO share: the StateInfo that records the life *)
(* of a deployable resource in MongoDB, the AppContexts in etcd, and the   *)
(* rsync that works on them (packages state, appcontext and                *)
(* installappclient of the orchestrator).  DigLifecycle and LogicalCloud   *)
(* build on it; their rsync is the one AppContextLifecycle promises.       *)
(*                                                                         *)
(* Definitions marked "variant" are faulty forms of the definition that    *)
(* follows them; no specification uses them.                               *)
(***************************************************************************)
EXTENDS AppContextLifecycle, FiniteSets

CONSTANTS
    Faults,       \* what may go wrong
    MaxPending    \* events a controller queues for an AppContext (a bound)

ASSUME PendingAssumption == MaxPending \in Nat
ASSUME ContextAssumption == NoContext \notin AppContexts

VARIABLES
    stored,     \* the AppContexts that exist in etcd
    used,       \* the AppContext ids that have been drawn
    statusCtx,  \* statusCtx[c]: the AppContext that collects the status of c
    stopFlag,
    holds       \* the AppContexts whose resources are on the clusters

etcd == <<stored, used, statusCtx, stopFlag>>

InitStore ==
    /\ InitLifecycle
    /\ stored = {}
    /\ used = {}
    /\ statusCtx = [c \in AppContexts |-> NoContext]
    /\ stopFlag = [c \in AppContexts |-> FALSE]
    /\ holds = {}

-------------------------------------------------------------------------------
(* StateInfo.                                                              *)

States == {"Created", "Approved", "Instantiated", "InstantiateStopped",
           "Terminated", "TerminateStopped", "Updated"}

ActionEntry == [state : States, ctx : AppContexts \cup {NoContext}, rev : Nat]

StateInfo == [statusCtx : AppContexts \cup {NoContext}, actions : Seq(ActionEntry)]

\* There is no StateInfo.
NoInfo == [statusCtx |-> NoContext, actions |-> <<>>]

Exists(s)         == s.actions # <<>>
LastAction(s)     == s.actions[Len(s.actions)]
CurrentState(s)   == IF Exists(s) THEN LastAction(s).state ELSE "Undefined"
LastContextId(s)  == LastAction(s).ctx
LatestRevision(s) == LastAction(s).rev

\* variant: with the empty id of entries that have no AppContext
ContextIdsAll(s) == {s.actions[i].ctx : i \in DOMAIN s.actions}

ContextIds(s)     == {s.actions[i].ctx : i \in DOMAIN s.actions} \ {NoContext}

WithAction(s, st, c, r) ==
    [s EXCEPT !.actions = Append(@, [state |-> st, ctx |-> c, rev |-> r])]

-------------------------------------------------------------------------------
(* AppContexts in etcd.                                                    *)

\* variant: an id may be drawn again
MakeAppContextAgain(c) ==
    /\ used' = used \cup {c}
    /\ stored' = stored \cup {c}
    /\ UNCHANGED stopFlag

\* variant: the id is not kept as drawn
MakeAppContextUndrawn(c) ==
    /\ c \in AppContexts \ used
    /\ stored' = stored \cup {c}
    /\ UNCHANGED <<used, stopFlag>>

\* A new AppContext in etcd.
MakeAppContext(c) ==
    /\ c \in AppContexts \ used
    /\ used' = used \cup {c}
    /\ stored' = stored \cup {c}
    /\ UNCHANGED stopFlag

\* variant: the AppContext keeps reporting to itself
ReportsToItself(c, s) == statusCtx' = [statusCtx EXCEPT ![c] = c]

UpdateAppContextStatusContextID(c, s) == statusCtx' = [statusCtx EXCEPT ![c] = s]

SetFlag(c, flag) == stopFlag' = [stopFlag EXCEPT ![c] = flag]

\* The event is queued for rsync to take up.
CallRsyncFor(c, ev, other) ==
    /\ c \in stored
    /\ Len(pending[c]) < MaxPending
    /\ Submit(c, ev, other)
    /\ UNCHANGED <<state, work>>

-------------------------------------------------------------------------------
(* rsync: the steps of AppContextLifecycle and what they leave behind.     *)

Deploys(ev) == ev \in {"Instantiate", "Update"}
Removes(ev) == ev \in {"Terminate", "UpdateDelete"}

\* The stop flag makes rsync ignore an event, a Terminate behind it may: the
\* flag pending-terminate is raised later, and only for a thread that runs.
Ignored(c) ==
    \/ stopFlag[c]
    \/ First(c) # "Terminate" /\ \E i \in DOMAIN pending[c] : pending[c][i].ev = "Terminate"

RsyncAccepts(c) ==
    /\ c \in stored
    /\ Accept(c)
    /\ ~stopFlag[c]
    /\ UNCHANGED <<etcd, holds>>

\* The pods of the new AppContext run.
RsyncHandsOver(c) ==
    /\ c \in stored
    /\ HandsOver(c)
    /\ UNCHANGED pending => "fail" \in Faults \/ Head(pending[c]).other \notin AppContexts
    /\ holds' = holds \cup {c}
    /\ UNCHANGED etcd

RsyncSucceeds(c) ==
    /\ c \in stored
    /\ Succeed(c)
    /\ holds' = IF Deploys(First(c)) THEN holds \cup {c} ELSE holds \ {c}
    /\ UNCHANGED etcd

RsyncFails(c) ==
    /\ c \in stored /\ "fail" \in Faults
    /\ Fail(c)
    /\ holds' \in {holds, IF Deploys(First(c)) THEN holds \cup {c} ELSE holds \ {c}}
    /\ UNCHANGED etcd

RsyncRefuses(c) ==
    /\ c \in stored
    /\ Refused(c)
    /\ IF Ignored(c)
       THEN work'[c] = ErrorState(First(c))
       ELSE /\ state[c] \notin SourceStates(First(c))
            /\ work'[c] = IF First(c) = "Terminate" /\ state[c] = "Terminated"
                          THEN "TerminateFailed" ELSE "idle"
    /\ UNCHANGED <<etcd, holds>>

RsyncSettles(c) ==
    /\ c \in stored
    /\ Settle(c)
    /\ UNCHANGED <<etcd, holds>>

\* A raised stop flag, or the AppContext gone from etcd.
RsyncAbandons(c) ==
    /\ stopFlag[c] \/ c \notin stored
    /\ Abandon(c)
    /\ UNCHANGED <<etcd, holds>>

Rsync(c) ==
    \/ RsyncAccepts(c) \/ RsyncHandsOver(c) \/ RsyncSucceeds(c) \/ RsyncFails(c)
    \/ RsyncRefuses(c) \/ RsyncSettles(c) \/ RsyncAbandons(c)

-------------------------------------------------------------------------------
StoreTypeOK ==
    /\ pending \in [AppContexts -> Seq(PendingEvent)]
    /\ state \in [AppContexts -> AppContextStatuses]
    /\ work \in [AppContexts -> Works]
    /\ stored \subseteq used
    /\ used \subseteq AppContexts
    /\ statusCtx \in [AppContexts -> AppContexts \cup {NoContext}]
    /\ stopFlag \in [AppContexts -> BOOLEAN]
    /\ holds \subseteq used

\* rsync is about to remove the resources of c, or has tried to.
Leaving(c) ==
    \/ \E i \in DOMAIN pending[c] : Removes(pending[c][i].ev)
    \/ work[c] \in {"Terminated", "TerminateFailed", "Updated", "UpdateFailed"}
    \/ state[c] \in {"TerminateFailed", "UpdateFailed"}

================================================================================
