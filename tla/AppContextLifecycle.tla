-------------------------- MODULE AppContextLifecycle --------------------------
(***************************************************************************)
(* What rsync promises about the state of an AppContext, whatever threads, *)
(* queues and clusters it takes: events are handled one at a time, in the  *)
(* order they were submitted, each one accepted only in the states that    *)
(* StateChanges names for it, and the state moves only through the state   *)
(* that announces the event to the one that success or failure leave.      *)
(* RsyncRefinement shows that the engine implements this module, and       *)
(* DigLifecycle uses it for the rsync the orchestrator calls.              *)
(***************************************************************************)
EXTENDS RsyncStates, Sequences

CONSTANTS AppContexts, NoContext

VARIABLES
    pending,   \* pending[c]: the events submitted and not decided, oldest first
    state,     \* state[c]: the state of c
    work       \* work[c]: what rsync does for c, see Works

lifecycle == <<pending, state, work>>

PendingEvent == [ev : RsyncEvents, other : AppContexts \cup {NoContext}]

\* "busy": it handles the first event; "handed": that event is an Update and
\* the AppContext it replaces may be cleaned up; a state: the event is decided
\* and this state remains to be written.
Works == {"idle", "busy", "handed"} \cup AppContextStatuses

InitLifecycle ==
    /\ pending = [c \in AppContexts |-> <<>>]
    /\ state = [c \in AppContexts |-> "Created"]
    /\ work = [c \in AppContexts |-> "idle"]

First(c) == Head(pending[c]).ev

Submit(c, ev, other) ==
    pending' = [pending EXCEPT ![c] = Append(@, [ev |-> ev, other |-> other])]

Submitted ==
    /\ \E c \in AppContexts, ev \in RsyncEvents, other \in AppContexts \cup {NoContext} :
          Submit(c, ev, other)
    /\ UNCHANGED <<state, work>>

\* The first event is accepted.
Accept(c) ==
    /\ work[c] = "idle" /\ pending[c] # <<>>
    /\ state[c] \in SourceStates(First(c))
    /\ state' = [state EXCEPT ![c] = RunningState(First(c))]
    /\ work' = [work EXCEPT ![c] = "busy"]
    /\ UNCHANGED pending

\* An Update has the AppContext it replaces cleaned up, or fails to.
HandsOver(c) ==
    /\ work[c] = "busy" /\ First(c) = "Update"
    /\ work' = [work EXCEPT ![c] = "handed"]
    /\ \/ /\ Head(pending[c]).other \in AppContexts
          /\ Submit(Head(pending[c]).other, "UpdateDelete", c)
       \/ UNCHANGED pending
    /\ UNCHANGED state

Decide(c, w) ==
    /\ pending' = [pending EXCEPT ![c] = Tail(@)]
    /\ work' = [work EXCEPT ![c] = w]
    /\ UNCHANGED state

\* The operation of the first event has ended.
Ended(c) ==
    /\ work[c] \in {"busy", "handed"}
    /\ work[c] = "handed" <=> First(c) = "Update"

Succeed(c) == Ended(c) /\ Decide(c, DesiredState(First(c)))

Fail(c) == Ended(c) /\ Decide(c, ErrorState(First(c)))

\* The first event is refused: silently only in a state in which it is not
\* accepted, with an error also when rsync was told to ignore it.
Refused(c) ==
    /\ work[c] = "idle" /\ pending[c] # <<>>
    /\ \/ state[c] \notin SourceStates(First(c)) /\ Decide(c, "idle")
       \/ Decide(c, ErrorState(First(c)))

Settle(c) ==
    /\ work[c] \in AppContextStatuses
    /\ state' = [state EXCEPT ![c] = work[c]]
    /\ work' = [work EXCEPT ![c] = "idle"]
    /\ UNCHANGED pending

\* rsync gives up where it stands.
Abandon(c) ==
    /\ work[c] # "idle"
    /\ work' = [work EXCEPT ![c] = "idle"]
    /\ UNCHANGED <<pending, state>>

NextLifecycle ==
    \/ Submitted
    \/ \E c \in AppContexts :
          \/ Accept(c) \/ HandsOver(c) \/ Succeed(c) \/ Fail(c)
          \/ Refused(c) \/ Settle(c) \/ Abandon(c)

Lifecycle == InitLifecycle /\ [][NextLifecycle]_lifecycle

================================================================================
