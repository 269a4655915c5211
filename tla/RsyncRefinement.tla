---------------------------- MODULE RsyncRefinement ----------------------------
(***************************************************************************)
(* RsyncContext implements AppContextLifecycle: the elements of a queue    *)
(* behind the last decided one are the pending events, the current state   *)
(* is the state, and what rsync does for an AppContext is what its main    *)
(* thread is at.                                                           *)
(***************************************************************************)
EXTENDS RsyncContext

Decided(q) == {i \in DOMAIN q : q[i].status # "Pending"}

LastDecided(q) == CHOOSE n \in {0} \cup Decided(q) : \A m \in Decided(q) : m <= n

\* Events are decided in order: what is pending lies behind the last decided one.
PendingEvents(q) ==
    [i \in 1..(Len(q) - LastDecided(q)) |->
        [ev    |-> q[LastDecided(q) + i].ev,
         other |-> q[LastDecided(q) + i].other]]

WorkOf(t) ==
    CASE main[t].pc \in {"announce", "arm", "phase", "pods", "handover", "handqueue"} -> "busy"
      [] main[t].pc = "handstart" -> "handed"
      [] main[t].pc = "wait" \/ (main[t].pc = "mark" /\ main[t].verdict # "Skip") ->
            IF Event(t) = "Update" THEN "handed" ELSE "busy"
      [] main[t].pc \in {"status", "current"} -> main[t].final
      [] OTHER -> "idle"

WorkFor(c) == IF Alive(c) = {} THEN "idle" ELSE WorkOf(CHOOSE t \in Alive(c) : TRUE)

PendingBar == [c \in AppContexts |-> PendingEvents(queue[c])]
WorkBar    == [c \in AppContexts |-> WorkFor(c)]

Promise == INSTANCE AppContextLifecycle WITH
    pending <- PendingBar, state <- current, work <- WorkBar

\* As long as rsync is not restarted, every step of the engine is a step that
\* AppContextLifecycle allows, or changes nothing it speaks of.
ImplementsLifecycle == Promise!Lifecycle

================================================================================
