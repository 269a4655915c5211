------------------------------ MODULE ReadyNotify ------------------------------
(***************************************************************************)
(* rsync's ready-notify service.  A subscriber opens a stream for an       *)
(* AppContext (Alert), rsync writes to it whenever the monitor reports a   *)
(* change of one of its apps, and the subscriber ends it (Unsubscribe).    *)
(* Alert returns to the subscriber when the stream exists, rsync's handler *)
(* runs later.                                                             *)
(*                                                                         *)
(* streamChannel is not a variable: an entry of alertNotify always has its *)
(* channel, and what is left behind in the map is never looked at again.   *)
(***************************************************************************)
CONSTANTS
    AppContexts,
    Apps,
    Listeners,      \* subscribers of their own: dcm
    ListensTo,      \* the AppContext a listener subscribes to
    Server,         \* the name the status notification server subscribes with
    Streams,        \* calls of Alert
    NoStream

Names == Listeners \cup {Server}

ASSUME ListenerAssumption == ListensTo \in [Listeners -> AppContexts]
                             /\ Server \notin Listeners /\ AppContexts # {}
ASSUME StreamAssumption   == NoStream \notin Streams

VARIABLES
    stream,         \* Alert calls: how far they are, for whom, and what arrived
    alertNotify,    \* readyNotifyServer.alertNotify
    rsyncStuck,     \* Unsubscribe holds readyNotifyServer.mutex and sends to nobody
    listener        \* the listeners' goroutines

notifyVars == <<stream, alertNotify, rsyncStuck, listener>>

Phases == {"free", "opened", "served", "ended"}
ListenerPCs == {"idle", "listening", "leaving", "done"}

Alert0 == [phase |-> "free", name |-> Server, ac |-> CHOOSE ac \in AppContexts : TRUE,
           cut |-> FALSE, inbox |-> {}]

NotifyInit ==
    /\ stream = [s \in Streams |-> Alert0]
    /\ alertNotify = [ac \in AppContexts |-> [n \in Names |-> NoStream]]
    /\ rsyncStuck = FALSE
    /\ listener = [l \in Listeners |-> [pc |-> "idle", stream |-> NoStream]]

AlertCall == [phase : Phases, name : Names, ac : AppContexts, cut : BOOLEAN, inbox : SUBSET Apps]
Goroutine == [pc : ListenerPCs, stream : Streams \cup {NoStream}]

NotifyTypeOK ==
    /\ stream \in [Streams -> AlertCall]
    /\ alertNotify \in [AppContexts -> [Names -> Streams \cup {NoStream}]]
    /\ rsyncStuck \in BOOLEAN
    /\ listener \in [Listeners -> Goroutine]

--------------------------------------------------------------------------------
(* The service.                                                            *)

Free(s)  == stream[s].phase = "free"
\* The calls are alike: the next one is any that has not been used.
NextCall == CHOOSE s \in Streams : Free(s)
Opened(n, ac) == [Alert0 EXCEPT !.phase = "opened", !.name = n, !.ac = ac]
\* The reader of the stream will see an error.
Broken(s) == stream[s].phase = "ended" \/ stream[s].cut

\* The stream takes the place of an earlier one of the same subscriber.
Alert(s) ==
    LET a == stream[s]
    IN  /\ a.phase = "opened"
        /\ ~rsyncStuck
        /\ stream' = [stream EXCEPT ![s].phase = "served"]
        /\ alertNotify' = [alertNotify EXCEPT ![a.ac][a.name] = s]
        /\ UNCHANGED <<rsyncStuck, listener>>

\* The subscriber is gone; the entry of alertNotify stays.
AlertEnds(s) ==
    /\ stream[s].phase = "served"
    /\ stream[s].cut
    /\ stream' = [stream EXCEPT ![s].phase = "ended"]
    /\ UNCHANGED <<alertNotify, rsyncStuck, listener>>

\* Who is told that an app of an AppContext has changed.  The map is read
\* without the mutex; writing to a stream that has ended is an error that is
\* logged.
Notified(ac) ==
    {s \in Streams : stream[s].phase = "served" /\ \E n \in Names : alertNotify[ac][n] = s}

SendAppContextNotification(ac, app) ==
    stream' = [s \in Streams |->
                  IF s \in Notified(ac) THEN [stream[s] EXCEPT !.inbox = @ \cup {app}]
                                        ELSE stream[s]]

\* The stop is sent with the mutex held, over a channel without a buffer: to
\* the handler of the stream, or to nobody when that has returned, or when
\* the subscriber is not in the map of an AppContext that has others.
Unsubscribe(l) ==
    LET ac    == ListensTo[l]
        s     == alertNotify[ac][l]
        known == \E n \in Names : alertNotify[ac][n] # NoStream
        heard == s # NoStream /\ stream[s].phase = "served"
    IN  /\ listener[l].pc = "leaving"
        /\ ~rsyncStuck
        /\ rsyncStuck' = (known /\ ~heard)
        /\ listener' = [listener EXCEPT ![l].pc = IF known /\ ~heard THEN @ ELSE "done"]
        /\ stream' = [t \in Streams |-> IF heard /\ t = s THEN [stream[t] EXCEPT !.phase = "ended", !.inbox = {}] ELSE stream[t]]
        /\ alertNotify' = [alertNotify EXCEPT ![ac][l] = IF heard THEN NoStream ELSE @]

--------------------------------------------------------------------------------
(* A listener waits for alerts until it has what it needs.                 *)

Subscribe(l) ==
    /\ listener[l].pc = "idle"
    /\ \E s \in Streams : Free(s)
    /\ listener' = [listener EXCEPT ![l].pc = "listening", ![l].stream = NextCall]
    /\ stream' = [stream EXCEPT ![NextCall] = Opened(l, ListensTo[l])]
    /\ UNCHANGED <<alertNotify, rsyncStuck>>

\* variant: it looks before the first alert, too.
ProcessAlertUnalerted(l) ==
    LET s == listener[l].stream
    IN  /\ listener[l].pc = "listening"
        /\ stream' = [stream EXCEPT ![s].inbox = {}]
        /\ \E enough \in BOOLEAN :
              listener' = [listener EXCEPT ![l].pc = IF enough THEN "leaving" ELSE @]
        /\ UNCHANGED <<alertNotify, rsyncStuck>>

\* dcm looks at the AppContext when it is alerted; errors of the stream are
\* logged and the next alert is waited for.
ProcessAlert(l) ==
    LET s == listener[l].stream
    IN  /\ listener[l].pc = "listening"
        /\ stream[s].inbox # {}
        /\ stream' = [stream EXCEPT ![s].inbox = {}]
        /\ \E enough \in BOOLEAN :
              listener' = [listener EXCEPT ![l].pc = IF enough THEN "leaving" ELSE @]
        /\ UNCHANGED <<alertNotify, rsyncStuck>>

--------------------------------------------------------------------------------
(* rsync is restarted: its maps are empty, every stream breaks, calls fail. *)
RsyncRestarts ==
    /\ \E s \in Streams : stream[s].phase \in {"opened", "served"}
    /\ stream' = [s \in Streams |-> IF Free(s) THEN stream[s] ELSE [stream[s] EXCEPT !.phase = "ended"]]
    /\ alertNotify' = [ac \in AppContexts |-> [n \in Names |-> NoStream]]
    /\ rsyncStuck' = FALSE
    /\ listener' = [l \in Listeners |-> IF listener[l].pc = "leaving"
                                          THEN [listener[l] EXCEPT !.pc = "done"] ELSE listener[l]]

--------------------------------------------------------------------------------
\* rsync waits for ever, its mutex held, only in the Unsubscribe of a listener
\* whose stream a restart of rsync has broken: any other finds the handler of
\* its stream (readynotifyserver.go:91).
UnsubscribeIsHeard ==
    rsyncStuck => \E l \in Listeners : listener[l].pc = "leaving" /\ Broken(listener[l].stream)

================================================================================
