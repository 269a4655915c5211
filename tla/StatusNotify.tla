------------------------------ MODULE StatusNotify -----------------------------
(***************************************************************************)
(* The status notification server of the orchestrator (dcm and ncm run the *)
(* same code) on top of rsync's ReadyNotify.  A client registers for an    *)
(* AppContext, with the apps and the kind of status it wants; the server   *)
(* opens one ready-notify stream per AppContext, and one goroutine per     *)
(* stream turns alerts into status queries and notifications.              *)
(*                                                                         *)
(* Clusters and resources of a filter are treated as apps are; a query or  *)
(* a notification is a step, since the mutex is held over it.              *)
(***************************************************************************)
EXTENDS ReadyNotify, Naturals

CONSTANTS
    Clients,        \* client ids
    Registrations,  \* calls of StatusRegister
    ClientOf, Watches, Wants, KindOf,   \* what each asks: id, AppContext, apps ({}: all), kind
    NoRegistration,
    MaxChanges,     \* bound: changes that are reported
    Faults

Kinds == {"ready", "deployed"}
FaultKinds == {"twice", "rpc", "rsync"}

ASSUME RegistrationAssumption ==
    /\ ClientOf \in [Registrations -> Clients]
    /\ Watches \in [Registrations -> AppContexts]
    /\ Wants \in [Registrations -> SUBSET Apps]
    /\ KindOf \in [Registrations -> Kinds]
    /\ NoRegistration \notin Registrations
ASSUME ChangeAssumption == MaxChanges \in Nat
ASSUME FaultAssumption == Faults \subseteq FaultKinds

VARIABLES
    statusClients,  \* StatusNotifyServer.statusClients: client id -> registration
    appContexts,    \* StatusNotifyServer.appContexts: clients and filters of each AppContext
    serverStuck,    \* StatusDeregister holds the mutex and sends to nobody
    rpcClient,      \* readyNotifyClient is not nil
    handler,        \* the goroutines of StatusRegister
    sender,         \* the goroutines of sendStatusNotifications, one per stream
    changes,        \* changes so far
    due             \* for each registration the apps whose changes it still has to hear of

serverVars == <<statusClients, appContexts, serverStuck, rpcClient, handler, sender, changes, due>>
vars == <<notifyVars, serverVars>>

HandlerPCs == {"idle", "checked", "open", "cleanup", "closed"}
SenderPCs  == {"none", "receive", "handle", "ended"}

NoEntry  == [clients |-> {}, filters |-> [q \in Kinds |-> {}], present |-> FALSE]
NoSender == [pc |-> "none", timer |-> FALSE, batch |-> {}]

Init ==
    /\ NotifyInit
    /\ statusClients = [id \in Clients |-> NoRegistration]
    /\ appContexts = [ac \in AppContexts |-> NoEntry]
    /\ serverStuck = FALSE
    /\ rpcClient = FALSE
    /\ handler = [r \in Registrations |-> "idle"]
    /\ sender = [s \in Streams |-> NoSender]
    /\ changes = 0
    /\ due = [r \in Registrations |-> {}]

Entry  == [clients : SUBSET Clients, filters : [Kinds -> SUBSET Apps], present : BOOLEAN]
Sender == [pc : SenderPCs, timer : BOOLEAN, batch : SUBSET Apps]

TypeOK ==
    /\ NotifyTypeOK
    /\ statusClients \in [Clients -> Registrations \cup {NoRegistration}]
    /\ appContexts \in [AppContexts -> Entry]
    /\ serverStuck \in BOOLEAN /\ rpcClient \in BOOLEAN
    /\ handler \in [Registrations -> HandlerPCs]
    /\ sender \in [Streams -> Sender]
    /\ changes \in 0 .. MaxChanges
    /\ due \in [Registrations -> SUBSET Apps]

Goes(r, pc) == handler' = [handler EXCEPT ![r] = pc]

--------------------------------------------------------------------------------
(* Filters.                                                                *)

\* The registrations of some clients that ask for one kind of status.
Asking(ids, q, registered) ==
    {r \in {registered[id] : id \in ids} \ {NoRegistration} : KindOf[r] = q}

\* variant: a client that wants all apps does not widen the filter.
UnionOfNamed(regs) == UNION {Wants[r] : r \in regs}

\* All apps as soon as one client wants all, else those somebody wants.  The
\* code runs through the clients in any order; the result is the same.
Union(regs) == IF \E r \in regs : Wants[r] = {} THEN {} ELSE UNION {Wants[r] : r \in regs}

\* variant: there is a filter only for a kind somebody asks for.
updateQueryFiltersAsked(ids, registered) ==
    [q \in {k \in Kinds : Asking(ids, k, registered) # {}} |-> Union(Asking(ids, q, registered))]

updateQueryFilters(ids, registered) == [q \in Kinds |-> Union(Asking(ids, q, registered))]

\* A query is made when the batch holds an app that somebody wants.
QueryNeeded(filter, batch) == filter = {} \/ filter \cap batch # {}

--------------------------------------------------------------------------------
(* StatusRegister.                                                         *)

\* A client calls again after its earlier call came through or broke.
CallsAgain(r) ==
    \A r2 \in Registrations \ {r} : ClientOf[r2] = ClientOf[r] => handler[r2] # "checked"

\* The id is looked up without the mutex.
Unknown(r) == statusClients[ClientOf[r]] = NoRegistration

CheckClient(r) ==
    /\ handler[r] = "idle"
    /\ "twice" \in Faults \/ CallsAgain(r)
    /\ Goes(r, IF Unknown(r) THEN "checked" ELSE "closed")
    /\ UNCHANGED <<notifyVars, statusClients, appContexts, serverStuck, rpcClient, sender, changes, due>>

\* What StatusRegister enters before it looks at rsync.
Registered(r) ==
    LET ac  == Watches[r]
        ids == appContexts[ac].clients \cup {ClientOf[r]}
        now == [statusClients EXCEPT ![ClientOf[r]] = r]
    IN  /\ statusClients' = now
        /\ appContexts' = [appContexts EXCEPT ![ac] =
                              [clients |-> ids, present |-> TRUE, filters |-> updateQueryFilters(ids, now)]]

\* The first client of an AppContext opens its stream.
RegisterFirst(r) ==
    /\ handler[r] = "checked"
    /\ ~serverStuck
    /\ ~appContexts[Watches[r]].present
    /\ \E s \in Streams : Free(s)
    /\ Registered(r)
    /\ rpcClient' = TRUE
    /\ stream' = [stream EXCEPT ![NextCall] = Opened(Server, Watches[r])]
    /\ sender' = [sender EXCEPT ![NextCall].pc = "receive"]
    /\ Goes(r, "open")
    /\ UNCHANGED <<alertNotify, rsyncStuck, listener, serverStuck, changes, due>>

\* No client or no stream: the call fails, what was entered stays.
RegisterFails(r) ==
    /\ handler[r] = "checked"
    /\ "rpc" \in Faults
    /\ ~serverStuck
    /\ ~appContexts[Watches[r]].present
    /\ Registered(r)
    /\ rpcClient' \in BOOLEAN
    /\ Goes(r, "closed")
    /\ UNCHANGED <<notifyVars, serverStuck, sender, changes, due>>

RegisterNext(r) ==
    /\ handler[r] = "checked"
    /\ ~serverStuck
    /\ appContexts[Watches[r]].present
    /\ Registered(r)
    /\ Goes(r, "open")
    /\ UNCHANGED <<notifyVars, serverStuck, rpcClient, sender, changes, due>>

\* The client's context has ended; what the handler still waits for after its
\* cleanup (the goroutine of the stream it opened) changes nothing here.
NoticeDisconnect(r) ==
    /\ handler[r] = "open"
    /\ Goes(r, "cleanup")
    /\ UNCHANGED <<notifyVars, statusClients, appContexts, serverStuck, rpcClient, sender, changes, due>>

--------------------------------------------------------------------------------
(* A client goes.                                                          *)

Without(ids, r) == [appContexts EXCEPT ![Watches[r]] = IF ids = {} THEN NoEntry ELSE [@ EXCEPT !.clients = ids]]

Gone(s) == stream[s].name = Server /\ ~Free(s)

\* A nil pointer ends the process: its memory is gone and its streams break.
ServerDies ==
    /\ statusClients' = [id \in Clients |-> NoRegistration]
    /\ appContexts' = [ac \in AppContexts |-> NoEntry]
    /\ rpcClient' = FALSE
    /\ handler' = [r \in Registrations |-> IF handler[r] = "idle" THEN "idle" ELSE "closed"]
    /\ sender' = [s \in Streams |-> IF sender[s].pc = "none" THEN sender[s] ELSE [NoSender EXCEPT !.pc = "ended"]]
    /\ stream' = [s \in Streams |-> [stream[s] EXCEPT !.cut = @ \/ Gone(s), !.inbox = IF Gone(s) THEN {} ELSE @]]
    /\ due' = [r \in Registrations |-> {}]
    /\ UNCHANGED <<alertNotify, rsyncStuck, listener, serverStuck, changes>>

\* What the map holds under the id is removed, whichever call entered it.  The
\* Unsubscribe for the last client is refused by gRPC, since the context it
\* is made with is the one of the client that has just gone.
Removed(r, si) ==
    LET rest == appContexts[Watches[si]].clients \ {ClientOf[r]}
        last == rest = {}
    IN  \/ /\ last => rpcClient
           /\ Goes(r, "closed")
           /\ statusClients' = [statusClients EXCEPT ![ClientOf[r]] = NoRegistration]
           /\ appContexts' = IF last THEN Without(rest, si)
                             ELSE [Without(rest, si) EXCEPT ![Watches[si]].filters = updateQueryFilters(rest, statusClients)]
           /\ due' = [due EXCEPT ![si] = {}]
           /\ UNCHANGED <<notifyVars, serverStuck, rpcClient, sender, changes>>
        \/ last /\ ~rpcClient /\ ServerDies

cleanup(r) ==
    /\ handler[r] = "cleanup"
    /\ ~serverStuck
    /\ IF statusClients[ClientOf[r]] = NoRegistration
         THEN /\ Goes(r, "closed")
              /\ UNCHANGED <<notifyVars, statusClients, appContexts, serverStuck, rpcClient, sender, changes, due>>
         ELSE Removed(r, statusClients[ClientOf[r]])

\* The stop is sent with the mutex held: to the handler of the stream, or to
\* nobody when that has returned or is about to clean up.  The stream of an
\* AppContext is never entered in the map, so that closing it after its last
\* client ends the process.
StatusDeregister(r) ==
    LET id   == ClientOf[r]
        rest == appContexts[Watches[r]].clients \ {id}
    IN  /\ statusClients[id] = r
        /\ ~serverStuck
        /\ \/ /\ handler[r] = "open"
              /\ rest # {}
              /\ Goes(r, "closed")
              /\ statusClients' = [statusClients EXCEPT ![id] = NoRegistration]
              /\ appContexts' = Without(rest, r)
              /\ due' = [due EXCEPT ![r] = {}]
              /\ UNCHANGED <<notifyVars, serverStuck, rpcClient, sender, changes>>
           \/ /\ handler[r] = "open"
              /\ rest = {}
              /\ ServerDies
           \/ /\ handler[r] # "open"
              /\ serverStuck' = TRUE
              /\ UNCHANGED <<notifyVars, statusClients, appContexts, rpcClient, handler, sender, changes, due>>

--------------------------------------------------------------------------------
(* sendStatusNotifications.                                                *)

\* A change of an app reaches the monitor, and rsync alerts the streams.  The
\* clients it concerns are those whose server listens at that moment.
Change(ac, app) ==
    /\ changes < MaxChanges
    /\ changes' = changes + 1
    /\ SendAppContextNotification(ac, app)
    /\ due' = [r \in Registrations |->
                  IF /\ ClientOf[r] \in appContexts[ac].clients /\ statusClients[ClientOf[r]] = r
                     /\ Wants[r] = {} \/ app \in Wants[r]
                     /\ \E s \in Notified(ac) : stream[s].name = Server /\ sender[s].pc \in {"receive", "handle"}
                  THEN due[r] \cup {app} ELSE due[r]]
    /\ UNCHANGED <<alertNotify, rsyncStuck, listener, statusClients, appContexts, serverStuck, rpcClient, handler, sender>>

\* variant: it starts anew with every alert.
GatheredAfresh(s) == {}

\* The batch starts anew unless a timer runs.
Gathered(s) == IF sender[s].timer THEN sender[s].batch ELSE {}

\* The first alert after a pause is handled at once; those that come close
\* after one another are gathered until a timer fires.
Receive(s) ==
    /\ sender[s].pc = "receive"
    /\ \E app \in stream[s].inbox :
          /\ stream' = [stream EXCEPT ![s].inbox = @ \ {app}]
          /\ \E gather \in {sender[s].timer, TRUE} :
                sender' = [sender EXCEPT ![s] =
                    [pc |-> IF gather THEN "receive" ELSE "handle", timer |-> gather,
                     batch |-> Gathered(s) \cup {app}]]
    /\ UNCHANGED <<alertNotify, rsyncStuck, listener, statusClients, appContexts, serverStuck, rpcClient, handler, changes, due>>

TimerFires(s) ==
    /\ sender[s].pc = "receive"
    /\ sender[s].timer
    /\ sender' = [sender EXCEPT ![s].pc = "handle", ![s].timer = FALSE]
    /\ UNCHANGED <<notifyVars, statusClients, appContexts, serverStuck, rpcClient, handler, changes, due>>

\* One query for each kind of status, a notification to each of its clients.
\* A listed client that is not in statusClients is a nil pointer.
Handle(s) ==
    LET entry  == appContexts[stream[s].ac]
        asked  == {q \in Kinds : QueryNeeded(entry.filters[q], sender[s].batch)}
        told   == UNION {Asking(entry.clients, q, statusClients) : q \in asked}
        absent == \E id \in entry.clients : statusClients[id] = NoRegistration
    IN  /\ sender[s].pc = "handle"
        /\ ~serverStuck
        /\ IF absent /\ asked # {} THEN ServerDies
           ELSE /\ sender' = [sender EXCEPT ![s] = [NoSender EXCEPT !.pc = "receive"]]
                /\ due' = [r \in Registrations |-> IF r \in told THEN {} ELSE due[r]]
                /\ UNCHANGED <<notifyVars, statusClients, appContexts, serverStuck, rpcClient, handler, changes>>

\* What was gathered for a timer is dropped.
SenderEnds(s) ==
    /\ sender[s].pc = "receive"
    /\ stream[s].inbox = {}
    /\ stream[s].phase = "ended"
    /\ sender' = [sender EXCEPT ![s] = [NoSender EXCEPT !.pc = "ended"]]
    /\ UNCHANGED <<notifyVars, statusClients, appContexts, serverStuck, rpcClient, handler, changes, due>>

--------------------------------------------------------------------------------
Rsync(s) == Alert(s) \/ AlertEnds(s)

Next ==
    \/ \E s \in Streams : /\ Rsync(s)
                         /\ UNCHANGED serverVars
    \/ \E l \in Listeners : /\ \/ Unsubscribe(l)
                              \/ ProcessAlert(l)
                              \/ Subscribe(l)
                           /\ UNCHANGED serverVars
    \/ /\ "rsync" \in Faults
       /\ RsyncRestarts
       /\ UNCHANGED serverVars
    \/ \E r \in Registrations :
          \/ CheckClient(r) \/ RegisterFirst(r) \/ RegisterFails(r) \/ RegisterNext(r)
          \/ NoticeDisconnect(r) \/ cleanup(r) \/ StatusDeregister(r)
    \/ \E ac \in AppContexts, app \in Apps : Change(ac, app)
    \/ \E s \in Streams : Receive(s) \/ TimerFires(s) \/ Handle(s) \/ SenderEnds(s)

Spec == Init /\ [][Next]_vars

\* The goroutines of rsync and of the server run; nothing is assumed of the
\* clients, the clusters or rsync's life.
Fairness ==
    /\ \A s \in Streams : /\ WF_vars(Rsync(s) /\ UNCHANGED serverVars)
                         /\ WF_vars(Receive(s)) /\ WF_vars(TimerFires(s)) /\ WF_vars(Handle(s))
FairSpec == Spec /\ Fairness

--------------------------------------------------------------------------------
\* Every client an AppContext lists is registered for that AppContext, by one
\* call, and the queries made for the AppContext cover what it wants: else a
\* change is not reported or the server dies of a nil pointer
\* (statusnotifyserver.go:247, :427).
ClientsCovered ==
    \A ac \in AppContexts : \A id \in appContexts[ac].clients :
        LET r == statusClients[id]
        IN  /\ r # NoRegistration
            /\ Watches[r] = ac
            /\ LET filter == appContexts[ac].filters[KindOf[r]]
               IN  filter = {} \/ (Wants[r] # {} /\ Wants[r] \subseteq filter)

\* The stream that serves an AppContext, as long as rsync and the server live.
Served(ac) ==
    \E s \in Streams : /\ stream[s].name = Server /\ stream[s].ac = ac
                      /\ sender[s].pc \in {"receive", "handle"} /\ ~Broken(s)

\* A change that was sent while a client was registered is reported to it,
\* however alerts, timers, filters and other clients fall together, unless it
\* leaves, the stream breaks (no one opens it again) or a deregistration has
\* stopped the server (statusnotifyserver.go:345-470).
EveryClientTold ==
    \A r \in Registrations :
        due[r] # {} ~> \/ due[r] = {} \/ handler[r] # "open"
                       \/ serverStuck \/ ~Served(Watches[r])

================================================================================
