-------------------------- MODULE StatusNotify_proofs --------------------------
(***************************************************************************)
(* Theorems about StatusNotify and the ready-notify service under it, for  *)
(* any clients, listeners, streams and AppContexts.                        *)
(*                                                                         *)
(* rsync is wedged only by a listener whose stream has broken, because a   *)
(* listener has one stream, which rsync has entered in its map by the time *)
(* the first alert arrives.  Filters cover what clients want, because a    *)
(* client is listed for one AppContext only and its call is the one that   *)
(* is registered: this needs that a client does not call twice at a time.  *)
(***************************************************************************)
EXTENDS StatusNotify, TLAPS

--------------------------------------------------------------------------------
(* Types.                                                                  *)

\* A stream that has not been used is found when there is one.
LEMMA NextCallFree ==
    ASSUME \E s \in Streams : Free(s)
    PROVE  NextCall \in Streams /\ Free(NextCall)
  BY DEF NextCall

\* A new call of Alert.
LEMMA OpenedType ==
    ASSUME NEW n \in Names, NEW ac \in AppContexts
    PROVE  /\ Alert0 \in AlertCall /\ Opened(n, ac) \in AlertCall
           /\ Opened(n, ac).phase = "opened" /\ Opened(n, ac).name = n /\ Opened(n, ac).ac = ac
           /\ ~Opened(n, ac).cut /\ Opened(n, ac).inbox = {}
  BY ListenerAssumption DEF Opened, Alert0, AlertCall, Phases, Names

\* Filters are made of what clients ask for.
LEMMA FiltersType ==
    ASSUME NEW ids, NEW registered,
           \A id \in ids : registered[id] \in Registrations \cup {NoRegistration}
    PROVE  updateQueryFilters(ids, registered) \in [Kinds -> SUBSET Apps]
<1>1. \A q \in Kinds : Asking(ids, q, registered) \subseteq Registrations
  BY DEF Asking
<1>2. \A q \in Kinds : Union(Asking(ids, q, registered)) \in SUBSET Apps
  BY <1>1, RegistrationAssumption DEF Union
<1> QED BY <1>2 DEF updateQueryFilters

\* A registration is entered.
LEMMA RegisteredType ==
    ASSUME TypeOK, NEW r \in Registrations, Registered(r)
    PROVE  /\ statusClients' \in [Clients -> Registrations \cup {NoRegistration}]
           /\ appContexts' \in [AppContexts -> Entry]
<1> DEFINE ac  == Watches[r]
           ids == appContexts[ac].clients \cup {ClientOf[r]}
           now == [statusClients EXCEPT ![ClientOf[r]] = r]
<1>1. ac \in AppContexts /\ ClientOf[r] \in Clients
  BY RegistrationAssumption
<1>2. now \in [Clients -> Registrations \cup {NoRegistration}]
  BY <1>1 DEF TypeOK
<1>3. ids \in SUBSET Clients
  BY <1>1 DEF TypeOK, Entry
<1>4. updateQueryFilters(ids, now) \in [Kinds -> SUBSET Apps]
  BY <1>2, <1>3, FiltersType
<1>5. [clients |-> ids, present |-> TRUE, filters |-> updateQueryFilters(ids, now)] \in Entry
  BY <1>3, <1>4 DEF Entry
<1>6. /\ statusClients' = now
      /\ appContexts' = [appContexts EXCEPT ![ac] =
             [clients |-> ids, present |-> TRUE, filters |-> updateQueryFilters(ids, now)]]
  BY DEF Registered
<1> HIDE DEF ids, now
<1> QED BY <1>1, <1>2, <1>5, <1>6 DEF TypeOK

\* What is left of an AppContext when a client goes.
LEMMA WithoutType ==
    ASSUME TypeOK, NEW ids \in SUBSET Clients, NEW r \in Registrations
    PROVE  /\ Without(ids, r) \in [AppContexts -> Entry]
           /\ Without(ids, r)[Watches[r]].clients = ids
           /\ ids # {} => Without(ids, r)[Watches[r]].filters = appContexts[Watches[r]].filters
<1>1. Watches[r] \in AppContexts /\ appContexts[Watches[r]] \in Entry
  BY RegistrationAssumption DEF TypeOK
<1>2. NoEntry \in Entry
  BY DEF NoEntry, Entry
<1>3. [appContexts[Watches[r]] EXCEPT !.clients = ids] \in Entry
  BY <1>1 DEF Entry
<1> DEFINE new == IF ids = {} THEN NoEntry ELSE [appContexts[Watches[r]] EXCEPT !.clients = ids]
<1>4. new \in Entry
  BY <1>2, <1>3
<1>5. Without(ids, r) = [appContexts EXCEPT ![Watches[r]] = new]
  BY DEF Without
<1> HIDE DEF new
<1>6. /\ Without(ids, r) \in [AppContexts -> Entry]
      /\ Without(ids, r)[Watches[r]] = new
  BY <1>1, <1>4, <1>5 DEF TypeOK
<1>7. new.clients = ids /\ (ids # {} => new.filters = appContexts[Watches[r]].filters)
  BY <1>1 DEF new, NoEntry, Entry
<1> QED BY <1>6, <1>7

\* Steps of rsync and of the listeners.
LEMMA NotifyKeepsType ==
    ASSUME NotifyTypeOK,
           \/ \E s \in Streams : Rsync(s)
           \/ \E l \in Listeners : Unsubscribe(l) \/ ProcessAlert(l) \/ Subscribe(l)
           \/ RsyncRestarts
    PROVE  NotifyTypeOK'
<1> USE DEF NotifyTypeOK
<1>1. ASSUME NEW s \in Streams, Alert(s) PROVE NotifyTypeOK'
  BY <1>1 DEF Alert, AlertCall, Phases
<1>2. ASSUME NEW s \in Streams, AlertEnds(s) PROVE NotifyTypeOK'
  BY <1>2 DEF AlertEnds, AlertCall, Phases
<1>3. ASSUME NEW l \in Listeners, Unsubscribe(l) PROVE NotifyTypeOK'
  <2> DEFINE heard == alertNotify[ListensTo[l]][l] # NoStream /\ stream[alertNotify[ListensTo[l]][l]].phase = "served"
             known == \E n \in Names : alertNotify[ListensTo[l]][n] # NoStream
  <2>1. rsyncStuck' \in BOOLEAN
    BY <1>3 DEF Unsubscribe
  <2>2. listener' \in [Listeners -> Goroutine]
    <3>1. listener' = [listener EXCEPT ![l].pc = IF known /\ ~heard THEN @ ELSE "done"]
      BY <1>3 DEF Unsubscribe
    <3> HIDE DEF known, heard
    <3> QED BY <3>1 DEF Goroutine, ListenerPCs
  <2>3. stream' \in [Streams -> AlertCall]
    <3>1. stream' = [t \in Streams |-> IF heard /\ t = alertNotify[ListensTo[l]][l]
                                      THEN [stream[t] EXCEPT !.phase = "ended", !.inbox = {}] ELSE stream[t]]
      BY <1>3 DEF Unsubscribe
    <3>2. \A t \in Streams : [stream[t] EXCEPT !.phase = "ended", !.inbox = {}] \in AlertCall
      BY DEF AlertCall, Phases
    <3> HIDE DEF known, heard
    <3> QED BY <3>1, <3>2
  <2>4. alertNotify' \in [AppContexts -> [Names -> Streams \cup {NoStream}]]
    <3>1. alertNotify' = [alertNotify EXCEPT ![ListensTo[l]][l] = IF heard THEN NoStream ELSE @]
      BY <1>3 DEF Unsubscribe
    <3> DEFINE old == alertNotify[ListensTo[l]]
    <3>2. ListensTo[l] \in AppContexts /\ l \in Names /\ old \in [Names -> Streams \cup {NoStream}]
      BY ListenerAssumption DEF Names
    <3>3. [old EXCEPT ![l] = IF heard THEN NoStream ELSE @] \in [Names -> Streams \cup {NoStream}]
      BY <3>2
    <3>4. alertNotify' = [alertNotify EXCEPT ![ListensTo[l]] = [old EXCEPT ![l] = IF heard THEN NoStream ELSE @]]
      BY <3>1
    <3> HIDE DEF known, heard, old
    <3> QED BY <3>2, <3>3, <3>4
  <2> QED BY <1>3, <2>1, <2>2, <2>3, <2>4
<1>4. ASSUME NEW l \in Listeners, ProcessAlert(l) PROVE NotifyTypeOK'
  <2>1. stream' \in [Streams -> AlertCall]
    BY <1>4, ZenonT(60) DEF ProcessAlert, AlertCall
  <2>2. listener' \in [Listeners -> Goroutine]
    <3>1. PICK enough \in BOOLEAN : listener' = [listener EXCEPT ![l].pc = IF enough THEN "leaving" ELSE @]
      BY <1>4 DEF ProcessAlert
    <3> QED BY <3>1 DEF Goroutine, ListenerPCs
  <2> QED BY <1>4, <2>1, <2>2 DEF ProcessAlert
<1>5. ASSUME NEW l \in Listeners, Subscribe(l) PROVE NotifyTypeOK'
  <2>1. NextCall \in Streams
    BY <1>5, NextCallFree DEF Subscribe
  <2>2. Opened(l, ListensTo[l]) \in AlertCall
    BY OpenedType, ListenerAssumption DEF Names
  <2>3. stream' \in [Streams -> AlertCall]
    BY <1>5, <2>1, <2>2 DEF Subscribe
  <2>4. listener' \in [Listeners -> Goroutine]
    BY <1>5, <2>1 DEF Subscribe, Goroutine, ListenerPCs
  <2> QED BY <1>5, <2>3, <2>4 DEF Subscribe
<1>6. CASE RsyncRestarts
  <2>1. stream' \in [Streams -> AlertCall]
    <3>1. \A s \in Streams : [stream[s] EXCEPT !.phase = "ended"] \in AlertCall
      BY DEF AlertCall, Phases
    <3> QED BY <1>6, <3>1 DEF RsyncRestarts
  <2>2. listener' \in [Listeners -> Goroutine]
    <3>1. \A l \in Listeners : [listener[l] EXCEPT !.pc = "done"] \in Goroutine
      BY DEF Goroutine, ListenerPCs
    <3> QED BY <1>6, <3>1 DEF RsyncRestarts
  <2> QED BY <1>6, <2>1, <2>2 DEF RsyncRestarts
<1> QED BY <1>1, <1>2, <1>3, <1>4, <1>5, <1>6 DEF Rsync

\* The process of the server ends.
LEMMA DeathKeepsType ==
    ASSUME TypeOK, ServerDies
    PROVE  TypeOK'
<1>1. NoEntry \in Entry
  BY DEF NoEntry, Entry
<1>2. stream' \in [Streams -> AlertCall]
  BY ZenonT(60) DEF ServerDies, TypeOK, NotifyTypeOK, AlertCall
<1>3. sender' \in [Streams -> Sender]
  BY DEF ServerDies, TypeOK, Sender, NoSender, SenderPCs
<1>4. handler' \in [Registrations -> HandlerPCs]
  BY DEF ServerDies, TypeOK, HandlerPCs
<1> QED BY <1>1, <1>2, <1>3, <1>4 DEF ServerDies, TypeOK, NotifyTypeOK

\* Every step keeps the types.
LEMMA NextType == TypeOK /\ [Next]_vars => TypeOK'
<1> SUFFICES ASSUME TypeOK, [Next]_vars PROVE TypeOK'
  OBVIOUS
<1>1. CASE UNCHANGED vars
  BY <1>1 DEF vars, notifyVars, serverVars, TypeOK, NotifyTypeOK
<1>2. CASE /\ UNCHANGED serverVars
           /\ \/ \E s \in Streams : Rsync(s)
              \/ \E l \in Listeners : Unsubscribe(l) \/ ProcessAlert(l) \/ Subscribe(l)
              \/ RsyncRestarts
  <2>1. NotifyTypeOK'
    BY <1>2, NotifyKeepsType DEF TypeOK
  <2> QED BY <1>2, <2>1 DEF serverVars, TypeOK
<1>3. ASSUME NEW r \in Registrations, CheckClient(r) PROVE TypeOK'
  BY <1>3 DEF CheckClient, Goes, notifyVars, TypeOK, NotifyTypeOK, HandlerPCs
<1>4. ASSUME NEW r \in Registrations, RegisterFirst(r) PROVE TypeOK'
  <2>1. NextCall \in Streams
    BY <1>4, NextCallFree DEF RegisterFirst
  <2>2. Opened(Server, Watches[r]) \in AlertCall
    BY OpenedType, RegistrationAssumption DEF Names
  <2>3. stream' \in [Streams -> AlertCall]
    BY <1>4, <2>1, <2>2 DEF RegisterFirst, TypeOK, NotifyTypeOK
  <2>4. sender' \in [Streams -> Sender]
    BY <1>4, <2>1 DEF RegisterFirst, TypeOK, Sender, SenderPCs
  <2>5. handler' \in [Registrations -> HandlerPCs]
    BY <1>4 DEF RegisterFirst, Goes, TypeOK, HandlerPCs
  <2> QED BY <1>4, <2>3, <2>4, <2>5, RegisteredType DEF RegisterFirst, TypeOK, NotifyTypeOK
<1>5. ASSUME NEW r \in Registrations, RegisterFails(r) PROVE TypeOK'
  <2>1. handler' \in [Registrations -> HandlerPCs]
    BY <1>5 DEF RegisterFails, Goes, TypeOK, HandlerPCs
  <2> QED BY <1>5, <2>1, RegisteredType DEF RegisterFails, notifyVars, TypeOK, NotifyTypeOK
<1>6. ASSUME NEW r \in Registrations, RegisterNext(r) PROVE TypeOK'
  <2>1. handler' \in [Registrations -> HandlerPCs]
    BY <1>6 DEF RegisterNext, Goes, TypeOK, HandlerPCs
  <2> QED BY <1>6, <2>1, RegisteredType DEF RegisterNext, notifyVars, TypeOK, NotifyTypeOK
<1>7. ASSUME NEW r \in Registrations, NoticeDisconnect(r) PROVE TypeOK'
  BY <1>7 DEF NoticeDisconnect, Goes, notifyVars, TypeOK, NotifyTypeOK, HandlerPCs
<1>8. ASSUME NEW r \in Registrations, cleanup(r) PROVE TypeOK'
  <2>1. CASE statusClients[ClientOf[r]] = NoRegistration
    BY <1>8, <2>1 DEF cleanup, Goes, notifyVars, TypeOK, NotifyTypeOK, HandlerPCs
  <2>2. CASE statusClients[ClientOf[r]] # NoRegistration
    <3> DEFINE si == statusClients[ClientOf[r]]
               rest == appContexts[Watches[si]].clients \ {ClientOf[r]}
    <3>1. si \in Registrations /\ Watches[si] \in AppContexts /\ rest \in SUBSET Clients
      BY <2>2, RegistrationAssumption DEF TypeOK, Entry
    <3>2. CASE ServerDies
      BY <3>2, DeathKeepsType
    <3>3. CASE /\ Goes(r, "closed")
               /\ statusClients' = [statusClients EXCEPT ![ClientOf[r]] = NoRegistration]
               /\ appContexts' = IF rest = {} THEN Without(rest, si)
                     ELSE [Without(rest, si) EXCEPT ![Watches[si]].filters = updateQueryFilters(rest, statusClients)]
               /\ due' = [due EXCEPT ![si] = {}]
               /\ UNCHANGED <<notifyVars, serverStuck, rpcClient, sender, changes>>
      <4>1. Without(rest, si) \in [AppContexts -> Entry]
        BY <3>1, WithoutType
      <4>2. updateQueryFilters(rest, statusClients) \in [Kinds -> SUBSET Apps]
        BY <3>1, FiltersType DEF TypeOK
      <4>3. [Without(rest, si) EXCEPT ![Watches[si]].filters = updateQueryFilters(rest, statusClients)] \in [AppContexts -> Entry]
        BY <3>1, <4>1, <4>2 DEF Entry
      <4>4. appContexts' \in [AppContexts -> Entry]
        BY <3>3, <4>1, <4>3
      <4>5. handler' \in [Registrations -> HandlerPCs]
        BY <3>3 DEF Goes, TypeOK, HandlerPCs
      <4> QED BY <3>1, <3>3, <4>4, <4>5 DEF notifyVars, TypeOK, NotifyTypeOK
    <3> QED BY <1>8, <2>2, <3>2, <3>3 DEF cleanup, Removed
  <2> QED BY <2>1, <2>2
<1>9. ASSUME NEW r \in Registrations, StatusDeregister(r) PROVE TypeOK'
  <2> DEFINE rest == appContexts[Watches[r]].clients \ {ClientOf[r]}
  <2>1. CASE ServerDies
    BY <2>1, DeathKeepsType
  <2>2. CASE /\ Goes(r, "closed")
             /\ statusClients' = [statusClients EXCEPT ![ClientOf[r]] = NoRegistration]
             /\ appContexts' = Without(rest, r)
             /\ due' = [due EXCEPT ![r] = {}]
             /\ UNCHANGED <<notifyVars, serverStuck, rpcClient, sender, changes>>
    <3>1. rest \in SUBSET Clients
      BY RegistrationAssumption DEF TypeOK, Entry
    <3>2. appContexts' \in [AppContexts -> Entry]
      BY <2>2, <3>1, WithoutType
    <3>3. handler' \in [Registrations -> HandlerPCs]
      BY <2>2 DEF Goes, TypeOK, HandlerPCs
    <3> QED BY <2>2, <3>2, <3>3 DEF notifyVars, TypeOK, NotifyTypeOK
  <2>3. CASE /\ serverStuck' = TRUE
             /\ UNCHANGED <<notifyVars, statusClients, appContexts, rpcClient, handler, sender, changes, due>>
    BY <2>3 DEF notifyVars, TypeOK, NotifyTypeOK
  <2> QED BY <1>9, <2>1, <2>2, <2>3 DEF StatusDeregister
<1>10. ASSUME NEW ac \in AppContexts, NEW a \in Apps, Change(ac, a) PROVE TypeOK'
  <2>1. stream' \in [Streams -> AlertCall]
    <3>1. \A s \in Streams : [stream[s] EXCEPT !.inbox = @ \cup {a}] \in AlertCall
      BY DEF TypeOK, NotifyTypeOK, AlertCall
    <3> QED BY <1>10, <3>1 DEF Change, SendAppContextNotification, TypeOK, NotifyTypeOK
  <2>2. changes' \in 0 .. MaxChanges
    BY <1>10, ChangeAssumption DEF Change, TypeOK
  <2>3. due' \in [Registrations -> SUBSET Apps]
    BY <1>10 DEF Change, TypeOK
  <2> QED BY <1>10, <2>1, <2>2, <2>3 DEF Change, TypeOK, NotifyTypeOK
<1>11. ASSUME NEW s \in Streams, Receive(s) PROVE TypeOK'
  <2>1. PICK a \in stream[s].inbox :
          /\ stream' = [stream EXCEPT ![s].inbox = @ \ {a}]
          /\ \E gather \in {sender[s].timer, TRUE} :
                sender' = [sender EXCEPT ![s] =
                    [pc |-> IF gather THEN "receive" ELSE "handle", timer |-> gather,
                     batch |-> Gathered(s) \cup {a}]]
    BY <1>11 DEF Receive
  <2>2. stream' \in [Streams -> AlertCall]
    <3>1. [stream[s] EXCEPT !.inbox = @ \ {a}] \in AlertCall
      BY DEF TypeOK, NotifyTypeOK, AlertCall
    <3> QED BY <2>1, <3>1 DEF TypeOK, NotifyTypeOK
  <2>3. a \in Apps /\ Gathered(s) \in SUBSET Apps /\ sender[s].timer \in BOOLEAN
    BY <2>1 DEF TypeOK, NotifyTypeOK, AlertCall, Gathered, Sender
  <2>4. PICK gather \in BOOLEAN :
            sender' = [sender EXCEPT ![s] = [pc |-> IF gather THEN "receive" ELSE "handle", timer |-> gather,
                                             batch |-> Gathered(s) \cup {a}]]
    BY <2>1, <2>3
  <2>5. sender' \in [Streams -> Sender]
    BY <2>3, <2>4 DEF TypeOK, Sender, SenderPCs
  <2> QED BY <1>11, <2>2, <2>5 DEF Receive, TypeOK, NotifyTypeOK
<1>12. ASSUME NEW s \in Streams, TimerFires(s) PROVE TypeOK'
  BY <1>12 DEF TimerFires, notifyVars, TypeOK, NotifyTypeOK, Sender, SenderPCs
<1>13. ASSUME NEW s \in Streams, Handle(s) PROVE TypeOK'
  <2>1. CASE ServerDies
    BY <2>1, DeathKeepsType
  <2>2. CASE ~ServerDies
    <3>1. /\ sender' = [sender EXCEPT ![s] = [NoSender EXCEPT !.pc = "receive"]]
          /\ \E told : due' = [r \in Registrations |-> IF r \in told THEN {} ELSE due[r]]
          /\ UNCHANGED <<notifyVars, statusClients, appContexts, serverStuck, rpcClient, handler, changes>>
      BY <1>13, <2>2 DEF Handle
    <3>2. sender' \in [Streams -> Sender]
      BY <3>1 DEF TypeOK, Sender, SenderPCs, NoSender
    <3>3. due' \in [Registrations -> SUBSET Apps]
      BY <3>1 DEF TypeOK
    <3> QED BY <3>1, <3>2, <3>3 DEF notifyVars, TypeOK, NotifyTypeOK
  <2> QED BY <2>1, <2>2
<1>14. ASSUME NEW s \in Streams, SenderEnds(s) PROVE TypeOK'
  BY <1>14 DEF SenderEnds, notifyVars, TypeOK, NotifyTypeOK, Sender, SenderPCs, NoSender
<1> QED BY <1>1, <1>2, <1>3, <1>4, <1>5, <1>6, <1>7, <1>8, <1>9, <1>10, <1>11, <1>12, <1>13, <1>14 DEF Next

--------------------------------------------------------------------------------
(* The ready-notify service.                                               *)

\* A stream of a listener is the only one it has, and rsync knows it once it
\* serves it.
StreamsKnown ==
    \A s \in Streams :
        /\ stream[s].phase \in {"free", "opened"} => stream[s].inbox = {}
        /\ ~Free(s) /\ stream[s].name \in Listeners =>
              /\ stream[s].ac = ListensTo[stream[s].name]
              /\ listener[stream[s].name].stream = s
              /\ listener[stream[s].name].pc # "idle"
        /\ stream[s].phase = "served" /\ stream[s].name \in Listeners =>
              alertNotify[ListensTo[stream[s].name]][stream[s].name] = s

\* A listener that leaves has been alerted.
ListenersAlerted ==
    \A l \in Listeners :
        LET s == listener[l].stream
        IN  /\ listener[l].pc \in {"listening", "leaving"} => s \in Streams /\ ~Free(s) /\ stream[s].name = l
            /\ listener[l].pc = "leaving" => stream[s].phase \in {"served", "ended"}

NInv == StreamsKnown /\ ListenersAlerted /\ UnsubscribeIsHeard

\* What the server of status notifications does to its own streams and with the
\* alerts of others.
LEMMA ServerSideKeeps ==
    ASSUME NotifyTypeOK, NInv, UNCHANGED <<alertNotify, rsyncStuck, listener>>,
           \A s \in Streams :
               /\ stream'[s].phase = stream[s].phase
               /\ stream'[s].name = stream[s].name /\ stream'[s].ac = stream[s].ac
               /\ stream[s].cut => stream'[s].cut
               /\ stream[s].phase \in {"free", "opened"} /\ stream[s].inbox = {} => stream'[s].inbox = {}
    PROVE  NInv'
<1>1. StreamsKnown'
  BY DEF NInv, StreamsKnown, Free
<1>2. ListenersAlerted'
  BY DEF NInv, ListenersAlerted, Free
<1>3. UnsubscribeIsHeard'
  <2> SUFFICES ASSUME rsyncStuck
               PROVE  \E l \in Listeners : listener[l].pc = "leaving" /\ (stream'[listener[l].stream].phase = "ended" \/ stream'[listener[l].stream].cut)
    BY DEF UnsubscribeIsHeard, Broken
  <2>1. PICK l \in Listeners : listener[l].pc = "leaving" /\ Broken(listener[l].stream)
    BY DEF NInv, UnsubscribeIsHeard
  <2>2. listener[l].stream \in Streams
    BY <2>1 DEF NInv, ListenersAlerted
  <2> QED BY <2>1, <2>2 DEF Broken
<1> QED BY <1>1, <1>2, <1>3 DEF NInv

\* Nothing else than the streams of a stuck listener keeps rsync stuck.
LEMMA StuckKeeps ==
    ASSUME NInv, rsyncStuck' => rsyncStuck,
           \A l \in Listeners : rsyncStuck' /\ listener[l].pc = "leaving" =>
               /\ listener'[l] = listener[l]
               /\ Broken(listener[l].stream) => Broken(listener[l].stream)'
    PROVE  UnsubscribeIsHeard'
<1> SUFFICES ASSUME rsyncStuck'
             PROVE  \E l \in Listeners : listener'[l].pc = "leaving" /\ (stream'[listener'[l].stream].phase = "ended" \/ stream'[listener'[l].stream].cut)
  BY DEF UnsubscribeIsHeard, Broken
<1>1. PICK l \in Listeners : listener[l].pc = "leaving" /\ Broken(listener[l].stream)
  BY DEF NInv, UnsubscribeIsHeard
<1> QED BY <1>1 DEF Broken

\* The server opens a stream of its own.
LEMMA ServerOpens ==
    ASSUME NotifyTypeOK, NInv, NEW ac \in AppContexts, \E s \in Streams : Free(s),
           stream' = [stream EXCEPT ![NextCall] = Opened(Server, ac)],
           UNCHANGED <<alertNotify, rsyncStuck, listener>>
    PROVE  NInv'
<1>1. NextCall \in Streams /\ Free(NextCall) /\ Server \in Names /\ Server \notin Listeners
  BY NextCallFree, ListenerAssumption DEF Names
<1>2. \A s \in Streams : stream'[s] = IF s = NextCall THEN Opened(Server, ac) ELSE stream[s]
  BY <1>1 DEF NotifyTypeOK
<1>3. /\ Opened(Server, ac).phase = "opened" /\ Opened(Server, ac).name = Server
      /\ Opened(Server, ac).inbox = {}
  BY <1>1, OpenedType
<1>4. StreamsKnown'
  BY <1>1, <1>2, <1>3 DEF NInv, StreamsKnown, Free
<1>5. ListenersAlerted'
  BY <1>1, <1>2, <1>3 DEF NInv, ListenersAlerted, Free
<1>6. UnsubscribeIsHeard'
  BY <1>1, <1>2, StuckKeeps DEF NInv, ListenersAlerted, Broken
<1> QED BY <1>4, <1>5, <1>6 DEF NInv

\* Steps of rsync and of the listeners.
LEMMA NotifySteps ==
    ASSUME NotifyTypeOK, NInv,
           \/ \E s \in Streams : Rsync(s)
           \/ \E l \in Listeners : Unsubscribe(l) \/ ProcessAlert(l) \/ Subscribe(l)
           \/ RsyncRestarts
    PROVE  NInv'
<1> USE DEF NotifyTypeOK
<1>1. ASSUME NEW s \in Streams, Alert(s) PROVE NInv'
  <2>1. /\ stream[s].phase = "opened" /\ ~rsyncStuck
        /\ stream[s].name \in Names /\ stream[s].ac \in AppContexts
        /\ \A t \in Streams : stream'[t] = IF t = s THEN [stream[s] EXCEPT !.phase = "served"] ELSE stream[t]
        /\ \A ac \in AppContexts, n \in Names :
              alertNotify'[ac][n] = IF ac = stream[s].ac /\ n = stream[s].name THEN s ELSE alertNotify[ac][n]
        /\ rsyncStuck' = rsyncStuck /\ listener' = listener
    BY <1>1 DEF Alert, AlertCall
  <2>2. StreamsKnown'
    BY <2>1, ListenerAssumption DEF NInv, StreamsKnown, Free, Names, AlertCall
  <2>3. ListenersAlerted'
    <3>1. \A t \in Streams : /\ stream'[t].name = stream[t].name
                             /\ stream'[t].phase = IF t = s THEN "served" ELSE stream[t].phase
      BY <2>1 DEF AlertCall
    <3> QED BY <2>1, <3>1 DEF NInv, ListenersAlerted, Free
  <2>4. UnsubscribeIsHeard'
    BY <2>1 DEF UnsubscribeIsHeard
  <2> QED BY <2>2, <2>3, <2>4 DEF NInv
<1>2. ASSUME NEW s \in Streams, AlertEnds(s) PROVE NInv'
  <2>1. /\ stream[s].phase = "served"
        /\ \A t \in Streams : stream'[t] = IF t = s THEN [stream[s] EXCEPT !.phase = "ended"] ELSE stream[t]
        /\ alertNotify' = alertNotify /\ rsyncStuck' = rsyncStuck /\ listener' = listener
    BY <1>2 DEF AlertEnds
  <2>2. StreamsKnown'
    BY <2>1 DEF NInv, StreamsKnown, Free, AlertCall
  <2>3. ListenersAlerted'
    <3>1. \A t \in Streams : /\ stream'[t].name = stream[t].name
                             /\ stream'[t].phase = IF t = s THEN "ended" ELSE stream[t].phase
      BY <2>1 DEF AlertCall
    <3> QED BY <2>1, <3>1 DEF NInv, ListenersAlerted, Free
  <2>4. UnsubscribeIsHeard'
    BY <2>1, StuckKeeps DEF NInv, ListenersAlerted, Broken, AlertCall
  <2> QED BY <2>2, <2>3, <2>4 DEF NInv
<1>3. ASSUME NEW l \in Listeners, Unsubscribe(l) PROVE NInv'
  <2> DEFINE ac == ListensTo[l]
             s == alertNotify[ac][l]
             known == \E n \in Names : alertNotify[ac][n] # NoStream
             heard == s # NoStream /\ stream[s].phase = "served"
  <2>1. /\ listener[l].pc = "leaving" /\ ~rsyncStuck
        /\ rsyncStuck' = (known /\ ~heard)
        /\ listener' = [listener EXCEPT ![l].pc = IF known /\ ~heard THEN @ ELSE "done"]
        /\ stream' = [t \in Streams |-> IF heard /\ t = s
                          THEN [stream[t] EXCEPT !.phase = "ended", !.inbox = {}] ELSE stream[t]]
        /\ alertNotify' = [alertNotify EXCEPT ![ac][l] = IF heard THEN NoStream ELSE @]
    BY <1>3 DEF Unsubscribe
  <2>2. ac \in AppContexts /\ l \in Names /\ s \in Streams \cup {NoStream} /\ (heard => s \in Streams)
    BY ListenerAssumption DEF Names
  <2> DEFINE own == listener[l].stream
  <2>3. /\ own \in Streams /\ ~Free(own) /\ stream[own].name = l /\ stream[own].phase \in {"served", "ended"}
    BY <2>1 DEF NInv, ListenersAlerted
  <2>4. stream[own].phase = "served" => s = own /\ heard
    BY <2>3, StreamAssumption DEF NInv, StreamsKnown
  <2>5. /\ \A t \in Streams : stream'[t] = IF heard /\ t = s
                                    THEN [stream[t] EXCEPT !.phase = "ended", !.inbox = {}] ELSE stream[t]
        /\ \A k \in Listeners : /\ k # l => listener'[k] = listener[k]
                                /\ listener'[k].stream = listener[k].stream
        /\ listener'[l].pc = IF known /\ ~heard THEN "leaving" ELSE "done"
    BY <2>1 DEF Goroutine
  <2>6. \A c \in AppContexts, n \in Names : ~(c = ac /\ n = l) => alertNotify'[c][n] = alertNotify[c][n]
    BY <2>1, <2>2
  <2>7. ~heard => alertNotify' = alertNotify
    <3>1. ASSUME ~heard PROVE alertNotify' = alertNotify
      <4>1. alertNotify' = [alertNotify EXCEPT ![ac][l] = @]
        BY <2>1, <3>1
      <4> QED BY <4>1, <2>2
    <3> QED BY <3>1
  <2> HIDE DEF heard, known, own
  <2>8. StreamsKnown'
    <3>1. ASSUME NEW t \in Streams, stream'[t].phase \in {"free", "opened"} PROVE stream'[t].inbox = {}
      <4>1. CASE heard /\ t = s
        BY <2>5, <4>1, <3>1 DEF AlertCall
      <4>2. CASE ~(heard /\ t = s)
        BY <2>5, <4>2, <3>1, ZenonT(60) DEF NInv, StreamsKnown
      <4> QED BY <4>1, <4>2
    <3>2. ASSUME NEW t \in Streams
          PROVE  /\ stream'[t].name = stream[t].name /\ stream'[t].ac = stream[t].ac
                 /\ stream'[t].phase = "free" <=> stream[t].phase = "free"
                 /\ stream'[t].phase = "served" => stream[t].phase = "served" /\ ~(heard /\ t = s)
      BY <2>5, <2>2, ZenonT(60) DEF AlertCall, heard
    <3>3. ASSUME NEW t \in Streams, stream'[t].phase # "free", stream'[t].name \in Listeners
          PROVE  /\ stream'[t].ac = ListensTo[stream'[t].name]
                 /\ listener'[stream'[t].name].stream = t
                 /\ listener'[stream'[t].name].pc # "idle"
      <4>1. /\ stream[t].ac = ListensTo[stream[t].name] /\ stream[t].name \in Listeners
            /\ listener[stream[t].name].stream = t /\ listener[stream[t].name].pc # "idle"
        BY <3>2, <3>3 DEF NInv, StreamsKnown, Free
      <4>2. CASE stream[t].name = l
        BY <2>5, <3>2, <4>1, <4>2, ZenonT(60)
      <4>3. CASE stream[t].name # l
        <5>1. listener'[stream[t].name] = listener[stream[t].name]
          BY <2>5, <4>1, <4>3
        <5> QED BY <3>2, <4>1, <5>1
      <4> QED BY <4>2, <4>3
    <3>4. ASSUME NEW t \in Streams, stream'[t].phase = "served", stream'[t].name \in Listeners
          PROVE  alertNotify'[ListensTo[stream'[t].name]][stream'[t].name] = t
      <4>1. /\ stream[t].phase = "served" /\ stream[t].name \in Listeners /\ ~(heard /\ t = s)
            /\ alertNotify[ListensTo[stream[t].name]][stream[t].name] = t
        BY <3>2, <3>4 DEF NInv, StreamsKnown
      <4>2. CASE stream[t].name = l
        BY <2>7, <3>2, <4>1, <4>2
      <4>3. CASE stream[t].name # l
        BY <2>6, <3>2, <4>1, <4>3, ListenerAssumption DEF Names
      <4> QED BY <4>2, <4>3
    <3> QED BY <3>1, <3>3, <3>4 DEF StreamsKnown, Free
  <2>9. ListenersAlerted'
    <3>1. \A t \in Streams : /\ stream'[t].name = stream[t].name
                             /\ stream'[t].phase = IF heard /\ t = s THEN "ended" ELSE stream[t].phase
      BY <2>5 DEF AlertCall
    <3>2. \A t \in Streams : stream[t].phase # "free" => stream'[t].phase # "free"
      BY <3>1
    <3>3. ASSUME NEW k \in Listeners, listener'[k].pc \in {"listening", "leaving"}
          PROVE  /\ listener'[k].stream \in Streams /\ stream'[listener'[k].stream].phase # "free"
                 /\ stream'[listener'[k].stream].name = k
      <4>1. listener'[k].stream = listener[k].stream /\ listener[k].pc \in {"listening", "leaving"}
        BY <2>1, <2>5, <3>3
      <4> QED BY <3>1, <3>2, <4>1 DEF NInv, ListenersAlerted, Free
    <3>4. ASSUME NEW k \in Listeners, listener'[k].pc = "leaving"
          PROVE  stream'[listener'[k].stream].phase \in {"served", "ended"}
      <4>1. listener'[k].stream = listener[k].stream /\ listener[k].pc = "leaving" /\ listener[k].stream \in Streams
        BY <2>1, <2>5, <3>4 DEF NInv, ListenersAlerted
      <4> QED BY <3>1, <4>1 DEF NInv, ListenersAlerted
    <3> QED BY <3>3, <3>4 DEF ListenersAlerted, Free
  <2>10. UnsubscribeIsHeard'
    <3> SUFFICES ASSUME known, ~heard PROVE listener'[l].pc = "leaving" /\ stream'[listener'[l].stream].phase = "ended"
      BY <2>1 DEF UnsubscribeIsHeard, Broken
    <3> QED BY <2>3, <2>4, <2>5 DEF own
  <2> QED BY <2>8, <2>9, <2>10 DEF NInv
<1>4. ASSUME NEW l \in Listeners, ProcessAlert(l) PROVE NInv'
  <2> DEFINE s == listener[l].stream
  <2>1. /\ listener[l].pc = "listening" /\ stream[s].inbox # {}
        /\ stream' = [stream EXCEPT ![s].inbox = {}]
        /\ \E enough \in BOOLEAN : listener' = [listener EXCEPT ![l].pc = IF enough THEN "leaving" ELSE @]
        /\ alertNotify' = alertNotify /\ rsyncStuck' = rsyncStuck
    BY <1>4 DEF ProcessAlert
  <2>2. s \in Streams /\ stream[s].phase \in {"served", "ended"}
    BY <2>1 DEF NInv, ListenersAlerted, StreamsKnown, Free, AlertCall, Phases
  <2>3. \A t \in Streams : stream'[t] = IF t = s THEN [stream[s] EXCEPT !.inbox = {}] ELSE stream[t]
    BY <2>1, <2>2
  <2>4. /\ \A k \in Listeners : k # l => listener'[k] = listener[k]
        /\ listener'[l].stream = s /\ listener'[l].pc \in {"listening", "leaving"}
    BY <2>1 DEF Goroutine
  <2> HIDE DEF s
  <2>5. StreamsKnown'
    <3>1. \A t \in Streams : /\ stream'[t].name = stream[t].name /\ stream'[t].ac = stream[t].ac
                             /\ stream'[t].phase = stream[t].phase
                             /\ stream[t].inbox = {} => stream'[t].inbox = {}
      BY <2>3 DEF AlertCall
    <3>2. \A k \in Listeners : /\ listener'[k].stream = listener[k].stream
                               /\ listener[k].pc # "idle" => listener'[k].pc # "idle"
      BY <2>4 DEF s
    <3> QED BY <2>1, <3>1, <3>2 DEF NInv, StreamsKnown, Free
  <2>6. ListenersAlerted'
    BY <2>1, <2>2, <2>3, <2>4 DEF NInv, ListenersAlerted, Free, AlertCall, s
  <2>7. UnsubscribeIsHeard'
    BY <2>1, <2>3, <2>4, StuckKeeps DEF NInv, ListenersAlerted, Broken, AlertCall
  <2> QED BY <2>5, <2>6, <2>7 DEF NInv
<1>5. ASSUME NEW l \in Listeners, Subscribe(l) PROVE NInv'
  <2>1. NextCall \in Streams /\ Free(NextCall) /\ l \in Names
    BY <1>5, NextCallFree DEF Subscribe, Names
  <2> DEFINE new == Opened(l, ListensTo[l])
  <2>2. new.phase = "opened" /\ new.name = l /\ new.ac = ListensTo[l] /\ new.inbox = {}
    BY <2>1, OpenedType, ListenerAssumption
  <2> HIDE DEF new
  <2>3. /\ \A t \in Streams : stream'[t] = IF t = NextCall THEN new ELSE stream[t]
        /\ listener[l].pc = "idle" /\ listener'[l].pc = "listening" /\ listener'[l].stream = NextCall
        /\ \A k \in Listeners : k # l => listener'[k] = listener[k]
        /\ alertNotify' = alertNotify /\ rsyncStuck' = rsyncStuck
    BY <1>5, <2>1 DEF Subscribe, Goroutine, new
  <2>4. StreamsKnown'
    BY <2>1, <2>2, <2>3 DEF NInv, StreamsKnown, Free
  <2>5. ListenersAlerted'
    BY <2>1, <2>2, <2>3 DEF NInv, ListenersAlerted, Free
  <2>6. UnsubscribeIsHeard'
    BY <2>1, <2>3, StuckKeeps DEF NInv, ListenersAlerted, Broken
  <2> QED BY <2>4, <2>5, <2>6 DEF NInv
<1>6. CASE RsyncRestarts
  <2>1. /\ \A s \in Streams : stream'[s] = IF stream[s].phase = "free" THEN stream[s] ELSE [stream[s] EXCEPT !.phase = "ended"]
        /\ rsyncStuck' = FALSE
        /\ \A l \in Listeners : listener'[l] = IF listener[l].pc = "leaving"
                                             THEN [listener[l] EXCEPT !.pc = "done"] ELSE listener[l]
    BY <1>6 DEF RsyncRestarts, Free
  <2>2. \A s \in Streams : /\ stream'[s].name = stream[s].name /\ stream'[s].ac = stream[s].ac
                           /\ stream'[s].phase = IF stream[s].phase = "free" THEN "free" ELSE "ended"
                           /\ stream'[s].inbox = stream[s].inbox
    <3> SUFFICES ASSUME NEW s \in Streams
                 PROVE  /\ stream'[s].name = stream[s].name /\ stream'[s].ac = stream[s].ac
                        /\ stream'[s].phase = IF stream[s].phase = "free" THEN "free" ELSE "ended"
                        /\ stream'[s].inbox = stream[s].inbox
      OBVIOUS
    <3>1. stream[s] \in AlertCall
      OBVIOUS
    <3>2. CASE stream[s].phase = "free"
      BY <2>1, <3>2
    <3>3. CASE stream[s].phase # "free"
      BY <2>1, <3>1, <3>3 DEF AlertCall
    <3> QED BY <3>2, <3>3
  <2>3. \A l \in Listeners : /\ listener'[l].stream = listener[l].stream
                             /\ listener'[l].pc = IF listener[l].pc = "leaving" THEN "done" ELSE listener[l].pc
    <3> SUFFICES ASSUME NEW l \in Listeners
                 PROVE  /\ listener'[l].stream = listener[l].stream
                        /\ listener'[l].pc = IF listener[l].pc = "leaving" THEN "done" ELSE listener[l].pc
      OBVIOUS
    <3>1. listener[l] \in Goroutine
      OBVIOUS
    <3>2. CASE listener[l].pc = "leaving"
      BY <2>1, <3>1, <3>2 DEF Goroutine
    <3>3. CASE listener[l].pc # "leaving"
      BY <2>1, <3>3
    <3> QED BY <3>2, <3>3
  <2>4. StreamsKnown'
    BY <2>2, <2>3 DEF NInv, StreamsKnown, Free
  <2>5. ListenersAlerted'
    BY <2>2, <2>3 DEF NInv, ListenersAlerted, Free
  <2> QED BY <2>1, <2>4, <2>5 DEF NInv, UnsubscribeIsHeard
<1> QED BY <1>1, <1>2, <1>3, <1>4, <1>5, <1>6 DEF Rsync

\* The process of the server ends: its streams are cut.
LEMMA DeathKeepsNotify ==
    ASSUME NotifyTypeOK, NInv, ServerDies
    PROVE  NInv'
<1>1. UNCHANGED <<alertNotify, rsyncStuck, listener>>
  BY DEF ServerDies
<1>2. ASSUME NEW s \in Streams
      PROVE  /\ stream'[s].phase = stream[s].phase
             /\ stream'[s].name = stream[s].name /\ stream'[s].ac = stream[s].ac
             /\ stream[s].cut => stream'[s].cut
             /\ stream[s].phase \in {"free", "opened"} /\ stream[s].inbox = {} => stream'[s].inbox = {}
  <2>1. stream[s] \in AlertCall
    BY DEF NotifyTypeOK
  <2>2. stream'[s] = [stream[s] EXCEPT !.cut = @ \/ Gone(s), !.inbox = IF Gone(s) THEN {} ELSE @]
    BY DEF ServerDies
  <2> QED BY <2>1, <2>2 DEF AlertCall
<1> QED BY <1>1, <1>2, ServerSideKeeps

\* Every step keeps it.
LEMMA NextNInv == TypeOK /\ NInv /\ [Next]_vars => NInv'
<1> SUFFICES ASSUME TypeOK, NInv, [Next]_vars PROVE NInv'
  OBVIOUS
<1> USE DEF TypeOK
<1>1. ASSUME UNCHANGED notifyVars PROVE NInv'
  BY <1>1 DEF notifyVars, NInv, StreamsKnown, ListenersAlerted, UnsubscribeIsHeard, Free, Broken
<1>2. ASSUME NEW r \in Registrations, RegisterFirst(r) PROVE NInv'
  <2>1. Watches[r] \in AppContexts
    BY RegistrationAssumption
  <2> QED BY <1>2, <2>1, ServerOpens DEF RegisterFirst
<1>3. ASSUME NEW r \in Registrations, cleanup(r) PROVE NInv'
  BY <1>1, <1>3, DeathKeepsNotify DEF cleanup, Removed
<1>4. ASSUME NEW r \in Registrations, StatusDeregister(r) PROVE NInv'
  BY <1>1, <1>4, DeathKeepsNotify DEF StatusDeregister
<1>5. ASSUME NEW r \in Registrations,
             CheckClient(r) \/ RegisterFails(r) \/ RegisterNext(r) \/ NoticeDisconnect(r)
      PROVE  NInv'
  BY <1>1, <1>5 DEF CheckClient, RegisterFails, RegisterNext, NoticeDisconnect
<1>6. ASSUME NEW ac \in AppContexts, NEW a \in Apps, Change(ac, a) PROVE NInv'
  <2>1. UNCHANGED <<alertNotify, rsyncStuck, listener>>
    BY <1>6 DEF Change
  <2>2. ASSUME NEW s \in Streams
        PROVE  /\ stream'[s].phase = stream[s].phase
               /\ stream'[s].name = stream[s].name /\ stream'[s].ac = stream[s].ac
               /\ stream[s].cut => stream'[s].cut
               /\ stream[s].phase \in {"free", "opened"} /\ stream[s].inbox = {} => stream'[s].inbox = {}
    <3>1. CASE s \in Notified(ac)
      <4>1. stream'[s] = [stream[s] EXCEPT !.inbox = @ \cup {a}] /\ stream[s].phase = "served"
        BY <1>6, <3>1 DEF Change, SendAppContextNotification, Notified
      <4> QED BY <4>1 DEF NotifyTypeOK, AlertCall
    <3>2. CASE s \notin Notified(ac)
      BY <1>6, <3>2 DEF Change, SendAppContextNotification
    <3> QED BY <3>1, <3>2
  <2> QED BY <2>1, <2>2, ServerSideKeeps
<1>7. ASSUME NEW s \in Streams, Receive(s) PROVE NInv'
  <2>1. UNCHANGED <<alertNotify, rsyncStuck, listener>>
    BY <1>7 DEF Receive
  <2>2. PICK a : stream' = [stream EXCEPT ![s].inbox = @ \ {a}]
    BY <1>7 DEF Receive
  <2>3. ASSUME NEW t \in Streams
        PROVE  /\ stream'[t].phase = stream[t].phase
               /\ stream'[t].name = stream[t].name /\ stream'[t].ac = stream[t].ac
               /\ stream[t].cut => stream'[t].cut
               /\ stream[t].phase \in {"free", "opened"} /\ stream[t].inbox = {} => stream'[t].inbox = {}
    BY <2>2 DEF NotifyTypeOK, AlertCall
  <2> QED BY <2>1, <2>3, ServerSideKeeps
<1>8. ASSUME NEW s \in Streams, TimerFires(s) \/ Handle(s) \/ SenderEnds(s) PROVE NInv'
  BY <1>1, <1>8, DeathKeepsNotify DEF TimerFires, Handle, SenderEnds
<1>9. CASE \/ \E s \in Streams : Rsync(s)
           \/ \E l \in Listeners : Unsubscribe(l) \/ ProcessAlert(l) \/ Subscribe(l)
           \/ RsyncRestarts
  BY <1>9, NotifySteps
<1>10. CASE UNCHANGED vars
  BY <1>1, <1>10 DEF vars
<1> QED BY <1>2, <1>3, <1>4, <1>5, <1>6, <1>7, <1>8, <1>9, <1>10 DEF Next

\* The initial states.
LEMMA InitInv == Init => TypeOK /\ NInv
<1> SUFFICES ASSUME Init PROVE TypeOK /\ NInv
  OBVIOUS
<1>1. Alert0 \in AlertCall /\ Alert0.phase = "free" /\ Alert0.inbox = {}
  BY ListenerAssumption DEF Alert0, AlertCall, Names, Phases
<1>2. NotifyTypeOK
  BY <1>1 DEF Init, NotifyInit, NotifyTypeOK, Goroutine, ListenerPCs
<1>3. NoEntry \in Entry /\ NoSender \in Sender
  BY DEF NoEntry, Entry, NoSender, Sender, SenderPCs
<1>4. TypeOK
  <2>1. handler \in [Registrations -> HandlerPCs] /\ changes \in 0 .. MaxChanges
    BY ChangeAssumption DEF Init, HandlerPCs
  <2>2. /\ statusClients \in [Clients -> Registrations \cup {NoRegistration}]
        /\ appContexts \in [AppContexts -> Entry] /\ sender \in [Streams -> Sender]
        /\ due \in [Registrations -> SUBSET Apps] /\ serverStuck \in BOOLEAN /\ rpcClient \in BOOLEAN
    BY <1>3 DEF Init
  <2> QED BY <1>2, <2>1, <2>2 DEF TypeOK
<1>5. NInv
  BY <1>1 DEF Init, NotifyInit, NInv, StreamsKnown, ListenersAlerted, UnsubscribeIsHeard, Free
<1> QED BY <1>4, <1>5

\* The streams, the maps of both services and the goroutines have their types
\* (readynotifyserver.go, statusnotifyserver.go).
THEOREM TypeCorrect == Spec => []TypeOK
<1> QED BY InitInv, NextType, PTL DEF Spec

\* rsync is wedged only by a listener whose stream has broken
\* (readynotifyserver.go:91).
THEOREM UnsubscribeIsHeardSafe == Spec => []UnsubscribeIsHeard
<1>1. NInv => UnsubscribeIsHeard
  BY DEF NInv
<1> QED BY <1>1, InitInv, NextType, NextNInv, PTL DEF Spec

--------------------------------------------------------------------------------
(* The clients of an AppContext.                                           *)

\* The id of a client leads to the one call that is registered for it, and none
\* is while a call is under way.
OneCallPerClient ==
    /\ \A id \in Clients : statusClients[id] # NoRegistration => ClientOf[statusClients[id]] = id
    /\ \A r \in Registrations : handler[r] = "checked" => statusClients[ClientOf[r]] = NoRegistration
    /\ \A q, r \in Registrations :
          handler[q] = "checked" /\ handler[r] = "checked" /\ ClientOf[q] = ClientOf[r] => q = r

CInv == OneCallPerClient /\ ClientsCovered

\* A filter asks for what a client wants.
Covers(filter, r) == filter = {} \/ (Wants[r] # {} /\ Wants[r] \subseteq filter)

\* The filters made for some clients cover each of them.
LEMMA FiltersCover ==
    ASSUME NEW ids, NEW registered, NEW id \in ids, registered[id] \in Registrations
    PROVE  Covers(updateQueryFilters(ids, registered)[KindOf[registered[id]]], registered[id])
<1> DEFINE r == registered[id]
           regs == Asking(ids, KindOf[r], registered)
<1>1. r \in regs
  BY RegistrationAssumption DEF Asking
<1>2. updateQueryFilters(ids, registered)[KindOf[r]] = Union(regs)
  BY RegistrationAssumption DEF updateQueryFilters
<1> HIDE DEF r, regs
<1>3. Covers(Union(regs), r)
  BY <1>1 DEF Covers, Union
<1> QED BY <1>2, <1>3 DEF r

\* No other AppContext lists a client, and none lists one that is not registered.
LEMMA ListedOnce ==
    ASSUME ClientsCovered, NEW ac \in AppContexts, NEW id \in appContexts[ac].clients
    PROVE  statusClients[id] # NoRegistration /\ Watches[statusClients[id]] = ac
  BY DEF ClientsCovered

\* The call that has been checked is entered.
LEMMA RegisteredKeeps ==
    ASSUME TypeOK, CInv, NEW r \in Registrations, handler[r] = "checked", Registered(r),
           NEW pc \in {"open", "closed"}, Goes(r, pc)
    PROVE  CInv'
<1> DEFINE ac  == Watches[r]
           id  == ClientOf[r]
           ids == appContexts[ac].clients \cup {id}
           now == [statusClients EXCEPT ![id] = r]
           flt == updateQueryFilters(ids, now)
<1>1. ac \in AppContexts /\ id \in Clients /\ r # NoRegistration
  BY RegistrationAssumption
<1>2. statusClients[id] = NoRegistration
  BY DEF CInv, OneCallPerClient
<1>3. /\ statusClients' = now
      /\ \A c \in AppContexts : appContexts'[c] = IF c = ac THEN [clients |-> ids, present |-> TRUE, filters |-> flt]
                                                ELSE appContexts[c]
  BY <1>1 DEF Registered, TypeOK
<1>4. now[id] = r /\ \A i \in Clients : i # id => now[i] = statusClients[i]
  BY <1>1 DEF TypeOK
<1>5. \A q \in Registrations : handler'[q] = IF q = r THEN pc ELSE handler[q]
  BY DEF Goes, TypeOK
<1>6. \A i \in ids : now[i] \in Registrations => Covers(flt[KindOf[now[i]]], now[i])
  BY FiltersCover
<1> HIDE DEF now, flt
<1>7. OneCallPerClient'
  <2>1. ASSUME NEW i \in Clients, now[i] # NoRegistration PROVE ClientOf[now[i]] = i
    BY <1>4, <2>1 DEF CInv, OneCallPerClient
  <2>2. ASSUME NEW q \in Registrations, handler'[q] = "checked"
        PROVE  q # r /\ handler[q] = "checked" /\ ClientOf[q] # id
    BY <1>5, <2>2 DEF CInv, OneCallPerClient
  <2>3. ASSUME NEW q \in Registrations, handler'[q] = "checked" PROVE now[ClientOf[q]] = NoRegistration
    BY <1>4, <2>2, <2>3, RegistrationAssumption DEF CInv, OneCallPerClient
  <2>4. \A p, q \in Registrations :
            handler'[p] = "checked" /\ handler'[q] = "checked" /\ ClientOf[p] = ClientOf[q] => p = q
    BY <2>2 DEF CInv, OneCallPerClient
  <2> QED BY <1>3, <2>1, <2>3, <2>4 DEF OneCallPerClient
<1>8. ASSUME NEW c \in AppContexts, NEW i \in appContexts'[c].clients
      PROVE  /\ now[i] # NoRegistration /\ Watches[now[i]] = c
             /\ Covers(appContexts'[c].filters[KindOf[now[i]]], now[i])
  <2>1. i \in Clients
    <3>1. appContexts[c].clients \subseteq Clients
      BY DEF TypeOK, Entry
    <3> QED BY <1>1, <1>3, <1>8, <3>1
  <2>2. CASE i = id
    <3>1. c = ac
      BY <1>2, <1>3, <1>8, <2>2, ListedOnce DEF CInv
    <3>2. Covers(flt[KindOf[now[i]]], now[i])
      BY <1>4, <1>6, <2>2
    <3> QED BY <1>1, <1>3, <1>4, <2>2, <3>1, <3>2
  <2>3. CASE i # id
    <3>1. i \in appContexts[c].clients
      BY <1>3, <1>8, <2>3
    <3>2. now[i] = statusClients[i] /\ now[i] # NoRegistration /\ Watches[now[i]] = c
      BY <1>4, <2>1, <2>3, <3>1, ListedOnce DEF CInv
    <3>3. Covers(appContexts[c].filters[KindOf[now[i]]], now[i])
      BY <3>1, <3>2 DEF CInv, ClientsCovered, Covers
    <3>4. now[i] \in Registrations
      BY <2>1, <3>2 DEF TypeOK
    <3>5. c = ac => Covers(flt[KindOf[now[i]]], now[i])
      BY <1>6, <3>1, <3>4
    <3> QED BY <1>3, <3>2, <3>3, <3>5
  <2> QED BY <2>2, <2>3
<1>9. ClientsCovered'
  BY <1>3, <1>8 DEF ClientsCovered, Covers
<1> QED BY <1>7, <1>9 DEF CInv

\* A client is removed from where it is listed, whose filters stay or are made
\* again for those who are left.
LEMMA RemovedKeeps ==
    ASSUME TypeOK, CInv, NEW r \in Registrations, NEW si \in Registrations,
           si = statusClients[ClientOf[r]], Goes(r, "closed"),
           statusClients' = [statusClients EXCEPT ![ClientOf[r]] = NoRegistration],
           LET rest == appContexts[Watches[si]].clients \ {ClientOf[r]}
           IN  \/ appContexts' = Without(rest, si)
               \/ /\ rest # {}
                  /\ appContexts' = [Without(rest, si) EXCEPT
                                         ![Watches[si]].filters = updateQueryFilters(rest, statusClients)]
    PROVE  CInv'
<1> DEFINE ac == Watches[si]
           id == ClientOf[r]
           rest == appContexts[ac].clients \ {id}
<1>10. \/ appContexts' = Without(rest, si)
      \/ /\ rest # {}
         /\ appContexts' = [Without(rest, si) EXCEPT ![ac].filters = updateQueryFilters(rest, statusClients)]
  OBVIOUS
<1>11. id \notin rest /\ \A i : i \in rest <=> i \in appContexts[ac].clients /\ i # id
  OBVIOUS
<1>1. ac \in AppContexts /\ id \in Clients /\ rest \in SUBSET Clients
  BY RegistrationAssumption DEF TypeOK, Entry
<1> HIDE DEF rest
<1>2. /\ Without(rest, si) \in [AppContexts -> Entry]
      /\ Without(rest, si)[ac].clients = rest
      /\ rest # {} => Without(rest, si)[ac].filters = appContexts[ac].filters
      /\ \A c \in AppContexts : c # ac => Without(rest, si)[c] = appContexts[c]
  <2>1. Without(rest, si) \in [AppContexts -> Entry]
    BY <1>1, WithoutType
  <2>2. Without(rest, si)[ac].clients = rest
    BY <1>1, WithoutType
  <2>3. rest # {} => Without(rest, si)[ac].filters = appContexts[ac].filters
    BY <1>1, WithoutType
  <2>4. \A c \in AppContexts : c # ac => Without(rest, si)[c] = appContexts[c]
    BY DEF Without, TypeOK
  <2> QED BY <2>1, <2>2, <2>3, <2>4
<1>3. /\ \A c \in AppContexts : c # ac => appContexts'[c] = appContexts[c]
      /\ appContexts'[ac].clients = rest
      /\ rest # {} => \/ appContexts'[ac].filters = appContexts[ac].filters
                      \/ appContexts'[ac].filters = updateQueryFilters(rest, statusClients)
  <2>1. CASE appContexts' = Without(rest, si)
    BY <1>2, <2>1
  <2>2. CASE appContexts' = [Without(rest, si) EXCEPT ![ac].filters = updateQueryFilters(rest, statusClients)]
    <3> DEFINE old == Without(rest, si)
               flt == updateQueryFilters(rest, statusClients)
    <3>1. old[ac] \in Entry
      BY <1>1, <1>2
    <3>2. appContexts' = [old EXCEPT ![ac].filters = flt]
      BY <2>2
    <3> HIDE DEF old, flt
    <3>3. appContexts'[ac] = [old[ac] EXCEPT !.filters = flt] /\ \A c \in AppContexts : c # ac => appContexts'[c] = old[c]
      BY <1>1, <1>2, <3>2 DEF old
    <3>4. appContexts'[ac].clients = old[ac].clients /\ appContexts'[ac].filters = flt
      BY <3>1, <3>3 DEF Entry
    <3>5. appContexts'[ac].clients = rest /\ \A c \in AppContexts : c # ac => appContexts'[c] = appContexts[c]
      BY <1>2, <3>3, <3>4 DEF old
    <3> QED BY <3>4, <3>5 DEF flt
  <2> QED BY <1>10, <2>1, <2>2
<1>4. \A i \in Clients : statusClients'[i] = IF i = id THEN NoRegistration ELSE statusClients[i]
  BY DEF TypeOK
<1>5. \A q \in Registrations : handler'[q] = IF q = r THEN "closed" ELSE handler[q]
  BY DEF Goes, TypeOK
<1>6. OneCallPerClient'
  BY <1>1, <1>4, <1>5, RegistrationAssumption DEF CInv, OneCallPerClient
<1>7. ASSUME NEW c \in AppContexts, NEW i \in appContexts'[c].clients
      PROVE  /\ statusClients'[i] # NoRegistration /\ Watches[statusClients'[i]] = c
             /\ Covers(appContexts'[c].filters[KindOf[statusClients'[i]]], statusClients'[i])
  <2>1. i \in appContexts[c].clients /\ i \in Clients
    <3>1. i \in appContexts[c].clients
      BY <1>3, <1>7, <1>11
    <3> QED BY <3>1 DEF TypeOK, Entry
  <2>2. i # id
    <3>1. i = id => c = ac
      BY <2>1, ListedOnce DEF CInv
    <3> QED BY <1>3, <1>7, <1>11, <3>1
  <2>3. /\ statusClients'[i] = statusClients[i] /\ statusClients[i] \in Registrations
        /\ Watches[statusClients[i]] = c
        /\ Covers(appContexts[c].filters[KindOf[statusClients[i]]], statusClients[i])
    <3>1. statusClients'[i] = statusClients[i] /\ statusClients[i] \in Registrations \cup {NoRegistration}
      BY <1>4, <2>1, <2>2 DEF TypeOK
    <3> QED BY <2>1, <3>1 DEF CInv, ClientsCovered, Covers
  <2>4. i \in rest => Covers(updateQueryFilters(rest, statusClients)[KindOf[statusClients[i]]], statusClients[i])
    BY <2>3, FiltersCover
  <2>5. CASE c # ac
    BY <1>3, <2>3, <2>5, RegistrationAssumption
  <2>6. CASE c = ac
    BY <1>3, <1>7, <2>3, <2>4, <2>6, RegistrationAssumption
  <2> QED BY <2>5, <2>6
<1>8. ClientsCovered'
  BY <1>7 DEF ClientsCovered, Covers
<1> QED BY <1>6, <1>8 DEF CInv

\* Nobody is left when the process of the server ends.
LEMMA DeathKeepsClients ==
    ASSUME TypeOK, ServerDies
    PROVE  CInv'
<1>1. /\ \A id \in Clients : statusClients'[id] = NoRegistration
      /\ \A ac \in AppContexts : appContexts'[ac].clients = {}
      /\ \A r \in Registrations : handler'[r] # "checked"
  BY DEF ServerDies, NoEntry
<1>2. OneCallPerClient'
  BY <1>1, RegistrationAssumption DEF OneCallPerClient
<1> QED BY <1>1, <1>2 DEF CInv, ClientsCovered

\* Every step keeps it when clients do not call twice at a time.
LEMMA NextCInv ==
    ASSUME TypeOK, CInv, "twice" \notin Faults, [Next]_vars
    PROVE  CInv'
<1>1. ASSUME UNCHANGED <<statusClients, appContexts, handler>> PROVE CInv'
  BY <1>1 DEF CInv, OneCallPerClient, ClientsCovered
<1>2. ASSUME NEW r \in Registrations, NEW pc \in HandlerPCs \ {"checked"}, Goes(r, pc),
             UNCHANGED <<statusClients, appContexts>>
      PROVE  CInv'
  <2>1. \A q \in Registrations : handler'[q] = IF q = r THEN pc ELSE handler[q]
    BY <1>2 DEF Goes, TypeOK
  <2> QED BY <1>2, <2>1 DEF CInv, OneCallPerClient, ClientsCovered
<1>3. ASSUME NEW r \in Registrations, CheckClient(r) PROVE CInv'
  <2>1. CASE ~Unknown(r)
    BY <1>2, <1>3, <2>1 DEF CheckClient, HandlerPCs
  <2>2. CASE Unknown(r)
    <3>1. \A q \in Registrations : handler'[q] = IF q = r THEN "checked" ELSE handler[q]
      BY <1>3, <2>2 DEF CheckClient, Goes, TypeOK
    <3>2. \A q \in Registrations : q # r /\ ClientOf[q] = ClientOf[r] => handler[q] # "checked"
      BY <1>3 DEF CheckClient, CallsAgain
    <3> QED BY <1>3, <2>2, <3>1, <3>2 DEF CheckClient, Unknown, CInv, OneCallPerClient, ClientsCovered
  <2> QED BY <2>1, <2>2
<1>4. ASSUME NEW r \in Registrations, RegisterFirst(r) \/ RegisterFails(r) \/ RegisterNext(r) PROVE CInv'
  <2>1. handler[r] = "checked" /\ Registered(r) /\ (Goes(r, "open") \/ Goes(r, "closed"))
    BY <1>4 DEF RegisterFirst, RegisterFails, RegisterNext
  <2> QED BY <2>1, RegisteredKeeps
<1>5. ASSUME NEW r \in Registrations, NoticeDisconnect(r) PROVE CInv'
  BY <1>2, <1>5 DEF NoticeDisconnect, HandlerPCs
<1>6. ASSUME NEW r \in Registrations, cleanup(r) PROVE CInv'
  <2>1. CASE statusClients[ClientOf[r]] = NoRegistration
    BY <1>2, <1>6, <2>1 DEF cleanup, HandlerPCs
  <2>2. CASE statusClients[ClientOf[r]] # NoRegistration
    <3>1. statusClients[ClientOf[r]] \in Registrations
      BY <2>2, RegistrationAssumption DEF TypeOK
    <3>2. Removed(r, statusClients[ClientOf[r]])
      BY <1>6, <2>2 DEF cleanup
    <3> QED BY <3>1, <3>2, RemovedKeeps, DeathKeepsClients DEF Removed
  <2> QED BY <2>1, <2>2
<1>7. ASSUME NEW r \in Registrations, StatusDeregister(r) PROVE CInv'
  <2>1. statusClients[ClientOf[r]] = r
    BY <1>7 DEF StatusDeregister
  <2>2. CASE ServerDies
    BY <2>2, DeathKeepsClients
  <2>3. CASE UNCHANGED <<statusClients, appContexts, handler>>
    BY <1>1, <2>3
  <2>4. CASE /\ Goes(r, "closed")
             /\ statusClients' = [statusClients EXCEPT ![ClientOf[r]] = NoRegistration]
             /\ appContexts' = Without(appContexts[Watches[r]].clients \ {ClientOf[r]}, r)
    BY <2>1, <2>4, RemovedKeeps
  <2> QED BY <1>7, <2>2, <2>3, <2>4 DEF StatusDeregister
<1>8. ASSUME NEW s \in Streams, Handle(s) PROVE CInv'
  BY <1>1, <1>8, DeathKeepsClients DEF Handle
<1>9. ASSUME NEW ac \in AppContexts, NEW a \in Apps, Change(ac, a) PROVE CInv'
  BY <1>1, <1>9 DEF Change
<1>10. ASSUME NEW s \in Streams, Receive(s) \/ TimerFires(s) \/ SenderEnds(s) PROVE CInv'
  BY <1>1, <1>10 DEF Receive, TimerFires, SenderEnds
<1>11. CASE UNCHANGED vars \/ UNCHANGED serverVars
  BY <1>1, <1>11 DEF vars, serverVars
<1> QED BY <1>3, <1>4, <1>5, <1>6, <1>7, <1>8, <1>9, <1>10, <1>11 DEF Next

\* Every client an AppContext lists is registered for it, and the queries made for
\* the AppContext cover what it wants, as long as no client calls twice at a time
\* (statusnotifyserver.go:247, :427).
THEOREM ClientsCoveredSafe == ASSUME "twice" \notin Faults PROVE Spec => []ClientsCovered
<1>1. Init => CInv
  BY DEF Init, NoEntry, CInv, OneCallPerClient, ClientsCovered
<1>2. TypeOK /\ CInv /\ [Next]_vars => CInv'
  BY NextCInv
<1>3. CInv => ClientsCovered
  BY DEF CInv
<1> QED BY <1>1, <1>2, <1>3, TypeCorrect, PTL DEF Spec

================================================================================
