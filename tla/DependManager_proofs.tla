-------------------------- MODULE DependManager_proofs -------------------------
(***************************************************************************)
(* Theorems about DependManager for any apps, clusters, dependencies and   *)
(* hooks: an app that waits for another one to be ready starts after it,   *)
(* and hooks come in their order.                                          *)
(*                                                                         *)
(* Nothing is said of the lists of the manager: whatever ClearChannels     *)
(* makes of them, a notifier sends to channels of its own app and kind     *)
(* only, and that app has been ready everywhere when it starts.            *)
(***************************************************************************)
EXTENDS DependManager, TLAPS

\* The app was ready on each of its clusters at some time.
WasReady(on) == \A pl \in Placements : pl[1] = on => pl \in seen

WorkPCs == Stages \cup {"none", "prewait", "postwait", "done", "failed"}

\* A goroutine in a loop of NotifyStatus or in WaitForDependency has its locals.
Locals(g) ==
    /\ g.pc = "notify" =>
          g = [pc |-> "notify", kind |-> g.kind, on |-> g.on, length |-> g.length, next |-> g.next]
    /\ g.pc = "wait" => g \in [pc : {"wait"}, cases : SUBSET Dependencies]

TypeInv ==
    /\ senders \in [Dependencies -> Nat]
    /\ work \in [Placements -> WorkPCs]
    /\ applied \in [Placements -> SUBSET Stages]
    /\ ready \in [Placements -> SUBSET Stages]
    /\ success \in [Placements -> SUBSET Stages]
    /\ flag \in [Placements -> BOOLEAN]
    /\ appCh \in [Apps -> SUBSET Dependencies]
    /\ app = [a \in Apps |-> app[a]] /\ \A a \in Apps : Locals(app[a])
    /\ callback = [n \in Callbacks |-> callback[n]] /\ \A n \in Callbacks : Locals(callback[n])

\* What is said to be ready has been; what an app waits for it has heard of when
\* it stops waiting.
OrderInv ==
    /\ \A pl \in Placements : "main" \in ready[pl] \/ flag[pl] => pl \in seen
    /\ \A n \in Callbacks : callback[n].pc = "notify" => callback[n].kind = "Ready" /\ WasReady(callback[n].on)
    /\ \A a \in Apps : app[a].pc = "notify" => app[a].kind = "Deployed"
    /\ \A d \in Dependencies : d.status = "Ready" /\ (d \in buffer \/ senders[d] > 0) => WasReady(d.on)
    /\ \A a \in Apps : app[a].pc = "start" => appCh[a] = Registered(a)
    /\ \A a \in Apps : \A d \in Registered(a) :
          app[a].pc = "wait" /\ d.status = "Ready" => d \in app[a].cases \/ WasReady(d.on)
    /\ ReadyOrder

\* Where the routine of a cluster is tells what it has done.
HookInv ==
    \A pl \in Placements :
        /\ success[pl] \subseteq ready[pl] \cap {"pre", "post"}
        /\ Event = "Instantiate" =>
              /\ work[pl] \in {"main", "post", "postwait", "done"} /\ "pre" \in Groups[pl[1]] => "pre" \in ready[pl]
              /\ work[pl] \in {"post", "postwait", "done"} /\ "main" \in Groups[pl[1]] => "main" \in applied[pl]
              /\ "main" \in applied[pl] /\ "pre" \in Groups[pl[1]] => "pre" \in ready[pl]
              /\ "post" \in applied[pl] /\ "main" \in Groups[pl[1]] => "main" \in applied[pl]

--------------------------------------------------------------------------------
(* Operators.                                                              *)

\* The next stage of an app is the first of those it has.
LEMMA AfterStage ==
    ASSUME NEW a \in Apps, NEW s \in Stages \cup {"start"}
    PROVE  /\ After(a, s) \in StagesOf(a) \cup {"done"}
           /\ After(a, s) # "done" => Rank[After(a, s)] > Rank[s]
           /\ \A t \in StagesOf(a) : Rank[t] > Rank[s] =>
                 After(a, s) # "done" /\ Rank[After(a, s)] <= Rank[t]
<1> DEFINE later == {t \in StagesOf(a) : Rank[t] > Rank[s]}
<1>1. later \subseteq Stages
  BY DependencyAssumption DEF StagesOf
<1>2. ASSUME later # {} PROVE \E t \in later : \A u \in later : Rank[t] <= Rank[u]
  <2> HIDE DEF later
  <2>1. Rank["crd"] = 1 /\ Rank["pre"] = 2 /\ Rank["main"] = 3 /\ Rank["post"] = 4
    BY DEF Rank
  <2>2. \A t \in later : t = "crd" \/ t = "pre" \/ t = "main" \/ t = "post"
    BY <1>1 DEF Stages
  <2>3. CASE "crd" \in later
    BY <2>1, <2>2, <2>3
  <2>4. CASE "crd" \notin later /\ "pre" \in later
    BY <2>1, <2>2, <2>4
  <2>5. CASE "crd" \notin later /\ "pre" \notin later /\ "main" \in later
    BY <2>1, <2>2, <2>5
  <2>6. CASE later = {"post"}
    BY <2>1, <2>6
  <2> QED BY <1>2, <2>2, <2>3, <2>4, <2>5, <2>6
<1>3. CASE later = {}
  BY <1>3 DEF After
<1>4. CASE later # {}
  <2>1. After(a, s) = CHOOSE t \in later : \A u \in later : Rank[t] <= Rank[u]
    BY <1>4 DEF After
  <2>2. After(a, s) \in later /\ \A u \in later : Rank[After(a, s)] <= Rank[u]
    BY <1>2, <1>4, <2>1
  <2>3. After(a, s) # "done"
    BY <1>1, <2>2 DEF Stages
  <2> QED BY <2>2, <2>3
<1> QED BY <1>3, <1>4

\* The stages after a stage, for an installation.
LEMMA AfterCases ==
    ASSUME NEW a \in Apps, Event = "Instantiate"
    PROVE  /\ \A s \in Stages \cup {"start"} : After(a, s) \in Stages \cup {"done"}
           /\ \A s \in {"start", "crd"} :
                 /\ "pre" \in Groups[a] => After(a, s) \in {"crd", "pre"}
                 /\ "main" \in Groups[a] => After(a, s) \in {"crd", "pre", "main"}
           /\ "main" \in Groups[a] => After(a, "pre") = "main"
           /\ After(a, "main") \in {"post", "done"}
           /\ After(a, "post") = "done"
<1> USE DependencyAssumption
<1>1. StagesOf(a) = Groups[a] /\ Groups[a] \subseteq Stages
  BY DEF StagesOf
<1>2. Rank["start"] = 0 /\ Rank["crd"] = 1 /\ Rank["pre"] = 2 /\ Rank["main"] = 3 /\ Rank["post"] = 4
  BY DEF Rank
<1>3. \A s \in Stages \cup {"start"} :
          /\ After(a, s) \in Groups[a] \cup {"done"}
          /\ After(a, s) # "done" => Rank[After(a, s)] > Rank[s]
          /\ \A t \in Groups[a] : Rank[t] > Rank[s] => After(a, s) # "done" /\ Rank[After(a, s)] <= Rank[t]
  BY <1>1, AfterStage
<1>4. ASSUME NEW s \in Stages \cup {"start"} PROVE After(a, s) \in {"crd", "pre", "main", "post", "done"}
  BY <1>1, <1>3 DEF Stages
<1>5. ASSUME NEW s \in {"start", "crd"}
      PROVE  /\ "pre" \in Groups[a] => After(a, s) \in {"crd", "pre"}
             /\ "main" \in Groups[a] => After(a, s) \in {"crd", "pre", "main"}
  <2>1. s \in Stages \cup {"start"} /\ Rank["pre"] > Rank[s] /\ Rank["main"] > Rank[s]
    BY <1>2 DEF Stages
  <2> QED BY <1>2, <1>3, <1>4, <2>1
<1>6. "main" \in Groups[a] => After(a, "pre") = "main"
  <2>1. "pre" \in Stages \cup {"start"}
    BY DEF Stages
  <2> QED BY <1>2, <1>3, <1>4, <2>1
<1>7. After(a, "main") \in {"post", "done"}
  <2>1. "main" \in Stages \cup {"start"}
    BY DEF Stages
  <2> QED BY <1>2, <1>3, <1>4, <2>1
<1>8. After(a, "post") = "done"
  <2>1. "post" \in Stages \cup {"start"}
    BY DEF Stages
  <2> QED BY <1>2, <1>3, <1>4, <2>1
<1>9. \A s \in Stages \cup {"start"} : After(a, s) \in Stages \cup {"done"}
  BY <1>4 DEF Stages
<1> QED BY <1>5, <1>6, <1>7, <1>8, <1>9

\* What a notifier is, and what it becomes.
LEMMA NotifyLocals ==
    ASSUME NEW k, NEW a
    PROVE  /\ Locals(StartNotify(k, a))
           /\ StartNotify(k, a).pc \in {"done", "notify"}
           /\ StartNotify(k, a).pc = "notify" => StartNotify(k, a).kind = k /\ StartNotify(k, a).on = a
<1>1. CASE list[k][a] = << >>
  BY <1>1 DEF StartNotify, Locals
<1>2. CASE list[k][a] # << >>
  BY <1>2 DEF StartNotify, Locals
<1> QED BY <1>1, <1>2

\* A notifier goes on to the next element, or is done.
LEMMA AdvancedLocals ==
    ASSUME NEW g, g.pc = "notify", Locals(g)
    PROVE  /\ Locals(Advanced(g))
           /\ Advanced(g).pc \in {"done", "notify"}
           /\ Advanced(g).pc = "notify" => Advanced(g).kind = g.kind /\ Advanced(g).on = g.on
<1>1. CASE g.next < g.length
  <2> DEFINE k == g.kind
             o == g.on
             l == g.length
             n == g.next
  <2>1. g = [pc |-> "notify", kind |-> k, on |-> o, length |-> l, next |-> n]
    BY DEF Locals
  <2>2. Advanced(g) = [g EXCEPT !.next = n + 1]
    BY <1>1 DEF Advanced
  <2> HIDE DEF k, o, l, n
  <2>3. Advanced(g) = [pc |-> "notify", kind |-> k, on |-> o, length |-> l, next |-> n + 1]
    BY <2>1, <2>2
  <2> QED BY <2>3 DEF Locals, k, o, l, n
<1>2. CASE ~(g.next < g.length)
  BY <1>2 DEF Advanced, Locals
<1> QED BY <1>1, <1>2

--------------------------------------------------------------------------------
(* Types.                                                                  *)

\* Every step keeps the types.
LEMMA NextType == TypeInv /\ [Next]_vars => TypeInv'
<1> SUFFICES ASSUME TypeInv, [Next]_vars PROVE TypeInv'
  OBVIOUS
<1> USE DEF TypeInv, dmVars, clusterVars
<1>1. CASE UNCHANGED vars
  BY <1>1 DEF vars
<1>2. CASE Run
  BY <1>2 DEF Run, Registered, Locals
<1>3. CASE End \/ Terminate
  BY <1>3 DEF End, Terminate
<1>4. ASSUME NEW a \in Apps PROVE Launched(a) \in [Placements -> WorkPCs]
  <2>1. \A pl \in Placements : pl[1] \in Apps
    BY DEF Placements
  <2>2. \A pl \in Placements : After(pl[1], "start") \in WorkPCs
    BY <2>1, AfterStage, DependencyAssumption DEF WorkPCs, StagesOf
  <2> QED BY <2>2 DEF Launched
<1>5. ASSUME NEW a \in Apps, NEW g, app' = [app EXCEPT ![a] = g], Locals(g)
      PROVE  app' = [b \in Apps |-> app'[b]] /\ \A b \in Apps : Locals(app'[b])
  BY <1>5
<1>6. ASSUME NEW n \in Callbacks, NEW g, callback' = [callback EXCEPT ![n] = g], Locals(g)
      PROVE  callback' = [m \in Callbacks |-> callback'[m]] /\ \A m \in Callbacks : Locals(callback'[m])
  BY <1>6
<1>7. ASSUME NEW g PROVE Notified(g) \in [Dependencies -> Nat]
  <2> DEFINE d == Channel(g.kind, list[g.kind][g.on][g.next], g.on)
             n == IF senders[d] < MaxSenders THEN senders[d] + 1 ELSE senders[d]
  <2>1. Notified(g) = [senders EXCEPT ![d] = n]
    BY DEF Notified
  <2>2. d \in Dependencies => n \in Nat
    OBVIOUS
  <2> HIDE DEF d, n
  <2> QED BY <2>1, <2>2
<1>8. ASSUME NEW a \in Apps, StartApp(a) PROVE TypeInv'
  <2>1. CASE appCh[a] = {}
    BY <1>4, <1>5, <1>8, <2>1, NotifyLocals DEF StartApp
  <2>2. CASE appCh[a] # {}
    <3>1. Locals([pc |-> "wait", cases |-> appCh[a]])
      BY DEF Locals
    <3> QED BY <1>5, <1>8, <2>2, <3>1 DEF StartApp
  <2> QED BY <2>1, <2>2
<1>9. ASSUME NEW a \in Apps, Receive(a) PROVE TypeInv'
  <2>1. PICK d : app' = [app EXCEPT ![a] = [app[a] EXCEPT !.cases = @ \ {d}]]
    BY <1>9 DEF Receive
  <2>2. app[a] \in [pc : {"wait"}, cases : SUBSET Dependencies]
    BY <1>9 DEF Receive, Locals
  <2>3. [app[a] EXCEPT !.cases = @ \ {d}] \in [pc : {"wait"}, cases : SUBSET Dependencies]
    BY <2>2
  <2>4. Locals([app[a] EXCEPT !.cases = @ \ {d}])
    BY <2>3 DEF Locals
  <2> QED BY <1>5, <1>9, <2>1, <2>4 DEF Receive
<1>10. ASSUME NEW a \in Apps, DependencyMet(a) PROVE TypeInv'
  BY <1>4, <1>5, <1>10, NotifyLocals DEF DependencyMet, ClearChannels
<1>11. ASSUME NEW a \in Apps, WaitCancelled(a) PROVE TypeInv'
  BY <1>5, <1>11, NotifyLocals DEF WaitCancelled, ClearChannels
<1>12. ASSUME NEW a \in Apps, NotifyDeployed(a) PROVE TypeInv'
  BY <1>5, <1>7, <1>12, AdvancedLocals DEF NotifyDeployed
<1>13. ASSUME NEW pl \in Placements, ApplyStage(pl) PROVE TypeInv'
  <2>1. pl[1] \in Apps
    BY DEF Placements
  <2>2. (IF work[pl] \in {"pre", "post"} THEN WaitOf(work[pl]) ELSE After(pl[1], work[pl])) \in WorkPCs
    BY <1>13, <2>1, AfterStage, DependencyAssumption DEF ApplyStage, WorkPCs, StagesOf, WaitOf
  <2> QED BY <1>13, <2>2 DEF ApplyStage
<1>14. ASSUME NEW pl \in Placements, HookReady(pl) PROVE TypeInv'
  <2>1. pl[1] \in Apps /\ Hook(pl) \in Stages
    BY DEF Placements, Hook, Stages
  <2>2. After(pl[1], Hook(pl)) \in WorkPCs
    BY <2>1, AfterStage, DependencyAssumption DEF WorkPCs, StagesOf
  <2> QED BY <1>14, <2>2 DEF HookReady
<1>15. ASSUME NEW pl \in Placements, FailCluster(pl) PROVE TypeInv'
  BY <1>15 DEF FailCluster, WorkPCs
<1>16. ASSUME NEW pl \in Placements, NEW s \in Stages, BecomeReady(pl, s) PROVE TypeInv'
  BY <1>16 DEF BecomeReady
<1>17. ASSUME NEW pl \in Placements, Lapse(pl) PROVE TypeInv'
  BY <1>17 DEF Lapse
<1>18. ASSUME NEW pl \in Placements, Report(pl) PROVE TypeInv'
  <2> DEFINE b == IF tracker[pl] = "main" THEN "main" \in ready[pl] ELSE flag[pl]
  <2>1. b \in BOOLEAN
    <3>1. CASE tracker[pl] = "main"
      BY <3>1
    <3>2. CASE tracker[pl] # "main"
      <4>1. b = flag[pl]
        BY <3>2
      <4> QED BY <4>1
    <3> QED BY <3>1, <3>2
  <2>2. flag' = [flag EXCEPT ![pl] = b] /\ success' = [success EXCEPT ![pl] = ready[pl] \cap {"pre", "post"}]
    BY <1>18 DEF Report
  <2> HIDE DEF b
  <2>3. success' \in [Placements -> SUBSET Stages] /\ flag' \in [Placements -> BOOLEAN]
    BY <2>1, <2>2
  <2>4. CASE UNCHANGED callback
    BY <1>18, <2>3, <2>4 DEF Report
  <2>5. ASSUME NEW n \in Callbacks, callback' = [callback EXCEPT ![n] = [pc |-> "check", on |-> pl[1]]] PROVE TypeInv'
    <3>1. Locals([pc |-> "check", on |-> pl[1]])
      BY DEF Locals
    <3> QED BY <1>6, <1>18, <2>3, <2>5, <3>1 DEF Report
  <2> QED BY <1>18, <2>4, <2>5 DEF Report
<1>19. ASSUME NEW n \in Callbacks, CheckReady(n) PROVE TypeInv'
  <2>1. PICK g : callback' = [callback EXCEPT ![n] = g] /\ Locals(g)
    <3>1. Locals([pc |-> "done"])
      BY DEF Locals
    <3>2. Locals(StartNotify("Ready", callback[n].on))
      BY NotifyLocals
    <3>3. \/ callback' = [callback EXCEPT ![n] = StartNotify("Ready", callback[n].on)]
          \/ callback' = [callback EXCEPT ![n] = [pc |-> "done"]]
      BY <1>19 DEF CheckReady
    <3> QED BY <3>1, <3>2, <3>3
  <2> QED BY <1>6, <1>19, <2>1 DEF CheckReady
<1>20. ASSUME NEW n \in Callbacks, NotifyReady(n) PROVE TypeInv'
  BY <1>6, <1>7, <1>20, AdvancedLocals DEF NotifyReady
<1>21. ASSUME NEW d \in Dependencies, Send(d) PROVE TypeInv'
  BY <1>21 DEF Send
<1> QED BY <1>1, <1>2, <1>3, <1>8, <1>9, <1>10, <1>11, <1>12, <1>13, <1>14, <1>15, <1>16, <1>17,
           <1>18, <1>19, <1>20, <1>21 DEF Next, AppStep, ClusterStep

--------------------------------------------------------------------------------
(* Hooks.                                                                  *)

\* Every step keeps what the routines of the clusters have done.
LEMMA NextHook == TypeInv /\ HookInv /\ [Next]_vars => HookInv'
<1> SUFFICES ASSUME TypeInv, HookInv, [Next]_vars PROVE HookInv'
  OBVIOUS
<1> USE DEF TypeInv
<1>1. ASSUME UNCHANGED <<work, applied, ready, success>> PROVE HookInv'
  BY <1>1 DEF HookInv
<1>2. ASSUME NEW a \in Apps, work' = Launched(a), UNCHANGED <<applied, ready, success>> PROVE HookInv'
  <2> SUFFICES ASSUME NEW pl \in Placements, Event = "Instantiate", pl[1] = a,
                      work'[pl] = After(a, "start")
               PROVE  /\ work'[pl] \in {"main", "post", "postwait", "done"} /\ "pre" \in Groups[a] => "pre" \in ready[pl]
                      /\ work'[pl] \in {"post", "postwait", "done"} /\ "main" \in Groups[a] => "main" \in applied[pl]
    BY <1>2 DEF HookInv, Launched
  <2> QED BY AfterCases
<1>3. ASSUME NEW pl \in Placements, ApplyStage(pl) PROVE HookInv'
  <2> DEFINE w == work[pl]
             v == IF w \in {"pre", "post"} THEN WaitOf(w) ELSE After(pl[1], w)
  <2>1. pl[1] \in Apps
    BY DEF Placements
  <2>2. /\ w \in Stages
        /\ \A q \in Placements : /\ work'[q] = IF q = pl THEN v ELSE work[q]
                                 /\ applied'[q] = IF q = pl THEN applied[pl] \cup {w} ELSE applied[q]
        /\ ready' = ready /\ success' = success
    BY <1>3 DEF ApplyStage
  <2>3. w = "pre" => v = "prewait"
    BY DEF WaitOf
  <2>4. w = "post" => v = "postwait"
    BY DEF WaitOf
  <2>5. Event = "Instantiate" =>
            /\ w = "main" => v \in {"post", "done"}
            /\ w = "crd" /\ "pre" \in Groups[pl[1]] => v \in {"crd", "pre"}
            /\ w = "crd" /\ "main" \in Groups[pl[1]] => v \in {"crd", "pre", "main"}
    BY <2>1, AfterCases
  <2> HIDE DEF v, w
  <2>6. ASSUME NEW q \in Placements, q # pl
        PROVE  work'[q] = work[q] /\ applied'[q] = applied[q] /\ ready'[q] = ready[q] /\ success'[q] = success[q]
    BY <2>2, <2>6
  <2>7. /\ work'[pl] = v /\ applied'[pl] = applied[pl] \cup {w}
        /\ ready'[pl] = ready[pl] /\ success'[pl] = success[pl]
    BY <2>2
  <2>8. ASSUME Event = "Instantiate"
        PROVE  /\ v \in {"main", "post", "postwait", "done"} /\ "pre" \in Groups[pl[1]] => "pre" \in ready[pl]
               /\ v \in {"post", "postwait", "done"} /\ "main" \in Groups[pl[1]] => "main" \in applied[pl] \cup {w}
               /\ "main" \in applied[pl] \cup {w} /\ "pre" \in Groups[pl[1]] => "pre" \in ready[pl]
               /\ "post" \in applied[pl] \cup {w} /\ "main" \in Groups[pl[1]] => "main" \in applied[pl] \cup {w}
    <3>1. /\ w \in {"main", "post"} /\ "pre" \in Groups[pl[1]] => "pre" \in ready[pl]
          /\ w = "post" /\ "main" \in Groups[pl[1]] => "main" \in applied[pl]
          /\ "main" \in applied[pl] /\ "pre" \in Groups[pl[1]] => "pre" \in ready[pl]
          /\ "post" \in applied[pl] /\ "main" \in Groups[pl[1]] => "main" \in applied[pl]
      BY <2>8 DEF HookInv, w
    <3>2. CASE w = "crd"
      BY <2>5, <2>8, <3>1, <3>2
    <3>3. CASE w = "pre"
      BY <2>3, <3>1, <3>3
    <3>4. CASE w = "main"
      BY <2>5, <2>8, <3>1, <3>4
    <3>5. CASE w = "post"
      BY <2>4, <3>1, <3>5
    <3> QED BY <2>2, <3>2, <3>3, <3>4, <3>5 DEF Stages
  <2> QED BY <2>6, <2>7, <2>8 DEF HookInv
<1>4. ASSUME NEW pl \in Placements, HookReady(pl) PROVE HookInv'
  <2>1. pl[1] \in Apps
    BY DEF Placements
  <2>2. /\ work[pl] \in {"prewait", "postwait"} /\ Hook(pl) \in success[pl]
        /\ \A q \in Placements : work'[q] = IF q = pl THEN After(pl[1], Hook(pl)) ELSE work[q]
        /\ applied' = applied /\ ready' = ready /\ success' = success
    BY <1>4 DEF HookReady
  <2>3. CASE work[pl] = "prewait"
    <3>1. Hook(pl) = "pre" /\ "pre" \in ready[pl]
      BY <2>2, <2>3 DEF Hook, HookInv
    <3>2. Event = "Instantiate" /\ "main" \in Groups[pl[1]] => After(pl[1], Hook(pl)) = "main"
      BY <2>1, <3>1, AfterCases
    <3> QED BY <2>2, <3>1, <3>2 DEF HookInv
  <2>4. CASE work[pl] = "postwait"
    <3>1. Hook(pl) = "post"
      BY <2>4 DEF Hook
    <3>2. Event = "Instantiate" => After(pl[1], Hook(pl)) = "done"
      BY <2>1, <3>1, AfterCases
    <3> QED BY <2>2, <2>4, <3>2 DEF HookInv
  <2> QED BY <2>2, <2>3, <2>4
<1>5. ASSUME NEW pl \in Placements, FailCluster(pl) PROVE HookInv'
  BY <1>5 DEF FailCluster, HookInv
<1>6. ASSUME NEW pl \in Placements, NEW s \in Stages, BecomeReady(pl, s) PROVE HookInv'
  BY <1>6 DEF BecomeReady, HookInv, dmVars
<1>7. ASSUME NEW pl \in Placements, Lapse(pl) PROVE HookInv'
  <2>1. /\ \A q \in Placements : ready'[q] = IF q = pl THEN ready[pl] \ {"main"} ELSE ready[q]
        /\ UNCHANGED <<work, applied, success>>
    BY <1>7 DEF Lapse
  <2>2. \A q \in Placements : "pre" \in ready[q] => "pre" \in ready'[q]
    BY <2>1
  <2>3. \A q \in Placements : success'[q] \subseteq ready'[q] \cap {"pre", "post"}
    BY <2>1 DEF HookInv
  <2> QED BY <2>1, <2>2, <2>3 DEF HookInv
<1>8. ASSUME NEW pl \in Placements, Report(pl) PROVE HookInv'
  BY <1>8 DEF Report, HookInv, clusterVars
<1>9. CASE UNCHANGED vars
  BY <1>1, <1>9 DEF vars, clusterVars
<1>10. CASE Run \/ End \/ Terminate
  BY <1>1, <1>10 DEF Run, End, Terminate, clusterVars
<1>11. ASSUME NEW a \in Apps, AppStep(a) PROVE HookInv'
  BY <1>1, <1>2, <1>11
     DEF AppStep, StartApp, Receive, DependencyMet, WaitCancelled, NotifyDeployed, clusterVars
<1>12. ASSUME NEW n \in Callbacks, CheckReady(n) \/ NotifyReady(n) PROVE HookInv'
  BY <1>1, <1>12 DEF CheckReady, NotifyReady, clusterVars
<1>13. ASSUME NEW d \in Dependencies, Send(d) PROVE HookInv'
  BY <1>1, <1>13 DEF Send, clusterVars
<1> QED BY <1>3, <1>4, <1>5, <1>6, <1>7, <1>8, <1>9, <1>10, <1>11, <1>12, <1>13 DEF Next, ClusterStep

--------------------------------------------------------------------------------
(* Apps that wait for others.                                              *)

\* What a notifier sends goes to channels of its own app and kind.
LEMMA NotifiedChannels ==
    ASSUME TypeInv, NEW g, NEW d \in Dependencies, Notified(g)[d] > 0
    PROVE  senders[d] > 0 \/ (d.status = g.kind /\ d.on = g.on)
<1> DEFINE e == Channel(g.kind, list[g.kind][g.on][g.next], g.on)
           n == IF senders[e] < MaxSenders THEN senders[e] + 1 ELSE senders[e]
<1>1. Notified(g) = [senders EXCEPT ![e] = n]
  BY DEF Notified
<1>2. e.status = g.kind /\ e.on = g.on
  BY DEF Channel
<1> HIDE DEF e, n
<1> QED BY <1>1, <1>2 DEF TypeInv

\* An app starts that has heard of all it waits for.
LEMMA LaunchedOrder ==
    ASSUME OrderInv, NEW a \in Apps, work' = Launched(a), seen' = seen,
           \A d \in Registered(a) : d.status = "Ready" => WasReady(d.on)
    PROVE  ReadyOrder'
<1> SUFFICES ASSUME NEW d \in Dependencies, d.status = "Ready",
                    NEW p \in Placements, p[1] = d.app, work'[p] # "none"
             PROVE  WasReady(d.on)
  BY DEF ReadyOrder, Started, WasReady
<1>1. CASE d.app = a
  BY <1>1 DEF Registered
<1>2. CASE d.app # a
  <2>1. Started(d.app)
    BY <1>2 DEF Launched, Started
  <2> QED BY <2>1 DEF OrderInv, ReadyOrder, WasReady
<1> QED BY <1>1, <1>2

\* An app goes on to notify its dependents that it is deployed.
LEMMA DeployedOrderKeeps ==
    ASSUME OrderInv, NEW a \in Apps, NEW g, g.pc \in {"done", "notify", "wait"},
           app = [b \in Apps |-> app[b]], app' = [app EXCEPT ![a] = g],
           g.pc = "notify" => g.kind = "Deployed",
           \A d \in Registered(a) : g.pc = "wait" /\ d.status = "Ready" => d \in g.cases \/ WasReady(d.on),
           \A b \in Apps : b # a => appCh'[b] = appCh[b],
           UNCHANGED <<ready, flag, seen, callback>>,
           \A d \in Dependencies : d.status = "Ready" /\ (d \in buffer' \/ senders'[d] > 0) => WasReady(d.on),
           ReadyOrder'
    PROVE  OrderInv'
<1>1. \A b \in Apps : app'[b] = IF b = a THEN g ELSE app[b]
  OBVIOUS
<1>2. \A on : WasReady(on)' <=> WasReady(on)
  BY DEF WasReady
<1>3. \A b \in Apps : app'[b].pc = "notify" => app'[b].kind = "Deployed"
  BY <1>1 DEF OrderInv
<1>4. \A b \in Apps : app'[b].pc = "start" => appCh'[b] = Registered(b)
  BY <1>1 DEF OrderInv
<1>5. \A b \in Apps : \A d \in Registered(b) :
          app'[b].pc = "wait" /\ d.status = "Ready" => d \in app'[b].cases \/ WasReady(d.on)
  BY <1>1 DEF OrderInv
<1>6. /\ \A pl \in Placements : "main" \in ready[pl] \/ flag[pl] => pl \in seen
      /\ \A n \in Callbacks : callback[n].pc = "notify" => callback[n].kind = "Ready" /\ WasReady(callback[n].on)
  BY DEF OrderInv
<1> QED BY <1>3, <1>4, <1>5, <1>6 DEF OrderInv, WasReady

\* Steps that change nothing of what the order depends on.
LEMMA OrderUnchanged ==
    ASSUME OrderInv, UNCHANGED <<ready, flag, seen, callback, app, buffer, senders, appCh>>,
           \A pl \in Placements : work'[pl] # "none" => work[pl] # "none"
    PROVE  OrderInv'
<1>1. ReadyOrder'
  BY DEF OrderInv, ReadyOrder, Started
<1> QED BY <1>1 DEF OrderInv, WasReady

\* Steps of a callback.
LEMMA CallbackKeeps ==
    ASSUME OrderInv, NEW n \in Callbacks, NEW g,
           callback = [m \in Callbacks |-> callback[m]], callback' = [callback EXCEPT ![n] = g],
           g.pc = "notify" => g.kind = "Ready" /\ WasReady(g.on),
           \A pl \in Placements : flag'[pl] => flag[pl] \/ "main" \in ready[pl],
           UNCHANGED <<ready, seen, app, buffer, appCh, work>>,
           \A d \in Dependencies : d.status = "Ready" /\ senders'[d] > 0 => senders[d] > 0 \/ WasReady(d.on)
    PROVE  OrderInv'
<1>1. \A m \in Callbacks : callback'[m] = IF m = n THEN g ELSE callback[m]
  OBVIOUS
<1>2. ReadyOrder'
  BY DEF OrderInv, ReadyOrder, Started
<1>3. \A m \in Callbacks : callback'[m].pc = "notify" => callback'[m].kind = "Ready" /\ WasReady(callback'[m].on)
  BY <1>1 DEF OrderInv
<1>4. \A pl \in Placements : "main" \in ready[pl] \/ flag'[pl] => pl \in seen
  BY DEF OrderInv
<1>5. \A d \in Dependencies : d.status = "Ready" /\ (d \in buffer \/ senders'[d] > 0) => WasReady(d.on)
  BY DEF OrderInv
<1>6. /\ \A a \in Apps : app[a].pc = "notify" => app[a].kind = "Deployed"
      /\ \A a \in Apps : app[a].pc = "start" => appCh[a] = Registered(a)
      /\ \A a \in Apps : \A d \in Registered(a) :
            app[a].pc = "wait" /\ d.status = "Ready" => d \in app[a].cases \/ WasReady(d.on)
  BY DEF OrderInv
<1> QED BY <1>2, <1>3, <1>4, <1>5, <1>6 DEF OrderInv, WasReady

\* Every step keeps the order.
LEMMA NextOrder == TypeInv /\ OrderInv /\ [Next]_vars => OrderInv'
<1> SUFFICES ASSUME TypeInv, OrderInv, [Next]_vars PROVE OrderInv'
  OBVIOUS
<1>1. app = [b \in Apps |-> app[b]] /\ callback = [m \in Callbacks |-> callback[m]]
  BY DEF TypeInv
<1>2. \A d \in Dependencies : d.status = "Ready" /\ (d \in buffer \/ senders[d] > 0) => WasReady(d.on)
  BY DEF OrderInv
<1>3. UNCHANGED <<work, seen>> => ReadyOrder'
  BY DEF OrderInv, ReadyOrder, Started
<1>4. CASE UNCHANGED vars
  BY <1>4, OrderUnchanged DEF vars, dmVars, clusterVars
<1>5. CASE Run
  <2>1. /\ \A a \in Apps : app'[a].pc = "start" /\ appCh'[a] = Registered(a)
        /\ UNCHANGED <<ready, flag, seen, callback, buffer, senders, work>>
    BY <1>5 DEF Run, clusterVars
  <2>2. ReadyOrder'
    BY <1>3, <2>1
  <2>3. /\ \A pl \in Placements : "main" \in ready[pl] \/ flag[pl] => pl \in seen
        /\ \A n \in Callbacks : callback[n].pc = "notify" => callback[n].kind = "Ready" /\ WasReady(callback[n].on)
    BY DEF OrderInv
  <2> QED BY <1>2, <2>1, <2>2, <2>3 DEF OrderInv, WasReady
<1>6. CASE End \/ Terminate
  BY <1>6, OrderUnchanged DEF End, Terminate, dmVars, clusterVars
<1>7. ASSUME NEW a \in Apps, StartApp(a) PROVE OrderInv'
  <2>1. appCh[a] = Registered(a) /\ UNCHANGED <<ready, flag, seen, callback, dmVars>>
    BY <1>7 DEF StartApp, OrderInv, clusterVars
  <2>2. CASE appCh[a] = {}
    <3> DEFINE g == StartNotify("Deployed", a)
    <3>1. app' = [app EXCEPT ![a] = g] /\ work' = Launched(a)
      BY <1>7, <2>2 DEF StartApp
    <3>2. g.pc \in {"done", "notify"} /\ (g.pc = "notify" => g.kind = "Deployed")
      BY NotifyLocals
    <3> HIDE DEF g
    <3>3. ReadyOrder'
      BY <2>1, <2>2, <3>1, LaunchedOrder
    <3> QED BY <1>1, <1>2, <2>1, <2>2, <3>1, <3>2, <3>3, DeployedOrderKeeps DEF dmVars
  <2>3. CASE appCh[a] # {}
    <3> DEFINE g == [pc |-> "wait", cases |-> appCh[a]]
    <3>1. app' = [app EXCEPT ![a] = g] /\ work' = work
      BY <1>7, <2>3 DEF StartApp
    <3>2. g.pc = "wait" /\ g.cases = Registered(a)
      BY <2>1
    <3> HIDE DEF g
    <3> QED BY <1>1, <1>2, <1>3, <2>1, <3>1, <3>2, DeployedOrderKeeps DEF dmVars
  <2> QED BY <2>2, <2>3
<1>8. ASSUME NEW a \in Apps, Receive(a) PROVE OrderInv'
  <2>1. PICK d \in app[a].cases \cap buffer :
            buffer' = buffer \ {d} /\ app' = [app EXCEPT ![a] = [app[a] EXCEPT !.cases = @ \ {d}]]
    BY <1>8 DEF Receive
  <2> DEFINE g == [app[a] EXCEPT !.cases = @ \ {d}]
  <2>2. app[a].pc = "wait" /\ app[a] \in [pc : {"wait"}, cases : SUBSET Dependencies]
    BY <1>8 DEF Receive, TypeInv, Locals
  <2>3. g.pc = "wait" /\ g.cases = app[a].cases \ {d}
    BY <2>2
  <2>4. d \in Dependencies
    BY <2>1, <2>2
  <2>5. \A e \in Registered(a) : e.status = "Ready" => e \in app[a].cases \/ WasReady(e.on)
    BY <2>2 DEF OrderInv
  <2>6. \A e \in Registered(a) : e.status = "Ready" => e \in g.cases \/ WasReady(e.on)
    BY <1>2, <2>1, <2>3, <2>4, <2>5
  <2>7. app' = [app EXCEPT ![a] = g]
    BY <2>1
  <2> HIDE DEF g
  <2>8. UNCHANGED <<ready, flag, seen, callback, senders, appCh, work>>
    BY <1>8 DEF Receive, clusterVars
  <2>9. \A e \in Dependencies : e.status = "Ready" /\ (e \in buffer' \/ senders'[e] > 0) => WasReady(e.on)
    BY <1>2, <2>1, <2>8
  <2>10. ReadyOrder' /\ \A b \in Apps : b # a => appCh'[b] = appCh[b]
    BY <1>3, <2>8
  <2> QED BY <1>1, <2>3, <2>6, <2>7, <2>8, <2>9, <2>10, DeployedOrderKeeps
<1>9. ASSUME NEW a \in Apps, DependencyMet(a) \/ WaitCancelled(a) PROVE OrderInv'
  <2> DEFINE g == StartNotify("Deployed", a)
  <2>1. /\ app' = [app EXCEPT ![a] = g]
        /\ UNCHANGED <<ready, flag, seen, callback, buffer, senders>>
        /\ appCh' = [appCh EXCEPT ![a] = {}]
    BY <1>9 DEF DependencyMet, WaitCancelled, ClearChannels, clusterVars
  <2>2. g.pc \in {"done", "notify"} /\ (g.pc = "notify" => g.kind = "Deployed")
    BY NotifyLocals
  <2> HIDE DEF g
  <2>3. ReadyOrder'
    <3>1. CASE DependencyMet(a)
      <4>1. work' = Launched(a) /\ app[a].pc = "wait" /\ app[a].cases = {}
        BY <3>1 DEF DependencyMet
      <4>2. \A d \in Registered(a) : d.status = "Ready" => WasReady(d.on)
        BY <4>1 DEF OrderInv
      <4> QED BY <2>1, <4>1, <4>2, LaunchedOrder
    <3>2. CASE WaitCancelled(a)
      BY <1>3, <2>1, <3>2 DEF WaitCancelled
    <3> QED BY <1>9, <3>1, <3>2
  <2>4. \A b \in Apps : b # a => appCh'[b] = appCh[b]
    BY <2>1 DEF TypeInv
  <2> QED BY <1>1, <1>2, <2>1, <2>2, <2>3, <2>4, DeployedOrderKeeps
<1>10. ASSUME NEW a \in Apps, NotifyDeployed(a) PROVE OrderInv'
  <2> DEFINE g == Advanced(app[a])
  <2>1. /\ app[a].pc = "notify" /\ Locals(app[a]) /\ app[a].kind = "Deployed"
        /\ senders' = Notified(app[a]) /\ app' = [app EXCEPT ![a] = g]
        /\ UNCHANGED <<ready, flag, seen, callback, buffer, appCh, work>>
    BY <1>10 DEF NotifyDeployed, TypeInv, OrderInv, clusterVars
  <2>2. g.pc \in {"done", "notify"} /\ (g.pc = "notify" => g.kind = "Deployed")
    BY <2>1, AdvancedLocals
  <2> HIDE DEF g
  <2>3. \A d \in Dependencies : d.status = "Ready" /\ (d \in buffer' \/ senders'[d] > 0) => WasReady(d.on)
    BY <1>2, <2>1, NotifiedChannels
  <2>4. ReadyOrder'
    BY <1>3, <2>1
  <2> QED BY <1>1, <2>1, <2>2, <2>3, <2>4, DeployedOrderKeeps
<1>11. ASSUME NEW pl \in Placements, ClusterStep(pl) PROVE OrderInv'
  <2>1. work[pl] # "none" /\ \A q \in Placements : q # pl => work'[q] = work[q]
    BY <1>11 DEF ClusterStep, ApplyStage, HookReady, FailCluster, Stages, TypeInv
  <2>2. UNCHANGED <<ready, flag, seen, callback, app, buffer, senders, appCh>>
    BY <1>11 DEF ClusterStep, ApplyStage, HookReady, FailCluster, dmVars
  <2> QED BY <2>1, <2>2, OrderUnchanged
<1>12. ASSUME NEW pl \in Placements, NEW s \in Stages, BecomeReady(pl, s) PROVE OrderInv'
  <2>1. /\ ready' = [ready EXCEPT ![pl] = @ \cup {s}]
        /\ seen' = IF s = "main" THEN seen \cup {pl} ELSE seen
        /\ UNCHANGED <<flag, callback, app, buffer, senders, appCh, work>>
    BY <1>12 DEF BecomeReady, dmVars
  <2>2. seen \subseteq seen' /\ \A on : WasReady(on) => \A q \in Placements : q[1] = on => q \in seen'
    BY <2>1 DEF WasReady
  <2>3. \A q \in Placements : "main" \in ready'[q] \/ flag[q] => q \in seen'
    BY <2>1, <2>2 DEF TypeInv, OrderInv
  <2>4. ReadyOrder'
    <3>1. SUFFICES ASSUME NEW d \in Dependencies, d.status = "Ready", Started(d.app)'
                   PROVE  \A q \in Placements : q[1] = d.on => q \in seen'
      BY DEF ReadyOrder
    <3>2. Started(d.app)
      BY <2>1, <3>1 DEF Started
    <3> QED BY <2>2, <3>1, <3>2 DEF OrderInv, ReadyOrder
  <2>5. \A n \in Callbacks : callback[n].pc = "notify" =>
            callback[n].kind = "Ready" /\ \A q \in Placements : q[1] = callback[n].on => q \in seen'
    BY <2>2 DEF OrderInv
  <2>6. \A d \in Dependencies : d.status = "Ready" /\ (d \in buffer \/ senders[d] > 0) =>
            \A q \in Placements : q[1] = d.on => q \in seen'
    BY <1>2, <2>2
  <2>7. \A a \in Apps : \A d \in Registered(a) : app[a].pc = "wait" /\ d.status = "Ready" =>
            d \in app[a].cases \/ \A q \in Placements : q[1] = d.on => q \in seen'
    BY <2>2 DEF OrderInv
  <2>8. /\ \A a \in Apps : app[a].pc = "notify" => app[a].kind = "Deployed"
        /\ \A a \in Apps : app[a].pc = "start" => appCh[a] = Registered(a)
    BY DEF OrderInv
  <2> QED BY <2>1, <2>3, <2>4, <2>5, <2>6, <2>7, <2>8 DEF OrderInv, WasReady
<1>13. ASSUME NEW pl \in Placements, Lapse(pl) PROVE OrderInv'
  <2>1. /\ \A q \in Placements : "main" \in ready'[q] => "main" \in ready[q]
        /\ UNCHANGED <<flag, seen, callback, app, buffer, senders, appCh, work>>
    BY <1>13 DEF Lapse, TypeInv, dmVars
  <2>2. ReadyOrder'
    BY <1>3, <2>1
  <2>3. \A q \in Placements : "main" \in ready'[q] \/ flag[q] => q \in seen
    BY <2>1 DEF OrderInv
  <2>4. /\ \A n \in Callbacks : callback[n].pc = "notify" => callback[n].kind = "Ready" /\ WasReady(callback[n].on)
        /\ \A a \in Apps : app[a].pc = "notify" => app[a].kind = "Deployed"
        /\ \A a \in Apps : app[a].pc = "start" => appCh[a] = Registered(a)
        /\ \A a \in Apps : \A d \in Registered(a) :
              app[a].pc = "wait" /\ d.status = "Ready" => d \in app[a].cases \/ WasReady(d.on)
    BY DEF OrderInv
  <2> QED BY <1>2, <2>1, <2>2, <2>3, <2>4 DEF OrderInv, WasReady
<1>14. ASSUME NEW pl \in Placements, Report(pl) PROVE OrderInv'
  <2>1. /\ \A q \in Placements : flag'[q] => flag[q] \/ "main" \in ready[q]
        /\ UNCHANGED <<ready, seen, app, buffer, senders, appCh, work>>
    BY <1>14 DEF Report, TypeInv, dmVars, clusterVars
  <2>2. CASE callback' = callback
    <3>1. ReadyOrder'
      BY <1>3, <2>1
    <3>2. \A q \in Placements : "main" \in ready[q] \/ flag'[q] => q \in seen
      BY <2>1 DEF OrderInv
    <3>3. /\ \A n \in Callbacks : callback[n].pc = "notify" => callback[n].kind = "Ready" /\ WasReady(callback[n].on)
          /\ \A a \in Apps : app[a].pc = "notify" => app[a].kind = "Deployed"
          /\ \A a \in Apps : app[a].pc = "start" => appCh[a] = Registered(a)
          /\ \A a \in Apps : \A d \in Registered(a) :
                app[a].pc = "wait" /\ d.status = "Ready" => d \in app[a].cases \/ WasReady(d.on)
      BY DEF OrderInv
    <3> QED BY <1>2, <2>1, <2>2, <3>1, <3>2, <3>3 DEF OrderInv, WasReady
  <2>3. ASSUME NEW n \in Callbacks, callback' = [callback EXCEPT ![n] = [pc |-> "check", on |-> pl[1]]]
        PROVE  OrderInv'
    <3> DEFINE g == [pc |-> "check", on |-> pl[1]]
    <3>1. g.pc # "notify" /\ callback' = [callback EXCEPT ![n] = g]
      BY <2>3
    <3> HIDE DEF g
    <3> QED BY <1>1, <2>1, <3>1, CallbackKeeps
  <2> QED BY <1>14, <2>2, <2>3 DEF Report
<1>15. ASSUME NEW n \in Callbacks, CheckReady(n) PROVE OrderInv'
  <2>1. UNCHANGED <<ready, flag, seen, app, buffer, senders, appCh, work>>
    BY <1>15 DEF CheckReady, dmVars, clusterVars
  <2> DEFINE on == callback[n].on
             g == StartNotify("Ready", on)
             h == [pc |-> "done"]
  <2>2. CASE \A c \in ClustersOf[on] : flag[<<on, c>>]
    <3>1. WasReady(on)
      <4> SUFFICES ASSUME NEW pl \in Placements, pl[1] = on PROVE pl \in seen
        BY DEF WasReady
      <4>1. pl = <<on, pl[2]>> /\ pl[2] \in ClustersOf[on]
        BY DEF Placements
      <4> QED BY <2>2, <4>1 DEF OrderInv
    <3>2. g.pc = "notify" => g.kind = "Ready" /\ g.on = on
      BY NotifyLocals
    <3>3. callback' = [callback EXCEPT ![n] = g]
      BY <1>15, <2>2 DEF CheckReady
    <3> HIDE DEF g, on
    <3> QED BY <1>1, <2>1, <3>1, <3>2, <3>3, CallbackKeeps
  <2>3. CASE ~(\A c \in ClustersOf[on] : flag[<<on, c>>])
    <3>1. callback' = [callback EXCEPT ![n] = h] /\ h.pc # "notify"
      BY <1>15, <2>3 DEF CheckReady
    <3> HIDE DEF h
    <3> QED BY <1>1, <2>1, <3>1, CallbackKeeps
  <2> QED BY <2>2, <2>3
<1>16. ASSUME NEW n \in Callbacks, NotifyReady(n) PROVE OrderInv'
  <2> DEFINE g == Advanced(callback[n])
  <2>1. /\ callback[n].pc = "notify" /\ Locals(callback[n]) /\ callback[n].kind = "Ready" /\ WasReady(callback[n].on)
        /\ senders' = Notified(callback[n]) /\ callback' = [callback EXCEPT ![n] = g]
        /\ UNCHANGED <<ready, flag, seen, app, buffer, appCh, work>>
    BY <1>16 DEF NotifyReady, TypeInv, OrderInv, clusterVars
  <2>2. g.pc = "notify" => g.kind = "Ready" /\ WasReady(g.on)
    BY <2>1, AdvancedLocals
  <2> HIDE DEF g
  <2>3. \A d \in Dependencies : d.status = "Ready" /\ senders'[d] > 0 => senders[d] > 0 \/ WasReady(d.on)
    BY <2>1, NotifiedChannels
  <2> QED BY <1>1, <2>1, <2>2, <2>3, CallbackKeeps
<1>17. ASSUME NEW d \in Dependencies, Send(d) PROVE OrderInv'
  <2>1. /\ senders[d] > 0 /\ buffer' = buffer \cup {d} /\ senders' = [senders EXCEPT ![d] = @ - 1]
        /\ UNCHANGED <<ready, flag, seen, callback, app, appCh, work>>
    BY <1>17 DEF Send, clusterVars
  <2>2. \A e \in Dependencies : e.status = "Ready" /\ (e \in buffer' \/ senders'[e] > 0) => WasReady(e.on)
    BY <1>2, <2>1 DEF TypeInv
  <2>3. ReadyOrder'
    BY <1>3, <2>1
  <2>4. /\ \A pl \in Placements : "main" \in ready[pl] \/ flag[pl] => pl \in seen
        /\ \A n \in Callbacks : callback[n].pc = "notify" => callback[n].kind = "Ready" /\ WasReady(callback[n].on)
        /\ \A a \in Apps : app[a].pc = "notify" => app[a].kind = "Deployed"
        /\ \A a \in Apps : app[a].pc = "start" => appCh[a] = Registered(a)
        /\ \A a \in Apps : \A e \in Registered(a) :
              app[a].pc = "wait" /\ e.status = "Ready" => e \in app[a].cases \/ WasReady(e.on)
    BY DEF OrderInv
  <2> QED BY <2>1, <2>2, <2>3, <2>4 DEF OrderInv, WasReady
<1> QED BY <1>4, <1>5, <1>6, <1>7, <1>8, <1>9, <1>10, <1>11, <1>12, <1>13, <1>14, <1>15, <1>16, <1>17
        DEF Next, AppStep

--------------------------------------------------------------------------------
(* The invariants.                                                         *)

\* The initial states.
LEMMA InitInv == Init => TypeInv /\ HookInv /\ OrderInv
<1> SUFFICES ASSUME Init PROVE TypeInv /\ HookInv /\ OrderInv
  OBVIOUS
<1>1. TypeInv
  BY DEF Init, TypeInv, WorkPCs, Locals, NoGoroutine
<1>2. HookInv
  BY DEF Init, HookInv
<1>3. OrderInv
  BY DEF Init, OrderInv, ReadyOrder, Started, NoGoroutine
<1> QED BY <1>1, <1>2, <1>3

\* The inductive invariant.
THEOREM Invariance == Spec => [](TypeInv /\ HookInv /\ OrderInv)
<1>1. TypeInv /\ HookInv /\ OrderInv /\ [Next]_vars => (TypeInv /\ HookInv /\ OrderInv)'
  BY NextType, NextHook, NextOrder
<1> QED BY <1>1, InitInv, PTL DEF Spec

\* An app that waits for another one to be ready is started on no cluster before
\* the other one was ready on each of its clusters (depend.go, routines.go).
THEOREM ReadyOrderSafe == Spec => []ReadyOrder
<1>1. OrderInv => ReadyOrder
  BY DEF OrderInv
<1> QED BY <1>1, Invariance, PTL

\* On every cluster the main resources come after the pre-install hooks succeeded,
\* and the post-install hooks after the main resources (cluster.go).
THEOREM HookOrderSafe == Spec => []HookOrder
<1>1. HookInv => HookOrder
  BY DEF HookInv, HookOrder
<1> QED BY <1>1, Invariance, PTL

================================================================================
