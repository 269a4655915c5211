-------------------------------- MODULE MCDepend --------------------------------
(***************************************************************************)
(* Instances of DependManager for TLC: an app with hooks on two clusters   *)
(* and two apps that wait for it.                                          *)
(***************************************************************************)
EXTENDS DependManager, TLC

CONSTANTS p, d1, d2, d3, k1, k2, n1

MCOrder == <<d1, p, d2>>
MCClustersOf == p :> {k1, k2} @@ d1 :> {k1} @@ d2 :> {k1}
MCDependencies == {Channel("Ready", d1, p), Channel("Ready", d2, p), Channel("Deployed", d2, d1)}
MCGroups == p :> {"main"} @@ d1 :> {"pre", "main"} @@ d2 :> {"crd", "main", "post"}

\* Three apps that wait for one to be deployed.
FanOrder == <<p, d1, d2, d3>>
FanClustersOf == p :> {k1} @@ d1 :> {k1} @@ d2 :> {k1} @@ d3 :> {k1}
FanDependencies == {Channel("Deployed", d, p) : d \in {d1, d2, d3}}
FanGroups == [a \in {p, d1, d2, d3} |-> {"main"}]

================================================================================
