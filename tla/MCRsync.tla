-------------------------------- MODULE MCRsync --------------------------------
(***************************************************************************)
(* Instances of RsyncContext for TLC: AppContext A runs app a1 on cluster1 *)
(* and a2 on cluster1; B, which replaces A, keeps a2 and moves a1 to       *)
(* cluster5, as the Migration Controller does.                             *)
(***************************************************************************)
EXTENDS RsyncRefinement, TLC

CONSTANTS A, B, t1, t2, t3, k1, k2, cluster1, cluster5, a1c1, a1c5, a2c1

MCManifest  == [c \in AppContexts |-> Placements \cap
                   (IF c = A THEN {a1c1, a2c1} ELSE {a1c5, a2c1})]
MCClusterOf == [p \in Placements |-> IF p = a1c5 THEN cluster5 ELSE cluster1]

Call(i, ev, c, other) == [id |-> i, ev |-> ev, ac |-> c, other |-> other]

InstallTerminate == {Call(1, "Instantiate", A, NoContext), Call(2, "Terminate", A, NoContext)}
InstallReadTerminate == InstallTerminate \cup {Call(3, "Read", A, NoContext)}
InstallUpdate == {Call(1, "Instantiate", A, NoContext), Call(2, "Update", B, A)}
UpdateRollback == InstallUpdate \cup {Call(3, "Update", A, B)}
UpdateTerminate == InstallUpdate \cup {Call(3, "Terminate", B, NoContext)}

ThreadSymmetry == Permutations(Threads) \cup Permutations(Callers)

================================================================================
