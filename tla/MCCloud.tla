-------------------------------- MODULE MCCloud --------------------------------
(***************************************************************************)
(* LogicalCloud for TLC.                                                   *)
(***************************************************************************)
EXTENDS LogicalCloud, TLC

CONSTANTS c1, c2, c3, x1, x2, k1, k2

\* AppContexts and clusters are told apart by nothing but what happens to them.
CloudSymmetry == Permutations(AppContexts) \cup Permutations(Clusters \ GitOps) \cup Permutations(Clients)

================================================================================
