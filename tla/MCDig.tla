--------------------------------- MODULE MCDig ---------------------------------
(***************************************************************************)
(* Instances of DigLifecycle for TLC.                                      *)
(***************************************************************************)
EXTENDS DigLifecycle, TLC

CONSTANTS c1, c2, c3, d1, d2, k1, k2

DigSymmetry ==
    Permutations(AppContexts) \cup Permutations(Clients) \cup Permutations(Digs)

================================================================================
