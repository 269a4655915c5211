------------------------------- MODULE MCNotify --------------------------------
\* Two clients on one AppContext, one of which may instead ask for another,
\* next to the listener of the first.
EXTENDS StatusNotify, TLC

CONSTANTS ac1, ac2, web, db, n1, n2, r1, r2, r3, dcm, s1, s2, digStatus

MCListensTo == [l \in Listeners |-> ac1]
MCClientOf  == r1 :> n1 @@ r2 :> n2 @@ r3 :> n2
MCWatches   == r1 :> ac1 @@ r2 :> ac1 @@ r3 :> ac2
MCWants     == r1 :> {web} @@ r2 :> {} @@ r3 :> {db}
MCKindOf    == r1 :> "ready" @@ r2 :> "ready" @@ r3 :> "deployed"

================================================================================
