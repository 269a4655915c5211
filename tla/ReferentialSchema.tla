--------------------------- MODULE ReferentialSchema ---------------------------
(***************************************************************************)
(* The schema of MongoDB's documents.  Every controller has a file with    *)
(* the kinds of resources it adds, their parents and references; it puts   *)
(* it in the database as a segment, and works with what all segments       *)
(* together say as soon as nothing is missing in them.  Controllers start  *)
(* in any order and share nothing but the database.                        *)
(***************************************************************************)
EXTENDS Naturals

CONSTANTS
    Resources, NoResource,
    ParentOf, ReferencesOf,     \* resource -> parent, referenced resources
    Services,                   \* controllers, which open the database
    Segments,                   \* schema files
    FileOf,                     \* the file of a service
    NameOf, ResourcesOf,        \* the name in a file and the resources it defines
    Base,                       \* the name of the segment all others wait for: emco-base
    MaxRestarts,                \* bound: restarts of services
    Faults                      \* see FaultKinds

FaultKinds == {"db", "restart", "concurrent"}

ASSUME SchemaAssumption ==
    /\ NoResource \notin Resources
    /\ ParentOf \in [Resources -> Resources \cup {NoResource}]
    /\ ReferencesOf \in [Resources -> SUBSET Resources]
    /\ FileOf \in [Services -> Segments]
    /\ ResourcesOf \in [Segments -> SUBSET Resources]
ASSUME RestartAssumption == MaxRestarts \in Nat /\ Faults \subseteq FaultKinds

VARIABLES
    segments,   \* the segments in the database
    phase,      \* verifyReferentialIntegrity of each service
    schema,     \* its refSchemaMap and refKeyMap: the resources it knows
    restarts

schemaVars == <<segments, phase, schema, restarts>>

Phases == {"read", "register", "complete", "wait", "done", "failed"}

SchemaInit ==
    /\ segments = {}
    /\ phase = [s \in Services |-> "read"]
    /\ schema = [s \in Services |-> {}]
    /\ restarts = 0

SchemaTypeOK ==
    /\ segments \subseteq Segments
    /\ phase \in [Services -> Phases]
    /\ schema \in [Services -> SUBSET Resources]
    /\ restarts \in 0 .. MaxRestarts

--------------------------------------------------------------------------------
(* What a service makes of the segments it finds and its own file.         *)

Duplicate(s) == \E g \in segments \ {FileOf[s]} : NameOf[g] = NameOf[FileOf[s]]
BaseMissing(s) == \A g \in segments \cup {FileOf[s]} : NameOf[g] # Base

Known(s) == UNION {ResourcesOf[g] : g \in segments \cup {FileOf[s]}}

\* A resource that two segments define.
Twice(s) ==
    \E g, h \in segments \cup {FileOf[s]} : g # h /\ ResourcesOf[g] \cap ResourcesOf[h] # {}

\* Parents and referenced resources are defined, too.
Whole(rs) == \A r \in rs : ParentOf[r] \in rs \cup {NoResource} /\ ReferencesOf[r] \subseteq rs

\* variant: a service whose schema is not whole does not register its segment.
OutcomeUnregistered(s) ==
    IF Duplicate(s) \/ Twice(s) THEN "failed"
    ELSE IF BaseMissing(s) \/ ~Whole(Known(s)) THEN "wait" ELSE "complete"

\* The segment is registered also while others are still missing, so that
\* services do not wait for one another.
Outcome(s) ==
    IF Duplicate(s) THEN "failed"
    ELSE IF BaseMissing(s) THEN "wait"
    ELSE IF Twice(s) THEN "failed"
    ELSE IF Whole(Known(s)) THEN "complete" ELSE "register"

--------------------------------------------------------------------------------
\* processSchema up to the map it makes; a failure of the database is not
\* retried.
ReadSegments(s) ==
    /\ phase[s] = "read"
    /\ \E found \in {Outcome(s)} \cup {"failed" : f \in Faults \cap {"db"}} :
          /\ phase' = [phase EXCEPT ![s] = found]
          /\ schema' = [schema EXCEPT ![s] = IF found = "complete" THEN Known(s) ELSE {}]
    /\ UNCHANGED <<segments, restarts>>

\* Two services may have read before either registers.
RegisterSegment(s) ==
    /\ phase[s] \in {"register", "complete"}
    /\ segments' = segments \cup {FileOf[s]}
    /\ phase' = [phase EXCEPT ![s] = IF @ = "complete" THEN "done" ELSE "wait"]
    /\ UNCHANGED <<schema, restarts>>

\* The Insert of the segment fails.
RegisterFails(s) ==
    /\ phase[s] \in {"register", "complete"}
    /\ "db" \in Faults
    /\ FileOf[s] \notin segments
    /\ phase' = [phase EXCEPT ![s] = "failed"]
    /\ schema' = [schema EXCEPT ![s] = {}]
    /\ UNCHANGED <<segments, restarts>>

\* After a pause that doubles up to a limit.
Retry(s) ==
    /\ phase[s] = "wait"
    /\ phase' = [phase EXCEPT ![s] = "read"]
    /\ UNCHANGED <<segments, schema, restarts>>

SchemaRestarts(s) ==
    /\ "restart" \in Faults
    /\ restarts < MaxRestarts
    /\ restarts' = restarts + 1
    /\ phase' = [phase EXCEPT ![s] = "read"]
    /\ schema' = [schema EXCEPT ![s] = {}]
    /\ UNCHANGED segments

SchemaNext(s) == ReadSegments(s) \/ RegisterSegment(s) \/ RegisterFails(s) \/ Retry(s)

--------------------------------------------------------------------------------
\* No service waits for ever for segments that others hold back, in whatever
\* order they start, however their resources refer to one another and whichever
\* of them is restarted, unless one of them failed (schema.go:213, :242).
SchemaSettles ==
    <>[](\A s \in Services : phase[s] = "done") \/ <>(\E s \in Services : phase[s] = "failed")

================================================================================
