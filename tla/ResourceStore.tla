----------------------------- MODULE ResourceStore -----------------------------
(***************************************************************************)
(* The documents of MongoDB.  A key is a set of pairs of a kind of         *)
(* resource and a name, from the root of the tree of resources down to the *)
(* document.  The filter made from a key matches the document and all      *)
(* those below it, and of several matches an update or a removal takes the *)
(* first, which is the oldest.                                             *)
(***************************************************************************)
EXTENDS ReferentialSchema, SequencesExt

CONSTANTS
    Keys,       \* keys of documents
    Joined,     \* resources whose key holds that of their parent, which has
                \* no document: compositeAppVersion
    Clients,
    NoKey

Kinds(key) == {kv[1] : kv \in key}

\* The kinds in the key of a resource: its own and those above it.
Chain[r \in Resources] == {r} \cup (IF ParentOf[r] = NoResource THEN {} ELSE Chain[ParentOf[r]])

KindOf == [key \in Keys |-> CHOOSE r \in Resources : Chain[r] = Kinds(key)]

ASSUME KeyAssumption == \A key \in Keys : \E r \in Resources : Chain[r] = Kinds(key)
ASSUME ClientAssumption == NoKey \notin Keys /\ Joined \subseteq Resources /\ Services # {}

\* The key without the names that are the document's own.
ParentKey(key) ==
    LET r == KindOf[key]
    IN  {kv \in key : kv[1] # r /\ ~(r \in Joined /\ kv[1] = ParentOf[r])}

\* Keys are paths in the tree of resources: what is part of a key is the key of
\* the parent or of one above it, and joined resources have no documents.
ASSUME TreeAssumption ==
    \A key \in Keys :
        /\ key # {} /\ ParentKey(key) # key
        /\ ParentKey(key) \in Keys \cup {{}}
        /\ \A k \in Keys : k \subseteq key /\ k # key => k \subseteq ParentKey(key)

VARIABLES
    docs,       \* the documents, oldest first
    call        \* the calls in progress

vars == <<schemaVars, docs, call>>

Idle == [pc |-> "idle", service |-> CHOOSE s \in Services : TRUE, key |-> NoKey, references |-> {}]
PCs  == {"idle", "store", "tag", "delete"}

Init ==
    /\ SchemaInit
    /\ docs = <<>>
    /\ call = [c \in Clients |-> Idle]

Document == [key : Keys, keyId : {Kinds(k) : k \in Keys}, data : BOOLEAN, references : SUBSET Keys]
Call     == [pc : PCs, service : Services, key : Keys \cup {NoKey}, references : SUBSET Keys]

TypeOK ==
    /\ SchemaTypeOK
    /\ docs \in Seq(Document)
    /\ call \in [Clients -> Call]

--------------------------------------------------------------------------------
(* Filters.                                                                *)

Matching(key) == {i \in DOMAIN docs : key \subseteq docs[i].key}

\* variant: the youngest match.
LastMatch(key) == CHOOSE i \in Matching(key) : \A j \in Matching(key) : j <= i

FirstMatch(key) == CHOOSE i \in Matching(key) : \A j \in Matching(key) : i <= j

\* Any document below the parent counts for it, too.
ParentFound(key) == ParentKey(key) = {} \/ Matching(ParentKey(key)) # {}

\* What the data of a resource may refer to; whether it exists is only logged.
Referable(key) == {k \in Keys : KindOf[k] \in ReferencesOf[KindOf[key]]}

findReferencedBys(key) == {i \in DOMAIN docs : key \in docs[i].references}

--------------------------------------------------------------------------------
(* Calls.                                                                  *)

Serial == "concurrent" \in Faults \/ \A c \in Clients : call[c].pc = "idle"

Begin(c, s, key, pc, refs) ==
    /\ call[c].pc = "idle"
    /\ Serial
    /\ call' = [call EXCEPT ![c] = [pc |-> pc, service |-> s, key |-> key, references |-> refs]]
    /\ UNCHANGED <<schemaVars, docs>>

Ends(c) == call' = [call EXCEPT ![c] = Idle]

\* variant: the parent is not looked for.
VerifyReferencesParentless(c, s, key) ==
    /\ KindOf[key] \in schema[s] /\ phase[s] = "done"
    /\ \E refs \in SUBSET Referable(key) : Begin(c, s, key, "store", refs)

\* Insert of a document: refused when the service has no schema yet or does
\* not find the kind of resource in it, and without the parent.
VerifyReferences(c, s, key) ==
    /\ KindOf[key] \in schema[s] /\ phase[s] = "done"
    /\ ParentFound(key)
    /\ \E refs \in SUBSET Referable(key) : Begin(c, s, key, "store", refs)

\* The update, or a new document when nothing matches.
Stored(key, data, refs) ==
    LET new == [key |-> key, keyId |-> Kinds(key), data |-> data, references |-> refs]
        old == docs[FirstMatch(key)]
    IN  docs' = IF Matching(key) = {} THEN Append(docs, new)
                ELSE [docs EXCEPT ![FirstMatch(key)] =
                         [new EXCEPT !.key = old.key, !.data = data \/ old.data,
                                     !.references = IF data THEN refs ELSE old.references]]

Store(c) ==
    /\ call[c].pc = "store"
    /\ Stored(call[c].key, TRUE, call[c].references)
    /\ Ends(c)
    /\ UNCHANGED schemaVars

\* A caller that has read a document adds to it under another tag (the state
\* of a DIG, ...): nothing is checked, and a missing document is made.
ReadDocument(c, s, key) ==
    /\ Matching(key) # {}
    /\ Begin(c, s, key, "tag", {})

StoreTag(c) ==
    /\ call[c].pc = "tag"
    /\ Stored(call[c].key, FALSE, {})
    /\ Ends(c)
    /\ UNCHANGED schemaVars

\* Remove of a document: refused when nothing or more than one matches, and
\* when something refers to it.
CountReferences(c, s, key) ==
    /\ \E i \in DOMAIN docs : Matching(key) = {i}
    /\ findReferencedBys(key) = {}
    /\ Begin(c, s, key, "delete", {})

Delete(c) ==
    LET key == call[c].key
    IN  /\ call[c].pc = "delete"
        /\ docs' = IF Matching(key) = {} THEN docs ELSE RemoveAt(docs, FirstMatch(key))
        /\ Ends(c)
        /\ UNCHANGED schemaVars

\* A restart cuts the calls of the service off.
Restart(s) ==
    /\ SchemaRestarts(s)
    /\ call' = [c \in Clients |-> IF call[c].pc # "idle" /\ call[c].service = s THEN Idle ELSE call[c]]
    /\ UNCHANGED docs

--------------------------------------------------------------------------------
ServiceStep(s) ==
    /\ SchemaNext(s)
    /\ UNCHANGED <<docs, call>>

Next ==
    \/ \E s \in Services : ServiceStep(s) \/ Restart(s)
    \/ \E c \in Clients : Store(c) \/ StoreTag(c) \/ Delete(c)
    \/ \E c \in Clients, s \in Services, key \in Keys :
          VerifyReferences(c, s, key) \/ ReadDocument(c, s, key) \/ CountReferences(c, s, key)

Spec == Init /\ [][Next]_vars

\* The goroutine of verifyReferentialIntegrity runs; callers may stop.
FairSpec == Spec /\ \A s \in Services : WF_vars(ServiceStep(s))

--------------------------------------------------------------------------------
\* Every document has its parent, and the parent is the older of the two
\* (mongo.go:342, :923).
NoOrphan ==
    \A i \in DOMAIN docs :
        LET parent == ParentKey(docs[i].key)
        IN  parent = {} \/ \E j \in DOMAIN docs : j < i /\ docs[j].key = parent

\* An update hits the document whose key it is made with and not one below it,
\* which its filter matches as well: no document carries the kind of another
\* (mongo.go:788, :801).
KindsKept == \A i \in DOMAIN docs : docs[i].keyId = Kinds(docs[i].key)

================================================================================
