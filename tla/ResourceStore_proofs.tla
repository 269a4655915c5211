-------------------------- MODULE ResourceStore_proofs -------------------------
(***************************************************************************)
(* Theorems about ResourceStore for any resources, keys, services and      *)
(* clients, when calls do not overlap: documents keep their parents, and   *)
(* an update hits the document it is made for.                             *)
(*                                                                         *)
(* A filter matches a document and everything below it, so that both       *)
(* depend on where documents stand: each one has a document for every key  *)
(* that is part of its own, not behind it, and no key has two documents.   *)
(* What a call has found in its first step is still there in its second.   *)
(***************************************************************************)
EXTENDS ResourceStore, SequenceTheorems, NaturalsInduction, WellFoundedInduction, TLAPS

\* Whatever a key is part of has, at or before it, the document of that key.
Ancestors ==
    \A i \in DOMAIN docs : \A key \in Keys :
        key \subseteq docs[i].key => \E j \in 1 .. i : docs[j].key = key

\* No two documents have one key.
Distinct == \A i, j \in DOMAIN docs : docs[i].key = docs[j].key => i = j

OneCall == \A b, c \in Clients : call[b].pc # "idle" /\ call[c].pc # "idle" => b = c

\* What a call found before it stores or removes.
Prepared ==
    \A c \in Clients :
        /\ call[c].pc # "idle" => call[c].key \in Keys
        /\ call[c].pc = "store" => ParentFound(call[c].key)
        /\ call[c].pc = "tag" => Matching(call[c].key) # {}
        /\ call[c].pc = "delete" => \E i \in DOMAIN docs : Matching(call[c].key) = {i}

\* What holds however calls overlap.
TypeInv ==
    /\ TypeOK
    /\ \A c \in Clients : call[c].pc # "idle" => call[c].key \in Keys

IInv == TypeOK /\ Ancestors /\ Distinct /\ KindsKept /\ OneCall /\ Prepared

--------------------------------------------------------------------------------
(* Sequences of documents.                                                 *)

\* What is left when a document is taken out, and where it stood.
LEMMA RemoveAtElements ==
    ASSUME NEW S, NEW s \in Seq(S), NEW n \in DOMAIN s
    PROVE  /\ RemoveAt(s, n) \in Seq(S)
           /\ Len(RemoveAt(s, n)) = Len(s) - 1
           /\ \A i \in 1 .. Len(s) - 1 : RemoveAt(s, n)[i] = s[IF i < n THEN i ELSE i + 1]
<1> DEFINE a == SubSeq(s, 1, n - 1)
           b == SubSeq(s, n + 1, Len(s))
<1>1. Len(s) \in Nat /\ n \in 1 .. Len(s)
  BY LenProperties
<1>2. \A i \in 1 .. n - 1 : s[i] \in S
  BY <1>1, ElementOfSeq
<1>3. \A i \in n + 1 .. Len(s) : s[i] \in S
  BY <1>1, ElementOfSeq
<1>4. /\ a \in Seq(S) /\ Len(a) = n - 1
      /\ \A i \in 1 .. n - 1 : a[i] = s[i]
  BY <1>1, <1>2, SubSeqProperties
<1>5. /\ b \in Seq(S) /\ Len(b) = Len(s) - n
      /\ \A i \in 1 .. Len(s) - n : b[i] = s[n + i]
  BY <1>1, <1>3, SubSeqProperties
<1> HIDE DEF a, b
<1>6. a \o b \in Seq(S) /\ Len(a \o b) = Len(s) - 1
  BY <1>1, <1>4, <1>5, ConcatProperties
<1>7. ASSUME NEW i \in 1 .. Len(s) - 1
      PROVE  (a \o b)[i] = s[IF i < n THEN i ELSE i + 1]
  <2>1. CASE i < n
    BY <2>1, <1>1, <1>4, <1>5, ConcatProperties
  <2>2. CASE ~(i < n)
    <3>1. (a \o b)[i] = b[i - (n - 1)]
      <4>1. \A k \in 1 .. Len(a) + Len(b) : (a \o b)[k] = IF k <= Len(a) THEN a[k] ELSE b[k - Len(a)]
        BY <1>4, <1>5, ConcatProperties
      <4>2. \A k \in 1 .. (n - 1) + (Len(s) - n) : (a \o b)[k] = IF k <= n - 1 THEN a[k] ELSE b[k - (n - 1)]
        BY <4>1, <1>4, <1>5
      <4>3. i \in 1 .. (n - 1) + (Len(s) - n) /\ ~(i <= n - 1)
        BY <2>2, <1>1
      <4> QED BY <4>2, <4>3
    <3>2. b[i - (n - 1)] = s[n + (i - (n - 1))]
      BY <2>2, <1>1, <1>5
    <3> QED BY <2>2, <3>1, <3>2, <1>1
  <2> QED BY <2>1, <2>2
<1> QED BY <1>6, <1>7 DEF RemoveAt, a, b

\* Documents and their positions.
LEMMA DocTypes ==
    ASSUME docs \in Seq(Document)
    PROVE  /\ Len(docs) \in Nat /\ DOMAIN docs = 1 .. Len(docs)
           /\ \A i \in DOMAIN docs : docs[i] \in Document
  BY LenProperties, ElementOfSeq

--------------------------------------------------------------------------------
(* Filters.                                                                *)

\* A key that matches anything is the key of a document, and that one is matched
\* first.
LEMMA FirstMatchExact ==
    ASSUME docs \in Seq(Document), Ancestors, Distinct,
           NEW key \in Keys, Matching(key) # {}
    PROVE  FirstMatch(key) \in DOMAIN docs /\ docs[FirstMatch(key)].key = key
<1>1. PICK i \in DOMAIN docs : key \subseteq docs[i].key
  BY DEF Matching
<1>2. PICK m \in 1 .. i : docs[m].key = key
  BY <1>1 DEF Ancestors
<1>3. m \in DOMAIN docs /\ m \in Matching(key)
  BY <1>1, <1>2, DocTypes DEF Matching
<1>4. ASSUME NEW j \in Matching(key) PROVE m <= j
  <2>1. j \in DOMAIN docs /\ key \subseteq docs[j].key
    BY DEF Matching
  <2>2. PICK l \in 1 .. j : docs[l].key = key
    BY <2>1 DEF Ancestors
  <2>3. l \in DOMAIN docs
    BY <2>1, <2>2, DocTypes
  <2>4. l = m
    BY <1>2, <1>3, <2>2, <2>3 DEF Distinct
  <2> QED BY <2>1, <2>2, <2>4, DocTypes
<1>5. ASSUME NEW n \in Matching(key), \A j \in Matching(key) : n <= j PROVE n = m
  BY <1>3, <1>4, <1>5, DocTypes DEF Matching
<1>6. FirstMatch(key) = m
  BY <1>3, <1>4, <1>5 DEF FirstMatch
<1> QED BY <1>2, <1>3, <1>6

\* The parent of a key, if it has one, is a key.
LEMMA ParentIsKey ==
    ASSUME NEW key \in Keys, ParentKey(key) # {}
    PROVE  ParentKey(key) \in Keys /\ ParentKey(key) # key /\ ParentKey(key) \subseteq key
  BY TreeAssumption DEF ParentKey

--------------------------------------------------------------------------------
(* Steps that leave the documents alone.                                   *)

\* What a call has prepared depends on the documents only.
LEMMA DocsUnchanged ==
    ASSUME docs' = docs
    PROVE  /\ Ancestors => Ancestors'
           /\ Distinct => Distinct'
           /\ KindsKept => KindsKept'
           /\ \A key : Matching(key)' = Matching(key)
           /\ \A key : ParentFound(key)' = ParentFound(key)
  BY DEF Ancestors, Distinct, KindsKept, Matching, ParentFound

\* Another document, whose parent is there and whose key is part of no other.
LEMMA NewDocument ==
    ASSUME docs \in Seq(Document), Ancestors, Distinct, KindsKept,
           NEW d \in Document, d.keyId = Kinds(d.key),
           ParentFound(d.key), Matching(d.key) = {}, docs' = Append(docs, d)
    PROVE  docs' \in Seq(Document) /\ Ancestors' /\ Distinct' /\ KindsKept'
<1> DEFINE n == Len(docs)
<1>1. /\ n \in Nat /\ DOMAIN docs = 1 .. n
      /\ docs' \in Seq(Document) /\ DOMAIN docs' = 1 .. n + 1
      /\ docs'[n + 1] = d
      /\ \A i \in 1 .. n : docs'[i] = docs[i]
  BY DocTypes, AppendProperties, LenProperties
<1> HIDE DEF n
<1>2. d.key \in Keys
  BY DEF Document
<1>3. Ancestors'
  <2> SUFFICES ASSUME NEW i \in 1 .. n + 1, NEW key \in Keys, key \subseteq docs'[i].key
               PROVE  \E j \in 1 .. i : docs'[j].key = key
    BY <1>1 DEF Ancestors
  <2>1. CASE i \in 1 .. n
    <3>1. PICK j \in 1 .. i : docs[j].key = key
      BY <1>1, <2>1 DEF Ancestors
    <3> QED BY <1>1, <2>1, <3>1
  <2>2. CASE i = n + 1 /\ key = d.key
    BY <1>1, <2>2
  <2>3. CASE i = n + 1 /\ key # d.key
    <3>1. key \subseteq ParentKey(d.key) /\ key # {}
      BY <1>1, <1>2, <2>3, TreeAssumption
    <3>2. PICK l \in DOMAIN docs : ParentKey(d.key) \subseteq docs[l].key
      BY <3>1 DEF ParentFound, Matching
    <3>3. PICK j \in 1 .. l : docs[j].key = key
      BY <3>1, <3>2 DEF Ancestors
    <3>4. j \in 1 .. n /\ j \in 1 .. i
      BY <1>1, <2>3, <3>2, <3>3
    <3> QED BY <1>1, <3>3, <3>4
  <2> QED BY <1>1, <2>1, <2>2, <2>3
<1>4. Distinct'
  <2>1. \A i \in 1 .. n : docs[i].key # d.key
    BY <1>1 DEF Matching
  <2> QED BY <1>1, <2>1 DEF Distinct
<1>5. KindsKept'
  BY <1>1 DEF KindsKept
<1> QED BY <1>1, <1>3, <1>4, <1>5

\* An update of a document changes no key.
LEMMA KeysUnchanged ==
    ASSUME docs \in Seq(Document), Ancestors, Distinct, KindsKept,
           NEW m \in DOMAIN docs, NEW d \in Document,
           d.key = docs[m].key, d.keyId = Kinds(d.key),
           docs' = [docs EXCEPT ![m] = d]
    PROVE  docs' \in Seq(Document) /\ Ancestors' /\ Distinct' /\ KindsKept'
<1>1. /\ docs' \in Seq(Document) /\ DOMAIN docs' = DOMAIN docs /\ DOMAIN docs = 1 .. Len(docs)
      /\ \A i \in DOMAIN docs : docs'[i] = IF i = m THEN d ELSE docs[i]
  BY DocTypes, ExceptSeq, LenProperties
<1>2. \A i \in DOMAIN docs : docs'[i].key = docs[i].key
  BY <1>1
<1>3. Ancestors'
  BY <1>1, <1>2, DocTypes DEF Ancestors
<1>4. Distinct'
  BY <1>1, <1>2 DEF Distinct
<1>5. KindsKept'
  BY <1>1, <1>2 DEF KindsKept
<1> QED BY <1>1, <1>3, <1>4, <1>5

\* What an Insert or the store of a tag leaves.
LEMMA StoredKeeps ==
    ASSUME docs \in Seq(Document), Ancestors, Distinct, KindsKept,
           NEW key \in Keys, NEW data \in BOOLEAN, NEW refs \in SUBSET Keys,
           ParentFound(key) \/ Matching(key) # {}, Stored(key, data, refs)
    PROVE  docs' \in Seq(Document) /\ Ancestors' /\ Distinct' /\ KindsKept'
<1> DEFINE new == [key |-> key, keyId |-> Kinds(key), data |-> data, references |-> refs]
<1>1. CASE Matching(key) = {}
  <2>1. new \in Document /\ new.key = key /\ new.keyId = Kinds(key) /\ docs' = Append(docs, new)
    BY <1>1 DEF Stored, Document
  <2> HIDE DEF new
  <2> QED BY <1>1, <2>1, NewDocument
<1>2. CASE Matching(key) # {}
  <2> DEFINE m == FirstMatch(key)
             d == [new EXCEPT !.key = docs[m].key, !.data = data \/ docs[m].data,
                              !.references = IF data THEN refs ELSE docs[m].references]
  <2>1. m \in DOMAIN docs /\ docs[m].key = key
    BY <1>2, FirstMatchExact
  <2>2. docs[m] \in Document
    BY <2>1, DocTypes
  <2>3. d \in Document /\ d.key = key /\ d.keyId = Kinds(key)
    BY <2>1, <2>2 DEF Document
  <2>4. docs' = [docs EXCEPT ![m] = d]
    BY <1>2 DEF Stored
  <2> HIDE DEF m, d
  <2> QED BY <2>1, <2>3, <2>4, KeysUnchanged
<1> QED BY <1>1, <1>2

\* The only document at or below a key is taken out.
LEMMA RemovedKeeps ==
    ASSUME docs \in Seq(Document), Ancestors, Distinct, KindsKept,
           NEW key \in Keys, NEW n \in DOMAIN docs, Matching(key) = {n},
           docs' = RemoveAt(docs, n)
    PROVE  docs' \in Seq(Document) /\ Ancestors' /\ Distinct' /\ KindsKept'
<1> DEFINE old(i) == IF i < n THEN i ELSE i + 1
<1>1. /\ docs' \in Seq(Document) /\ DOMAIN docs' = 1 .. Len(docs) - 1
      /\ DOMAIN docs = 1 .. Len(docs) /\ Len(docs) \in Nat
      /\ \A i \in 1 .. Len(docs) - 1 : docs'[i] = docs[old(i)]
  <2>1. /\ docs' \in Seq(Document) /\ Len(docs') = Len(docs) - 1
        /\ \A i \in 1 .. Len(docs) - 1 : docs'[i] = docs[old(i)]
    BY RemoveAtElements
  <2> QED BY <2>1, DocTypes, LenProperties
<1>2. \A i \in DOMAIN docs' : old(i) \in DOMAIN docs /\ old(i) # n
  BY <1>1
<1>3. \A i, j \in DOMAIN docs' : old(i) = old(j) => i = j
  BY <1>1
<1>4. Ancestors'
  <2> SUFFICES ASSUME NEW i \in DOMAIN docs', NEW k \in Keys, k \subseteq docs'[i].key
               PROVE  \E j \in 1 .. i : docs'[j].key = k
    BY DEF Ancestors
  <2>1. old(i) \in DOMAIN docs /\ k \subseteq docs[old(i)].key
    BY <1>1, <1>2
  <2>2. PICK l \in 1 .. old(i) : docs[l].key = k
    BY <2>1 DEF Ancestors
  <2>3. l # n
    <3>1. key \subseteq docs[n].key
      BY DEF Matching
    <3>2. SUFFICES ASSUME l = n PROVE old(i) \in Matching(key)
      BY <1>2
    <3> QED BY <2>1, <2>2, <3>1, <3>2 DEF Matching
  <2>4. \E j \in 1 .. i : old(j) = l
    <3>1. CASE l < n
      BY <1>1, <2>1, <2>2, <3>1
    <3>2. CASE l > n
      <4>1. l - 1 \in 1 .. i /\ old(l - 1) = l
        BY <1>1, <2>1, <2>2, <3>2
      <4> QED BY <4>1
    <3> QED BY <1>1, <2>1, <2>2, <2>3, <3>1, <3>2
  <2>5. PICK j \in 1 .. i : old(j) = l
    BY <2>4
  <2>6. docs'[j] = docs[l]
    BY <1>1, <2>5
  <2> QED BY <2>2, <2>5, <2>6
<1>5. Distinct'
  <2> SUFFICES ASSUME NEW i \in DOMAIN docs', NEW j \in DOMAIN docs', docs'[i].key = docs'[j].key
               PROVE  i = j
    BY DEF Distinct
  <2>1. old(i) = old(j)
    BY <1>1, <1>2, SMTT(40) DEF Distinct
  <2> QED BY <1>3, <2>1
<1>6. KindsKept'
  BY <1>1, <1>2 DEF KindsKept
<1> QED BY <1>1, <1>4, <1>5, <1>6

--------------------------------------------------------------------------------
(* Calls.                                                                  *)

\* A call begins when no other is in progress; it has found what it prepares.
LEMMA BeginKeeps ==
    ASSUME IInv, "concurrent" \notin Faults,
           NEW c \in Clients, NEW s \in Services, NEW key \in Keys,
           NEW pc \in {"store", "tag", "delete"}, NEW refs \in SUBSET Keys,
           Begin(c, s, key, pc, refs),
           pc = "store" => ParentFound(key),
           pc = "tag" => Matching(key) # {},
           pc = "delete" => \E i \in DOMAIN docs : Matching(key) = {i}
    PROVE  IInv'
<1> DEFINE new == [pc |-> pc, service |-> s, key |-> key, references |-> refs]
<1>1. /\ \A b \in Clients : call[b].pc = "idle"
      /\ call' = [call EXCEPT ![c] = new]
      /\ docs' = docs /\ UNCHANGED schemaVars
  BY DEF Begin, Serial
<1>2. /\ docs' \in Seq(Document) /\ Ancestors' /\ Distinct' /\ KindsKept'
  BY <1>1, DocsUnchanged DEF IInv, TypeOK
<1>3. SchemaTypeOK'
  BY <1>1 DEF IInv, TypeOK, SchemaTypeOK, schemaVars
<1>4. call' \in [Clients -> Call]
  BY <1>1 DEF IInv, TypeOK, Call, PCs
<1>5. \A b \in Clients : call'[b] = IF b = c THEN new ELSE call[b]
  BY <1>1 DEF IInv, TypeOK
<1>6. OneCall'
  BY <1>1, <1>5 DEF OneCall
<1>7. Prepared'
  <2>1. ASSUME NEW b \in Clients, b = c
        PROVE  call'[b].key = key /\ call'[b].pc = pc
    BY <1>5, <2>1
  <2>2. ASSUME NEW b \in Clients, b # c
        PROVE  call'[b].pc = "idle"
    BY <1>1, <1>5, <2>2
  <2> SUFFICES ASSUME NEW b \in Clients
               PROVE  /\ call'[b].pc # "idle" => call'[b].key \in Keys
                      /\ call'[b].pc = "store" => ParentFound(call[b].key)'
                      /\ call'[b].pc = "tag" => (Matching(call[b].key) # {})'
                      /\ call'[b].pc = "delete" => (\E i \in DOMAIN docs : Matching(call[b].key) = {i})'
    BY DEF Prepared
  <2>3. CASE b = c
    BY <2>1, <2>3, <1>1 DEF ParentFound, Matching
  <2>4. CASE b # c
    BY <2>2, <2>4
  <2> QED BY <2>3, <2>4
<1> QED BY <1>2, <1>3, <1>4, <1>6, <1>7 DEF IInv, TypeOK

\* The only call ends.
LEMMA EndKeeps ==
    ASSUME IInv, NEW c \in Clients, call[c].pc # "idle", Ends(c), UNCHANGED schemaVars,
           docs' \in Seq(Document), Ancestors', Distinct', KindsKept'
    PROVE  IInv'
<1>1. \A b \in Clients : b # c => call[b].pc = "idle"
  BY DEF IInv, OneCall
<1>2. Idle \in Call /\ Idle.pc = "idle"
  BY ClientAssumption DEF Idle, Call, PCs
<1>3. call' \in [Clients -> Call] /\ \A b \in Clients : call'[b].pc = "idle"
  BY <1>1, <1>2 DEF Ends, IInv, TypeOK
<1>4. SchemaTypeOK'
  BY DEF IInv, TypeOK, SchemaTypeOK, schemaVars
<1>5. OneCall' /\ Prepared'
  BY <1>3 DEF OneCall, Prepared
<1> QED BY <1>3, <1>4, <1>5 DEF IInv, TypeOK

\* A restart cuts calls off, and the documents stay.
LEMMA RestartKeeps ==
    ASSUME IInv, NEW s \in Services, Restart(s)
    PROVE  IInv'
<1>1. docs' = docs
  BY DEF Restart
<1>2. docs' \in Seq(Document) /\ Ancestors' /\ Distinct' /\ KindsKept'
  BY <1>1, DocsUnchanged DEF IInv, TypeOK
<1>3. Idle \in Call /\ Idle.pc = "idle"
  BY ClientAssumption DEF Idle, Call, PCs
<1>4. /\ call' \in [Clients -> Call]
      /\ \A b \in Clients : call'[b] = call[b] \/ call'[b].pc = "idle"
  BY <1>3 DEF Restart, IInv, TypeOK
<1>5. OneCall'
  BY <1>4 DEF OneCall, IInv
<1>6. Prepared'
  <2> SUFFICES ASSUME NEW c \in Clients
               PROVE  /\ call'[c].pc # "idle" => call'[c].key \in Keys
                      /\ call'[c].pc = "store" => ParentFound(call[c].key)'
                      /\ call'[c].pc = "tag" => (Matching(call[c].key) # {})'
                      /\ call'[c].pc = "delete" => (\E i \in DOMAIN docs : Matching(call[c].key) = {i})'
    BY DEF Prepared
  <2>1. CASE call'[c].pc = "idle"
    BY <2>1
  <2>2. CASE call'[c] = call[c]
    BY <2>2, <1>1 DEF IInv, Prepared, ParentFound, Matching
  <2> QED BY <1>4, <2>1, <2>2
<1>7. SchemaTypeOK'
  BY RestartAssumption DEF Restart, SchemaRestarts, IInv, TypeOK, SchemaTypeOK, Phases
<1> QED BY <1>2, <1>4, <1>5, <1>6, <1>7 DEF IInv, TypeOK

\* The services' handling of the schema keeps its type.
LEMMA SchemaKeepsType ==
    ASSUME SchemaTypeOK, NEW s \in Services, SchemaNext(s)
    PROVE  SchemaTypeOK'
<1> USE SchemaAssumption DEF SchemaTypeOK, Phases
<1>1. CASE ReadSegments(s)
  <2>1. Known(s) \subseteq Resources
    BY DEF Known
  <2>2. Outcome(s) \in Phases
    BY DEF Outcome
  <2> QED BY <1>1, <2>1, <2>2 DEF ReadSegments
<1>2. CASE RegisterSegment(s)
  BY <1>2 DEF RegisterSegment
<1>3. CASE RegisterFails(s)
  BY <1>3 DEF RegisterFails
<1>4. CASE Retry(s)
  BY <1>4 DEF Retry
<1> QED BY <1>1, <1>2, <1>3, <1>4 DEF SchemaNext

\* The schema takes no part in this but for its type.
LEMMA ServiceStepKeeps ==
    ASSUME IInv, NEW s \in Services, ServiceStep(s)
    PROVE  IInv'
<1>1. docs' = docs /\ call' = call
  BY DEF ServiceStep
<1>2. SchemaTypeOK'
  BY SchemaKeepsType DEF ServiceStep, IInv, TypeOK
<1>3. docs' \in Seq(Document) /\ Ancestors' /\ Distinct' /\ KindsKept'
  BY <1>1, DocsUnchanged DEF IInv, TypeOK
<1>4. OneCall' /\ Prepared'
  BY <1>1 DEF IInv, OneCall, Prepared, ParentFound, Matching
<1> QED BY <1>1, <1>2, <1>3, <1>4 DEF IInv, TypeOK

--------------------------------------------------------------------------------
(* The invariant.                                                          *)

LEMMA InitIInv == Init => IInv
<1> SUFFICES ASSUME Init PROVE IInv
  OBVIOUS
<1>1. Idle \in Call /\ Idle.pc = "idle"
  BY ClientAssumption DEF Idle, Call, PCs
<1>2. SchemaTypeOK
  BY RestartAssumption DEF Init, SchemaInit, SchemaTypeOK, Phases
<1>3. docs \in Seq(Document) /\ DOMAIN docs = {}
  BY DEF Init
<1>4. TypeOK
  BY <1>1, <1>2, <1>3 DEF Init, TypeOK
<1>5. Ancestors /\ Distinct /\ KindsKept
  BY <1>3 DEF Ancestors, Distinct, KindsKept
<1>6. OneCall /\ Prepared
  BY <1>1 DEF Init, OneCall, Prepared
<1> QED BY <1>4, <1>5, <1>6 DEF IInv

\* Every step keeps the invariant when calls do not overlap.
LEMMA NextIInv ==
    ASSUME IInv, "concurrent" \notin Faults, [Next]_vars
    PROVE  IInv'
<1>1. CASE UNCHANGED vars
  <2>1. docs' = docs /\ call' = call /\ UNCHANGED schemaVars
    BY <1>1 DEF vars
  <2>2. docs' \in Seq(Document) /\ Ancestors' /\ Distinct' /\ KindsKept'
    BY <2>1, DocsUnchanged DEF IInv, TypeOK
  <2>3. SchemaTypeOK' /\ call' \in [Clients -> Call]
    BY <2>1 DEF schemaVars, IInv, TypeOK, SchemaTypeOK
  <2>4. OneCall' /\ Prepared'
    BY <2>1 DEF IInv, OneCall, Prepared, ParentFound, Matching
  <2> QED BY <2>2, <2>3, <2>4 DEF IInv, TypeOK
<1>2. ASSUME NEW s \in Services, ServiceStep(s) PROVE IInv'
  BY <1>2, ServiceStepKeeps
<1>3. ASSUME NEW s \in Services, Restart(s) PROVE IInv'
  BY <1>3, RestartKeeps
<1>4. ASSUME NEW c \in Clients, Store(c) PROVE IInv'
  <2>1. call[c] \in Call /\ call[c].key \in Keys /\ call[c].pc # "idle" /\ ParentFound(call[c].key)
    BY <1>4 DEF Store, IInv, TypeOK, Prepared
  <2>2. call[c].references \in SUBSET Keys
    BY <2>1 DEF Call
  <2>3. docs' \in Seq(Document) /\ Ancestors' /\ Distinct' /\ KindsKept'
    BY <1>4, <2>1, <2>2, StoredKeeps DEF Store, IInv, TypeOK
  <2> QED BY <1>4, <2>1, <2>3, EndKeeps DEF Store
<1>5. ASSUME NEW c \in Clients, StoreTag(c) PROVE IInv'
  <2>1. call[c].key \in Keys /\ call[c].pc # "idle" /\ Matching(call[c].key) # {}
    BY <1>5 DEF StoreTag, IInv, Prepared
  <2>2. Stored(call[c].key, FALSE, {}) /\ FALSE \in BOOLEAN /\ {} \in SUBSET Keys
    BY <1>5 DEF StoreTag
  <2>3. docs \in Seq(Document) /\ Ancestors /\ Distinct /\ KindsKept
    BY DEF IInv, TypeOK
  <2>4. docs' \in Seq(Document) /\ Ancestors' /\ Distinct' /\ KindsKept'
    BY <2>1, <2>2, <2>3, StoredKeeps
  <2> QED BY <1>5, <2>1, <2>4, EndKeeps DEF StoreTag
<1>6. ASSUME NEW c \in Clients, Delete(c) PROVE IInv'
  <2> DEFINE key == call[c].key
  <2>1. PICK n \in DOMAIN docs : Matching(key) = {n}
    BY <1>6 DEF Delete, IInv, Prepared
  <2>2. key \in Keys /\ call[c].pc # "idle"
    BY <1>6 DEF Delete, IInv, Prepared
  <2>3. n \in Nat
    BY <2>1, DocTypes DEF IInv, TypeOK
  <2>4. FirstMatch(key) = n
    BY <2>1, <2>3 DEF FirstMatch
  <2>5. docs' = RemoveAt(docs, n)
    BY <1>6, <2>1, <2>4 DEF Delete
  <2>6. docs' \in Seq(Document) /\ Ancestors' /\ Distinct' /\ KindsKept'
    BY <2>1, <2>2, <2>5, RemovedKeeps DEF IInv, TypeOK
  <2> QED BY <1>6, <2>2, <2>6, EndKeeps DEF Delete
<1>7. ASSUME NEW c \in Clients, NEW s \in Services, NEW key \in Keys,
             VerifyReferences(c, s, key) \/ ReadDocument(c, s, key) \/ CountReferences(c, s, key)
      PROVE  IInv'
  <2>1. CASE VerifyReferences(c, s, key)
    <3>1. PICK refs \in SUBSET Referable(key) : Begin(c, s, key, "store", refs)
      BY <2>1 DEF VerifyReferences
    <3>2. refs \in SUBSET Keys
      BY DEF Referable
    <3> QED BY <2>1, <3>1, <3>2, BeginKeeps DEF VerifyReferences
  <2>2. CASE ReadDocument(c, s, key)
    BY <2>2, BeginKeeps DEF ReadDocument
  <2>3. CASE CountReferences(c, s, key)
    BY <2>3, BeginKeeps DEF CountReferences
  <2> QED BY <1>7, <2>1, <2>2, <2>3
<1> QED BY <1>1, <1>2, <1>3, <1>4, <1>5, <1>6, <1>7 DEF Next

\* Of several matches there is a first one.
LEMMA FirstMatchExists ==
    ASSUME docs \in Seq(Document), NEW key, Matching(key) # {}
    PROVE  FirstMatch(key) \in DOMAIN docs
<1>1. Matching(key) \subseteq DOMAIN docs /\ DOMAIN docs \subseteq Nat
  BY DocTypes DEF Matching
<1>2. \E i \in Matching(key) : \A j \in Matching(key) : <<j, i>> \notin OpToRel(<, Nat)
  BY <1>1, NatLessThanWellFounded, WFMin
<1>3. PICK i \in Matching(key) : \A j \in Matching(key) : <<j, i>> \notin OpToRel(<, Nat)
  BY <1>2
<1>4. \A j \in Matching(key) : i <= j
  <2>1. \A j \in Matching(key) : ~(j < i)
    BY <1>1, <1>3 DEF OpToRel
  <2> QED BY <1>1, <2>1
<1>5. FirstMatch(key) \in Matching(key)
  BY <1>4 DEF FirstMatch
<1> QED BY <1>1, <1>5

\* What a call stores is a document, whatever it found before.
LEMMA StoredType ==
    ASSUME docs \in Seq(Document), NEW key \in Keys, NEW data \in BOOLEAN,
           NEW refs \in SUBSET Keys, Stored(key, data, refs)
    PROVE  docs' \in Seq(Document)
<1> DEFINE new == [key |-> key, keyId |-> Kinds(key), data |-> data, references |-> refs]
<1>1. CASE Matching(key) = {}
  <2>1. new \in Document /\ docs' = Append(docs, new)
    BY <1>1 DEF Stored, Document
  <2> HIDE DEF new
  <2> QED BY <2>1, AppendProperties
<1>2. CASE Matching(key) # {}
  <2> DEFINE m == FirstMatch(key)
             d == [new EXCEPT !.key = docs[m].key, !.data = data \/ docs[m].data,
                              !.references = IF data THEN refs ELSE docs[m].references]
  <2>1. m \in DOMAIN docs /\ docs[m] \in Document
    BY <1>2, FirstMatchExists, DocTypes
  <2>2. d \in Document
    BY <2>1 DEF Document
  <2>3. docs' = [docs EXCEPT ![m] = d]
    BY <1>2 DEF Stored
  <2> HIDE DEF m, d
  <2> QED BY <2>1, <2>2, <2>3, ExceptSeq
<1> QED BY <1>1, <1>2

\* Types are kept by calls that overlap, too.
LEMMA NextTypeInv ==
    ASSUME TypeInv, [Next]_vars
    PROVE  TypeInv'
<1> USE DEF TypeInv, TypeOK
<1>1. Idle \in Call /\ Idle.pc = "idle"
  BY ClientAssumption DEF Idle, Call, PCs
<1>2. CASE UNCHANGED vars
  BY <1>2 DEF vars, schemaVars, SchemaTypeOK
<1>3. ASSUME NEW s \in Services, ServiceStep(s) PROVE TypeInv'
  BY <1>3, SchemaKeepsType DEF ServiceStep
<1>4. ASSUME NEW s \in Services, Restart(s) PROVE TypeInv'
  <2>1. SchemaTypeOK'
    BY <1>4, RestartAssumption DEF Restart, SchemaRestarts, SchemaTypeOK, Phases
  <2> QED BY <1>1, <1>4, <2>1 DEF Restart
<1>5. ASSUME NEW c \in Clients, docs' \in Seq(Document), Ends(c), UNCHANGED schemaVars PROVE TypeInv'
  BY <1>1, <1>5 DEF Ends, schemaVars, SchemaTypeOK
<1>6. ASSUME NEW c \in Clients, call[c].pc # "idle" PROVE call[c].key \in Keys /\ call[c].references \in SUBSET Keys
  BY <1>6 DEF Call
<1>7. ASSUME NEW c \in Clients, Store(c) PROVE TypeInv'
  BY <1>5, <1>6, <1>7, StoredType DEF Store
<1>8. ASSUME NEW c \in Clients, StoreTag(c) PROVE TypeInv'
  <2>1. Stored(call[c].key, FALSE, {}) /\ FALSE \in BOOLEAN /\ {} \in SUBSET Keys /\ call[c].key \in Keys
    BY <1>6, <1>8 DEF StoreTag
  <2>2. docs' \in Seq(Document)
    BY <2>1, StoredType
  <2> QED BY <1>5, <1>8, <2>2 DEF StoreTag
<1>9. ASSUME NEW c \in Clients, Delete(c) PROVE TypeInv'
  <2> DEFINE n == FirstMatch(call[c].key)
  <2>1. ASSUME Matching(call[c].key) # {} PROVE RemoveAt(docs, n) \in Seq(Document)
    <3>1. n \in DOMAIN docs
      BY <2>1, FirstMatchExists
    <3> QED BY <3>1, RemoveAtElements
  <2>2. docs' \in Seq(Document)
    BY <1>9, <2>1 DEF Delete
  <2> QED BY <1>5, <1>9, <2>2 DEF Delete
<1>10. ASSUME NEW c \in Clients, NEW s \in Services, NEW key \in Keys, NEW pc \in {"store", "tag", "delete"},
              NEW refs \in SUBSET Keys, Begin(c, s, key, pc, refs)
       PROVE  TypeInv'
  <2>1. docs' = docs /\ SchemaTypeOK'
    BY <1>10 DEF Begin, schemaVars, SchemaTypeOK
  <2>2. /\ [pc |-> pc, service |-> s, key |-> key, references |-> refs] \in Call
        /\ call' = [call EXCEPT ![c] = [pc |-> pc, service |-> s, key |-> key, references |-> refs]]
    BY <1>10 DEF Begin, Call, PCs
  <2> QED BY <2>1, <2>2
<1>11. ASSUME NEW c \in Clients, NEW s \in Services, NEW key \in Keys,
              VerifyReferences(c, s, key) \/ ReadDocument(c, s, key) \/ CountReferences(c, s, key)
       PROVE  TypeInv'
  <2>1. PICK pc \in {"store", "tag", "delete"}, refs \in SUBSET Keys : Begin(c, s, key, pc, refs)
    BY <1>11 DEF VerifyReferences, ReadDocument, CountReferences, Referable
  <2> QED BY <1>10, <2>1
<1> QED BY <1>2, <1>3, <1>4, <1>7, <1>8, <1>9, <1>11 DEF Next

\* The inductive invariant, when calls do not overlap.
THEOREM SerialInvariance == ASSUME "concurrent" \notin Faults PROVE Spec => []IInv
<1>1. IInv /\ [Next]_vars => IInv'
  BY NextIInv
<1> QED BY <1>1, InitIInv, PTL DEF Spec

\* The schema, the documents and the calls have their types, also when calls
\* overlap (schema.go, mongo.go).
THEOREM TypeCorrect == Spec => []TypeOK
<1>1. Init => TypeInv
  <2>1. Init => \A c \in Clients : call[c].pc = "idle"
    BY DEF Init, Idle
  <2> QED BY <2>1, InitIInv DEF IInv, TypeInv
<1>2. TypeInv /\ [Next]_vars => TypeInv'
  BY NextTypeInv
<1>3. TypeInv => TypeOK
  BY DEF TypeInv
<1> QED BY <1>1, <1>2, <1>3, PTL DEF Spec

\* Every document has its parent, which is the older one (mongo.go:342, :923).
THEOREM NoOrphanSafe == ASSUME "concurrent" \notin Faults PROVE Spec => []NoOrphan
<1>1. ASSUME IInv PROVE NoOrphan
  <2> SUFFICES ASSUME NEW i \in DOMAIN docs, ParentKey(docs[i].key) # {}
               PROVE  \E j \in DOMAIN docs : j < i /\ docs[j].key = ParentKey(docs[i].key)
    BY DEF NoOrphan
  <2> DEFINE parent == ParentKey(docs[i].key)
  <2>1. docs[i].key \in Keys
    BY <1>1, DocTypes DEF IInv, TypeOK, Document
  <2>2. parent \in Keys /\ parent # docs[i].key /\ parent \subseteq docs[i].key
    BY <2>1, ParentIsKey
  <2>3. PICK j \in 1 .. i : docs[j].key = parent
    BY <1>1, <2>2 DEF IInv, Ancestors
  <2> QED BY <1>1, <2>2, <2>3, DocTypes DEF IInv, TypeOK
<1>2. IInv => NoOrphan
  BY <1>1
<1> QED BY <1>2, SerialInvariance, PTL

\* No document carries the kind of another (mongo.go:788, :801).
THEOREM KindsKeptSafe == ASSUME "concurrent" \notin Faults PROVE Spec => []KindsKept
<1>1. IInv => KindsKept
  BY DEF IInv
<1> QED BY <1>1, SerialInvariance, PTL

================================================================================
