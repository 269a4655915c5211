--------------------------- MODULE Migration_proofs ---------------------------
(***************************************************************************)
(* Proofs about Migration for any DIGs, apps, clusters and resources.  An  *)
(* AppContext is frozen once rsync has been given it (Steady), so what the *)
(* controllers do is proved about AppContexts rsync has not seen, and      *)
(* about the intents that tell them where apps are.                        *)
(*                                                                         *)
(* IInv, with any operations, is about what the frames of the handlers and *)
(* the intents hold.  With any number of handlers rsync is given at most   *)
(* one cluster for an app, one of its candidates.  The parts that say      *)
(* there is one, and what the intents are relied on for, assume that one   *)
(* handler is at work (OneHandler): two of them read and reset the intents *)
(* of a DIG in turn, and an app is kept on no cluster.  RoomInv, with one  *)
(* handler that instantiates DIGs, adds where the apps that must not be    *)
(* moved are.                                                              *)
(***************************************************************************)
EXTENDS Migration, SequenceTheorems, FiniteSetTheorems, NaturalsInduction, WellFoundedInduction, TLAPS

-------------------------------------------------------------------------------
(* The inductive invariants.                                               *)

\* One handler is at work.
OneHandler == \A j, l \in Clients : j = l

\* rsync has been given AppContext c.
Handed(c) == context[c].calls # <<>> \/ context[c].status \notin {"Created", "Deleted"}

AppsIn(c) == AppSet(context[c].dig)

\* c is an AppContext of d that rsync has been given.
Serving(c, d) == c \in Contexts /\ context[c].dig = d /\ Handed(c)

\* The apps of an AppContext have candidates only, and one each at most once rsync has
\* it; with one handler, exactly one.
ContextOk(c) ==
    /\ \A a \in AppsIn(c) : context[c].tree[a] \subseteq Candidates[a]
    /\ Handed(c) => context[c].status # "Deleted"
    /\ Handed(c) => \A a \in AppsIn(c) : \E x \in Clusters : context[c].tree[a] \subseteq {x}
    /\ OneHandler /\ Handed(c) => \A a \in AppsIn(c) : context[c].tree[a] # {}
    /\ \A i \in DOMAIN context[c].calls :
          /\ context[c].calls[i].other \in {0} \cup Contexts
          /\ context[c].calls[i].ev \in {"Update", "UpdateDelete"} =>
                Serving(context[c].calls[i].other, context[c].dig)

ContextInv == \A c \in Contexts : ContextOk(c)

RecordInv == \A d \in Digs : record[d] # 0 => Serving(record[d], d)

\* What the controllers have left of the candidates when a frame comes to its step.
PlaceInv(f) ==
    \A a \in AppSet(f.dig) :
        /\ f.pc = "filter" => context[f.ctx].tree[a] = Candidates[a]
        /\ OneHandler /\ (f.pc \in {"update", "deploy"} \/ (f.pc = "migrate" /\ f.app # a)) =>
              context[f.ctx].tree[a] # {}

FrameInv(f) ==
    /\ f.ctx \in Contexts /\ context[f.ctx].dig = f.dig
    /\ f.pc = "record" <=> Handed(f.ctx)
    /\ f.pc # "record" => context[f.ctx].status = "Created"
    /\ f.source = 0 <=> f.op = "Instantiate"
    /\ f.source # 0 => Serving(f.source, f.dig)
    /\ f.pc = "migrate" => f.app \in AppSet(f.dig)
    /\ PlaceInv(f)

\* Of the frames of a handler only the last one is at work, and no AppContext is
\* made by two of them.
StackInv ==
    \A k \in Clients : \A i \in DOMAIN stack[k] :
        /\ FrameInv(stack[k][i])
        /\ i < Len(stack[k]) => stack[k][i].pc = "update"
        /\ \A l \in Clients : \A j \in DOMAIN stack[l] :
              stack[l][j].ctx = stack[k][i].ctx => l = k /\ j = i

\* The intents of the apps of d that stay hold candidates.
HoldsCandidates(d) == \A a \in AppSet(d) \ leaving : deployedAt[a] \in Candidates[a]

\* What handler k has read, or is about to read, of the intents of its DIG: they hold
\* candidates until they are read, the flag is reset before they are, and what was read
\* holds candidates too.
ReadInv(k) ==
    LET read == reading[k]
        d    == Top(k).dig
    IN  /\ read.step # "flag" => At(k, "filter")
        /\ read.step \in {"reset", "intents"} => HoldsCandidates(d)
        /\ read.step \in {"intents", "apps"} => ~selected[d]
        /\ read.step = "apps" => read.toReset # {} /\ read.toReset \subseteq AppSet(d)
        /\ read.step \in {"apps", "judge"} /\ read.moves =>
              \A a \in AppSet(d) \ read.moving : read.at[a] \in Candidates[a]

\* With one handler, the intents of a DIG that is selected hold a candidate for each
\* app that stays.
PinInv ==
    OneHandler => /\ \A d \in Digs : selected[d] => HoldsCandidates(d)
                  /\ \A k \in Clients : ReadInv(k)

IInv == TypeOK /\ ContextInv /\ RecordInv /\ StackInv /\ PinInv

\* The AppContexts of a DIG agree on the apps that must not be moved.
AgreeInv ==
    \A c, e \in Contexts : Handed(c) /\ Handed(e) /\ context[c].dig = context[e].dig =>
        \A a \in AppsIn(c) \ Movable : context[c].tree[a] = context[e].tree[a]

\* The record of a DIG names an AppContext, or its handler is about to.
KnownInv ==
    \A c \in Contexts : Handed(c) =>
        \/ record[context[c].dig] # 0
        \/ \E k \in Clients : At(k, "record") /\ Top(k).ctx = c

\* The intents of a DIG that is selected hold where its apps are that must not be moved.
HoldInv ==
    /\ leaving \subseteq Movable
    /\ \A d \in Digs : selected[d] =>
          /\ record[d] # 0
          /\ \A a \in AppSet(d) \ Movable : context[record[d]].tree[a] = {deployedAt[a]}

\* An Update is called for a DIG that has an AppContext, and keeps what must not be
\* moved where it is; an Instantiate for one that has no AppContext.
StayInv(f) ==
    /\ f.op = "Update" => record[f.dig] # 0
    /\ f.op = "Update" /\ f.pc # "filter" =>
          \A a \in AppSet(f.dig) \ Movable : context[f.ctx].tree[a] \subseteq context[record[f.dig]].tree[a]
    /\ f.op = "Instantiate" => record[f.dig] = 0
    /\ f.op = "Instantiate" => \A c \in Contexts : Serving(c, f.dig) => c = f.ctx

RoomInv ==
    /\ AgreeInv /\ KnownInv /\ HoldInv
    /\ \A k \in Clients : \A i \in DOMAIN stack[k] :
          StayInv(stack[k][i]) /\ (i > 1 => stack[k][i].op = "Update")

\* at holds where the apps of d are that must not be moved.
HoldsUnmovable(d, at) == \A a \in AppSet(d) \ Movable : context[record[d]].tree[a] = {at[a]}

\* An Update is called for a DIG that is selected, so that its handler keeps what must
\* not be moved where the intents say, and they hold it until they are read.
HeldInv(k) ==
    LET read == reading[k]
        d    == Top(k).dig
    IN  At(k, "filter") /\ Top(k).op = "Update" =>
            /\ IF read.step = "flag" THEN selected[d] ELSE read.moves
            /\ read.step \in {"reset", "intents"} => HoldsUnmovable(d, deployedAt)
            /\ read.step \in {"apps", "judge"} => read.moving \subseteq Movable /\ HoldsUnmovable(d, read.at)

-------------------------------------------------------------------------------
(* What the operators of the model return.                                 *)

\* The least element of a set of numbers.
LEMMA LeastIs ==
    ASSUME NEW S \in SUBSET Nat, S # {}
    PROVE  Least(S) \in S /\ \A j \in S : Least(S) <= j
<1>1. PICK n \in S : \A j \in S : <<j, n>> \notin OpToRel(<, Nat)
  BY NatLessThanWellFounded, WFMin
<1>2. \A j \in S : ~(j < n)
  BY <1>1 DEF OpToRel
<1>3. \A j \in S : n <= j
  BY <1>2
<1> QED BY <1>3 DEF Least

\* One of several clusters is preferred.
LEMMA PreferredIs ==
    ASSUME NEW S \in SUBSET Clusters
    PROVE  /\ Preferred(S) \subseteq S
           /\ S # {} => \E y \in S : Preferred(S) = {y}
<1> DEFINE I == {i \in DOMAIN Preference : Preference[i] \in S}
<1>1. CASE S = {}
  BY <1>1 DEF Preferred
<1>2. CASE S # {}
  <2>1. DOMAIN Preference = 1 .. Len(Preference) /\ Len(Preference) \in Nat
    BY PreferenceAssumption, LenProperties
  <2>2. I \in SUBSET Nat
    BY <2>1
  <2>3. I # {}
    BY <1>2, PreferenceAssumption
  <2>4. Least(I) \in I
    BY <2>2, <2>3, LeastIs
  <2>5. First(S) \in S
    BY <2>4 DEF First
  <2> QED BY <1>2, <2>5 DEF Preferred
<1> QED BY <1>1, <1>2

\* The placement controller takes clusters out, and leaves one if it succeeds.
LEMMA RemainingIs ==
    ASSUME NEW a \in Apps, NEW S \in SUBSET Clusters, NEW free
    PROVE  /\ Remaining(a, S, free) \subseteq S
           /\ Succeeds(a, S, free) => Remaining(a, S, free) # {}
<1>1. OffersFirst(a, S, free) \subseteq S /\ Preferred(S) \subseteq S
  BY PreferredIs DEF OffersFirst
<1>2. ASSUME Succeeds(a, S, free) PROVE OffersFirst(a, S, free) # {}
  <2>1. Len(Resources) \in Nat \ {0}
    BY ResourceAssumption, LenProperties, EmptySeq
  <2>2. 1 \in 1 .. Replicas[a] * Len(Resources)
    <3>1. Replicas[a] \in Nat \ {0}
      BY ReplicaAssumption
    <3>2. Replicas[a] * Len(Resources) >= 1
      <4>1. \A m, n \in Nat \ {0} : m * n >= 1
        OBVIOUS
      <4> QED BY <2>1, <3>1, <4>1
    <3>3. Replicas[a] * Len(Resources) \in Nat
      <4>1. \A m, n \in Nat \ {0} : m * n \in Nat
        OBVIOUS
      <4> QED BY <2>1, <3>1, <4>1
    <3> QED BY <3>2, <3>3
  <2>3. 1 \in DOMAIN Rounds(a)
    BY <2>2 DEF Rounds
  <2> QED BY <1>2, <2>3 DEF Succeeds, Failing
<1> QED BY <1>1, <1>2 DEF Remaining

\* An initial part of a selection that is not empty is none either.
LEMMA UpToIs ==
    ASSUME NEW S, NEW moved, NEW n \in Nat, moved \in [1 .. n -> S], NEW a, NEW m \in 1 .. n
    PROVE  LET u == UpTo(moved, a, m) IN
           /\ DOMAIN u \in SUBSET Nat /\ 1 \in DOMAIN u
           /\ \A i \in DOMAIN u : u[i] \in S
<1> DEFINE E == {i \in DOMAIN moved : Enough(SubSeq(moved, 1, i), a)}
           last == IF E = {} THEN m ELSE Least(E)
<1>1. last \in 1 .. n
  <2>1. E \in SUBSET Nat /\ E \subseteq 1 .. n
    OBVIOUS
  <2> QED BY <2>1, LeastIs
<1>2. UpTo(moved, a, m) = SubSeq(moved, 1, last)
  BY DEF UpTo
<1> HIDE DEF last
<1>3. SubSeq(moved, 1, last) \in Seq(S) /\ Len(SubSeq(moved, 1, last)) = last
  <2>1. \A i \in 1 .. last : moved[i] \in S
    BY <1>1
  <2>2. 1 \in Int /\ last \in Int /\ 1 <= last /\ last - 1 + 1 = last
    BY <1>1
  <2> QED BY <2>1, <2>2, SubSeqProperties
<1> DEFINE u == SubSeq(moved, 1, last)
<1>4. u \in Seq(S) /\ Len(u) = last
  BY <1>3
<1> HIDE DEF u
<1>5. DOMAIN u = 1 .. last /\ \A i \in 1 .. last : u[i] \in S
  BY <1>4, LenProperties, ElementOfSeq
<1>6. DOMAIN u \in SUBSET Nat /\ 1 \in DOMAIN u
  BY <1>1, <1>5
<1> QED BY <1>2, <1>5, <1>6 DEF u

\* Only what is on the cluster and may leave it is selected.
LEMMA SelectionsAre ==
    ASSUME context \in Seq(AppContext), NEW x, NEW a, NEW moved \in Selections(x, a), Movables(x) # {}
    PROVE  \A i \in DOMAIN moved : moved[i] \in Movables(x)
<1> DEFINE M == Movables(x)
<1>1. IsFiniteSet(M)
  <2>1. IsFiniteSet(Contexts)
    BY LenProperties, FS_Interval DEF Contexts
  <2>2. IsFiniteSet(Movable) /\ IsFiniteSet(Located(x))
    BY <2>1, AppAssumption, FS_Subset DEF Located, Instantiated
  <2>3. IsFiniteSet(Located(x) \X Movable)
    BY <2>2, FS_Product
  <2> QED BY <2>3, FS_Subset DEF Movables
<1>2. Cardinality(M) \in Nat /\ Cardinality(M) # 0
  BY <1>1, FS_CardinalityType, FS_EmptySet
<1>3. PICK m \in ByPriority(M) : \E s \in BySize(ToSet(UpTo(m, a, Len(m)))) : moved = UpTo(s, a, 1)
  BY DEF Selections
<1>4. m \in [1 .. Cardinality(M) -> M]
  BY <1>3 DEF ByPriority, SetToSeqs
<1>5. Len(m) = Cardinality(M)
  BY <1>2, <1>4
<1> DEFINE u == UpTo(m, a, Len(m))
           T == ToSet(u)
<1>6. 1 \in DOMAIN u /\ \A i \in DOMAIN u : u[i] \in M
  <2>1. Len(m) \in 1 .. Cardinality(M)
    BY <1>2, <1>5
  <2> QED BY <1>2, <1>4, <2>1, UpToIs
<1>7. T \subseteq M /\ T # {}
  BY <1>6 DEF ToSet
<1>8. Cardinality(T) \in Nat /\ Cardinality(T) # 0
  BY <1>1, <1>7, FS_Subset, FS_CardinalityType, FS_EmptySet
<1>9. PICK s \in BySize(T) : moved = UpTo(s, a, 1)
  BY <1>3
<1>10. s \in [1 .. Cardinality(T) -> T]
  BY DEF BySize, SetToSeqs
<1>11. \A i \in DOMAIN UpTo(s, a, 1) : UpTo(s, a, 1)[i] \in T
  BY <1>8, <1>10, UpToIs
<1> QED BY <1>7, <1>9, <1>11

-------------------------------------------------------------------------------
(* What every step does: it removes no AppContext, and what rsync was given  *)
(* stays as it is.                                                           *)

Steady ==
    /\ Contexts \subseteq Contexts'
    /\ \A c \in Contexts :
          /\ context'[c].dig = context[c].dig
          /\ Handed(c) => Handed(c)' /\ context'[c].tree = context[c].tree

\* The types of the state.
LEMMA Types ==
    ASSUME TypeOK
    PROVE  /\ Len(context) \in Nat /\ Contexts = 1 .. Len(context)
           /\ \A c \in Contexts : /\ context[c] \in AppContext /\ context[c].dig \in Digs
                                  /\ AppsIn(c) \subseteq Apps
                                  /\ context[c].tree \in [Apps -> SUBSET Clusters]
           /\ \A d \in Digs : AppSet(d) \subseteq Apps /\ AppSet(d) # {} /\ record[d] \in {0} \cup Contexts
<1>1. Len(context) \in Nat /\ Contexts = 1 .. Len(context) /\ \A c \in Contexts : context[c] \in AppContext
  BY LenProperties, ElementOfSeq DEF TypeOK, Contexts
<1>2. ASSUME NEW d \in Digs PROVE AppSet(d) \subseteq Apps /\ AppSet(d) # {}
  <2>1. AppsOf[d] \in Seq(Apps) /\ AppsOf[d] # <<>>
    BY DigAssumption
  <2>2. DOMAIN AppsOf[d] = 1 .. Len(AppsOf[d]) /\ Len(AppsOf[d]) \in Nat \ {0}
    BY <2>1, LenProperties, EmptySeq
  <2>3. \A i \in DOMAIN AppsOf[d] : AppsOf[d][i] \in Apps
    BY <2>1, <2>2, ElementOfSeq
  <2>4. 1 \in DOMAIN AppsOf[d]
    BY <2>2
  <2> QED BY <2>3, <2>4 DEF AppSet, ToSet
<1>3. \A d \in Digs : record[d] \in {0} \cup Contexts
  BY <1>1 DEF TypeOK
<1> QED BY <1>1, <1>2, <1>3 DEF AppsIn, AppContext

\* The frames of a handler.
LEMMA StackTypes ==
    ASSUME TypeOK, NEW k \in Clients
    PROVE  LET s == stack[k] IN
           /\ s \in Seq(Frame) /\ Len(s) \in Nat /\ DOMAIN s = 1 .. Len(s)
           /\ \A i \in DOMAIN s : s[i] \in Frame
           /\ s # <<>> => /\ Len(s) >= 1 /\ Top(k) = s[Len(s)] /\ Top(k) \in Frame
                          /\ Front(s) \in Seq(Frame) /\ Len(Front(s)) = Len(s) - 1
                          /\ \A i \in 1 .. Len(s) - 1 : Front(s)[i] = s[i]
<1> DEFINE s == stack[k]
<1>1. s \in Seq(Frame)
  BY DEF TypeOK
<1>2. Len(s) \in Nat /\ DOMAIN s = 1 .. Len(s) /\ \A i \in DOMAIN s : s[i] \in Frame
  BY <1>1, LenProperties, ElementOfSeq
<1>3. ASSUME s # <<>>
      PROVE  /\ Len(s) >= 1 /\ Top(k) = s[Len(s)] /\ Top(k) \in Frame
             /\ Front(s) \in Seq(Frame) /\ Len(Front(s)) = Len(s) - 1
             /\ \A i \in 1 .. Len(s) - 1 : Front(s)[i] = s[i]
  <2>1. Len(s) >= 1
    BY <1>1, <1>2, <1>3, EmptySeq
  <2>2. \A i \in 1 .. Len(s) - 1 : s[i] \in Frame
    BY <1>2
  <2>3. 1 \in Int /\ Len(s) - 1 \in Int
    BY <1>2
  <2>4. /\ SubSeq(s, 1, Len(s) - 1) \in Seq(Frame)
        /\ Len(SubSeq(s, 1, Len(s) - 1)) = IF 1 <= Len(s) - 1 THEN Len(s) - 1 - 1 + 1 ELSE 0
        /\ \A i \in 1 .. Len(s) - 1 - 1 + 1 : SubSeq(s, 1, Len(s) - 1)[i] = s[1 + i - 1]
    BY <2>2, <2>3, SubSeqProperties
  <2>5. Len(Front(s)) = Len(s) - 1
    BY <1>2, <2>1, <2>4 DEF Front
  <2>6. ASSUME NEW i \in 1 .. Len(s) - 1 PROVE Front(s)[i] = s[i]
    <3>1. i \in 1 .. Len(s) - 1 - 1 + 1 /\ 1 + i - 1 = i
      BY <1>2
    <3> QED BY <2>4, <3>1 DEF Front
  <2> QED BY <1>2, <2>1, <2>4, <2>5, <2>6 DEF Front, Top, Last
<1> QED BY <1>1, <1>2, <1>3

\* What serves a DIG still does.
LEMMA ServingStays ==
    ASSUME Steady, NEW c, NEW d, Serving(c, d)
    PROVE  Serving(c, d)'
  BY SMTT(40) DEF Steady, Serving

\* An AppContext a step leaves alone.
LEMMA ContextStays ==
    ASSUME Steady, NEW c \in Contexts, ContextOk(c), context'[c] = context[c]
    PROVE  ContextOk(c)'
<1>1. \A i \in DOMAIN context[c].calls :
          /\ context[c].calls[i].other \in ({0} \cup Contexts)'
          /\ context[c].calls[i].ev \in {"Update", "UpdateDelete"} =>
                Serving(context[c].calls[i].other, context[c].dig)'
  <2> SUFFICES ASSUME NEW i \in DOMAIN context[c].calls
               PROVE  /\ context[c].calls[i].other \in ({0} \cup Contexts)'
                      /\ context[c].calls[i].ev \in {"Update", "UpdateDelete"} =>
                            Serving(context[c].calls[i].other, context[c].dig)'
    OBVIOUS
  <2>1. PICK o, d : o = context[c].calls[i].other /\ d = context[c].dig
    OBVIOUS
  <2>2. Serving(o, d) => Serving(o, d)'
    BY ServingStays
  <2> QED BY <2>1, <2>2 DEF ContextOk, Steady
<1> QED BY <1>1 DEF ContextOk, Handed, AppsIn, Serving

\* A frame whose AppContext a step leaves alone, but for what rsync is to do.
LEMMA FrameLasts ==
    ASSUME Steady, NEW f \in Frame, FrameInv(f),
           Handed(f.ctx)' <=> Handed(f.ctx), context'[f.ctx].tree = context[f.ctx].tree,
           ~Handed(f.ctx) => context'[f.ctx].status = context[f.ctx].status
    PROVE  FrameInv(f)'
<1>1. f.source # 0 => Serving(f.source, f.dig)'
  BY ServingStays DEF FrameInv
<1>2. f.ctx \in Contexts' /\ context'[f.ctx].dig = context[f.ctx].dig
  BY DEF FrameInv, Steady
<1> QED BY <1>1, <1>2 DEF FrameInv, PlaceInv

\* A frame whose AppContext a step leaves alone.
LEMMA FrameStays ==
    ASSUME Steady, NEW f \in Frame, FrameInv(f), context'[f.ctx] = context[f.ctx]
    PROVE  FrameInv(f)'
  BY FrameLasts DEF Handed

\* The DIG to be visited next is of no account.
LEMMA NextIgnored ==
    ASSUME NEW f \in Frame, NEW n, FrameInv(f)
    PROVE  FrameInv([f EXCEPT !.next = n])
<1> DEFINE g == [f EXCEPT !.next = n]
<1>1. /\ g.op = f.op /\ g.dig = f.dig /\ g.ctx = f.ctx /\ g.source = f.source
      /\ g.pc = f.pc /\ g.app = f.app
  BY DEF Frame
<1> HIDE DEF g
<1>2. FrameInv(g)
  BY <1>1 DEF FrameInv, PlaceInv
<1> QED BY <1>2 DEF g

-------------------------------------------------------------------------------
(* The stacks.                                                             *)

\* The last frame of a handler is replaced.
LEMMA GoesIs ==
    ASSUME TypeOK, NEW k \in Clients, stack[k] # <<>>, NEW g \in Frame, Goes(k, g)
    PROVE  /\ stack' \in [Clients -> Seq(Frame)]
           /\ Len(stack'[k]) = Len(stack[k])
           /\ DOMAIN stack'[k] = 1 .. Len(stack[k])
           /\ stack'[k][Len(stack[k])] = g
           /\ \A i \in 1 .. Len(stack[k]) - 1 : stack'[k][i] = stack[k][i]
           /\ \A l \in Clients \ {k} : stack'[l] = stack[l]
<1> DEFINE F == Front(stack[k])
<1>1. F \in Seq(Frame) /\ Len(F) = Len(stack[k]) - 1 /\ Len(stack[k]) \in Nat /\ Len(stack[k]) >= 1
  BY StackTypes
<1>2. \A i \in 1 .. Len(stack[k]) - 1 : F[i] = stack[k][i]
  BY StackTypes
<1> HIDE DEF F
<1>3. /\ Append(F, g) \in Seq(Frame) /\ Len(Append(F, g)) = Len(F) + 1
      /\ \A i \in 1 .. Len(F) : Append(F, g)[i] = F[i]
      /\ Append(F, g)[Len(F) + 1] = g
  BY <1>1, AppendProperties
<1>4. stack' = [stack EXCEPT ![k] = Append(F, g)]
  BY DEF Goes, F
<1>5. stack \in [Clients -> Seq(Frame)]
  BY DEF TypeOK
<1>6. stack'[k] = Append(F, g) /\ stack' \in [Clients -> Seq(Frame)] /\ \A l \in Clients \ {k} : stack'[l] = stack[l]
  BY <1>3, <1>4, <1>5
<1>7. DOMAIN Append(F, g) = 1 .. Len(Append(F, g))
  BY <1>3, LenProperties
<1> QED BY <1>1, <1>2, <1>3, <1>6, <1>7

\* The last frame goes on, and no other AppContext is touched.
LEMMA StackReplaced ==
    ASSUME TypeOK, StackInv, Steady, NEW k \in Clients, stack[k] # <<>>, NEW g \in Frame, Goes(k, g),
           g.ctx = Top(k).ctx, FrameInv(g)',
           \A c \in Contexts \ {g.ctx} : context'[c] = context[c]
    PROVE  StackInv'
<1> DEFINE n == Len(stack[k])
<1>1. /\ DOMAIN stack'[k] = 1 .. n /\ stack'[k][n] = g /\ Len(stack'[k]) = n
      /\ \A i \in 1 .. n - 1 : stack'[k][i] = stack[k][i]
      /\ \A l \in Clients \ {k} : stack'[l] = stack[l]
  BY GoesIs
<1>2. n \in Nat /\ n >= 1 /\ stack[k][n] = Top(k) /\ DOMAIN stack[k] = 1 .. n
  BY StackTypes
<1> HIDE DEF n
<1>3. ASSUME NEW l \in Clients, NEW i \in DOMAIN stack'[l], l # k \/ i # n
      PROVE  /\ i \in DOMAIN stack[l] /\ stack'[l][i] = stack[l][i]
             /\ stack[l][i].ctx # g.ctx
             /\ l = k => i < n
  <2>1. i \in DOMAIN stack[l] /\ stack'[l][i] = stack[l][i] /\ (l = k => i < n)
    BY <1>1, <1>2, <1>3
  <2>2. n \in DOMAIN stack[k]
    BY <1>2
  <2> QED BY <1>2, <1>3, <2>1, <2>2 DEF StackInv
<1>4. ASSUME NEW l \in Clients, NEW i \in DOMAIN stack'[l]
      PROVE  /\ FrameInv(stack[l][i])'
             /\ i < Len(stack'[l]) => stack'[l][i].pc = "update"
  <2>1. CASE l = k /\ i = n
    <3>1. g = stack'[l][i]
      BY <1>1, <2>1
    <3> QED BY <1>1, <1>2, <2>1, <3>1
  <2>2. CASE l # k \/ i # n
    <3>1. PICK f \in Frame : f = stack[l][i] /\ f = stack'[l][i]
      BY <1>3, <2>2, StackTypes
    <3>2. i \in DOMAIN stack[l] /\ FrameInv(f) /\ f.ctx # g.ctx /\ f.ctx \in Contexts
      BY <1>3, <2>2, <3>1 DEF StackInv, FrameInv
    <3>3. FrameInv(f)'
      BY <3>2, FrameStays
    <3>4. i < Len(stack'[l]) => i < Len(stack[l])
      BY <1>1, <1>2
    <3>5. \A j \in DOMAIN stack[l] : j < Len(stack[l]) => stack[l][j].pc = "update"
      BY DEF StackInv
    <3>6. i < Len(stack'[l]) => f.pc = "update"
      BY <3>1, <3>2, <3>4, <3>5
    <3> QED BY <3>1, <3>3, <3>6
  <2> QED BY <2>1, <2>2
<1>5. ASSUME NEW l \in Clients, NEW i \in DOMAIN stack'[l], NEW m \in Clients, NEW j \in DOMAIN stack'[m],
             stack'[m][j].ctx = stack'[l][i].ctx
      PROVE  m = l /\ j = i
  <2>1. CASE l = k /\ i = n
    BY <1>1, <1>3, <1>5, <2>1
  <2>2. CASE ~(l = k /\ i = n) /\ ~(m = k /\ j = n)
    BY <1>3, <1>5, <2>2 DEF StackInv
  <2>3. CASE m = k /\ j = n
    BY <1>1, <1>3, <1>5, <2>3
  <2> QED BY <2>1, <2>2, <2>3
<1> QED BY <1>4, <1>5 DEF StackInv

\* Frames are taken off, and none of the others has its AppContext touched.
LEMMA StackCut ==
    ASSUME TypeOK, StackInv, Steady, NEW k \in Clients, NEW n \in 0 .. Len(stack[k]),
           \A l \in Clients \ {k} : stack'[l] = stack[l],
           DOMAIN stack'[k] = 1 .. n, Len(stack'[k]) = n, \A i \in 1 .. n : stack'[k][i] = stack[k][i],
           \A l \in Clients : \A i \in DOMAIN stack'[l] : context'[stack[l][i].ctx] = context[stack[l][i].ctx]
    PROVE  StackInv'
<1>1. ASSUME NEW l \in Clients, NEW i \in DOMAIN stack'[l]
      PROVE  i \in DOMAIN stack[l] /\ stack'[l][i] = stack[l][i] /\ Len(stack'[l]) <= Len(stack[l])
  <2>1. DOMAIN stack[l] = 1 .. Len(stack[l]) /\ Len(stack[l]) \in Nat
    BY StackTypes
  <2> QED BY <2>1
<1>2. ASSUME NEW l \in Clients, NEW i \in DOMAIN stack'[l]
      PROVE  FrameInv(stack[l][i])' /\ (i < Len(stack'[l]) => stack'[l][i].pc = "update")
  <2>1. PICK f \in Frame : f = stack[l][i] /\ f = stack'[l][i]
    BY <1>1, StackTypes
  <2>2. FrameInv(f)
    BY <1>1, <2>1 DEF StackInv
  <2>3. FrameInv(f)'
    BY <2>1, <2>2, FrameStays
  <2>4. i \in Nat /\ Len(stack[l]) \in Nat /\ Len(stack'[l]) \in Nat
    <3>1. DOMAIN stack[l] = 1 .. Len(stack[l]) /\ Len(stack[l]) \in Nat
      BY StackTypes
    <3> QED BY <1>1, <3>1
  <2>5. i < Len(stack'[l]) => i < Len(stack[l])
    BY <1>1, <2>4
  <2> QED BY <1>1, <2>1, <2>3, <2>5 DEF StackInv
<1>3. ASSUME NEW l \in Clients, NEW i \in DOMAIN stack'[l], NEW m \in Clients, NEW j \in DOMAIN stack'[m],
             stack'[m][j].ctx = stack'[l][i].ctx
      PROVE  m = l /\ j = i
  BY <1>1, <1>3, SMTT(40) DEF StackInv
<1> QED BY <1>2, <1>3 DEF StackInv

\* A frame is put on those of k that wait, with an AppContext of its own.
LEMMA StackPushed ==
    ASSUME TypeOK, StackInv, Steady, NEW k \in Clients, NEW n, NEW g \in Frame,
           \A l \in Clients \ {k} : stack'[l] = stack[l],
           DOMAIN stack'[k] = 1 .. Len(stack[k]) + 1, Len(stack'[k]) = Len(stack[k]) + 1,
           stack'[k][Len(stack[k]) + 1] = g,
           \A i \in DOMAIN stack[k] :
               stack'[k][i] \in {stack[k][i], [stack[k][i] EXCEPT !.next = n]} /\ stack[k][i].pc = "update",
           FrameInv(g)', g.ctx \notin Contexts, \A c \in Contexts : context'[c] = context[c]
    PROVE  StackInv'
<1> DEFINE N == Len(stack[k]) + 1
<1>1. N \in Nat /\ N > Len(stack[k]) /\ DOMAIN stack[k] = 1 .. Len(stack[k]) /\ Len(stack[k]) = N - 1
  BY StackTypes
<1>2. stack'[k][N] = g /\ DOMAIN stack'[k] = 1 .. N /\ Len(stack'[k]) = N
  OBVIOUS
<1> HIDE DEF N
<1>3. ASSUME NEW l \in Clients, NEW i \in DOMAIN stack'[l], l # k \/ i # N
      PROVE  i \in DOMAIN stack[l]
  <2>1. CASE l = k
    BY <1>1, <1>2, <1>3, <2>1
  <2>2. CASE l # k
    BY <2>2
  <2> QED BY <2>1, <2>2
<1>4. ASSUME NEW l \in Clients, NEW i \in DOMAIN stack'[l], l # k \/ i # N
      PROVE  /\ stack'[l][i].ctx = stack[l][i].ctx /\ stack[l][i].ctx \in Contexts
             /\ FrameInv(stack[l][i])'
             /\ stack'[l][i].pc = stack[l][i].pc
  <2>1. PICK f \in Frame : f = stack[l][i] /\ i \in DOMAIN stack[l]
    BY <1>3, <1>4, StackTypes
  <2>2. FrameInv(f) /\ f.ctx \in Contexts
    BY <2>1 DEF StackInv, FrameInv
  <2>3. stack'[l][i] \in {f, [f EXCEPT !.next = n]}
    BY <2>1
  <2>4. PICK h : h = stack'[l][i] /\ h.ctx = f.ctx /\ h.pc = f.pc /\ FrameInv(h)
    BY <2>2, <2>3, NextIgnored DEF Frame
  <2>5. FrameInv(f)' /\ (h = f \/ h = [f EXCEPT !.next = n])
    BY <2>2, <2>3, <2>4, FrameStays
  <2>6. FrameInv(h)'
    <3>1. /\ h.op = f.op /\ h.dig = f.dig /\ h.ctx = f.ctx /\ h.source = f.source
          /\ h.pc = f.pc /\ h.app = f.app
      BY <2>5 DEF Frame
    <3> QED BY <2>5, <3>1 DEF FrameInv, PlaceInv
  <2> QED BY <2>1, <2>2, <2>4, <2>6
<1>5. ASSUME NEW l \in Clients, NEW i \in DOMAIN stack'[l]
      PROVE  FrameInv(stack[l][i])' /\ (i < Len(stack'[l]) => stack'[l][i].pc = "update")
  <2>1. CASE l = k /\ i = N
    BY <1>2, <2>1
  <2>2. CASE l = k /\ i # N
    <3>1. i \in DOMAIN stack[k]
      BY <1>3, <2>2
    <3> QED BY <1>4, <2>2, <3>1
  <2>3. CASE l # k
    <3>1. i \in DOMAIN stack[l] /\ stack'[l] = stack[l]
      BY <1>3, <2>3
    <3> QED BY <1>4, <2>3, <3>1 DEF StackInv
  <2> QED BY <2>1, <2>2, <2>3
<1>6. ASSUME NEW l \in Clients, NEW i \in DOMAIN stack'[l], NEW m \in Clients, NEW j \in DOMAIN stack'[m],
             stack'[m][j].ctx = stack'[l][i].ctx
      PROVE  m = l /\ j = i
  <2>1. CASE l = k /\ i = N
    BY <1>2, <1>4, <1>6, <2>1
  <2>2. CASE m = k /\ j = N
    BY <1>2, <1>4, <1>6, <2>2
  <2>3. CASE ~(l = k /\ i = N) /\ ~(m = k /\ j = N)
    BY <1>3, <1>4, <1>6, <2>3 DEF StackInv
  <2> QED BY <2>1, <2>2, <2>3
<1> QED BY <1>5, <1>6 DEF StackInv

-------------------------------------------------------------------------------
(* An operation makes an AppContext.                                       *)

\* A new AppContext, and the frame of its operation.
LEMMA MakesIs ==
    ASSUME TypeOK, ContextInv, RecordInv, NEW op \in OperationKinds, NEW d \in Digs,
           op = "Instantiate" <=> record[d] = 0, Makes(op, d)
    PROVE  /\ Steady /\ ContextInv' /\ context' \in Seq(AppContext)
           /\ Len(context') = Len(context) + 1
           /\ \A c \in Contexts : context'[c] = context[c]
           /\ Contexts' = Contexts \cup {Len(context) + 1} /\ Len(context) + 1 \notin Contexts
           /\ \A c \in Contexts' : Handed(c)' => c \in Contexts
           /\ NewFrame(op, d) \in Frame /\ NewFrame(op, d).ctx = Len(context) + 1
           /\ \A g \in Frame : g = NewFrame(op, d) => FrameInv(g)'
<1> DEFINE con == [dig |-> d, status |-> "Created", calls |-> <<>>,
                   tree |-> [a \in Apps |-> IF a \in AppSet(d) THEN Candidates[a] ELSE {}]]
<1>0. PICK n : n = Len(context) + 1
  OBVIOUS
<1>1. con \in AppContext
  <2>1. con.tree \in [Apps -> SUBSET Clusters]
    BY AppAssumption
  <2>2. <<>> \in Seq(Call)
    BY EmptySeq
  <2> QED BY <2>1, <2>2 DEF AppContext, Statuses
<1>2. con.dig = d /\ con.status = "Created" /\ con.calls = <<>> /\ \A a \in AppSet(d) : con.tree[a] = Candidates[a]
  BY Types
<1>3. context' = Append(context, con)
  BY DEF Makes
<1> HIDE DEF con
<1>4. /\ context' \in Seq(AppContext) /\ Len(context') = n
      /\ \A c \in 1 .. Len(context) : context'[c] = context[c]
      /\ context'[n] = con
  BY <1>0, <1>1, <1>3, AppendProperties DEF TypeOK
<1>5. Len(context) \in Nat /\ Contexts = 1 .. Len(context)
  BY Types
<1>6. Contexts' = 1 .. n
  BY <1>4, LenProperties DEF Contexts
<1>7. Contexts' = Contexts \cup {n} /\ n \notin Contexts /\ \A c \in Contexts : context'[c] = context[c]
  BY <1>0, <1>4, <1>5, <1>6
<1>8. Steady
  BY <1>7 DEF Steady, Handed
<1>9. ~Handed(n)' /\ n \in Contexts' /\ context'[n] = con
  BY <1>2, <1>4, <1>7 DEF Handed
<1>10. ContextOk(n)'
  BY <1>2, <1>9, EmptySeq DEF ContextOk, AppsIn
<1>11. ContextInv'
  BY <1>7, <1>8, <1>10, ContextStays DEF ContextInv
<1>12. NewFrame(op, d) \in Frame /\ NewFrame(op, d).ctx = n
  BY <1>0, <1>5, Types DEF NewFrame, Frame
<1>13. ASSUME NEW g \in Frame, g = NewFrame(op, d) PROVE FrameInv(g)'
  <2>1. g.ctx = n /\ g.dig = d /\ g.op = op /\ g.source = record[d] /\ g.pc = "filter"
    BY <1>0, <1>13 DEF NewFrame
  <2>2. PICK r : r = record[d]
    OBVIOUS
  <2>3. r # 0 => Serving(r, d)'
    BY <1>8, <2>2, ServingStays DEF RecordInv
  <2> QED BY <1>2, <1>9, <2>1, <2>2, <2>3 DEF FrameInv, PlaceInv, OperationKinds
<1>14. \A c \in Contexts' : Handed(c)' => c \in Contexts
  BY <1>7, <1>9
<1> QED BY <1>0, <1>4, <1>7, <1>8, <1>11, <1>12, <1>13, <1>14

\* The record stays, and what it names.
LEMMA RecordStays ==
    ASSUME Steady, RecordInv, record' = record
    PROVE  RecordInv'
<1> SUFFICES ASSUME NEW d \in Digs, record[d] # 0 PROVE Serving(record[d], d)'
  BY DEF RecordInv
<1>1. PICK r : r = record[d] /\ Serving(r, d)
  BY DEF RecordInv
<1>2. Serving(r, d)'
  BY <1>1, ServingStays
<1> QED BY <1>1, <1>2

\* What handlers have read stays, and what they rely on, while none at the placement
\* controller is moved.
LEMMA PinStays ==
    ASSUME PinInv, UNCHANGED <<intents, reading>>,
           \A l \in Clients : stack'[l] = stack[l] \/ ~At(l, "filter")
    PROVE  PinInv'
<1> SUFFICES ASSUME OneHandler
             PROVE  /\ \A d \in Digs : selected'[d] => HoldsCandidates(d)'
                    /\ \A k \in Clients : ReadInv(k)'
  BY DEF PinInv, OneHandler
<1>1. /\ \A d \in Digs : selected[d] => HoldsCandidates(d)
      /\ \A k \in Clients : ReadInv(k)
  BY DEF PinInv
<1>2. \A d : HoldsCandidates(d)' <=> HoldsCandidates(d)
  BY DEF HoldsCandidates, intents
<1>3. selected' = selected /\ reading' = reading
  BY DEF intents
<1>4. ASSUME NEW k \in Clients PROVE ReadInv(k)'
  <2>1. CASE stack'[k] = stack[k]
    <3>1. PICK d : d = Top(k).dig /\ d = Top(k)'.dig
      BY <2>1 DEF Top
    <3>2. HoldsCandidates(d)' <=> HoldsCandidates(d)
      BY <1>2
    <3>3. At(k, "filter")' <=> At(k, "filter")
      BY <2>1 DEF At, Top
    <3> QED BY <1>1, <1>3, <3>1, <3>2, <3>3 DEF ReadInv, HoldsCandidates
  <2>2. CASE ~At(k, "filter")
    <3>1. reading'[k].step = "flag"
      BY <1>1, <1>3, <2>2 DEF ReadInv
    <3> QED BY <3>1 DEF ReadInv
  <2> QED BY <2>1, <2>2
<1> QED BY <1>1, <1>2, <1>3, <1>4

\* A client starts an operation.
LEMMA StartsKeeps ==
    ASSUME IInv, NEW k \in Clients, NEW d \in Digs, Starts(k, d)
    PROVE  IInv' /\ Steady
<1>0. PICK op, g : op = (IF record[d] = 0 THEN "Instantiate" ELSE "Update") /\ g = NewFrame(op, d)
  OBVIOUS
<1>1. op \in OperationKinds /\ (op = "Instantiate" <=> record[d] = 0) /\ Makes(op, d)
  BY <1>0 DEF Starts, OperationKinds
<1>2. TypeOK /\ ContextInv /\ RecordInv /\ StackInv /\ PinInv
  BY DEF IInv
<1>3. /\ Steady /\ ContextInv' /\ context' \in Seq(AppContext) /\ Len(context') = Len(context) + 1
      /\ \A c \in Contexts : context'[c] = context[c]
      /\ g \in Frame /\ g.ctx \notin Contexts
      /\ FrameInv(g)'
  BY <1>0, <1>1, <1>2, MakesIs
<1>4. stack[k] = <<>> /\ stack' = [stack EXCEPT ![k] = <<g>>]
  BY <1>0 DEF Starts
<1>5. /\ <<g>> \in Seq(Frame) /\ Len(<<g>>) = 1 /\ DOMAIN <<g>> = 1 .. 1 /\ <<g>>[1] = g
      /\ Len(stack[k]) = 0 /\ DOMAIN stack[k] = {}
  BY <1>3, <1>4
<1>6. stack' \in [Clients -> Seq(Frame)] /\ stack'[k] = <<g>> /\ \A l \in Clients \ {k} : stack'[l] = stack[l]
  BY <1>2, <1>4, <1>5 DEF TypeOK
<1>7. StackInv'
  <2>1. /\ DOMAIN stack'[k] = 1 .. Len(stack[k]) + 1 /\ Len(stack'[k]) = Len(stack[k]) + 1
        /\ stack'[k][Len(stack[k]) + 1] = g
    BY <1>5, <1>6
  <2>2. \A i \in DOMAIN stack[k] :
            stack'[k][i] \in {stack[k][i], [stack[k][i] EXCEPT !.next = 0]} /\ stack[k][i].pc = "update"
    BY <1>5
  <2> QED BY <1>2, <1>3, <1>6, <2>1, <2>2, StackPushed
<1>8. UNCHANGED <<deployed, record, intents, reading>>
  BY DEF Starts
<1>9. TypeOK'
  <2>1. record' \in [Digs -> 0 .. Len(context')]
    <3>1. Len(context) \in Nat
      BY <1>2, Types
    <3> QED BY <1>2, <1>3, <1>8, <3>1 DEF TypeOK
  <2> QED BY <1>2, <1>3, <1>6, <1>8, <2>1 DEF TypeOK, deployed, intents
<1>10. RecordInv' /\ PinInv'
  <2>1. \A l \in Clients : stack'[l] = stack[l] \/ ~At(l, "filter")
    BY <1>4, <1>6 DEF At
  <2> QED BY <1>2, <1>3, <1>8, <2>1, RecordStays, PinStays
<1> QED BY <1>3, <1>7, <1>9, <1>10 DEF IInv

\* The scheduler starts the Update of a DIG that is selected, and waits for it.
LEMMA UpdateSelectedIs ==
    ASSUME IInv, NEW k \in Clients, UpdateSelected(k), ~Fails(k)
    PROVE  \E n \in Nat, d \in Digs, g \in Frame :
              /\ selected[d] /\ record[d] # 0 /\ Makes("Update", d) /\ g = NewFrame("Update", d)
              /\ stack' \in [Clients -> Seq(Frame)] /\ \A l \in Clients \ {k} : stack'[l] = stack[l]
              /\ Len(stack'[k]) = Len(stack[k]) + 1 /\ DOMAIN stack'[k] = 1 .. Len(stack[k]) + 1
              /\ stack'[k][Len(stack[k]) + 1] = g
              /\ \A j \in DOMAIN stack[k] :
                    stack'[k][j] \in {stack[k][j], [stack[k][j] EXCEPT !.next = n]} /\ stack[k][j].pc = "update"
              /\ UNCHANGED <<deployed, record, intents, reading>>
<1>0. PICK i, d, f, g : /\ i = Least(ToUpdate(k)) /\ d = DigOrder[i]
                        /\ f = [Top(k) EXCEPT !.next = i + 1] /\ g = NewFrame("Update", d)
  OBVIOUS
<1> DEFINE s == stack[k]
<1>1. TypeOK /\ ContextInv /\ RecordInv /\ StackInv /\ PinInv
  BY DEF IInv
<1>2. i \in ToUpdate(k) /\ i \in Nat /\ d \in Digs /\ selected[d]
  <2>1. DOMAIN DigOrder = 1 .. Len(DigOrder) /\ Len(DigOrder) \in Nat /\ \A j \in DOMAIN DigOrder : DigOrder[j] \in Digs
    BY DigAssumption, LenProperties, ElementOfSeq
  <2>2. ToUpdate(k) \in SUBSET Nat /\ ToUpdate(k) # {}
    BY <2>1 DEF UpdateSelected, ToUpdate
  <2>3. i \in ToUpdate(k)
    BY <1>0, <2>2, LeastIs
  <2> QED BY <1>0, <2>1, <2>3 DEF ToUpdate
<1>3. /\ s # <<>> /\ Top(k).pc = "update" /\ record[d] # 0 /\ Makes("Update", d)
      /\ stack' = [stack EXCEPT ![k] = Append(Append(Front(s), f), g)]
      /\ UNCHANGED <<deployed, record, intents, reading>>
  BY <1>0 DEF UpdateSelected, At
<1>4. /\ s \in Seq(Frame) /\ Len(s) \in Nat /\ Len(s) >= 1 /\ DOMAIN s = 1 .. Len(s)
      /\ Top(k) = s[Len(s)] /\ Top(k) \in Frame
      /\ Front(s) \in Seq(Frame) /\ Len(Front(s)) = Len(s) - 1
      /\ \A j \in 1 .. Len(s) - 1 : Front(s)[j] = s[j]
  BY <1>1, <1>3, StackTypes
<1>5. f \in Frame
  <2>1. PICK t \in Frame : t = Top(k)
    BY <1>4
  <2>2. f = [t EXCEPT !.next = i + 1] /\ i + 1 \in Nat
    BY <1>0, <1>2, <2>1
  <2> QED BY <2>2 DEF Frame
<1>6. g \in Frame
  <2>1. "Update" \in OperationKinds
    BY DEF OperationKinds
  <2> QED BY <1>0, <1>1, <1>2, <1>3, <2>1, MakesIs
<1> DEFINE F == Append(Front(s), f)
           G == Append(F, g)
<1>7. /\ F \in Seq(Frame) /\ Len(F) = Len(s) /\ F[Len(s)] = f
      /\ \A j \in 1 .. Len(s) - 1 : F[j] = s[j]
  <2>1. /\ F \in Seq(Frame) /\ Len(F) = Len(Front(s)) + 1 /\ F[Len(Front(s)) + 1] = f
        /\ \A j \in 1 .. Len(Front(s)) : F[j] = Front(s)[j]
    BY <1>4, <1>5, AppendProperties
  <2> QED BY <1>4, <2>1
<1> HIDE DEF F
<1>8. /\ G \in Seq(Frame) /\ Len(G) = Len(s) + 1 /\ G[Len(s) + 1] = g
      /\ \A j \in 1 .. Len(s) : G[j] = F[j]
  BY <1>6, <1>7, AppendProperties
<1>9. DOMAIN G = 1 .. Len(s) + 1
  BY <1>8, LenProperties
<1>10. stack' = [stack EXCEPT ![k] = G] /\ stack \in [Clients -> Seq(Frame)]
  BY <1>1, <1>3 DEF G, F, TypeOK
<1> HIDE DEF G
<1>11. stack' \in [Clients -> Seq(Frame)] /\ stack'[k] = G /\ \A l \in Clients \ {k} : stack'[l] = stack[l]
  BY <1>8, <1>10
<1>12. ASSUME NEW j \in DOMAIN s PROVE G[j] \in {s[j], [s[j] EXCEPT !.next = i + 1]} /\ s[j].pc = "update"
  <2>1. CASE j = Len(s)
    BY <1>0, <1>3, <1>4, <1>7, <1>8, <2>1
  <2>2. CASE j # Len(s)
    <3>1. j \in 1 .. Len(s) - 1 /\ j \in 1 .. Len(s) /\ j < Len(s)
      BY <1>4, <2>2
    <3>2. s[j].pc = "update"
      BY <1>1, <3>1 DEF StackInv
    <3> QED BY <1>7, <1>8, <3>1, <3>2
  <2> QED BY <2>1, <2>2
<1>13. i + 1 \in Nat
  BY <1>2
<1> QED BY <1>0, <1>2, <1>3, <1>6, <1>8, <1>9, <1>11, <1>12, <1>13

\* The scheduler has DIGs updated.
LEMMA UpdateSelectedKeeps ==
    ASSUME IInv, NEW k \in Clients, UpdateSelected(k), ~Fails(k)
    PROVE  IInv' /\ Steady
<1>1. TypeOK /\ ContextInv /\ RecordInv /\ StackInv /\ PinInv
  BY DEF IInv
<1>2. PICK n \in Nat, d \in Digs, g \in Frame :
          /\ record[d] # 0 /\ Makes("Update", d) /\ g = NewFrame("Update", d)
          /\ stack' \in [Clients -> Seq(Frame)] /\ \A l \in Clients \ {k} : stack'[l] = stack[l]
          /\ Len(stack'[k]) = Len(stack[k]) + 1 /\ DOMAIN stack'[k] = 1 .. Len(stack[k]) + 1
          /\ stack'[k][Len(stack[k]) + 1] = g
          /\ \A j \in DOMAIN stack[k] :
                stack'[k][j] \in {stack[k][j], [stack[k][j] EXCEPT !.next = n]} /\ stack[k][j].pc = "update"
          /\ UNCHANGED <<deployed, record, intents, reading>>
  BY UpdateSelectedIs
<1>3. /\ Steady /\ ContextInv' /\ context' \in Seq(AppContext) /\ Len(context') = Len(context) + 1
      /\ \A c \in Contexts : context'[c] = context[c]
      /\ g.ctx \notin Contexts /\ FrameInv(g)'
  <2>1. "Update" \in OperationKinds
    BY DEF OperationKinds
  <2> QED BY <1>1, <1>2, <2>1, MakesIs
<1>4. StackInv'
  BY <1>1, <1>2, <1>3, StackPushed
<1>5. TypeOK'
  <2>1. record' \in [Digs -> 0 .. Len(context')]
    <3>1. Len(context) \in Nat
      BY <1>1, Types
    <3> QED BY <1>1, <1>2, <1>3, <3>1 DEF TypeOK
  <2> QED BY <1>1, <1>2, <1>3, <2>1 DEF TypeOK, deployed, intents
<1>6. RecordInv' /\ PinInv'
  <2>1. \A l \in Clients : stack'[l] = stack[l] \/ ~At(l, "filter")
    BY <1>2 DEF UpdateSelected, At
  <2> QED BY <1>1, <1>2, <1>3, <2>1, RecordStays, PinStays
<1> QED BY <1>3, <1>4, <1>5, <1>6 DEF IInv

-------------------------------------------------------------------------------
(* The controllers.                                                        *)

\* The frame a handler works on.
LEMMA AtWork ==
    ASSUME TypeOK, StackInv, NEW k \in Clients, stack[k] # <<>>
    PROVE  /\ Top(k) \in Frame /\ FrameInv(Top(k)) /\ Top(k) = stack[k][Len(stack[k])]
           /\ Len(stack[k]) \in DOMAIN stack[k]
           /\ Top(k).ctx \in Contexts /\ Top(k).dig \in Digs
           /\ Top(k).pc # "record" => ~Handed(Top(k).ctx)
<1>1. Len(stack[k]) \in DOMAIN stack[k] /\ Top(k) = stack[k][Len(stack[k])] /\ Top(k) \in Frame
  BY StackTypes
<1>2. FrameInv(Top(k))
  BY <1>1 DEF StackInv
<1> QED BY <1>1, <1>2 DEF FrameInv, Frame

\* An operation that fails gives up AppContexts rsync has not seen.
LEMMA FailsKeeps ==
    ASSUME TypeOK, ContextInv, RecordInv, StackInv, NEW k \in Clients, stack[k] # <<>>,
           Top(k).pc # "record", Fails(k), record' = record
    PROVE  /\ Steady /\ ContextInv' /\ RecordInv' /\ StackInv'
           /\ context' \in Seq(AppContext) /\ Len(context') = Len(context)
           /\ stack' \in [Clients -> Seq(Frame)]
           /\ stack'[k] = <<>> /\ \A l \in Clients \ {k} : stack'[l] = stack[l]
           /\ \A c \in Contexts : Handed(c)' <=> Handed(c)
           /\ Contexts' = Contexts
<1> DEFINE made(c) == \E i \in DOMAIN stack[k] : stack[k][i].ctx = c
           con(c) == IF made(c) THEN [context[c] EXCEPT !.status = "Deleted"] ELSE context[c]
<1>1. context' = [c \in Contexts |-> con(c)]
  BY DEF Fails
<1>2. stack' \in [Clients -> Seq(Frame)] /\ stack'[k] = <<>> /\ \A l \in Clients \ {k} : stack'[l] = stack[l]
  BY EmptySeq DEF Fails, TypeOK
<1>3. \A c \in Contexts : con(c) \in AppContext
  <2> SUFFICES ASSUME NEW c \in Contexts PROVE con(c) \in AppContext
    OBVIOUS
  <2>1. context[c] \in AppContext
    BY Types
  <2> QED BY <2>1 DEF AppContext, Statuses
<1>4. \A c \in Contexts : made(c) => context[c].calls = <<>> /\ context[c].status \in {"Created", "Deleted"}
  <2> SUFFICES ASSUME NEW i \in DOMAIN stack[k] PROVE ~Handed(stack[k][i].ctx)
    BY DEF Handed
  <2>1. DOMAIN stack[k] = 1 .. Len(stack[k]) /\ Len(stack[k]) \in Nat /\ Top(k) = stack[k][Len(stack[k])]
    BY StackTypes
  <2>2. i < Len(stack[k]) \/ i = Len(stack[k])
    BY <2>1
  <2>3. stack[k][i].pc # "record" /\ FrameInv(stack[k][i])
    BY <2>1, <2>2 DEF StackInv
  <2> QED BY <2>3 DEF FrameInv
<1>5. Len(context) \in Nat /\ Contexts = 1 .. Len(context)
  BY Types
<1>6. \A c \in Contexts : /\ con(c).dig = context[c].dig /\ con(c).tree = context[c].tree
                          /\ con(c).calls = context[c].calls
                          /\ made(c) => con(c).status = "Deleted"
                          /\ ~made(c) => con(c) = context[c]
  <2> SUFFICES ASSUME NEW c \in Contexts
               PROVE  /\ con(c).dig = context[c].dig /\ con(c).tree = context[c].tree
                      /\ con(c).calls = context[c].calls
                      /\ made(c) => con(c).status = "Deleted"
                      /\ ~made(c) => con(c) = context[c]
    OBVIOUS
  <2>1. context[c] \in AppContext
    BY Types
  <2> QED BY <2>1 DEF AppContext
<1>7. \A l \in Clients : \A i \in DOMAIN stack'[l] : ~made(stack[l][i].ctx) /\ stack[l][i].ctx \in Contexts
  <2> SUFFICES ASSUME NEW l \in Clients, NEW i \in DOMAIN stack'[l]
               PROVE  ~made(stack[l][i].ctx) /\ stack[l][i].ctx \in Contexts
    OBVIOUS
  <2>1. l # k /\ i \in DOMAIN stack[l]
    BY <1>2
  <2> QED BY <2>1 DEF StackInv, FrameInv
<1> HIDE DEF con, made
<1>8. context' \in Seq(AppContext) /\ Len(context') = Len(context) /\ Contexts' = Contexts
  <2>1. context' \in [1 .. Len(context) -> AppContext]
    BY <1>1, <1>3, <1>5
  <2>2. context' \in Seq(AppContext)
    BY <1>5, <2>1
  <2> QED BY <1>5, <2>1, <2>2, LenProperties DEF Contexts
<1>9. \A c \in Contexts : context'[c] = con(c)
  BY <1>1
<1>10. \A c \in Contexts : Handed(c)' <=> Handed(c)
  BY <1>4, <1>6, <1>9 DEF Handed
<1>11. Steady
  BY <1>6, <1>8, <1>9, <1>10 DEF Steady
<1>12. ContextInv'
  <2> SUFFICES ASSUME NEW c \in Contexts PROVE ContextOk(c)'
    BY <1>8 DEF ContextInv
  <2>1. CASE made(c)
    <3>1. ~Handed(c)' /\ DOMAIN context'[c].calls = {}
      BY <1>4, <1>6, <1>9, <2>1 DEF Handed
    <3> QED BY <1>6, <1>9, <3>1 DEF ContextOk, AppsIn, ContextInv
  <2>2. CASE ~made(c)
    BY <1>6, <1>9, <1>11, <2>2, ContextStays DEF ContextInv
  <2> QED BY <2>1, <2>2
<1>13. StackInv'
  <2>1. \A l \in Clients : \A i \in DOMAIN stack'[l] : context'[stack[l][i].ctx] = context[stack[l][i].ctx]
    BY <1>6, <1>7, <1>9
  <2>2. Len(stack[k]) \in Nat
    BY StackTypes
  <2>3. 0 \in 0 .. Len(stack[k]) /\ DOMAIN stack'[k] = 1 .. 0 /\ Len(stack'[k]) = 0
    BY <1>2, <2>2, EmptySeq
  <2> QED BY <1>2, <1>11, <2>1, <2>3, StackCut
<1> QED BY <1>2, <1>8, <1>10, <1>11, <1>12, <1>13, RecordStays

\* The handler reads and resets the intents of its DIG.
ReadsIntents(k) == ReadFlag(k) \/ ResetFlag(k) \/ ReadIntents(k) \/ ResetApp(k)

\* The app that is reset next.
LEMMA NextReset ==
    ASSUME NEW d \in Digs, NEW S, S # {}, S \subseteq AppSet(d)
    PROVE  AppsOf[d][Least({i \in DOMAIN AppsOf[d] : AppsOf[d][i] \in S})] \in S
<1> DEFINE apps == AppsOf[d]
           I == {i \in DOMAIN apps : apps[i] \in S}
<1>1. DOMAIN apps \in SUBSET Nat
  <2>1. apps \in Seq(Apps)
    BY DigAssumption
  <2> QED BY <2>1, LenProperties
<1>2. I \in SUBSET Nat /\ I # {}
  BY <1>1 DEF AppSet, ToSet
<1>3. Least(I) \in I
  BY <1>2, LeastIs
<1> QED BY <1>3

\* A handler that has read nothing is about to read.
LEMMA NoReadingIs ==
    NoReading \in Reading /\ NoReading.step = "flag"
<1>1. [a \in Apps |-> None] \in [Apps -> Clusters \cup {None}]
  OBVIOUS
<1> QED BY <1>1 DEF NoReading, Reading

\* What a handler has read after a step.
LEMMA ReadingIs ==
    ASSUME TypeOK, NEW k \in Clients, ReadsIntents(k)
    PROVE  /\ reading' \in [Clients -> Reading]
           /\ \A l \in Clients \ {k} : reading'[l] = reading[l]
           /\ ReadFlag(k) => /\ reading'[k].moves = selected[Top(k).dig]
                             /\ reading'[k].step = IF selected[Top(k).dig] THEN "reset" ELSE "judge"
           /\ ResetFlag(k) => /\ reading'[k].moves = reading[k].moves
                              /\ reading'[k].step = "intents"
           /\ ReadIntents(k) => /\ reading'[k].moves = reading[k].moves
                                /\ reading'[k].moving = leaving \cap AppSet(Top(k).dig)
                                /\ reading'[k].toReset = leaving \cap AppSet(Top(k).dig)
                                /\ reading'[k].at = deployedAt
                                /\ reading'[k].step = AfterReset(leaving \cap AppSet(Top(k).dig))
           /\ ResetApp(k) => /\ reading'[k].moves = reading[k].moves
                             /\ reading'[k].moving = reading[k].moving
                             /\ reading'[k].at = reading[k].at
                             /\ reading'[k].toReset \subseteq reading[k].toReset
                             /\ reading'[k].step = AfterReset(reading'[k].toReset)
<1> DEFINE d == Top(k).dig
           r == reading[k]
<1>1. r \in Reading /\ reading \in [Clients -> Reading] /\ leaving \subseteq Apps
      /\ deployedAt \in [Apps -> Clusters \cup {None}]
  BY DEF TypeOK
<1>2. ASSUME NEW new \in Reading, reading' = [reading EXCEPT ![k] = new]
      PROVE  /\ reading' \in [Clients -> Reading] /\ reading'[k] = new
             /\ \A l \in Clients \ {k} : reading'[l] = reading[l]
  BY <1>1, <1>2
<1>3. CASE ReadFlag(k)
  <2>1. PICK m \in BOOLEAN : m = (d \in Digs /\ selected[d])
    OBVIOUS
  <2>2. d \in Digs /\ m = selected[d]
    <3>1. Top(k) \in Frame
      BY <1>3, StackTypes DEF ReadFlag, Reads, At
    <3> QED BY <2>1, <3>1 DEF Frame, TypeOK
  <2> DEFINE new == [r EXCEPT !.moves = m, !.step = IF m THEN "reset" ELSE "judge"]
  <2>3. new \in Reading /\ new.moves = m /\ new.step = IF m THEN "reset" ELSE "judge"
    BY <1>1 DEF Reading
  <2>4. reading' = [reading EXCEPT ![k] = new]
    BY <1>3, <2>2 DEF ReadFlag
  <2> HIDE DEF new
  <2>5. ~ResetFlag(k) /\ ~ReadIntents(k) /\ ~ResetApp(k)
    BY <1>3 DEF ReadFlag, ResetFlag, ReadIntents, ResetApp, Reads
  <2> QED BY <1>2, <2>2, <2>3, <2>4, <2>5
<1>4. CASE ResetFlag(k)
  <2> DEFINE new == [r EXCEPT !.step = "intents"]
  <2>1. new \in Reading /\ new.moves = r.moves /\ new.step = "intents"
    BY <1>1 DEF Reading
  <2>2. reading' = [reading EXCEPT ![k] = new]
    BY <1>1, <1>4 DEF ResetFlag
  <2> HIDE DEF new
  <2>3. ~ReadFlag(k) /\ ~ReadIntents(k) /\ ~ResetApp(k)
    BY <1>4 DEF ReadFlag, ResetFlag, ReadIntents, ResetApp, Reads
  <2> QED BY <1>2, <2>1, <2>2, <2>3
<1>5. CASE ReadIntents(k)
  <2>1. PICK S \in SUBSET Apps : S = leaving \cap AppSet(d)
    BY <1>1
  <2>2. AfterReset(S) \in {"apps", "judge"}
    BY DEF AfterReset
  <2> DEFINE step == AfterReset(S)
             new == [r EXCEPT !.moving = S, !.toReset = S, !.at = deployedAt, !.step = step]
  <2>3. step \in {"apps", "judge"}
    BY <2>2
  <2>4. reading' = [reading EXCEPT ![k] = new]
    BY <1>5, <2>1 DEF ReadIntents
  <2> HIDE DEF step
  <2>5. /\ new \in Reading /\ new.moves = r.moves /\ new.moving = S /\ new.toReset = S
        /\ new.at = deployedAt /\ new.step = step
    BY <1>1, <2>3 DEF Reading
  <2> HIDE DEF new
  <2>6. ~ReadFlag(k) /\ ~ResetFlag(k) /\ ~ResetApp(k)
    BY <1>5 DEF ReadFlag, ResetFlag, ReadIntents, ResetApp, Reads
  <2> QED BY <1>2, <2>1, <2>4, <2>5, <2>6 DEF step
<1>6. CASE ResetApp(k)
  <2>1. PICK a : reading' = [reading EXCEPT ![k] =
                    [@ EXCEPT !.toReset = r.toReset \ {a}, !.step = AfterReset(r.toReset \ {a})]]
    BY <1>6 DEF ResetApp
  <2>2. PICK S \in SUBSET Apps : S = r.toReset \ {a} /\ S \subseteq r.toReset
    <3>1. r.toReset \in SUBSET Apps
      BY <1>1 DEF Reading
    <3> QED BY <3>1
  <2> DEFINE step == AfterReset(S)
             new == [r EXCEPT !.toReset = S, !.step = step]
  <2>3. step \in {"apps", "judge"}
    BY DEF AfterReset
  <2>4. reading' = [reading EXCEPT ![k] = new]
    BY <2>1, <2>2
  <2> HIDE DEF step
  <2>5. /\ new \in Reading /\ new.moves = r.moves /\ new.moving = r.moving /\ new.toReset = S
        /\ new.at = r.at /\ new.step = step
    BY <1>1, <2>3 DEF Reading
  <2> HIDE DEF new
  <2>6. ~ReadFlag(k) /\ ~ResetFlag(k) /\ ~ReadIntents(k)
    BY <1>6 DEF ReadFlag, ResetFlag, ReadIntents, ResetApp, Reads
  <2> QED BY <1>2, <2>2, <2>4, <2>5, <2>6 DEF step
<1> QED BY <1>3, <1>4, <1>5, <1>6 DEF ReadsIntents

\* Only the intents of the DIG are reset, once its flag is.
LEMMA ResetIs ==
    ASSUME TypeOK, StackInv, PinInv, NEW k \in Clients, ReadsIntents(k)
    PROVE  /\ stack[k] # <<>> /\ Top(k).pc = "filter" /\ UNCHANGED <<context, deployed, record, stack>>
           /\ Top(k).dig \in Digs
           /\ selected' \in [Digs -> BOOLEAN] /\ leaving' \subseteq leaving
           /\ deployedAt' \in [Apps -> Clusters \cup {None}]
           /\ ~ResetApp(k) => leaving' = leaving /\ deployedAt' = deployedAt
           /\ ResetFlag(k) => ~selected'[Top(k).dig]
           /\ ~ResetFlag(k) => selected' = selected
           /\ OneHandler => \A e \in Digs : selected'[e] =>
                 /\ selected[e] /\ \A a \in AppSet(e) : deployedAt'[a] = deployedAt[a]
                 /\ AppSet(e) \ leaving' \subseteq AppSet(e) \ leaving
<1> DEFINE d == Top(k).dig
<1>1. stack[k] # <<>> /\ Top(k).pc = "filter" /\ UNCHANGED <<context, deployed, record, stack>>
  BY DEF ReadsIntents, ReadFlag, ResetFlag, ReadIntents, ResetApp, Reads, At, intents
<1>2. d \in Digs
  BY <1>1, AtWork
<1>3. CASE ResetFlag(k)
  <2>1. selected' = [selected EXCEPT ![d] = FALSE] /\ UNCHANGED <<leaving, deployedAt>> /\ ~ResetApp(k)
    BY <1>3 DEF ResetFlag, ResetApp, Reads
  <2> QED BY <1>1, <1>2, <1>3, <2>1 DEF TypeOK
<1>4. CASE ReadFlag(k) \/ ReadIntents(k)
  <2>1. UNCHANGED <<selected, leaving, deployedAt>> /\ ~ResetFlag(k) /\ ~ResetApp(k)
    BY <1>4 DEF ReadFlag, ResetFlag, ReadIntents, ResetApp, Reads, intents
  <2> QED BY <1>1, <1>2, <2>1 DEF TypeOK
<1>5. CASE ResetApp(k)
  <2>1. PICK a : /\ a = AppsOf[d][Least({i \in DOMAIN AppsOf[d] : AppsOf[d][i] \in reading[k].toReset})]
                 /\ leaving' = leaving \ {a} /\ deployedAt' = [deployedAt EXCEPT ![a] = None]
                 /\ selected' = selected /\ ~ResetFlag(k) /\ reading[k].step = "apps"
    BY <1>5 DEF ResetApp, ResetFlag, Reads
  <2>2. deployedAt \in [Apps -> Clusters \cup {None}] /\ leaving \subseteq Apps
        /\ selected \in [Digs -> BOOLEAN]
    BY DEF TypeOK
  <2>3. deployedAt' \in [Apps -> Clusters \cup {None}]
    BY <2>1, <2>2
  <2>4. ASSUME OneHandler, NEW e \in Digs, selected[e]
        PROVE  /\ \A b \in AppSet(e) : deployedAt'[b] = deployedAt[b]
               /\ AppSet(e) \ leaving' \subseteq AppSet(e) \ leaving
    <3>1. ~selected[d] /\ reading[k].toReset # {} /\ reading[k].toReset \subseteq AppSet(d)
      BY <2>1, <2>4 DEF PinInv, ReadInv
    <3>2. a \in AppSet(d)
      BY <1>2, <2>1, <3>1, NextReset
    <3>3. a \notin AppSet(e) /\ AppSet(e) \subseteq Apps
      BY <1>2, <2>4, <3>1, <3>2, DigAssumption, Types DEF AppSet
    <3> QED BY <2>1, <2>2, <3>3
  <2>5. OneHandler => \A e \in Digs : selected'[e] =>
            /\ selected[e] /\ \A b \in AppSet(e) : deployedAt'[b] = deployedAt[b]
            /\ AppSet(e) \ leaving' \subseteq AppSet(e) \ leaving
    BY <2>1, <2>4
  <2> QED BY <1>1, <1>2, <1>5, <2>1, <2>2, <2>3, <2>5
<1> QED BY <1>1, <1>2, <1>3, <1>4, <1>5 DEF ReadsIntents

\* Reading and resetting the intents of a DIG.
LEMMA ReadsKeep ==
    ASSUME IInv, NEW k \in Clients, ReadsIntents(k)
    PROVE  IInv' /\ Steady
<1>1. TypeOK /\ ContextInv /\ RecordInv /\ StackInv /\ PinInv
  BY DEF IInv
<1>2. /\ stack[k] # <<>> /\ Top(k).pc = "filter" /\ UNCHANGED <<context, deployed, record, stack>>
      /\ Top(k).dig \in Digs
      /\ selected' \in [Digs -> BOOLEAN] /\ leaving' \subseteq leaving
      /\ deployedAt' \in [Apps -> Clusters \cup {None}]
      /\ ~ResetApp(k) => leaving' = leaving /\ deployedAt' = deployedAt
      /\ ResetFlag(k) => ~selected'[Top(k).dig]
      /\ ~ResetFlag(k) => selected' = selected
      /\ OneHandler => \A e \in Digs : selected'[e] =>
            /\ selected[e] /\ \A a \in AppSet(e) : deployedAt'[a] = deployedAt[a]
            /\ AppSet(e) \ leaving' \subseteq AppSet(e) \ leaving
  BY <1>1, ResetIs
<1>3. Contexts' = Contexts
  BY <1>2 DEF Contexts
<1>4. Steady
  BY <1>2, <1>3 DEF Steady, Handed
<1>5. ContextInv'
  BY <1>1, <1>2, <1>3, <1>4, ContextStays DEF ContextInv
<1>6. StackInv'
  <2>1. ASSUME NEW l \in Clients, NEW i \in DOMAIN stack[l] PROVE FrameInv(stack[l][i])'
    <3>1. PICK f \in Frame : f = stack[l][i] /\ f = stack'[l][i] /\ FrameInv(f)
      BY <1>1, <1>2, StackTypes DEF StackInv
    <3>2. FrameInv(f)'
      BY <1>2, <1>4, <3>1, FrameStays
    <3> QED BY <3>1, <3>2
  <2> QED BY <1>1, <1>2, <2>1 DEF StackInv
<1>7. TypeOK'
  <2>1. reading' \in [Clients -> Reading]
    BY <1>1, ReadingIs
  <2> QED BY <1>1, <1>2, <2>1 DEF TypeOK, deployed
<1>8. ASSUME OneHandler, NEW d \in Digs, selected'[d] PROVE HoldsCandidates(d)'
  BY <1>1, <1>2, <1>8 DEF PinInv, HoldsCandidates
<1>9. ASSUME OneHandler PROVE ReadInv(k)'
  <2> DEFINE new == reading'[k]
  <2>0. PICK d \in Digs : d = Top(k).dig /\ Top(k)'.dig = d /\ At(k, "filter")'
    BY <1>2 DEF Top, At
  <2>1. ReadInv(k) /\ (selected[d] => HoldsCandidates(d))
    BY <1>1, <1>9, <2>0 DEF PinInv
  <2>2. CASE ReadFlag(k)
    <3>0. new.moves = selected[d] /\ new.step = (IF selected[d] THEN "reset" ELSE "judge")
      BY <1>1, <2>0, <2>2, ReadingIs DEF ReadsIntents
    <3>1. /\ new.step \in {"reset", "judge"} /\ ~ResetFlag(k) /\ ~ResetApp(k)
          /\ new.step = "reset" => selected[d]
          /\ new.step = "judge" => ~new.moves
      BY <1>1, <2>0, <2>2, <3>0 DEF TypeOK, ReadFlag, ResetFlag, ResetApp, Reads
    <3>2. new.step = "reset" => HoldsCandidates(d)'
      BY <1>2, <2>1, <3>1 DEF HoldsCandidates
    <3> QED BY <2>0, <3>1, <3>2 DEF ReadInv, HoldsCandidates
  <2>3. CASE ResetFlag(k)
    <3>1. new.step = "intents" /\ ~ResetApp(k) /\ reading[k].step = "reset"
      BY <1>1, <2>3, ReadingIs DEF ReadsIntents, ResetFlag, ResetApp, Reads
    <3>2. HoldsCandidates(d)' /\ ~selected'[d]
      BY <1>2, <2>0, <2>1, <2>3, <3>1 DEF ReadInv, HoldsCandidates
    <3> QED BY <2>0, <3>1, <3>2 DEF ReadInv, HoldsCandidates
  <2>4. CASE ReadIntents(k)
    <3>1. /\ ~ResetApp(k) /\ ~ResetFlag(k) /\ reading[k].step = "intents"
          /\ new.moving = leaving \cap AppSet(d) /\ new.toReset = leaving \cap AppSet(d)
          /\ new.at = deployedAt /\ new.step = AfterReset(leaving \cap AppSet(d))
      BY <1>1, <2>0, <2>4, ReadingIs DEF ReadsIntents, ReadIntents, ResetFlag, ResetApp, Reads
    <3>2. HoldsCandidates(d) /\ ~selected'[d]
      BY <1>2, <2>0, <2>1, <3>1 DEF ReadInv
    <3>3. \A a \in AppSet(d) \ new.moving : new.at[a] \in Candidates[a]
      BY <3>1, <3>2 DEF HoldsCandidates
    <3>4. new.step \in {"apps", "judge"} /\ (new.step = "apps" => new.toReset # {})
      BY <3>1 DEF AfterReset
    <3> QED BY <2>0, <3>1, <3>2, <3>3, <3>4 DEF ReadInv
  <2>5. CASE ResetApp(k)
    <3>1. /\ ~ResetFlag(k) /\ reading[k].step = "apps"
          /\ new.moves = reading[k].moves /\ new.moving = reading[k].moving /\ new.at = reading[k].at
          /\ new.toReset \subseteq reading[k].toReset
          /\ new.step = AfterReset(new.toReset)
      BY <1>1, <2>5, ReadingIs DEF ReadsIntents, ResetFlag, ResetApp, Reads
    <3>2. new.step \in {"apps", "judge"} /\ (new.step = "apps" => new.toReset # {})
      BY <3>1 DEF AfterReset
    <3>3. ~selected'[d] /\ new.toReset \subseteq AppSet(d)
      BY <1>2, <2>0, <2>1, <3>1 DEF ReadInv
    <3>4. new.moves => \A a \in AppSet(d) \ new.moving : new.at[a] \in Candidates[a]
      BY <2>0, <2>1, <3>1 DEF ReadInv
    <3> QED BY <2>0, <3>2, <3>3, <3>4 DEF ReadInv
  <2> QED BY <2>2, <2>3, <2>4, <2>5 DEF ReadsIntents
<1>10. PinInv'
  <2>1. OneHandler => \A l \in Clients : ReadInv(l)'
    <3> SUFFICES ASSUME OneHandler, NEW l \in Clients PROVE ReadInv(l)'
      OBVIOUS
    <3>1. l = k
      BY DEF OneHandler
    <3> QED BY <1>9, <3>1
  <2> QED BY <1>8, <2>1 DEF PinInv, OneHandler
<1> QED BY <1>4, <1>1, <1>2, <1>5, <1>6, <1>7, <1>10, RecordStays DEF IInv

\* The controllers change the clusters of an AppContext rsync has not seen.
LEMMA TreeIs ==
    ASSUME TypeOK, ContextInv, NEW c \in Contexts, ~Handed(c), NEW t \in [Apps -> SUBSET Clusters],
           \A a \in AppsIn(c) : t[a] \subseteq Candidates[a],
           context' = [context EXCEPT ![c].tree = t]
    PROVE  /\ Steady /\ ContextInv' /\ context' \in Seq(AppContext) /\ Len(context') = Len(context)
           /\ Contexts' = Contexts /\ ~Handed(c)'
           /\ context'[c].dig = context[c].dig /\ context'[c].tree = t
           /\ context'[c].status = context[c].status
           /\ \A e \in Contexts \ {c} : context'[e] = context[e]
           /\ \A e \in Contexts : Handed(e)' <=> Handed(e)
<1> DEFINE new == [context[c] EXCEPT !.tree = t]
<1>1. Len(context) \in Nat /\ Contexts = 1 .. Len(context) /\ context[c] \in AppContext
  BY Types
<1>2. new \in AppContext /\ new.dig = context[c].dig /\ new.tree = t /\ new.calls = context[c].calls
      /\ new.status = context[c].status
  BY <1>1 DEF AppContext
<1>3. context' = [context EXCEPT ![c] = new]
  OBVIOUS
<1> HIDE DEF new
<1>4. /\ context' \in Seq(AppContext) /\ Len(context') = Len(context)
      /\ \A e \in 1 .. Len(context) : context'[e] = IF e = c THEN new ELSE context[e]
  <2>1. c \in 1 .. Len(context) /\ context \in Seq(AppContext) /\ new \in AppContext
    BY <1>1, <1>2 DEF TypeOK
  <2>2. /\ [context EXCEPT ![c] = new] \in Seq(AppContext)
        /\ Len([context EXCEPT ![c] = new]) = Len(context)
        /\ \A e \in 1 .. Len(context) : [context EXCEPT ![c] = new][e] = IF e = c THEN new ELSE context[e]
    BY <2>1, ExceptSeq
  <2> QED BY <1>3, <2>2
<1>5. Contexts' = Contexts
  BY <1>1, <1>4, LenProperties DEF Contexts
<1>6. context'[c] = new /\ \A e \in Contexts \ {c} : context'[e] = context[e]
  BY <1>1, <1>4
<1>7. \A e \in Contexts : Handed(e)' <=> Handed(e)
  BY <1>2, <1>6 DEF Handed
<1>8. Steady
  BY <1>2, <1>5, <1>6, <1>7 DEF Steady
<1>9. ContextOk(c)'
  <2>1. context[c].calls = <<>>
    BY DEF Handed
  <2> QED BY <1>2, <1>6, <1>7, <2>1 DEF ContextOk, AppsIn
<1>10. ContextInv'
  BY <1>5, <1>6, <1>8, <1>9, ContextStays DEF ContextInv
<1> QED BY <1>2, <1>4, <1>5, <1>6, <1>7, <1>8, <1>10

\* The filter gives the apps of frame f the clusters t, and goes on with frame g.
Filtered(k, f, t, g) ==
    /\ context' = [context EXCEPT ![f.ctx].tree = t] /\ Goes(k, g)
    /\ g.ctx = f.ctx /\ g.dig = f.dig /\ g.op = f.op /\ g.source = f.source
    /\ g.pc = "deploy" \/ (g.pc = "migrate" /\ g.app \in AppSet(g.dig))
    /\ \A a \in AppSet(g.dig) : /\ t[a] \subseteq Candidates[a]
                                /\ OneHandler => t[a] # {} \/ (g.pc = "migrate" /\ g.app = a)
    /\ reading[k].moves =>
          \A a \in AppSet(g.dig) \ reading[k].moving : t[a] \subseteq {reading[k].at[a]}

\* What the filter leaves: if every app it judges succeeds each has a cluster,
\* otherwise all but the first that fails.
LEMMA FilterIs ==
    ASSUME IInv, NEW k \in Clients, FilterClusters(k), ~Fails(k)
    PROVE  \E t \in [Apps -> SUBSET Clusters], g \in Frame : Filtered(k, Top(k), t, g)
<1> DEFINE frame == Top(k)
           d == frame.dig
           apps == AppsOf[d]
           read == reading[k]
           moves == read.moves
           judged == {i \in DOMAIN apps : moves => apps[i] \in read.moving}
           tree == IF moves THEN Pinned(d, context[frame.ctx].tree, read) ELSE context[frame.ctx].tree
           from(a) == IF moves THEN tree[a] \ {Left(d, judged, read)} ELSE tree[a]
           failing == {i \in judged : ~Succeeds(apps[i], from(apps[i]), Free)}
           seen == {apps[i] : i \in {j \in judged : \A f \in failing : j <= f}}
           t == [a \in Apps |-> IF a \in seen THEN Remaining(a, from(a), Free) ELSE tree[a]]
           g == IF failing = {} THEN [frame EXCEPT !.pc = "deploy"]
                ELSE [frame EXCEPT !.pc = "migrate", !.app = apps[Least(failing)]]
<1>1. /\ stack[k] # <<>> /\ frame.pc = "filter" /\ read.step = "judge"
      /\ context' = [context EXCEPT ![frame.ctx].tree = t] /\ Goes(k, g)
  BY DEF FilterClusters, Reads, At
<1>2. TypeOK /\ ContextInv /\ StackInv /\ PinInv
  BY DEF IInv
<1>3. /\ frame \in Frame /\ FrameInv(frame) /\ frame.ctx \in Contexts /\ d \in Digs
      /\ context[frame.ctx].dig = d /\ AppSet(d) \subseteq Apps
  BY <1>1, <1>2, AtWork, Types DEF FrameInv
<1>4. DOMAIN apps \in SUBSET Nat /\ AppSet(d) = {apps[i] : i \in DOMAIN apps} /\ \A i \in DOMAIN apps : apps[i] \in Apps
  <2>1. apps \in Seq(Apps)
    BY <1>3, DigAssumption
  <2> QED BY <2>1, LenProperties, ElementOfSeq DEF AppSet, ToSet
<1>5. /\ tree \in [Apps -> SUBSET Clusters]
      /\ \A a \in AppSet(d) : (OneHandler => tree[a] # {}) /\ tree[a] \subseteq Candidates[a]
      /\ moves => \A a \in AppSet(d) \ read.moving : tree[a] \subseteq {read.at[a]}
  <2>1. context[frame.ctx].tree \in [Apps -> SUBSET Clusters]
    BY <1>2, <1>3, Types
  <2>2. \A a \in AppSet(d) : context[frame.ctx].tree[a] = Candidates[a] /\ Candidates[a] # {}
    BY <1>1, <1>3, AppAssumption DEF FrameInv, PlaceInv
  <2>3. CASE moves
    <3>1. tree = [a \in Apps |-> IF a \in AppSet(d) \ read.moving THEN context[frame.ctx].tree[a] \cap {read.at[a]}
                                 ELSE context[frame.ctx].tree[a]]
      BY <2>3 DEF Pinned
    <3>2. OneHandler => \A a \in AppSet(d) \ read.moving : read.at[a] \in Candidates[a]
      BY <1>1, <1>2, <2>3 DEF PinInv, ReadInv
    <3> HIDE DEF tree
    <3> QED BY <1>3, <2>1, <2>2, <3>1, <3>2
  <2>4. CASE ~moves
    BY <2>1, <2>2, <2>4
  <2> QED BY <2>3, <2>4
<1> HIDE DEF tree
<1>6. \A a \in Apps : from(a) \in SUBSET Clusters /\ from(a) \subseteq tree[a]
  BY <1>5
<1> HIDE DEF from
<1>7. \A a \in Apps : /\ t[a] = IF a \in seen THEN Remaining(a, from(a), Free) ELSE tree[a]
                      /\ t[a] \subseteq tree[a] /\ t[a] \in SUBSET Clusters
  BY <1>5, <1>6, RemainingIs
<1>8. t \in [Apps -> SUBSET Clusters]
  BY <1>7
<1>9. ASSUME OneHandler, NEW a \in AppSet(d), t[a] = {} PROVE failing # {} /\ a = apps[Least(failing)]
  <2>1. a \in seen
    BY <1>3, <1>5, <1>7, <1>9
  <2>2. PICK j \in judged : a = apps[j] /\ \A f \in failing : j <= f
    BY <2>1
  <2>3. ~Succeeds(a, from(a), Free)
    BY <1>3, <1>6, <1>7, <1>9, <2>1, RemainingIs
  <2>4. j \in failing
    BY <2>2, <2>3
  <2>5. failing \in SUBSET Nat
    BY <1>4
  <2>6. Least(failing) \in failing /\ Least(failing) <= j
    BY <2>4, <2>5, LeastIs, SMTT(40)
  <2>7. Least(failing) = j
    BY <2>2, <2>4, <2>5, <2>6, SMTT(40)
  <2> QED BY <2>2, <2>4, <2>7
<1>10. failing # {} => apps[Least(failing)] \in AppSet(d)
  <2>1. failing \in SUBSET Nat /\ failing \subseteq DOMAIN apps
    BY <1>4
  <2>2. failing # {} => Least(failing) \in failing
    BY <2>1, LeastIs
  <2> QED BY <1>4, <2>1, <2>2
<1> HIDE DEF t, failing, seen, judged
<1>11. /\ g \in Frame /\ g.ctx = frame.ctx /\ g.dig = d /\ g.op = frame.op /\ g.source = frame.source
       /\ failing = {} => g.pc = "deploy"
       /\ failing # {} => g.pc = "migrate" /\ g.app = apps[Least(failing)]
  <2>1. failing # {} => apps[Least(failing)] \in Apps
    BY <1>3, <1>10
  <2> QED BY <1>3, <2>1 DEF Frame
<1> HIDE DEF g
<1>12. \A a \in AppSet(d) : /\ t[a] \subseteq Candidates[a]
                            /\ OneHandler => t[a] # {} \/ (g.pc = "migrate" /\ g.app = a)
                            /\ moves => (a \notin read.moving => t[a] \subseteq {read.at[a]})
  BY <1>3, <1>5, <1>7, <1>9, <1>11
<1>13. Filtered(k, frame, t, g)
  BY <1>1, <1>10, <1>11, <1>12 DEF Filtered
<1> QED BY <1>8, <1>11, <1>13

\* Placement of an operation.
LEMMA FilterKeeps ==
    ASSUME IInv, NEW k \in Clients, FilterClusters(k)
    PROVE  IInv' /\ Steady
<1>1. TypeOK /\ ContextInv /\ RecordInv /\ StackInv /\ PinInv
  BY DEF IInv
<1>2. /\ stack[k] # <<>> /\ Top(k).pc = "filter" /\ UNCHANGED <<deployed, record, intents>>
      /\ reading' = [reading EXCEPT ![k] = NoReading]
  BY DEF FilterClusters, Reads, At
<1>3. PICK f \in Frame : f = Top(k) /\ f.ctx \in Contexts /\ f.dig \in Digs /\ FrameInv(f) /\ ~Handed(f.ctx)
  BY <1>1, <1>2, AtWork
<1>4. Steady /\ ContextInv' /\ RecordInv' /\ StackInv' /\ context' \in Seq(AppContext)
      /\ Len(context') = Len(context) /\ stack' \in [Clients -> Seq(Frame)]
  <2>1. CASE Fails(k)
    BY <1>1, <1>2, <2>1, FailsKeeps
  <2>2. CASE ~Fails(k)
    <3>1. PICK t \in [Apps -> SUBSET Clusters], g \in Frame : Filtered(k, f, t, g)
      BY <1>3, <2>2, FilterIs
    <3>2. \A a \in AppsIn(f.ctx) : t[a] \subseteq Candidates[a]
      BY <1>3, <3>1 DEF AppsIn, FrameInv, Filtered
    <3>3. /\ Steady /\ ContextInv' /\ context' \in Seq(AppContext) /\ Len(context') = Len(context)
          /\ Contexts' = Contexts /\ ~Handed(f.ctx)'
          /\ context'[f.ctx].dig = context[f.ctx].dig /\ context'[f.ctx].tree = t
          /\ context'[f.ctx].status = context[f.ctx].status
          /\ \A e \in Contexts \ {f.ctx} : context'[e] = context[e]
      <4>1. context' = [context EXCEPT ![f.ctx].tree = t]
        BY <3>1 DEF Filtered
      <4>2. PICK c \in Contexts : c = f.ctx
        BY <1>3
      <4> QED BY <1>1, <1>3, <3>2, <4>1, <4>2, TreeIs
    <3>4. FrameInv(g)'
      <4>1. g.source # 0 => Serving(g.source, g.dig)'
        BY <1>3, <3>1, <3>3, ServingStays DEF FrameInv, Filtered
      <4> QED BY <1>3, <3>1, <3>3, <4>1 DEF FrameInv, PlaceInv, Filtered
    <3>5. StackInv' /\ stack' \in [Clients -> Seq(Frame)]
      BY <1>1, <1>2, <1>3, <3>1, <3>3, <3>4, StackReplaced, GoesIs DEF Filtered
    <3> QED BY <1>1, <1>2, <3>3, <3>5, RecordStays
  <2> QED BY <2>1, <2>2
<1>5. reading' \in [Clients -> Reading] /\ reading'[k].step = "flag"
  <2>1. reading \in [Clients -> Reading]
    BY <1>1 DEF TypeOK
  <2> QED BY <1>2, <2>1, NoReadingIs
<1>6. PinInv'
  <2> SUFFICES ASSUME OneHandler
               PROVE  /\ \A d \in Digs : selected'[d] => HoldsCandidates(d)'
                      /\ \A l \in Clients : ReadInv(l)'
    BY DEF PinInv, OneHandler
  <2>1. \A d \in Digs : selected'[d] => HoldsCandidates(d)'
    BY <1>1, <1>2 DEF PinInv, HoldsCandidates, intents
  <2>2. \A l \in Clients : l = k
    BY DEF OneHandler
  <2>3. ReadInv(k)'
    BY <1>5 DEF ReadInv
  <2> QED BY <2>1, <2>2, <2>3
<1>7. TypeOK'
  BY <1>1, <1>2, <1>4, <1>5 DEF TypeOK, deployed, intents
<1> QED BY <1>4, <1>6, <1>7 DEF IInv

\* The intents of a DIG on the cluster hold the clusters of one of its AppContexts, in
\* which each app has one with one handler; the others stay.
LEMMA RefreshedIs ==
    ASSUME TypeOK, ContextInv, NEW x, NEW at \in Refreshed(x)
    PROVE  /\ at \in [Apps -> Clusters \cup {None}]
           /\ OneHandler => \A d \in Digs :
                 \/ \E c \in Located(x) : /\ context[c].dig = d
                                          /\ \A a \in AppSet(d) : context[c].tree[a] = {at[a]}
                 \/ /\ \A c \in Located(x) : context[c].dig # d
                    /\ \A a \in AppSet(d) : at[a] = deployedAt[a]
<1> DEFINE on == Located(x)
           digs == {context[c].dig : c \in on}
           only(S) == CHOOSE y \in S \cup {None} : S # {} => y \in S
           of(a) == CHOOSE d \in digs : a \in AppSet(d)
<1>1. PICK f \in [digs -> on] :
          /\ \A d \in digs : context[f[d]].dig = d
          /\ at = [a \in Apps |-> IF \E d \in digs : a \in AppSet(d)
                                  THEN only(context[f[of(a)]].tree[a]) ELSE deployedAt[a]]
  BY DEF Refreshed
<1>2. on \subseteq Contexts /\ digs \subseteq Digs /\ \A c \in on : Handed(c)
  BY Types DEF Located, Instantiated, Handed
<1> DEFINE chosen(S) == only(S)
<1>3. ASSUME NEW S \in SUBSET Clusters PROVE only(S) \in Clusters \cup {None}
  OBVIOUS
<1>4. ASSUME NEW y PROVE only({y}) = y
  OBVIOUS
<1>5. \A a \in Apps : (\E d \in digs : a \in AppSet(d)) => of(a) \in digs
  OBVIOUS
<1> HIDE DEF only
<1>6. at \in [Apps -> Clusters \cup {None}]
  <2>1. \A a \in Apps : (\E d \in digs : a \in AppSet(d)) => context[f[of(a)]].tree[a] \in SUBSET Clusters
    <3> SUFFICES ASSUME NEW a \in Apps, of(a) \in digs PROVE context[f[of(a)]].tree[a] \in SUBSET Clusters
      BY <1>5
    <3>1. PICK c \in Contexts : c = f[of(a)]
      BY <1>1, <1>2
    <3>2. context[c].tree \in [Apps -> SUBSET Clusters]
      BY Types
    <3> QED BY <3>1, <3>2
  <2> HIDE DEF of, digs
  <2>2. deployedAt \in [Apps -> Clusters \cup {None}]
    BY DEF TypeOK
  <2>3. ASSUME NEW a \in Apps PROVE at[a] \in Clusters \cup {None}
    <3>1. CASE \E d \in digs : a \in AppSet(d)
      <4>1. PICK S \in SUBSET Clusters : S = context[f[of(a)]].tree[a]
        BY <2>1, <3>1
      <4> QED BY <1>1, <1>3, <3>1, <4>1
    <3>2. CASE ~\E d \in digs : a \in AppSet(d)
      BY <1>1, <2>2, <3>2
    <3> QED BY <3>1, <3>2
  <2>4. at = [a \in Apps |-> at[a]]
    BY <1>1
  <2> QED BY <2>3, <2>4, SMTT(40)
<1>7. ASSUME OneHandler, NEW d \in Digs, d \in digs
      PROVE  \E c \in on : context[c].dig = d /\ \A a \in AppSet(d) : context[c].tree[a] = {at[a]}
  <2>1. PICK c \in on : c = f[d] /\ context[c].dig = d /\ c \in Contexts /\ Handed(c)
    BY <1>1, <1>2, <1>7
  <2>2. ASSUME NEW a \in AppSet(d) PROVE context[c].tree[a] = {at[a]}
    <3>1. a \in Apps
      BY Types
    <3>2. \A e \in digs : a \in AppSet(e) => e = d
      BY <1>2, DigAssumption DEF AppSet
    <3>3. of(a) = d
      BY <1>7, <3>2
    <3>4. PICK y : context[c].tree[a] = {y}
      <4>1. context[c].tree[a] # {} /\ \E z \in Clusters : context[c].tree[a] \subseteq {z}
        BY <1>7, <2>1 DEF ContextInv, ContextOk, AppsIn
      <4> QED BY <4>1
    <3> HIDE DEF of
    <3>5. at[a] = only(context[c].tree[a])
      BY <1>1, <1>7, <2>1, <3>1, <3>3
    <3> QED BY <1>4, <3>4, <3>5
  <2> QED BY <2>1, <2>2
<1>8. ASSUME NEW d \in Digs, d \notin digs
      PROVE  (\A c \in on : context[c].dig # d) /\ \A a \in AppSet(d) : at[a] = deployedAt[a]
  <2>1. \A a \in AppSet(d) : ~\E e \in digs : a \in AppSet(e)
    BY <1>2, <1>8, DigAssumption DEF AppSet
  <2> QED BY <1>1, <1>8, <2>1, Types
<1> QED BY <1>6, <1>7, <1>8

\* The migration controller selects DIGs on the cluster, and refreshes their intents.
LEMMA MigrationIs ==
    ASSUME TypeOK, ContextInv, StackInv, NEW k \in Clients, MigrationApps(k)
    PROVE  /\ selected' \in [Digs -> BOOLEAN] /\ deployedAt' \in [Apps -> Clusters \cup {None}]
           /\ leaving \subseteq leaving' /\ leaving' \subseteq leaving \cup Movable
           /\ OneHandler => \A d \in Digs : selected'[d] =>
                 \/ \E c \in Contexts : Serving(c, d) /\ \A a \in AppSet(d) : context[c].tree[a] = {deployedAt'[a]}
                 \/ selected[d] /\ \A a \in AppSet(d) : deployedAt'[a] = deployedAt[a]
<1> DEFINE frame == Top(k)
<1>1. PICK x \in context[frame.ctx].tree[frame.app] :
          /\ deployedAt' \in Refreshed(x)
          /\ \/ UNCHANGED <<selected, leaving>>
             \/ /\ Movables(x) # {}
                /\ \E moved \in Selections(x, frame.app) :
                      /\ selected' = [d \in Digs |-> selected[d] \/ d \in Marked(moved)]
                      /\ leaving' = leaving \cup {m[2] : m \in ToSet(moved)}
  BY DEF MigrationApps
<1>2. PICK at \in Refreshed(x) : at = deployedAt'
  BY <1>1
<1>3. OneHandler => \A d \in Digs :
          \/ \E c \in Located(x) : context[c].dig = d /\ \A a \in AppSet(d) : context[c].tree[a] = {at[a]}
          \/ (\A c \in Located(x) : context[c].dig # d) /\ \A a \in AppSet(d) : at[a] = deployedAt[a]
  BY RefreshedIs
<1>4. at \in [Apps -> Clusters \cup {None}]
  BY RefreshedIs
<1>5. \A c \in Located(x) : c \in Contexts /\ Serving(c, context[c].dig)
  BY DEF Located, Instantiated, Serving, Handed
<1> DEFINE held(d) == \E c \in Contexts : Serving(c, d) /\ \A a \in AppSet(d) : context[c].tree[a] = {at[a]}
           kept(d) == \A a \in AppSet(d) : at[a] = deployedAt[a]
<1>6. ASSUME OneHandler, NEW d \in Digs
      PROVE  held(d) \/ (kept(d) /\ \A c \in Located(x) : context[c].dig # d)
  <2>1. CASE \E c \in Located(x) : context[c].dig = d /\ \A a \in AppSet(d) : context[c].tree[a] = {at[a]}
    <3>1. PICK c \in Located(x) : context[c].dig = d /\ \A a \in AppSet(d) : context[c].tree[a] = {at[a]}
      BY <2>1
    <3>2. c \in Contexts /\ Serving(c, d)
      BY <1>5, <3>1
    <3> QED BY <3>1, <3>2
  <2>2. CASE ~\E c \in Located(x) : context[c].dig = d /\ \A a \in AppSet(d) : context[c].tree[a] = {at[a]}
    BY <1>3, <1>6, <2>2
  <2> QED BY <2>1, <2>2
<1> HIDE DEF held, kept
<1>7. CASE UNCHANGED <<selected, leaving>>
  <2>1. /\ selected' \in [Digs -> BOOLEAN] /\ leaving \subseteq leaving' /\ leaving' \subseteq leaving \cup Movable
        /\ OneHandler => \A d \in Digs : selected'[d] => held(d) \/ (selected[d] /\ kept(d))
    BY <1>7, <1>6 DEF TypeOK
  <2> QED BY <1>2, <1>4, <2>1 DEF held, kept
<1>8. ASSUME Movables(x) # {}, NEW moved \in Selections(x, frame.app),
             selected' = [d \in Digs |-> selected[d] \/ d \in Marked(moved)],
             leaving' = leaving \cup {m[2] : m \in ToSet(moved)}
      PROVE  /\ selected' \in [Digs -> BOOLEAN] /\ leaving' \subseteq leaving \cup Movable
             /\ \A d \in Digs : selected'[d] => selected[d] \/ \E c \in Located(x) : context[c].dig = d
  <2>1. \A i \in DOMAIN moved : moved[i] \in Movables(x)
    BY <1>8, SelectionsAre DEF TypeOK
  <2>2. \A i \in DOMAIN moved : moved[i][1] \in Located(x) /\ moved[i][2] \in Movable
    BY <2>1 DEF Movables
  <2>3. \A d \in Marked(moved) : \E c \in Located(x) : context[c].dig = d
    BY <2>2 DEF Marked
  <2>4. leaving' \subseteq leaving \cup Movable
    BY <1>8, <2>2 DEF ToSet
  <2>5. \A d \in Digs : (selected[d] \/ d \in Marked(moved)) \in BOOLEAN
    OBVIOUS
  <2> HIDE DEF Marked
  <2>6. \A d \in Digs : selected'[d] => selected[d] \/ d \in Marked(moved)
    BY <1>8
  <2> QED BY <1>8, <2>3, <2>4, <2>5, <2>6
<1>9. CASE ~UNCHANGED <<selected, leaving>>
  <2>1. /\ selected' \in [Digs -> BOOLEAN] /\ leaving \subseteq leaving' /\ leaving' \subseteq leaving \cup Movable
        /\ \A d \in Digs : selected'[d] => selected[d] \/ \E c \in Located(x) : context[c].dig = d
    BY <1>1, <1>8, <1>9
  <2>2. OneHandler => \A d \in Digs : selected'[d] => held(d) \/ (selected[d] /\ kept(d))
    BY <1>6, <2>1
  <2> QED BY <1>2, <1>4, <2>1, <2>2, SMTT(40) DEF held, kept
<1> QED BY <1>7, <1>9

\* The migration controller makes room.
LEMMA MigrationKeeps ==
    ASSUME IInv, NEW k \in Clients, MigrationApps(k)
    PROVE  IInv' /\ Steady
<1>1. TypeOK /\ ContextInv /\ RecordInv /\ StackInv /\ PinInv
  BY DEF IInv
<1>2. stack[k] # <<>> /\ Top(k).pc = "migrate" /\ UNCHANGED <<deployed, record, reading>>
  BY DEF MigrationApps, At
<1>3. PICK f \in Frame : f = Top(k) /\ f.ctx \in Contexts /\ f.dig \in Digs /\ FrameInv(f)
  BY <1>1, <1>2, AtWork
<1>4. Steady /\ ContextInv' /\ RecordInv' /\ StackInv' /\ context' \in Seq(AppContext)
      /\ Len(context') = Len(context) /\ stack' \in [Clients -> Seq(Frame)]
  <2>1. CASE Fails(k)
    BY <1>1, <1>2, <2>1, FailsKeeps
  <2>2. CASE ~Fails(k)
    <3>1. /\ context[f.ctx].tree[f.app] # {}
          /\ Goes(k, [f EXCEPT !.pc = "update"]) /\ UNCHANGED context
      BY <1>3, <2>2 DEF MigrationApps
    <3>2. Steady /\ ContextInv' /\ Contexts' = Contexts
      <4>1. Contexts' = Contexts
        BY <3>1 DEF Contexts
      <4>2. Steady
        BY <3>1, <4>1 DEF Steady, Handed
      <4> QED BY <1>1, <3>1, <4>1, <4>2, ContextStays DEF ContextInv
    <3>3. PICK g \in Frame : g = [f EXCEPT !.pc = "update"]
      BY DEF Frame
    <3>4. g.ctx = f.ctx /\ g.dig = f.dig /\ g.op = f.op /\ g.source = f.source /\ g.pc = "update"
      BY <3>3 DEF Frame
    <3>5. FrameInv(g)'
      <4>1. FrameInv(f)'
        BY <1>3, <3>1, <3>2, FrameStays
      <4> QED BY <1>2, <1>3, <3>1, <3>2, <3>4, <4>1 DEF FrameInv, PlaceInv
    <3>6. StackInv' /\ stack' \in [Clients -> Seq(Frame)]
      BY <1>1, <1>2, <1>3, <3>1, <3>2, <3>3, <3>4, <3>5, StackReplaced, GoesIs
    <3> QED BY <1>1, <1>2, <3>1, <3>2, <3>6, RecordStays DEF TypeOK
  <2> QED BY <2>1, <2>2
<1>5. PinInv' /\ selected' \in [Digs -> BOOLEAN] /\ leaving' \subseteq Apps
      /\ deployedAt' \in [Apps -> Clusters \cup {None}]
  <2>1. /\ selected' \in [Digs -> BOOLEAN] /\ deployedAt' \in [Apps -> Clusters \cup {None}]
        /\ leaving \subseteq leaving' /\ leaving' \subseteq leaving \cup Movable
        /\ OneHandler => \A d \in Digs : selected'[d] =>
              \/ \E c \in Contexts : Serving(c, d) /\ \A a \in AppSet(d) : context[c].tree[a] = {deployedAt'[a]}
              \/ selected[d] /\ \A a \in AppSet(d) : deployedAt'[a] = deployedAt[a]
    BY <1>1, MigrationIs
  <2>2. ASSUME OneHandler, NEW d \in Digs, selected'[d], NEW a \in AppSet(d), a \notin leaving'
        PROVE  deployedAt'[a] \in Candidates[a]
    <3>1. CASE \E c \in Contexts : Serving(c, d) /\ context[c].tree[a] = {deployedAt'[a]}
      BY <1>1, <3>1 DEF ContextInv, ContextOk, AppsIn, Serving
    <3>2. CASE selected[d] /\ deployedAt'[a] = deployedAt[a]
      BY <1>1, <2>1, <2>2, <3>2 DEF PinInv, HoldsCandidates
    <3> QED BY <2>1, <2>2, <3>1, <3>2
  <2>3. leaving' \subseteq Apps
    BY <1>1, <2>1, AppAssumption DEF TypeOK
  <2>4. PinInv'
    <3> SUFFICES ASSUME OneHandler
                 PROVE  /\ \A d \in Digs : selected'[d] => HoldsCandidates(d)'
                        /\ \A l \in Clients : ReadInv(l)'
      BY DEF PinInv, OneHandler
    <3>1. \A l \in Clients : l = k
      BY DEF OneHandler
    <3>2. reading'[k].step = "flag"
      BY <1>1, <1>2 DEF PinInv, ReadInv, At
    <3> QED BY <2>2, <3>1, <3>2 DEF HoldsCandidates, ReadInv
  <2> QED BY <2>1, <2>3, <2>4
<1>6. TypeOK'
  BY <1>1, <1>2, <1>4, <1>5 DEF TypeOK, deployed
<1> QED BY <1>4, <1>5, <1>6 DEF IInv

-------------------------------------------------------------------------------
(* The rest of the scheduler.                                              *)

\* All selected DIGs are updated.
LEMMA AllUpdatedKeeps ==
    ASSUME IInv, NEW k \in Clients, AllUpdated(k)
    PROVE  IInv' /\ Steady
<1>1. TypeOK /\ ContextInv /\ RecordInv /\ StackInv /\ PinInv
  BY DEF IInv
<1>2. stack[k] # <<>> /\ Top(k).pc = "update" /\ UNCHANGED <<context, deployed, record, intents, reading>>
  BY DEF AllUpdated, At
<1>3. PICK f \in Frame : f = Top(k) /\ f.ctx \in Contexts /\ FrameInv(f)
  BY <1>1, <1>2, AtWork
<1>4. Contexts' = Contexts
  BY <1>2 DEF Contexts
<1>5. Steady
  BY <1>2, <1>4 DEF Steady, Handed
<1>6. ContextInv'
  BY <1>1, <1>2, <1>4, <1>5, ContextStays DEF ContextInv
<1>7. PICK g \in Frame : g = [f EXCEPT !.pc = "deploy"]
  BY DEF Frame
<1>8. g.ctx = f.ctx /\ g.dig = f.dig /\ g.op = f.op /\ g.source = f.source /\ g.pc = "deploy"
  BY <1>7 DEF Frame
<1>9. FrameInv(g)'
  <2>1. FrameInv(f)'
    BY <1>2, <1>3, <1>5, FrameStays
  <2> QED BY <1>2, <1>3, <1>8, <2>1 DEF FrameInv, PlaceInv
<1>10. Goes(k, g)
  BY <1>3, <1>7 DEF AllUpdated
<1>11. StackInv' /\ stack' \in [Clients -> Seq(Frame)]
  BY <1>1, <1>2, <1>3, <1>5, <1>8, <1>9, <1>10, StackReplaced, GoesIs
<1>12. TypeOK' /\ RecordInv'
  BY <1>1, <1>2, <1>5, <1>11, RecordStays DEF TypeOK, deployed, intents
<1>13. PinInv'
  <2>1. \A l \in Clients : stack'[l] = stack[l] \/ ~At(l, "filter")
    BY <1>1, <1>2, <1>10, GoesIs DEF At
  <2> QED BY <1>1, <1>2, <2>1, PinStays
<1> QED BY <1>5, <1>6, <1>11, <1>12, <1>13 DEF IInv

\* rsync is given an AppContext that lists at most one cluster for each of its apps.
LEMMA DeployIs ==
    ASSUME IInv, NEW k \in Clients, Deploy(k), NEW f \in Frame, f = Top(k)
    PROVE  /\ Steady /\ ContextInv' /\ context' \in Seq(AppContext) /\ Len(context') = Len(context)
           /\ Contexts' = Contexts /\ f.ctx \in Contexts /\ Handed(f.ctx)'
           /\ \A e \in Contexts \ {f.ctx} : context'[e] = context[e]
           /\ \A a \in AppSet(f.dig) : context'[f.ctx].tree[a] \subseteq context[f.ctx].tree[a]
<1> DEFINE c == f.ctx
           tree == [a \in Apps |-> OneOf(context[c].tree[a])]
           call == [ev |-> f.op, other |-> f.source]
           calls == Append(context[c].calls, call)
           new == [context[c] EXCEPT !.tree = tree, !.calls = calls]
<1>1. TypeOK /\ ContextInv /\ RecordInv /\ StackInv /\ PinInv
  BY DEF IInv
<1>2. stack[k] # <<>> /\ f.pc = "deploy"
  BY DEF Deploy, At
<1>3. c \in Contexts /\ f.dig \in Digs /\ FrameInv(f) /\ ~Handed(c)
  BY <1>1, <1>2, AtWork
<1>4. /\ Len(context) \in Nat /\ Contexts = 1 .. Len(context) /\ context[c] \in AppContext
      /\ context[c].tree \in [Apps -> SUBSET Clusters] /\ AppsIn(c) \subseteq Apps
      /\ context[c].dig = f.dig /\ AppsIn(c) = AppSet(f.dig)
  BY <1>1, <1>3, Types DEF FrameInv, AppsIn
<1>5. /\ tree \in [Apps -> SUBSET Clusters]
      /\ \A a \in Apps : tree[a] \subseteq context[c].tree[a]
      /\ \A a \in AppsIn(c) : \E x \in Clusters : tree[a] \subseteq {x}
      /\ OneHandler => \A a \in AppsIn(c) : tree[a] # {}
  <2>1. \A a \in Apps : context[c].tree[a] \in SUBSET Clusters
    BY <1>4
  <2>2. OneHandler => \A a \in AppsIn(c) : context[c].tree[a] # {}
    BY <1>2, <1>3, <1>4 DEF FrameInv, PlaceInv
  <2>3. ASSUME NEW a \in Apps
        PROVE  /\ tree[a] \subseteq context[c].tree[a]
               /\ context[c].tree[a] # {} => tree[a] # {}
               /\ \E x \in Clusters : tree[a] \subseteq {x}
    <3>1. PICK S \in SUBSET Clusters : S = context[c].tree[a] /\ tree[a] = Preferred(S)
      BY <2>1 DEF OneOf
    <3>2. Preferred(S) \subseteq S /\ (S # {} => \E y \in S : Preferred(S) = {y})
      BY PreferredIs
    <3>3. \E x : x \in Clusters
      BY AppAssumption
    <3> QED BY <3>1, <3>2, <3>3
  <2>4. tree \in [Apps -> SUBSET Clusters]
    BY <2>1, <2>3
  <2> HIDE DEF tree
  <2> QED BY <1>4, <2>2, <2>3, <2>4
<1>6. context[c].calls = <<>> /\ context[c].status = "Created"
  BY <1>2, <1>3 DEF Handed, FrameInv
<1>7. call \in Call
  BY DEF Frame, Call, OperationKinds
<1>8. calls \in Seq(Call) /\ calls # <<>> /\ DOMAIN calls = 1 .. 1 /\ calls[1] = call
  <2>1. <<>> \in Seq(Call) /\ Len(<<>>) = 0
    BY EmptySeq
  <2>2. calls \in Seq(Call) /\ calls # <<>> /\ Len(calls) = 1 /\ calls[1] = call
    BY <1>6, <1>7, <2>1, AppendProperties
  <2> QED BY <2>2, LenProperties
<1> HIDE DEF tree
<1>9. context' = [context EXCEPT ![c] = new]
  <2>1. context' = Queue([context EXCEPT ![c].tree = tree], c, f.op, f.source)
    BY DEF Deploy, tree
  <2>2. [context EXCEPT ![c].tree = tree][c] = [context[c] EXCEPT !.tree = tree]
    BY <1>1, <1>3, <1>4 DEF TypeOK, Contexts
  <2>3. [context[c] EXCEPT !.tree = tree].calls = context[c].calls
    BY <1>4 DEF AppContext
  <2> DEFINE X == [context[c] EXCEPT !.tree = tree]
             Y == [X EXCEPT !.calls = calls]
             M == [context EXCEPT ![c] = X]
  <2>4. M[c] = X
    BY <2>2
  <2>5. context' = [M EXCEPT ![c] = [M[c] EXCEPT !.calls = Append(M[c].calls, call)]]
    BY <2>1 DEF Queue
  <2>6. [M[c] EXCEPT !.calls = Append(M[c].calls, call)] = Y
    BY <2>3, <2>4
  <2>7. context' = [M EXCEPT ![c] = Y]
    BY <2>5, <2>6
  <2> HIDE DEF X, Y
  <2>8. [M EXCEPT ![c] = Y] = [context EXCEPT ![c] = Y]
    OBVIOUS
  <2> QED BY <2>7, <2>8 DEF X, Y
<1> HIDE DEF calls, call
<1>10. /\ new \in AppContext /\ new.dig = context[c].dig /\ new.tree = tree
       /\ new.status = context[c].status /\ new.calls = calls
  BY <1>4, <1>5, <1>8 DEF AppContext
<1> HIDE DEF new
<1>11. /\ context' \in Seq(AppContext) /\ Len(context') = Len(context)
       /\ \A e \in 1 .. Len(context) : context'[e] = IF e = c THEN new ELSE context[e]
  <2>1. c \in 1 .. Len(context) /\ context \in Seq(AppContext)
    BY <1>1, <1>3, <1>4 DEF TypeOK
  <2>2. /\ [context EXCEPT ![c] = new] \in Seq(AppContext)
        /\ Len([context EXCEPT ![c] = new]) = Len(context)
        /\ \A e \in 1 .. Len(context) : [context EXCEPT ![c] = new][e] = IF e = c THEN new ELSE context[e]
    BY <1>10, <2>1, ExceptSeq
  <2> QED BY <1>9, <2>2
<1>12. Contexts' = Contexts
  BY <1>4, <1>11, LenProperties DEF Contexts
<1>13. context'[c] = new /\ \A e \in Contexts \ {c} : context'[e] = context[e]
  BY <1>3, <1>4, <1>11
<1>14. Handed(c)'
  BY <1>8, <1>10, <1>13 DEF Handed
<1>15. Steady
  BY <1>3, <1>10, <1>12, <1>13, <1>14 DEF Steady, Handed
<1>16. ContextOk(c)'
  <2>1. \A a \in AppsIn(c) : tree[a] \subseteq Candidates[a]
    BY <1>1, <1>3, <1>4, <1>5 DEF ContextInv, ContextOk
  <2>2. call.other = f.source /\ call.ev = f.op
    BY DEF call
  <2>3. f.source # 0 => Serving(f.source, f.dig)' /\ f.source \in Contexts'
    BY <1>3, <1>12, <1>15, ServingStays DEF FrameInv, Serving
  <2>4. f.op \in {"Update", "UpdateDelete"} => f.source # 0
    BY <1>3 DEF FrameInv
  <2>5. \A i \in DOMAIN calls : /\ calls[i].other \in ({0} \cup Contexts)'
                                /\ calls[i].ev \in {"Update", "UpdateDelete"} => Serving(f.source, f.dig)' /\ calls[i].other = f.source
    BY <1>8, <2>2, <2>3, <2>4
  <2> QED BY <1>4, <1>5, <1>6, <1>10, <1>13, <2>1, <2>5 DEF ContextOk, AppsIn
<1>17. ContextInv'
  BY <1>1, <1>12, <1>13, <1>15, <1>16, ContextStays DEF ContextInv
<1> QED BY <1>3, <1>4, <1>5, <1>10, <1>11, <1>12, <1>13, <1>14, <1>15, <1>17

\* The extra clusters are removed, and rsync is called.
LEMMA DeployKeeps ==
    ASSUME IInv, NEW k \in Clients, Deploy(k)
    PROVE  IInv' /\ Steady
<1>1. TypeOK /\ ContextInv /\ RecordInv /\ StackInv /\ PinInv
  BY DEF IInv
<1>2. stack[k] # <<>> /\ Top(k).pc = "deploy" /\ UNCHANGED <<deployed, record, intents, reading>>
  BY DEF Deploy, At
<1>3. PICK f \in Frame : f = Top(k) /\ FrameInv(f)
  BY <1>1, <1>2, AtWork
<1>4. /\ Steady /\ ContextInv' /\ context' \in Seq(AppContext) /\ Len(context') = Len(context)
      /\ Contexts' = Contexts /\ f.ctx \in Contexts /\ Handed(f.ctx)'
      /\ \A e \in Contexts \ {f.ctx} : context'[e] = context[e]
  BY <1>3, DeployIs
<1>5. PICK g \in Frame : g = [f EXCEPT !.pc = "record"]
  BY DEF Frame
<1>6. g.ctx = f.ctx /\ g.dig = f.dig /\ g.op = f.op /\ g.source = f.source /\ g.pc = "record"
  BY <1>5 DEF Frame
<1>7. FrameInv(g)'
  <2>1. g.source # 0 => Serving(g.source, g.dig)'
    BY <1>3, <1>4, <1>6, ServingStays DEF FrameInv
  <2>2. context'[f.ctx].dig = context[f.ctx].dig
    BY <1>4 DEF Steady
  <2> QED BY <1>3, <1>4, <1>6, <2>1, <2>2 DEF FrameInv, PlaceInv
<1>8. Goes(k, g)
  BY <1>3, <1>5 DEF Deploy
<1>9. StackInv' /\ stack' \in [Clients -> Seq(Frame)]
  BY <1>1, <1>2, <1>3, <1>4, <1>6, <1>7, <1>8, StackReplaced, GoesIs
<1>10. TypeOK' /\ RecordInv'
  BY <1>1, <1>2, <1>4, <1>9, RecordStays DEF TypeOK, deployed, intents
<1>11. PinInv'
  <2>1. \A l \in Clients : stack'[l] = stack[l] \/ ~At(l, "filter")
    BY <1>1, <1>2, <1>8, GoesIs DEF At
  <2> QED BY <1>1, <1>2, <2>1, PinStays
<1> QED BY <1>4, <1>9, <1>10, <1>11 DEF IInv

\* The AppContext is recorded, and the operation ends.
LEMMA RecordKeeps ==
    ASSUME IInv, NEW k \in Clients, Record(k)
    PROVE  IInv' /\ Steady
<1>1. TypeOK /\ ContextInv /\ RecordInv /\ StackInv /\ PinInv
  BY DEF IInv
<1>2. /\ stack[k] # <<>> /\ Top(k).pc = "record" /\ UNCHANGED <<context, deployed, intents, reading>>
      /\ record' = [record EXCEPT ![Top(k).dig] = Top(k).ctx]
      /\ stack' = [stack EXCEPT ![k] = Front(@)]
  BY DEF Record, At
<1>3. PICK f \in Frame : f = Top(k) /\ FrameInv(f) /\ f.ctx \in Contexts /\ f.dig \in Digs
  BY <1>1, <1>2, AtWork
<1>4. Contexts' = Contexts
  BY <1>2 DEF Contexts
<1>5. Steady
  BY <1>2, <1>4 DEF Steady, Handed
<1>6. ContextInv'
  BY <1>1, <1>2, <1>4, <1>5, ContextStays DEF ContextInv
<1>7. /\ Front(stack[k]) \in Seq(Frame) /\ Len(Front(stack[k])) = Len(stack[k]) - 1
      /\ \A i \in 1 .. Len(stack[k]) - 1 : Front(stack[k])[i] = stack[k][i]
      /\ Len(stack[k]) \in Nat /\ Len(stack[k]) >= 1
  BY <1>1, <1>2, StackTypes
<1>8. stack' \in [Clients -> Seq(Frame)] /\ stack'[k] = Front(stack[k]) /\ \A l \in Clients \ {k} : stack'[l] = stack[l]
  BY <1>1, <1>2, <1>7 DEF TypeOK
<1>9. StackInv'
  <2>1. Len(stack[k]) - 1 \in 0 .. Len(stack[k])
    BY <1>7
  <2>2. DOMAIN stack'[k] = 1 .. Len(stack[k]) - 1 /\ Len(stack'[k]) = Len(stack[k]) - 1
    BY <1>7, <1>8, LenProperties
  <2> QED BY <1>1, <1>2, <1>5, <1>7, <1>8, <2>1, <2>2, StackCut, SMTT(40)
<1>10. RecordInv'
  <2>1. Serving(f.ctx, f.dig)
    BY <1>2, <1>3 DEF FrameInv, Serving
  <2>2. Serving(f.ctx, f.dig)'
    BY <1>5, <2>1, ServingStays
  <2> SUFFICES ASSUME NEW d \in Digs, record'[d] # 0 PROVE Serving(record[d], d)'
    BY DEF RecordInv
  <2>3. CASE d = f.dig
    <3>1. record'[d] = f.ctx
      BY <1>1, <1>2, <1>3, <2>3 DEF TypeOK
    <3>2. PICK r : r = record'[d]
      OBVIOUS
    <3> QED BY <2>2, <2>3, <3>1 DEF Serving, Handed
  <2>4. CASE d # f.dig
    <3>1. record'[d] = record[d]
      BY <1>1, <1>2, <1>3, <2>4 DEF TypeOK
    <3>2. PICK r : r = record[d] /\ Serving(r, d)
      BY <1>1, <3>1 DEF RecordInv
    <3>3. Serving(r, d)'
      BY <1>5, <3>2, ServingStays
    <3> QED BY <3>1, <3>2, <3>3 DEF Serving, Handed
  <2> QED BY <2>3, <2>4
<1>11. TypeOK' /\ PinInv'
  <2>1. f.ctx \in 0 .. Len(context)
    BY <1>1, <1>3, Types
  <2>2. TypeOK'
    BY <1>1, <1>2, <1>3, <1>8, <2>1 DEF TypeOK, deployed, intents
  <2>3. \A l \in Clients : stack'[l] = stack[l] \/ ~At(l, "filter")
    BY <1>2, <1>8 DEF At
  <2> QED BY <1>1, <1>2, <2>2, <2>3, PinStays
<1> QED BY <1>5, <1>6, <1>9, <1>10, <1>11 DEF IInv

-------------------------------------------------------------------------------
(* rsync.                                                                  *)

\* A step leaves alone what AppContexts list, and gives rsync no new one.
Quiet ==
    /\ Contexts' = Contexts
    /\ \A c \in Contexts : context'[c].tree = context[c].tree /\ (Handed(c)' <=> Handed(c))

\* rsync takes calls from queues, adds clean-ups of what is replaced, and leaves the
\* clusters that AppContexts list alone.
LEMMA RsyncKeeps ==
    ASSUME IInv, UNCHANGED <<record, intents, reading, stack>>,
           context' \in Seq(AppContext), Len(context') = Len(context),
           pods' \subseteq applied', applied' \subseteq Apps \X Clusters,
           \A e \in Contexts :
               /\ context'[e].dig = context[e].dig /\ context'[e].tree = context[e].tree
               /\ ~Handed(e) => context'[e] = context[e]
               /\ Handed(e) => Handed(e)' /\ context'[e].status # "Deleted"
               /\ \A i \in DOMAIN context'[e].calls :
                     \/ \E j \in DOMAIN context[e].calls : context'[e].calls[i] = context[e].calls[j]
                     \/ Serving(context'[e].calls[i].other, context[e].dig)
    PROVE  IInv' /\ Steady /\ Quiet
<1>1. TypeOK /\ ContextInv /\ RecordInv /\ StackInv /\ PinInv
  BY DEF IInv
<1>2. Contexts' = Contexts
  <2>1. Contexts = 1 .. Len(context)
    BY <1>1, Types
  <2> QED BY <2>1, LenProperties DEF Contexts
<1>3. \A e \in Contexts : Handed(e)' <=> Handed(e)
  BY DEF Handed
<1>4. Steady
  BY <1>2, <1>3 DEF Steady
<1>5. ContextInv'
  <2> SUFFICES ASSUME NEW e \in Contexts PROVE ContextOk(e)'
    BY <1>2 DEF ContextInv
  <2>1. ContextOk(e)
    BY <1>1 DEF ContextInv
  <2>2. CASE ~Handed(e)
    BY <1>4, <2>1, <2>2, ContextStays
  <2>3. CASE Handed(e)
    <3>1. ASSUME NEW i \in DOMAIN context'[e].calls
          PROVE  /\ context'[e].calls[i].other \in {0} \cup Contexts'
                 /\ context'[e].calls[i].ev \in {"Update", "UpdateDelete"} =>
                       Serving(context[e].calls[i].other, context[e].dig)'
      <4>1. PICK call, d : call = context'[e].calls[i] /\ d = context[e].dig /\ d = context'[e].dig
        OBVIOUS
      <4>2. CASE \E j \in DOMAIN context[e].calls : call = context[e].calls[j]
        <5>1. call.other \in {0} \cup Contexts /\ (call.ev \in {"Update", "UpdateDelete"} => Serving(call.other, d))
          BY <2>1, <4>1, <4>2 DEF ContextOk
        <5>2. call.ev \in {"Update", "UpdateDelete"} => Serving(call.other, d)'
          BY <1>4, <5>1, ServingStays, SMTT(40)
        <5> QED BY <1>2, <4>1, <5>1, <5>2
      <4>3. CASE Serving(call.other, d)
        <5>1. Serving(call.other, d)'
          BY <1>4, <4>3, ServingStays
        <5> QED BY <4>1, <5>1 DEF Serving
      <4> QED BY <4>1, <4>2, <4>3
    <3> QED BY <1>3, <2>1, <2>3, <3>1 DEF ContextOk, AppsIn
  <2> QED BY <2>2, <2>3
<1>6. StackInv'
  <2>1. ASSUME NEW l \in Clients, NEW i \in DOMAIN stack[l] PROVE FrameInv(stack[l][i])'
    <3>1. PICK f \in Frame : f = stack[l][i] /\ f = stack'[l][i] /\ FrameInv(f)
      BY <1>1, StackTypes DEF StackInv
    <3>2. FrameInv(f)'
      BY <1>3, <1>4, <3>1, FrameLasts DEF FrameInv
    <3> QED BY <3>1, <3>2
  <2> QED BY <1>1, <2>1 DEF StackInv
<1>7. TypeOK' /\ RecordInv' /\ PinInv'
  BY <1>1, <1>4, RecordStays, PinStays DEF TypeOK, intents
<1> QED BY <1>2, <1>3, <1>4, <1>5, <1>6, <1>7 DEF IInv, Quiet

\* The placements of an AppContext.
LEMMA PlacedIs ==
    ASSUME TypeOK, NEW c \in Contexts
    PROVE  Placed(c) \subseteq Apps \X Clusters
<1>1. AppsIn(c) \subseteq Apps
  BY Types
<1> QED BY <1>1 DEF Placed, AppsIn

\* The first call of a queue, and what remains.
LEMMA CallsAre ==
    ASSUME TypeOK, NEW c \in Contexts, context[c].calls # <<>>
    PROVE  /\ Next1(c) = context[c].calls[1] /\ 1 \in DOMAIN context[c].calls
           /\ Tail(context[c].calls) \in Seq(Call)
           /\ \A i \in DOMAIN Tail(context[c].calls) :
                 \E j \in DOMAIN context[c].calls : Tail(context[c].calls)[i] = context[c].calls[j]
<1> DEFINE q == context[c].calls
<1>1. q \in Seq(Call)
  BY Types DEF AppContext
<1>2. DOMAIN q = 1 .. Len(q) /\ Len(q) \in Nat /\ Len(q) # 0
  BY <1>1, LenProperties, EmptySeq
<1>3. /\ Tail(q) \in Seq(Call) /\ Len(Tail(q)) = Len(q) - 1
      /\ \A i \in 1 .. Len(Tail(q)) : Tail(q)[i] = q[i + 1]
  BY <1>1, HeadTailProperties
<1>4. DOMAIN Tail(q) = 1 .. Len(Tail(q))
  BY <1>3, LenProperties
<1>5. \A i \in DOMAIN Tail(q) : i + 1 \in DOMAIN q /\ Tail(q)[i] = q[i + 1]
  BY <1>2, <1>3, <1>4
<1> QED BY <1>2, <1>3, <1>5 DEF Next1

\* AppContext c with status st and without its first call.
Answer(c, st) == [context[c] EXCEPT !.status = st, !.calls = Tail(context[c].calls)]

\* rsync answers a call.
LEMMA Answered ==
    ASSUME TypeOK, NEW c \in Contexts, context[c].calls # <<>>, NEW st \in Statuses
    PROVE  /\ Answer(c, st) \in AppContext /\ Answer(c, st).status = st
           /\ Answer(c, st).dig = context[c].dig /\ Answer(c, st).tree = context[c].tree
           /\ \A i \in DOMAIN Answer(c, st).calls :
                 \E j \in DOMAIN context[c].calls : Answer(c, st).calls[i] = context[c].calls[j]
<1>1. context[c] \in AppContext
  BY Types
<1>2. Tail(context[c].calls) \in Seq(Call)
  BY CallsAre
<1>3. /\ Answer(c, st) \in AppContext /\ Answer(c, st).status = st
      /\ Answer(c, st).calls = Tail(context[c].calls)
      /\ Answer(c, st).dig = context[c].dig /\ Answer(c, st).tree = context[c].tree
  BY <1>1, <1>2 DEF AppContext, Answer
<1> QED BY <1>3, CallsAre

\* rsync applies an AppContext.
LEMMA AppliesKeeps ==
    ASSUME IInv, NEW c \in Contexts, RsyncApplies(c)
    PROVE  IInv' /\ Steady /\ Quiet
<1>1. TypeOK /\ ContextInv
  BY DEF IInv
<1>2. /\ context[c].calls # <<>> /\ applied' = applied \cup Placed(c)
      /\ UNCHANGED <<pods, record, intents, reading, stack>>
  BY DEF RsyncApplies, Waits
<1>3. PICK new : /\ new = IF Waits(c, "Update") THEN [context[c] EXCEPT !.status = "Instantiating"]
                          ELSE [context[c] EXCEPT !.status = "Instantiated", !.calls = Tail(@)]
                 /\ context' = [context EXCEPT ![c] = new]
  BY DEF RsyncApplies, SetContext
<1>4. /\ new \in AppContext /\ new.dig = context[c].dig /\ new.tree = context[c].tree
      /\ new.status \notin {"Created", "Deleted"}
      /\ \A i \in DOMAIN new.calls : \E j \in DOMAIN context[c].calls : new.calls[i] = context[c].calls[j]
  <2>1. CASE Waits(c, "Update")
    <3>1. context[c] \in AppContext
      BY <1>1, Types
    <3>2. new.calls = context[c].calls /\ new.status = "Instantiating" /\ new \in AppContext
          /\ new.dig = context[c].dig /\ new.tree = context[c].tree
      BY <1>3, <2>1, <3>1 DEF AppContext, Statuses
    <3> QED BY <3>2
  <2>2. CASE ~Waits(c, "Update")
    <3>1. new = Answer(c, "Instantiated")
      BY <1>3, <2>2 DEF Answer
    <3>2. "Instantiated" \in Statuses
      BY DEF Statuses
    <3> QED BY <1>1, <1>2, <3>1, <3>2, Answered
  <2> QED BY <2>1, <2>2
<1>5. context' \in Seq(AppContext) /\ Len(context') = Len(context)
      /\ \A e \in Contexts : context'[e] = IF e = c THEN new ELSE context[e]
  <2>1. context \in Seq(AppContext) /\ Contexts = 1 .. Len(context)
    BY <1>1, Types DEF TypeOK
  <2> QED BY <1>3, <1>4, <2>1, ExceptSeq
<1>6. pods' \subseteq applied' /\ applied' \subseteq Apps \X Clusters
  BY <1>1, <1>2, PlacedIs DEF TypeOK
<1>7. \A e \in Contexts : Handed(e) => context[e].status # "Deleted"
  BY <1>1 DEF ContextInv, ContextOk
<1>8. Handed(c)
  BY <1>2 DEF Handed
<1>9. \A e \in Contexts :
          /\ context'[e].dig = context[e].dig /\ context'[e].tree = context[e].tree
          /\ ~Handed(e) => context'[e] = context[e]
          /\ Handed(e) => Handed(e)' /\ context'[e].status # "Deleted"
          /\ \A i \in DOMAIN context'[e].calls :
                \E j \in DOMAIN context[e].calls : context'[e].calls[i] = context[e].calls[j]
  BY <1>4, <1>5, <1>7, <1>8 DEF Handed
<1> QED BY <1>2, <1>5, <1>6, <1>9, RsyncKeeps

\* rsync cleans up what was replaced.
LEMMA CleansUpKeeps ==
    ASSUME IInv, NEW c \in Contexts, RsyncCleansUp(c)
    PROVE  IInv' /\ Steady /\ Quiet
<1>1. TypeOK /\ ContextInv
  BY DEF IInv
<1>2. /\ context[c].calls # <<>> /\ applied' \subseteq applied /\ UNCHANGED <<record, intents, reading, stack>>
      /\ pods' \subseteq applied'
      /\ context[c].status \notin {"Created", "Instantiating"}
  BY <1>1 DEF RsyncCleansUp, Waits, Stopped, TypeOK
<1>3. PICK st, new : /\ st = IF context[c].status = "Instantiated" THEN "Updated" ELSE context[c].status
                     /\ new = Answer(c, st) /\ context' = [context EXCEPT ![c] = new]
  <2>1. PICK st : st = IF context[c].status = "Instantiated" THEN "Updated" ELSE context[c].status
    OBVIOUS
  <2>2. context' = [context EXCEPT ![c] = [context[c] EXCEPT !.calls = Tail(context[c].calls), !.status = st]]
    BY <2>1 DEF RsyncCleansUp, SetContext
  <2>3. [context[c] EXCEPT !.calls = Tail(context[c].calls), !.status = st] = Answer(c, st)
    <3>1. context[c] \in AppContext
      BY <1>1, Types
    <3> QED BY <3>1 DEF AppContext, Answer
  <2> QED BY <2>1, <2>2, <2>3
<1>4. /\ new \in AppContext /\ new.dig = context[c].dig /\ new.tree = context[c].tree
      /\ new.status \notin {"Created", "Deleted"}
      /\ \A i \in DOMAIN new.calls : \E j \in DOMAIN context[c].calls : new.calls[i] = context[c].calls[j]
  <2>1. context[c] \in AppContext /\ context[c].status # "Deleted"
    BY <1>1, <1>2, Types DEF ContextInv, ContextOk, Handed
  <2>2. st \in Statuses \ {"Created", "Deleted"}
    BY <1>2, <1>3, <2>1 DEF AppContext, Statuses
  <2> QED BY <1>1, <1>2, <1>3, <2>2, Answered
<1>5. context' \in Seq(AppContext) /\ Len(context') = Len(context)
      /\ \A e \in Contexts : context'[e] = IF e = c THEN new ELSE context[e]
  <2>1. context \in Seq(AppContext) /\ Contexts = 1 .. Len(context)
    BY <1>1, Types DEF TypeOK
  <2> QED BY <1>3, <1>4, <2>1, ExceptSeq
<1>6. applied' \subseteq Apps \X Clusters
  BY <1>1, <1>2 DEF TypeOK
<1>7. \A e \in Contexts : Handed(e) => context[e].status # "Deleted"
  BY <1>1 DEF ContextInv, ContextOk
<1>8. Handed(c)
  BY <1>2 DEF Handed
<1>9. \A e \in Contexts :
          /\ context'[e].dig = context[e].dig /\ context'[e].tree = context[e].tree
          /\ ~Handed(e) => context'[e] = context[e]
          /\ Handed(e) => Handed(e)' /\ context'[e].status # "Deleted"
          /\ \A i \in DOMAIN context'[e].calls :
                \E j \in DOMAIN context[e].calls : context'[e].calls[i] = context[e].calls[j]
  BY <1>4, <1>5, <1>7, <1>8 DEF Handed
<1> QED BY <1>2, <1>5, <1>6, <1>9, RsyncKeeps

\* rsync hands over to the new AppContext and has the old one cleaned up.
LEMMA HandsOverKeeps ==
    ASSUME IInv, NEW c \in Contexts, RsyncHandsOver(c)
    PROVE  IInv' /\ Steady /\ Quiet
<1>1. TypeOK /\ ContextInv
  BY DEF IInv
<1>2. /\ context[c].calls # <<>> /\ Next1(c).ev = "Update" /\ UNCHANGED <<applied, pods, record, intents, reading, stack>>
  BY DEF RsyncHandsOver, Waits, deployed
<1>3. PICK o : o = Next1(c).other /\ Serving(o, context[c].dig) /\ o \in Contexts
  BY <1>1, <1>2, CallsAre DEF ContextInv, ContextOk, Serving
<1>4. PICK call \in Call : call = [ev |-> "UpdateDelete", other |-> c]
  <2>1. c \in Nat
    BY <1>1, Types
  <2> QED BY <2>1 DEF Call
<1>5. PICK new : new = Answer(c, "Instantiated")
  OBVIOUS
<1>6. /\ new \in AppContext /\ new.dig = context[c].dig /\ new.tree = context[c].tree
      /\ new.status = "Instantiated"
      /\ \A i \in DOMAIN new.calls : \E j \in DOMAIN context[c].calls : new.calls[i] = context[c].calls[j]
  <2>1. "Instantiated" \in Statuses
    BY DEF Statuses
  <2> QED BY <1>1, <1>2, <1>5, <2>1, Answered
<1>7. context \in Seq(AppContext) /\ Contexts = 1 .. Len(context)
  BY <1>1, Types DEF TypeOK
<1>8. PICK M : M = [context EXCEPT ![c] = new]
  OBVIOUS
<1>9. M \in Seq(AppContext) /\ Len(M) = Len(context) /\ \A e \in Contexts : M[e] = IF e = c THEN new ELSE context[e]
  BY <1>6, <1>7, <1>8, ExceptSeq
<1>10. PICK old : old = [M[o] EXCEPT !.calls = Append(M[o].calls, call)]
  OBVIOUS
<1>11. context' = [M EXCEPT ![o] = old]
  <2>1. context' = Queue([context EXCEPT ![c].status = "Instantiated", ![c].calls = Tail(@)], o, "UpdateDelete", c)
    BY <1>3 DEF RsyncHandsOver
  <2>2. [context EXCEPT ![c].status = "Instantiated", ![c].calls = Tail(@)] = M
    <3>1. context[c] \in AppContext
      BY <1>1, Types
    <3> QED BY <1>5, <1>7, <1>8, <3>1 DEF AppContext, Answer
  <2>3. context' = Queue(M, o, "UpdateDelete", c)
    BY <2>1, <2>2
  <2> QED BY <1>4, <1>10, <2>3 DEF Queue
<1>12. /\ M[o] \in AppContext /\ M[o].dig = context[o].dig /\ M[o].tree = context[o].tree
       /\ M[o].calls \in Seq(Call)
       /\ \A i \in DOMAIN M[o].calls : \E j \in DOMAIN context[o].calls : M[o].calls[i] = context[o].calls[j]
       /\ M[o].status # "Deleted"
  <2>1. M[o] \in AppContext /\ context[o].status # "Deleted"
    BY <1>1, <1>3, <1>7, <1>9, ElementOfSeq DEF ContextInv, ContextOk, Serving
  <2>2. M[o].calls \in Seq(Call)
    BY <2>1 DEF AppContext
  <2> QED BY <1>3, <1>6, <1>9, <2>1, <2>2
<1>13. /\ old \in AppContext /\ old.dig = context[o].dig /\ old.tree = context[o].tree
       /\ old.calls # <<>> /\ old.status # "Deleted"
       /\ \A i \in DOMAIN old.calls : \/ \E j \in DOMAIN context[o].calls : old.calls[i] = context[o].calls[j]
                                      \/ old.calls[i] = call
  <2> DEFINE q == Append(M[o].calls, call)
  <2>1. /\ q \in Seq(Call) /\ q # <<>> /\ Len(q) = Len(M[o].calls) + 1
        /\ \A i \in 1 .. Len(M[o].calls) : q[i] = M[o].calls[i]
        /\ q[Len(M[o].calls) + 1] = call
    BY <1>4, <1>12, AppendProperties
  <2>2. DOMAIN q = 1 .. Len(M[o].calls) + 1 /\ DOMAIN M[o].calls = 1 .. Len(M[o].calls) /\ Len(M[o].calls) \in Nat
    BY <1>12, <2>1, LenProperties
  <2> HIDE DEF q
  <2>3. /\ old \in AppContext /\ old.dig = M[o].dig /\ old.tree = M[o].tree
        /\ old.calls = q /\ old.status = M[o].status
    <3>1. old = [M[o] EXCEPT !.calls = q]
      BY <1>10 DEF q
    <3> QED BY <1>12, <2>1, <3>1 DEF AppContext
  <2>4. \A i \in DOMAIN q : i \in DOMAIN M[o].calls \/ q[i] = call
    BY <2>1, <2>2
  <2>5. \A i \in DOMAIN M[o].calls : q[i] = M[o].calls[i]
    BY <2>1, <2>2
  <2> QED BY <1>12, <2>1, <2>3, <2>4, <2>5
<1>14. /\ context' \in Seq(AppContext) /\ Len(context') = Len(context)
       /\ \A e \in Contexts : context'[e] = IF e = o THEN old ELSE M[e]
  BY <1>3, <1>7, <1>9, <1>11, <1>13, ExceptSeq
<1>15. Handed(c) /\ Handed(o) /\ Serving(c, context[c].dig) /\ context[o].dig = context[c].dig
  BY <1>2, <1>3 DEF Handed, Serving
<1>16. ASSUME NEW e \in Contexts
       PROVE  /\ context'[e].dig = context[e].dig /\ context'[e].tree = context[e].tree
              /\ ~Handed(e) => context'[e] = context[e]
              /\ Handed(e) => Handed(e)' /\ context'[e].status # "Deleted"
              /\ \A i \in DOMAIN context'[e].calls :
                    \/ \E j \in DOMAIN context[e].calls : context'[e].calls[i] = context[e].calls[j]
                    \/ Serving(context'[e].calls[i].other, context[e].dig)
  <2>1. CASE e = o
    BY <1>4, <1>13, <1>14, <1>15, <2>1 DEF Handed
  <2>2. CASE e # o /\ e = c
    BY <1>6, <1>9, <1>14, <1>15, <2>2 DEF Handed
  <2>3. CASE e # o /\ e # c
    <3>1. context'[e] = context[e]
      BY <1>9, <1>14, <2>3
    <3> QED BY <1>1, <3>1 DEF Handed, ContextInv, ContextOk
  <2> QED BY <2>1, <2>2, <2>3
<1>17. pods' \subseteq applied' /\ applied' \subseteq Apps \X Clusters
  BY <1>1, <1>2 DEF TypeOK
<1> QED BY <1>2, <1>14, <1>16, <1>17, RsyncKeeps

-------------------------------------------------------------------------------
(* Every step.                                                             *)

\* Pods start to run.
LEMMA PodsKeep ==
    ASSUME IInv, NEW p, PodsRun(p)
    PROVE  IInv' /\ Steady /\ Quiet
<1>1. TypeOK /\ ContextInv
  BY DEF IInv
<1>2. UNCHANGED <<context, applied, record, intents, reading, stack>> /\ pods' \subseteq applied'
  BY <1>1 DEF PodsRun, TypeOK
<1>3. /\ context' \in Seq(AppContext) /\ Len(context') = Len(context)
      /\ applied' \subseteq Apps \X Clusters
  BY <1>1, <1>2 DEF TypeOK
<1>4. \A e \in Contexts :
          /\ context'[e] = context[e]
          /\ Handed(e) => Handed(e)' /\ context'[e].status # "Deleted"
  BY <1>1, <1>2 DEF Handed, ContextInv, ContextOk
<1> QED BY <1>2, <1>3, <1>4, RsyncKeeps

\* A step that changes nothing.
LEMMA StutterKeeps ==
    ASSUME IInv, UNCHANGED vars
    PROVE  IInv' /\ Steady /\ Quiet
<1>1. TypeOK /\ ContextInv
  BY DEF IInv
<1>2. UNCHANGED <<context, applied, pods, record, intents, reading, stack>>
  BY DEF vars, deployed, intents
<1>3. /\ context' \in Seq(AppContext) /\ Len(context') = Len(context)
      /\ pods' \subseteq applied' /\ applied' \subseteq Apps \X Clusters
  BY <1>1, <1>2 DEF TypeOK
<1>4. \A e \in Contexts :
          /\ context'[e] = context[e]
          /\ Handed(e) => Handed(e)' /\ context'[e].status # "Deleted"
  BY <1>1, <1>2 DEF Handed, ContextInv, ContextOk
<1> QED BY <1>2, <1>3, <1>4, RsyncKeeps

\* A DIG that is selected and was not instantiated makes the operation fail.
LEMMA UpdateFailsKeeps ==
    ASSUME IInv, NEW k \in Clients, UpdateSelected(k), Fails(k)
    PROVE  IInv' /\ Steady
<1>1. TypeOK /\ ContextInv /\ RecordInv /\ StackInv /\ PinInv
  BY DEF IInv
<1>2. stack[k] # <<>> /\ Top(k).pc = "update" /\ UNCHANGED <<deployed, record, intents, reading>>
  BY DEF UpdateSelected, At
<1>3. /\ Steady /\ ContextInv' /\ RecordInv' /\ StackInv' /\ context' \in Seq(AppContext)
      /\ Len(context') = Len(context) /\ stack' \in [Clients -> Seq(Frame)]
  BY <1>1, <1>2, FailsKeeps
<1>4. TypeOK'
  BY <1>1, <1>2, <1>3 DEF TypeOK, deployed, intents
<1>5. PinInv'
  <2>1. \A l \in Clients : stack'[l] = stack[l] \/ ~At(l, "filter")
    BY <1>1, <1>2, FailsKeeps DEF At
  <2> QED BY <1>1, <1>2, <2>1, PinStays
<1> QED BY <1>3, <1>4, <1>5 DEF IInv

\* Every step keeps the invariant.
LEMMA NextKeeps ==
    ASSUME IInv, [Next]_vars
    PROVE  IInv' /\ Steady
<1>1. ASSUME NEW k \in Clients, NEW d \in Digs, Starts(k, d) PROVE IInv' /\ Steady
  BY <1>1, StartsKeeps
<1>2. ASSUME NEW k \in Clients, Serves(k) PROVE IInv' /\ Steady
  BY <1>2, ReadsKeep, FilterKeeps, MigrationKeeps, UpdateSelectedKeeps, UpdateFailsKeeps, AllUpdatedKeeps,
     DeployKeeps, RecordKeeps DEF Serves, ReadsIntents
<1>3. ASSUME NEW c \in Contexts, Rsync(c) PROVE IInv' /\ Steady
  BY <1>3, AppliesKeeps, HandsOverKeeps, CleansUpKeeps DEF Rsync
<1>4. ASSUME NEW p, PodsRun(p) PROVE IInv' /\ Steady
  BY <1>4, PodsKeep
<1>5. CASE UNCHANGED vars
  BY <1>5, StutterKeeps
<1> QED BY <1>1, <1>2, <1>3, <1>4, <1>5 DEF Next

\* Initially there is no AppContext.
LEMMA InitIs == Init => IInv
<1> SUFFICES ASSUME Init PROVE IInv
  OBVIOUS
<1>1. context = <<>> /\ context \in Seq(AppContext) /\ Len(context) = 0 /\ Contexts = {}
  BY EmptySeq DEF Init, Contexts
<1>2. \A k \in Clients : stack[k] = <<>> /\ DOMAIN stack[k] = {}
  BY DEF Init
<1>3. stack \in [Clients -> Seq(Frame)]
  BY EmptySeq DEF Init
<1>4. TypeOK
  BY <1>1, <1>3, NoReadingIs DEF Init, TypeOK
<1>5. ContextInv /\ RecordInv /\ StackInv /\ PinInv
  <2>1. \A k \in Clients : reading[k].step = "flag"
    BY NoReadingIs DEF Init
  <2> QED BY <1>1, <1>2, <2>1 DEF Init, ContextInv, RecordInv, StackInv, PinInv, ReadInv
<1> QED BY <1>4, <1>5 DEF IInv

\* The invariant of the handlers, rsync and the intents, for any clients, DIGs, apps
\* and clusters: rsync is given at most one cluster for an app, one of its candidates,
\* and with one handler exactly one, because the intents hold candidates whenever they
\* are read.
THEOREM Invariance == Spec => []IInv
<1>1. Init => IInv
  BY InitIs
<1>2. IInv /\ [Next]_vars => IInv'
  BY NextKeeps
<1> QED BY <1>1, <1>2, PTL DEF Spec

\* The types of the state, which the indexing of stacks and AppContexts relies on.
THEOREM TypeCorrect == Spec => []TypeOK
<1>1. IInv => TypeOK
  BY DEF IInv
<1> QED BY <1>1, Invariance, PTL

\* Whatever is pinned, taken out and filtered on the way by nested operations: while one
\* handler is at work, rsync is given one cluster for each app (deleteExtraClusters in
\* instantiation_scheduler_helper.go).
THEOREM OnePlacementSafe ==
    ASSUME \A j, l \in Clients : j = l
    PROVE  Spec => []OnePlacement
<1>1. IInv => OnePlacement
  <2> SUFFICES ASSUME IInv, NEW c \in Contexts, Handed(c), NEW a \in AppsIn(c)
               PROVE  Cardinality(context[c].tree[a]) = 1
    BY DEF OnePlacement, Handed, AppsIn
  <2>1. \E x \in Clusters : context[c].tree[a] = {x}
    BY DEF IInv, ContextInv, ContextOk, OneHandler
  <2> QED BY <2>1, FS_Singleton
<1> QED BY <1>1, Invariance, PTL

-------------------------------------------------------------------------------
(* What room is made with.  One handler is at work, and clients only         *)
(* instantiate DIGs: the Updates are those the scheduler calls.              *)

\* A frame stays as it is while nothing is handed to rsync.
LEMMA StayLasts ==
    ASSUME TypeOK, RecordInv, Steady, record' = record, NEW f \in Frame, FrameInv(f), StayInv(f),
           NEW g \in Frame, g.op = f.op, g.dig = f.dig, g.ctx = f.ctx, f.pc = "filter" <=> g.pc = "filter",
           \A c \in Contexts' : Handed(c)' => c \in Contexts /\ Handed(c),
           context'[f.ctx].tree = context[f.ctx].tree
    PROVE  StayInv(g)'
<1>1. f.dig \in Digs
  BY DEF Frame
<1>2. record[f.dig] # 0 => context'[record[f.dig]].tree = context[record[f.dig]].tree
  BY <1>1 DEF RecordInv, Serving, Steady
<1>3. \A c \in Contexts' : Serving(c, f.dig)' => Serving(c, f.dig)
  BY DEF Serving, Steady
<1> QED BY <1>2, <1>3 DEF StayInv, Serving

\* While nothing is handed to rsync and nothing recorded, AppContexts agree and are known.
LEMMA AgreeLasts ==
    ASSUME RoomInv, Steady, record' = record,
           \A c \in Contexts' : Handed(c)' => c \in Contexts /\ Handed(c),
           \A k \in Clients : At(k, "record") => stack'[k] = stack[k]
    PROVE  AgreeInv' /\ KnownInv'
<1>1. AgreeInv'
  BY DEF RoomInv, AgreeInv, Steady, AppsIn
<1>2. ASSUME NEW c \in Contexts', Handed(c)'
      PROVE  record'[context'[c].dig] # 0 \/ \E k \in Clients : (At(k, "record") /\ Top(k).ctx = c)'
  <2>1. c \in Contexts /\ Handed(c) /\ context'[c].dig = context[c].dig
    BY <1>2 DEF Steady
  <2>2. record[context[c].dig] # 0 \/ \E k \in Clients : At(k, "record") /\ Top(k).ctx = c
    BY <2>1 DEF RoomInv, KnownInv
  <2> QED BY <2>1, <2>2 DEF At, Top
<1> QED BY <1>1, <1>2 DEF KnownInv

\* Intents that hold where apps are still do if no DIG is selected.
LEMMA HoldLasts ==
    ASSUME RecordInv, HoldInv, Steady, record' = record, leaving' \subseteq leaving,
           \A d \in Digs : selected'[d] =>
               selected[d] /\ \A a \in AppSet(d) : deployedAt'[a] = deployedAt[a]
    PROVE  HoldInv'
<1> SUFFICES ASSUME NEW d \in Digs, selected'[d]
             PROVE  record[d] # 0 /\ \A a \in AppSet(d) \ Movable : context'[record[d]].tree[a] = {deployedAt'[a]}
  BY DEF HoldInv
<1>1. record[d] # 0 /\ \A a \in AppSet(d) \ Movable : context[record[d]].tree[a] = {deployedAt[a]}
  BY DEF HoldInv
<1>2. context'[record[d]].tree = context[record[d]].tree
  BY <1>1 DEF RecordInv, Serving, Steady
<1> QED BY <1>1, <1>2

\* The frames of the one handler after a step, of which the last one is new or at
\* its next step and the others are as they were.
LEMMA RoomFrames ==
    ASSUME IInv, RoomInv, OneHandler, NEW k \in Clients, Steady, record' = record,
           \A c \in Contexts' : Handed(c)' => c \in Contexts /\ Handed(c),
           NEW n \in Nat, DOMAIN stack'[k] = 1 .. n + 1,
           \A i \in 1 .. n : /\ i \in DOMAIN stack[k] /\ stack[k][i].pc = "update"
                             /\ context'[stack[k][i].ctx].tree = context[stack[k][i].ctx].tree
                             /\ \E m \in Nat : stack'[k][i] \in {stack[k][i], [stack[k][i] EXCEPT !.next = m]},
           NEW g \in Frame, g = stack'[k][n + 1], StayInv(g)', n > 0 => g.op = "Update",
           AgreeInv', KnownInv', HoldInv'
    PROVE  RoomInv'
<1>1. TypeOK /\ RecordInv /\ StackInv
  BY DEF IInv
<1>2. ASSUME NEW i \in 1 .. n
      PROVE  StayInv(stack[k][i])' /\ (i > 1 => stack'[k][i].op = "Update")
  <2>1. PICK f \in Frame : f = stack[k][i] /\ FrameInv(f) /\ StayInv(f) /\ (i > 1 => f.op = "Update")
                           /\ f.pc = "update" /\ f.ctx \in Contexts
    BY <1>1, <1>2, StackTypes DEF StackInv, RoomInv, FrameInv
  <2>2. PICK h \in Frame : h = stack'[k][i] /\ h.op = f.op /\ h.dig = f.dig /\ h.ctx = f.ctx /\ h.pc = f.pc
    <3>1. PICK m \in Nat : stack'[k][i] \in {f, [f EXCEPT !.next = m]}
      BY <1>2, <2>1
    <3> QED BY <2>1, <3>1, ZenonT(60) DEF Frame
  <2>3. StayInv(h)'
    BY <1>1, <1>2, <2>1, <2>2, StayLasts
  <2> QED BY <2>1, <2>2, <2>3 DEF StayInv
<1>3. \A i \in DOMAIN stack'[k] : i \in 1 .. n \/ i = n + 1
  OBVIOUS
<1>4. \A i \in DOMAIN stack'[k] : StayInv(stack[k][i])' /\ (i > 1 => stack'[k][i].op = "Update")
  <2> SUFFICES ASSUME NEW i \in DOMAIN stack'[k]
               PROVE  StayInv(stack[k][i])' /\ (i > 1 => stack'[k][i].op = "Update")
    OBVIOUS
  <2>1. CASE i \in 1 .. n
    BY <1>2, <2>1
  <2>2. CASE i = n + 1
    <3>1. StayInv(stack[k][i])'
      BY <2>2 DEF StayInv, Serving, Handed
    <3> QED BY <2>2, <3>1, SMTT(40)
  <2> QED BY <1>3, <2>1, <2>2
<1> QED BY <1>4 DEF RoomInv, OneHandler

\* A handler whose operation fails leaves no frame.
LEMMA RoomFails ==
    ASSUME IInv, RoomInv, OneHandler, NEW k \in Clients, stack[k] # <<>>,
           Top(k).pc # "record", Fails(k), record' = record, HoldInv'
    PROVE  RoomInv'
<1>1. TypeOK /\ ContextInv /\ RecordInv /\ StackInv
  BY DEF IInv
<1>2. Steady /\ stack'[k] = <<>> /\ Contexts' = Contexts /\ \A c \in Contexts : Handed(c)' <=> Handed(c)
  BY <1>1, FailsKeeps
<1>3. ~At(k, "record")
  BY DEF At
<1>4. \A c \in Contexts' : Handed(c)' => c \in Contexts /\ Handed(c)
  BY <1>2
<1>5. AgreeInv' /\ KnownInv'
  BY <1>2, <1>3, <1>4, AgreeLasts DEF OneHandler
<1>6. DOMAIN stack'[k] = {}
  BY <1>2
<1> QED BY <1>5, <1>6 DEF RoomInv, OneHandler


\* What a handler does when it goes on to its next step and hands nothing to rsync.
LEMMA RoomGoes ==
    ASSUME IInv, RoomInv, OneHandler, NEW k \in Clients, stack[k] # <<>>,
           Top(k).pc # "record", Steady, record' = record,
           \A c \in Contexts' : Handed(c)' => c \in Contexts /\ Handed(c),
           \A c \in Contexts : c # Top(k).ctx => context'[c] = context[c],
           NEW g \in Frame, Goes(k, g), StayInv(g)', g.op = Top(k).op, HoldInv'
    PROVE  RoomInv'
<1>1. TypeOK /\ RecordInv /\ StackInv
  BY DEF IInv
<1>2. PICK n \in Nat : n = Len(stack[k]) - 1
  BY <1>1, StackTypes
<1>3. Len(stack[k]) = n + 1 /\ DOMAIN stack[k] = 1 .. n + 1 /\ Top(k) = stack[k][n + 1]
  BY <1>1, <1>2, StackTypes
<1>4. /\ DOMAIN stack'[k] = 1 .. n + 1 /\ stack'[k][n + 1] = g
      /\ \A i \in 1 .. n : stack'[k][i] = stack[k][i]
  BY <1>1, <1>2, <1>3, GoesIs
<1>5. \A i \in 1 .. n : i \in DOMAIN stack[k] /\ stack[k][i].pc = "update" /\ stack[k][i].ctx # Top(k).ctx
                         /\ i # n + 1
  BY <1>3 , <1>1 DEF StackInv
<1>6. ~At(k, "record")
  BY DEF At
<1>7. AgreeInv' /\ KnownInv'
  BY <1>6, AgreeLasts DEF OneHandler
<1>8. n > 0 => g.op = "Update"
  BY <1>3 DEF RoomInv
<1>9. \A i \in 1 .. n : context'[stack[k][i].ctx].tree = context[stack[k][i].ctx].tree
  <2> SUFFICES ASSUME NEW i \in 1 .. n PROVE context'[stack[k][i].ctx] = context[stack[k][i].ctx]
    OBVIOUS
  <2>1. stack[k][i].ctx \in Contexts
    BY <1>1, <1>5 DEF StackInv, FrameInv
  <2> QED BY <1>5, <2>1
<1>10. \A i \in 1 .. n : /\ i \in DOMAIN stack[k] /\ stack[k][i].pc = "update"
                          /\ \E m \in Nat : stack'[k][i] \in {stack[k][i], [stack[k][i] EXCEPT !.next = m]}
  BY <1>4, <1>5
<1> QED BY <1>4, <1>7, <1>8, <1>9, <1>10, RoomFrames


\* A client starts to instantiate a DIG.
LEMMA RoomStarts ==
    ASSUME IInv, RoomInv, OneHandler, "Update" \notin Operations,
           NEW k \in Clients, NEW d \in Digs, Starts(k, d)
    PROVE  RoomInv'
<1>1. TypeOK /\ ContextInv /\ RecordInv /\ StackInv
  BY DEF IInv
<1>2. /\ record[d] = 0 /\ stack[k] = <<>> /\ Makes("Instantiate", d)
      /\ UNCHANGED <<deployed, record, intents, reading>>
      /\ stack' = [stack EXCEPT ![k] = <<NewFrame("Instantiate", d)>>]
  BY DEF Starts
<1>3. PICK g \in Frame : g = NewFrame("Instantiate", d)
  BY <1>1, <1>2, MakesIs DEF OperationKinds
<1>4. /\ Steady /\ \A c \in Contexts : context'[c] = context[c]
      /\ \A c \in Contexts' : Handed(c)' => c \in Contexts
  BY <1>1, <1>2, MakesIs DEF OperationKinds
<1>5. \A c \in Contexts' : Handed(c)' => c \in Contexts /\ Handed(c)
  BY <1>4 DEF Handed
<1>6. ~At(k, "record")
  BY <1>2 DEF At
<1>7. AgreeInv' /\ KnownInv'
  BY <1>2, <1>5, <1>4, <1>6, AgreeLasts
<1>8. HoldInv'
  BY <1>1, <1>2, <1>4, HoldLasts DEF RoomInv, intents
<1>9. StayInv(g)'
  <2>1. g.op = "Instantiate" /\ g.dig = d
    BY <1>3 DEF NewFrame
  <2>2. \A c \in Contexts : ~Serving(c, d)
    BY <1>2, <1>6 DEF RoomInv, KnownInv, Serving, OneHandler
  <2>3. \A c \in Contexts' : ~Serving(c, d)'
    BY <1>4, <1>5, <2>2 DEF Serving
  <2> QED BY <1>2, <2>1, <2>3 DEF StayInv
<1>10. stack'[k] = <<g>>
  BY <1>1, <1>2, <1>3 DEF TypeOK
<1>11. PICK n \in Nat : n = 0
  OBVIOUS
<1>12. DOMAIN stack'[k] = 1 .. n + 1 /\ stack'[k][n + 1] = g /\ 1 .. n = {} /\ ~(n > 0)
  BY <1>10, <1>11
<1> QED BY <1>2, <1>4, <1>5, <1>7, <1>8, <1>9, <1>12, RoomFrames

\* The intents of a DIG are read and reset.
LEMMA RoomReads ==
    ASSUME IInv, RoomInv, OneHandler, NEW k \in Clients, ReadsIntents(k)
    PROVE  RoomInv'
<1>1. TypeOK /\ RecordInv /\ StackInv /\ PinInv /\ HoldInv
  BY DEF IInv, RoomInv
<1>2. /\ UNCHANGED <<context, record, stack>> /\ leaving' \subseteq leaving
      /\ \A e \in Digs : selected'[e] => selected[e] /\ \A a \in AppSet(e) : deployedAt'[a] = deployedAt[a]
  BY <1>1, ResetIs
<1>3. Steady /\ Contexts' = Contexts
  BY <1>2, ReadsKeep DEF Contexts
<1>4. \A c \in Contexts' : c \in Contexts /\ (Handed(c)' => Handed(c))
  BY <1>2, <1>3 DEF Handed
<1>5. HoldInv'
  BY <1>1, <1>2, <1>3, HoldLasts
<1>6. AgreeInv' /\ KnownInv'
  BY <1>2, <1>3, <1>4, AgreeLasts
<1>7. ASSUME NEW l \in Clients, NEW i \in DOMAIN stack[l] PROVE StayInv(stack[l][i])'
  <2>1. PICK f \in Frame : f = stack[l][i] /\ f = stack'[l][i] /\ FrameInv(f) /\ StayInv(f)
    BY <1>1, <1>2, StackTypes DEF StackInv, RoomInv
  <2>2. StayInv(f)'
    BY <1>1, <1>2, <1>3, <1>4, <2>1, StayLasts
  <2> QED BY <2>1, <2>2 DEF StayInv, Serving, Handed
<1> QED BY <1>2, <1>5, <1>6, <1>7 DEF RoomInv

\* Placement: an Update keeps what must not be moved where it is.
LEMMA RoomFilter ==
    ASSUME IInv, RoomInv, OneHandler, NEW k \in Clients, HeldInv(k), FilterClusters(k)
    PROVE  RoomInv'
<1>1. TypeOK /\ ContextInv /\ RecordInv /\ StackInv /\ HoldInv
  BY DEF IInv, RoomInv
<1>2. /\ stack[k] # <<>> /\ Top(k).pc = "filter" /\ UNCHANGED <<record, intents>>
      /\ At(k, "filter") /\ reading[k].step = "judge"
  BY DEF FilterClusters, Reads, At
<1>3. PICK f \in Frame : /\ f = Top(k) /\ f.ctx \in Contexts /\ f.dig \in Digs /\ FrameInv(f) /\ ~Handed(f.ctx)
                         /\ StayInv(f) /\ f.pc = "filter"
  BY <1>1, <1>2, AtWork DEF RoomInv
<1>4. Steady
  BY FilterKeeps
<1>5. HoldInv'
  BY <1>1, <1>2, <1>4, HoldLasts DEF intents
<1>6. CASE Fails(k)
  BY <1>2, <1>5, <1>6, RoomFails
<1>7. CASE ~Fails(k)
  <2>1. PICK t \in [Apps -> SUBSET Clusters], g \in Frame : Filtered(k, f, t, g)
    BY <1>3, <1>7, FilterIs
  <2>2. \A a \in AppsIn(f.ctx) : t[a] \subseteq Candidates[a]
    BY <1>3, <2>1 DEF AppsIn, FrameInv, Filtered
  <2>3. /\ Contexts' = Contexts /\ context'[f.ctx].tree = t
        /\ \A e \in Contexts \ {f.ctx} : context'[e] = context[e]
        /\ \A e \in Contexts : Handed(e)' <=> Handed(e)
    BY <1>1, <1>3, <2>1, <2>2, TreeIs DEF Filtered
  <2>4. /\ g.ctx = f.ctx /\ g.dig = f.dig /\ g.op = f.op /\ g.pc # "filter" /\ Goes(k, g)
        /\ reading[k].moves =>
              \A a \in AppSet(f.dig) \ reading[k].moving : t[a] \subseteq {reading[k].at[a]}
    BY <2>1 DEF Filtered
  <2>5. StayInv(g)'
    <3>1. f.op = "Update" => \A a \in AppSet(f.dig) \ Movable : t[a] \subseteq context'[record[f.dig]].tree[a]
      <4> SUFFICES ASSUME f.op = "Update", NEW a \in AppSet(f.dig) \ Movable
                   PROVE  t[a] \subseteq context'[record[f.dig]].tree[a]
        OBVIOUS
      <4>1. reading[k].moves /\ record[f.dig] # 0
        BY <1>2, <1>3 DEF StayInv, HeldInv
      <4>2. a \notin reading[k].moving /\ context[record[f.dig]].tree[a] = {reading[k].at[a]}
        BY <1>2, <1>3 DEF HeldInv, HoldsUnmovable
      <4>3. context'[record[f.dig]].tree = context[record[f.dig]].tree
        BY <1>1, <1>3, <1>4, <4>1 DEF RecordInv, Serving, Steady
      <4> QED BY <2>4, <4>1, <4>2, <4>3
    <3>2. \A c \in Contexts' : Serving(c, f.dig)' => Serving(c, f.dig)
      BY <1>4, <2>3 DEF Serving, Steady
    <3> QED BY <1>2, <1>3, <2>3, <2>4, <3>1, <3>2 DEF StayInv
  <2> QED BY <1>2, <1>3, <1>4, <1>5, <2>3, <2>4, <2>5, RoomGoes
<1> QED BY <1>6, <1>7


\* The migration controller: the intents of the DIGs it selects get the clusters of an
\* AppContext that rsync has, and that the record agrees with.
LEMMA RoomMigration ==
    ASSUME IInv, RoomInv, OneHandler, NEW k \in Clients, MigrationApps(k)
    PROVE  RoomInv'
<1>1. TypeOK /\ ContextInv /\ RecordInv /\ StackInv /\ HoldInv
  BY DEF IInv, RoomInv
<1>2. stack[k] # <<>> /\ Top(k).pc = "migrate" /\ record' = record /\ ~At(k, "record")
  BY DEF MigrationApps, At
<1>3. PICK f \in Frame : /\ f = Top(k) /\ f.ctx \in Contexts /\ f.dig \in Digs /\ FrameInv(f)
                         /\ StayInv(f) /\ f.pc = "migrate"
  BY <1>1, <1>2, AtWork DEF RoomInv
<1>4. Steady
  BY MigrationKeeps
<1>5. /\ leaving' \subseteq leaving \cup Movable
      /\ \A d \in Digs : selected'[d] =>
            \/ \E c \in Contexts : Serving(c, d) /\ \A a \in AppSet(d) : context[c].tree[a] = {deployedAt'[a]}
            \/ selected[d] /\ \A a \in AppSet(d) : deployedAt'[a] = deployedAt[a]
  BY <1>1, MigrationIs
<1>6. HoldInv'
  <2> SUFFICES ASSUME NEW d \in Digs, selected'[d]
               PROVE  record[d] # 0 /\ \A a \in AppSet(d) \ Movable : context'[record[d]].tree[a] = {deployedAt'[a]}
    BY <1>1, <1>2, <1>5 DEF HoldInv
  <2>1. record[d] # 0 /\ \A a \in AppSet(d) \ Movable : context[record[d]].tree[a] = {deployedAt'[a]}
    <3>1. CASE \E c \in Contexts : Serving(c, d) /\ \A a \in AppSet(d) : context[c].tree[a] = {deployedAt'[a]}
      <4>1. PICK c \in Contexts : Serving(c, d) /\ \A a \in AppSet(d) : context[c].tree[a] = {deployedAt'[a]}
        BY <3>1
      <4>2. record[d] # 0
        BY <1>2, <4>1 DEF RoomInv, KnownInv, Serving, OneHandler
      <4>3. record[d] \in Contexts /\ context[record[d]].dig = d /\ Handed(record[d])
        BY <1>1, <4>2 DEF RecordInv, Serving
      <4>4. \A a \in AppSet(d) \ Movable : context[c].tree[a] = context[record[d]].tree[a]
        BY <4>1, <4>3 DEF RoomInv, AgreeInv, Serving, AppsIn
      <4> QED BY <4>1, <4>2, <4>4
    <3>2. CASE selected[d] /\ \A a \in AppSet(d) : deployedAt'[a] = deployedAt[a]
      BY <1>1, <3>2 DEF HoldInv
    <3> QED BY <1>5, <3>1, <3>2
  <2>2. context'[record[d]].tree = context[record[d]].tree
    BY <1>1, <1>4, <2>1 DEF RecordInv, Serving, Steady
  <2> QED BY <2>1, <2>2
<1>7. CASE Fails(k)
  BY <1>2, <1>6, <1>7, RoomFails
<1>8. CASE ~Fails(k)
  <2>1. Goes(k, [f EXCEPT !.pc = "update"]) /\ UNCHANGED context
    BY <1>3, <1>8 DEF MigrationApps
  <2>2. PICK g \in Frame : g = [f EXCEPT !.pc = "update"]
    BY DEF Frame
  <2>3. g.ctx = f.ctx /\ g.dig = f.dig /\ g.op = f.op /\ g.pc = "update"
    BY <2>2 DEF Frame
  <2>4. \A c \in Contexts' : c \in Contexts /\ (Handed(c)' => Handed(c))
    BY <2>1 DEF Handed, Contexts
  <2>5. StayInv(g)'
    BY <1>1, <1>2, <1>3, <1>4, <2>1, <2>3, <2>4, StayLasts
  <2> QED BY <1>2, <1>3, <1>4, <1>6, <2>1, <2>2, <2>3, <2>4, <2>5, RoomGoes
<1> QED BY <1>7, <1>8

\* All selected DIGs are updated.
LEMMA RoomAllUpdated ==
    ASSUME IInv, RoomInv, OneHandler, NEW k \in Clients, AllUpdated(k)
    PROVE  RoomInv'
<1>1. TypeOK /\ ContextInv /\ RecordInv /\ StackInv /\ HoldInv
  BY DEF IInv, RoomInv
<1>2. stack[k] # <<>> /\ Top(k).pc = "update" /\ UNCHANGED <<context, record, intents>>
  BY DEF AllUpdated, At
<1>3. PICK f \in Frame : /\ f = Top(k) /\ f.ctx \in Contexts /\ f.dig \in Digs /\ FrameInv(f)
                         /\ StayInv(f) /\ f.pc = "update"
  BY <1>1, <1>2, AtWork DEF RoomInv
<1>4. Steady
  BY AllUpdatedKeeps
<1>5. PICK g \in Frame : g = [f EXCEPT !.pc = "deploy"]
  BY DEF Frame
<1>6. g.ctx = f.ctx /\ g.dig = f.dig /\ g.op = f.op /\ g.pc = "deploy"
  BY <1>5 DEF Frame
<1>7. \A c \in Contexts' : c \in Contexts /\ (Handed(c)' => Handed(c))
  BY <1>2 DEF Handed, Contexts
<1>8. StayInv(g)'
  BY <1>1, <1>2, <1>3, <1>4, <1>6, <1>7, StayLasts
<1>9. HoldInv'
  BY <1>1, <1>2, <1>4, HoldLasts DEF intents
<1>10. Goes(k, g)
  BY <1>3, <1>5 DEF AllUpdated
<1> QED BY <1>2, <1>3, <1>4, <1>6, <1>7, <1>8, <1>9, <1>10, RoomGoes

\* The scheduler updates a DIG that is selected.
LEMMA RoomUpdateSelected ==
    ASSUME IInv, RoomInv, OneHandler, NEW k \in Clients, UpdateSelected(k)
    PROVE  RoomInv'
<1>1. TypeOK /\ ContextInv /\ RecordInv /\ StackInv /\ HoldInv
  BY DEF IInv, RoomInv
<1>2. stack[k] # <<>> /\ Top(k).pc = "update" /\ UNCHANGED <<record, intents>> /\ ~At(k, "record")
  BY DEF UpdateSelected, At
<1>3. Steady
  BY UpdateSelectedKeeps, UpdateFailsKeeps
<1>4. HoldInv'
  BY <1>1, <1>2, <1>3, HoldLasts DEF intents
<1>5. CASE Fails(k)
  BY <1>2, <1>4, <1>5, RoomFails
<1>6. CASE ~Fails(k)
  <2>1. PICK m \in Nat, d \in Digs, g \in Frame :
            /\ selected[d] /\ record[d] # 0 /\ Makes("Update", d) /\ g = NewFrame("Update", d)
            /\ DOMAIN stack'[k] = 1 .. Len(stack[k]) + 1
            /\ stack'[k][Len(stack[k]) + 1] = g
            /\ \A j \in DOMAIN stack[k] :
                  stack'[k][j] \in {stack[k][j], [stack[k][j] EXCEPT !.next = m]} /\ stack[k][j].pc = "update"
    BY <1>6, UpdateSelectedIs
  <2>2. /\ \A c \in Contexts : context'[c] = context[c]
        /\ \A c \in Contexts' : Handed(c)' => c \in Contexts
    BY <1>1, <2>1, MakesIs DEF OperationKinds
  <2>3. \A c \in Contexts' : Handed(c)' => c \in Contexts /\ Handed(c)
    BY <2>2 DEF Handed
  <2>4. AgreeInv' /\ KnownInv'
    BY <1>2, <1>3, <2>3, AgreeLasts DEF OneHandler
  <2>5. StayInv(g)' /\ g.op = "Update"
    <3>1. g.op = "Update" /\ g.dig = d /\ g.pc = "filter"
      BY <2>1 DEF NewFrame
    <3> QED BY <1>2, <2>1, <3>1 DEF StayInv, intents
  <2>6. PICK n \in Nat : n = Len(stack[k])
    BY <1>1, StackTypes
  <2>7. \A i \in 1 .. n : /\ i \in DOMAIN stack[k] /\ stack[k][i].pc = "update"
                          /\ context'[stack[k][i].ctx].tree = context[stack[k][i].ctx].tree
                          /\ \E l \in Nat : stack'[k][i] \in {stack[k][i], [stack[k][i] EXCEPT !.next = l]}
    <3> SUFFICES ASSUME NEW i \in 1 .. n
                 PROVE  /\ i \in DOMAIN stack[k] /\ stack[k][i].pc = "update"
                        /\ context'[stack[k][i].ctx] = context[stack[k][i].ctx]
                        /\ \E l \in Nat : stack'[k][i] \in {stack[k][i], [stack[k][i] EXCEPT !.next = l]}
      OBVIOUS
    <3>1. i \in DOMAIN stack[k]
      BY <1>1, <2>6, StackTypes
    <3>2. stack[k][i].ctx \in Contexts
      BY <1>1, <3>1 DEF StackInv, FrameInv
    <3> QED BY <2>1, <2>2, <3>1, <3>2
  <2>8. DOMAIN stack'[k] = 1 .. n + 1 /\ g = stack'[k][n + 1]
    BY <2>1, <2>6
  <2> QED BY <1>2, <1>3, <1>4, <2>3, <2>4, <2>5, <2>7, <2>8, RoomFrames
<1> QED BY <1>5, <1>6


\* What two AppContexts of a DIG list for an app is the same if one is part of the other.
LEMMA OneEach ==
    ASSUME NEW S, NEW T, \E x \in Clusters : S = {x}, \E y \in Clusters : T = {y}, S \subseteq T
    PROVE  S = T
  OBVIOUS

\* rsync is given an AppContext: an Update agrees with the record, an Instantiate with
\* itself, as it is the first one of its DIG.
LEMMA RoomDeploy ==
    ASSUME IInv, RoomInv, OneHandler, NEW k \in Clients, Deploy(k)
    PROVE  RoomInv'
<1>1. TypeOK /\ ContextInv /\ RecordInv /\ StackInv /\ HoldInv
  BY DEF IInv, RoomInv
<1>2. stack[k] # <<>> /\ Top(k).pc = "deploy" /\ UNCHANGED <<record, intents>> /\ ~At(k, "record")
  BY DEF Deploy, At
<1>3. PICK f \in Frame : /\ f = Top(k) /\ f.ctx \in Contexts /\ f.dig \in Digs /\ FrameInv(f)
                         /\ StayInv(f) /\ f.pc = "deploy" /\ ~Handed(f.ctx) /\ context[f.ctx].dig = f.dig
  BY <1>1, <1>2, AtWork DEF RoomInv, FrameInv
<1>4. /\ Steady /\ ContextInv' /\ Contexts' = Contexts /\ Handed(f.ctx)'
      /\ \A e \in Contexts \ {f.ctx} : context'[e] = context[e]
      /\ \A a \in AppSet(f.dig) : context'[f.ctx].tree[a] \subseteq context[f.ctx].tree[a]
  BY <1>3, DeployIs
<1>5. \A e \in Contexts : e # f.ctx => (Handed(e)' <=> Handed(e))
  BY <1>4 DEF Handed
<1>6. record[f.dig] # 0 => /\ record[f.dig] \in Contexts /\ Handed(record[f.dig]) /\ record[f.dig] # f.ctx
                           /\ context[record[f.dig]].dig = f.dig
                           /\ context'[record[f.dig]] = context[record[f.dig]]
  BY <1>1, <1>3, <1>4 DEF RecordInv, Serving
<1>7. HoldInv'
  BY <1>1, <1>2, <1>4, HoldLasts DEF intents
<1>8. ASSUME NEW e \in Contexts, Handed(e), context[e].dig = f.dig
      PROVE  \A a \in AppSet(f.dig) \ Movable : context'[f.ctx].tree[a] = context[e].tree[a]
  <2>1. f.op # "Instantiate"
    BY <1>3, <1>8 DEF StayInv, Serving
  <2>2. f.op = "Update" /\ record[f.dig] # 0
    BY <1>3, <2>1 DEF StayInv, Frame, OperationKinds
  <2> SUFFICES ASSUME NEW a \in AppSet(f.dig) \ Movable
               PROVE  context'[f.ctx].tree[a] = context[e].tree[a]
    OBVIOUS
  <2>3. context'[f.ctx].tree[a] \subseteq context[record[f.dig]].tree[a]
    BY <1>3, <1>4, <2>2 DEF StayInv
  <2>4. \E x \in Clusters : context'[f.ctx].tree[a] = {x}
    BY <1>3, <1>4 DEF ContextInv, ContextOk, AppsIn, Steady
  <2>5. \E x \in Clusters : context[record[f.dig]].tree[a] = {x}
    BY <1>1, <1>6, <2>2 DEF ContextInv, ContextOk, AppsIn
  <2>6. context[e].tree[a] = context[record[f.dig]].tree[a]
    BY <1>6, <1>8, <2>2 DEF RoomInv, AgreeInv, AppsIn
  <2> QED BY <2>3, <2>4, <2>5, <2>6, OneEach
<1>9. AgreeInv'
  <2> SUFFICES ASSUME NEW c \in Contexts, NEW e \in Contexts, Handed(c)', Handed(e)',
                      context'[c].dig = context'[e].dig, NEW a \in AppSet(context'[c].dig) \ Movable
               PROVE  context'[c].tree[a] = context'[e].tree[a]
    BY <1>4 DEF AgreeInv, AppsIn
  <2>1. PICK d : /\ context'[c].dig = d /\ context'[e].dig = d /\ context[c].dig = d /\ context[e].dig = d
                 /\ a \in AppSet(d) \ Movable
    BY <1>4 DEF Steady
  <2>2. CASE c = f.ctx /\ e # f.ctx
    <3>1. Handed(e) /\ d = f.dig /\ context'[e] = context[e]
      BY <1>3, <1>4, <1>5, <2>1, <2>2
    <3> QED BY <1>8, <2>1, <2>2, <3>1
  <2>3. CASE c # f.ctx /\ e = f.ctx
    <3>1. Handed(c) /\ d = f.dig /\ context'[c] = context[c]
      BY <1>3, <1>4, <1>5, <2>1, <2>3
    <3> QED BY <1>8, <2>1, <2>3, <3>1
  <2>4. CASE c # f.ctx /\ e # f.ctx
    <3>1. Handed(c) /\ Handed(e) /\ context'[c] = context[c] /\ context'[e] = context[e]
      BY <1>4, <1>5, <2>4
    <3> QED BY <2>1, <3>1 DEF RoomInv, AgreeInv, AppsIn
  <2>5. CASE c = f.ctx /\ e = f.ctx
    BY <2>5
  <2> QED BY <2>2, <2>3, <2>4, <2>5
<1>10. PICK g \in Frame : g = [f EXCEPT !.pc = "record"]
  BY DEF Frame
<1>11. g.ctx = f.ctx /\ g.dig = f.dig /\ g.op = f.op /\ g.pc = "record" /\ Goes(k, g)
  BY <1>3, <1>10 DEF Frame, Deploy
<1>12. PICK n \in Nat : /\ n = Len(stack[k]) - 1 /\ Len(stack[k]) = n + 1 /\ DOMAIN stack[k] = 1 .. n + 1
                        /\ f = stack[k][n + 1]
  BY <1>1, <1>2, <1>3, StackTypes
<1>13. /\ DOMAIN stack'[k] = 1 .. n + 1 /\ Len(stack'[k]) = n + 1 /\ stack'[k][n + 1] = g
       /\ \A i \in 1 .. n : stack'[k][i] = stack[k][i]
  BY <1>1, <1>2, <1>11, <1>12, GoesIs
<1>14. KnownInv'
  <2>1. stack'[k] # <<>> /\ Last(stack'[k]) = g
    BY <1>13 DEF Last
  <2>2. At(k, "record")' /\ Top(k)'.ctx = f.ctx
    BY <1>11, <2>1 DEF At, Top
  <2>3. \A c \in Contexts \ {f.ctx} : Handed(c)' => record'[context'[c].dig] # 0
    BY <1>2, <1>4, <1>5 DEF RoomInv, KnownInv, Steady, OneHandler
  <2> QED BY <1>4, <2>2, <2>3 DEF KnownInv
<1>15. StayInv(g)'
  <2>1. \A c \in Contexts : Serving(c, f.dig)' => c = f.ctx \/ Serving(c, f.dig)
    BY <1>4, <1>5 DEF Serving, Steady
  <2>2. f.op = "Update" => \A a \in AppSet(f.dig) \ Movable : context'[f.ctx].tree[a] \subseteq context'[record[f.dig]].tree[a]
    BY <1>3, <1>4, <1>6, SMTT(40) DEF StayInv
  <2> QED BY <1>2, <1>3, <1>4, <1>11, <2>1, <2>2 DEF StayInv, Serving
<1>16. ASSUME NEW i \in 1 .. n
       PROVE  StayInv(stack[k][i])' /\ (i > 1 => stack[k][i].op = "Update")
  <2>1. PICK h \in Frame : /\ h = stack[k][i] /\ h = stack'[k][i] /\ FrameInv(h) /\ StayInv(h) /\ h.pc = "update"
                           /\ h.ctx \in Contexts /\ h.ctx # f.ctx /\ h.dig \in Digs
    <3>1. i \in DOMAIN stack[k] /\ i < n + 1 /\ i # n + 1 /\ n + 1 \in DOMAIN stack[k]
      BY <1>12
    <3>2. stack[k][i] \in Frame
      BY <1>1, <3>1, StackTypes
    <3>3. FrameInv(stack[k][i]) /\ StayInv(stack[k][i]) /\ stack[k][i].pc = "update" /\ stack[k][i].ctx # f.ctx
      BY <1>1, <1>12, <3>1 DEF StackInv, RoomInv
    <3> QED BY <1>13, <3>2, <3>3 DEF FrameInv, Frame
  <2>2. f.op = "Update"
    BY <1>12 DEF RoomInv
  <2>3. h.op = "Instantiate" => h.dig # f.dig
    BY <1>3, <2>1, <2>2 DEF StayInv
  <2>4. \A c \in Contexts : Serving(c, h.dig)' => Serving(c, h.dig) \/ (c = f.ctx /\ h.dig = f.dig)
    BY <1>3, <1>4, <1>5 DEF Serving, Steady
  <2>5. context'[h.ctx] = context[h.ctx]
    BY <1>4, <2>1
  <2>6. record[h.dig] # 0 => context'[record[h.dig]].tree = context[record[h.dig]].tree
    BY <1>1, <1>4, <2>1, SMTT(40) DEF RecordInv, Serving, Steady
  <2>7. StayInv(h)'
    BY <1>2, <1>4, <2>1, <2>3, <2>4, <2>5, <2>6 DEF StayInv, Serving
  <2>8. i > 1 => h.op = "Update"
    <3>1. i \in DOMAIN stack[k]
      BY <1>12
    <3> QED BY <2>1, <3>1 DEF RoomInv
  <2> QED BY <2>1, <2>7, <2>8 DEF StayInv, Serving, Handed
<1>17. ASSUME NEW i \in DOMAIN stack'[k]
       PROVE  StayInv(stack[k][i])' /\ (i > 1 => stack'[k][i].op = "Update")
  <2>1. CASE i \in 1 .. n
    BY <1>13, <1>16, <2>1
  <2>2. CASE i = n + 1
    <3>1. StayInv(stack[k][i])'
      BY <1>13, <1>15, <2>2 DEF StayInv, Serving, Handed
    <3>2. i > 1 => f.op = "Update"
      BY <1>12, <2>2 DEF RoomInv
    <3> QED BY <1>11, <1>13, <2>2, <3>1, <3>2, SMTT(40)
  <2> QED BY <1>13, <2>1, <2>2
<1> QED BY <1>7, <1>9, <1>14, <1>17 DEF RoomInv, OneHandler

\* The AppContext is recorded: it agrees with the one before on what must not be moved.
LEMMA RoomRecord ==
    ASSUME IInv, RoomInv, OneHandler, NEW k \in Clients, Record(k)
    PROVE  RoomInv'
<1>1. TypeOK /\ ContextInv /\ RecordInv /\ StackInv /\ HoldInv /\ AgreeInv /\ KnownInv
  BY DEF IInv, RoomInv
<1>2. /\ stack[k] # <<>> /\ Top(k).pc = "record" /\ UNCHANGED <<context, intents>>
      /\ record' = [record EXCEPT ![Top(k).dig] = Top(k).ctx]
      /\ stack' = [stack EXCEPT ![k] = Front(@)]
  BY DEF Record, At
<1>3. PICK f \in Frame : /\ f = Top(k) /\ FrameInv(f) /\ StayInv(f) /\ f.ctx \in Contexts /\ f.dig \in Digs
                         /\ Handed(f.ctx) /\ context[f.ctx].dig = f.dig /\ f.pc = "record"
  BY <1>1, <1>2, AtWork DEF RoomInv, FrameInv
<1>4. /\ record'[f.dig] = f.ctx /\ f.ctx # 0 /\ \A d \in Digs \ {f.dig} : record'[d] = record[d]
  <2>1. f.ctx # 0
    BY <1>1, <1>3, Types
  <2> QED BY <1>1, <1>2, <1>3, <2>1 DEF TypeOK
<1>5. \A d \in Digs : record[d] # 0 =>
          /\ record'[d] # 0
          /\ \A a \in AppSet(d) \ Movable : context[record'[d]].tree[a] = context[record[d]].tree[a]
  <2> SUFFICES ASSUME NEW d \in Digs, record[d] # 0
               PROVE  /\ record'[d] # 0
                      /\ \A a \in AppSet(d) \ Movable : context[record'[d]].tree[a] = context[record[d]].tree[a]
    OBVIOUS
  <2>1. CASE d = f.dig
    <3>1. record[d] \in Contexts /\ Handed(record[d]) /\ context[record[d]].dig = f.dig
      BY <1>1, <2>1 DEF RecordInv, Serving
    <3>2. \A a \in AppsIn(f.ctx) \ Movable : context[f.ctx].tree[a] = context[record[d]].tree[a]
      BY <1>1, <1>3, <3>1 DEF AgreeInv
    <3> QED BY <1>3, <1>4, <2>1, <3>2 DEF AppsIn
  <2>2. CASE d # f.dig
    BY <1>4, <2>2
  <2> QED BY <2>1, <2>2
<1>6. AgreeInv'
  BY <1>1, <1>2 DEF AgreeInv, Contexts, Handed, AppsIn
<1>7. HoldInv'
  BY <1>1, <1>2, <1>5 DEF HoldInv, intents
<1>8. KnownInv'
  <2>1. ASSUME NEW c \in Contexts, Handed(c) PROVE record'[context[c].dig] # 0
    <3>1. context[c].dig \in Digs
      BY <1>1, Types
    <3>2. record[context[c].dig] # 0 \/ f.ctx = c
      BY <1>1, <1>3, <2>1 DEF KnownInv, OneHandler
    <3> QED BY <1>3, <1>4, <1>5, <3>1, <3>2
  <2> QED BY <1>2, <2>1 DEF KnownInv, Contexts, Handed
<1>9. PICK n \in Nat : /\ n = Len(stack[k]) - 1 /\ Len(stack[k]) = n + 1 /\ DOMAIN stack[k] = 1 .. n + 1
                       /\ f = stack[k][n + 1] /\ Front(stack[k]) \in Seq(Frame) /\ Len(Front(stack[k])) = n
                       /\ \A i \in 1 .. n : Front(stack[k])[i] = stack[k][i]
  BY <1>1, <1>2, <1>3, StackTypes
<1>10. DOMAIN stack'[k] = 1 .. n /\ \A i \in 1 .. n : stack'[k][i] = stack[k][i]
  <2>1. stack'[k] = Front(stack[k])
    BY <1>1, <1>2 DEF TypeOK
  <2>2. DOMAIN Front(stack[k]) = 1 .. n
    BY <1>9, LenProperties, SMTT(40)
  <2> QED BY <1>9, <2>1, <2>2
<1>11. ASSUME NEW i \in 1 .. n
       PROVE  StayInv(stack[k][i])' /\ (i > 1 => stack'[k][i].op = "Update")
  <2>1. PICK h \in Frame : /\ h = stack[k][i] /\ h = stack'[k][i] /\ StayInv(h) /\ h.pc = "update" /\ h.dig \in Digs
    <3>1. i \in DOMAIN stack[k] /\ i < n + 1
      BY <1>9
    <3>2. stack[k][i] \in Frame
      BY <1>1, <3>1, StackTypes
    <3>3. StayInv(stack[k][i]) /\ stack[k][i].pc = "update"
      BY <1>1, <1>9, <3>1 DEF StackInv, RoomInv
    <3> QED BY <1>10, <3>2, <3>3 DEF Frame
  <2>2. f.op = "Update" /\ record[f.dig] # 0
    <3>1. n + 1 \in DOMAIN stack[k] /\ n + 1 > 1
      BY <1>9
    <3>2. stack[k][n + 1].op = "Update" /\ StayInv(stack[k][n + 1])
      BY <1>1, <3>1 DEF RoomInv
    <3>3. f.op = "Update" /\ StayInv(f)
      BY <1>9, <3>2
    <3> QED BY <3>3 DEF StayInv
  <2>3. record[h.dig] = 0 => record'[h.dig] = 0
    BY <1>4, <2>1, <2>2, SMTT(40)
  <2>4. StayInv(h)'
    BY <1>2, <1>5, <2>1, <2>3 DEF StayInv, Serving, Handed, Contexts
  <2>5. i > 1 => h.op = "Update"
    <3>1. i \in DOMAIN stack[k]
      BY <1>9
    <3> QED BY <2>1, <3>1 DEF RoomInv
  <2> QED BY <2>1, <2>4, <2>5 DEF StayInv, Serving, Handed
<1> QED BY <1>6, <1>7, <1>8, <1>10, <1>11 DEF RoomInv, OneHandler


\* rsync and the clusters leave alone what AppContexts list.
LEMMA RoomRsync ==
    ASSUME IInv, RoomInv, Steady, Quiet, UNCHANGED <<record, intents, reading, stack>>
    PROVE  RoomInv'
<1>1. TypeOK /\ RecordInv /\ StackInv /\ HoldInv
  BY DEF IInv, RoomInv
<1>2. HoldInv'
  BY <1>1, HoldLasts DEF intents
<1>3. AgreeInv' /\ KnownInv'
  BY AgreeLasts, SMTT(40) DEF Quiet
<1>4. ASSUME NEW k \in Clients, NEW i \in DOMAIN stack[k] PROVE StayInv(stack[k][i])'
  <2>1. PICK f \in Frame : f = stack[k][i] /\ f = stack'[k][i] /\ FrameInv(f) /\ StayInv(f) /\ f.ctx \in Contexts
    BY <1>1, StackTypes DEF StackInv, RoomInv, FrameInv
  <2>2. StayInv(f)'
    BY <1>1, <2>1, StayLasts DEF intents, Quiet
  <2> QED BY <2>1, <2>2 DEF StayInv, Serving, Handed
<1> QED BY <1>2, <1>3, <1>4 DEF RoomInv

\* Every step of the one handler and of rsync.
LEMMA RoomKept ==
    ASSUME IInv, RoomInv, \A k \in Clients : HeldInv(k), OneHandler, "Update" \notin Operations, [Next]_vars
    PROVE  RoomInv'
<1>1. ASSUME NEW k \in Clients, NEW d \in Digs, Starts(k, d) PROVE RoomInv'
  BY <1>1, RoomStarts
<1>2. ASSUME NEW k \in Clients, Serves(k) PROVE RoomInv'
  BY <1>2, RoomReads, RoomFilter, RoomMigration, RoomUpdateSelected, RoomAllUpdated, RoomDeploy, RoomRecord
     DEF Serves, ReadsIntents
<1>3. ASSUME NEW c \in Contexts, Rsync(c) PROVE RoomInv'
  <2>1. UNCHANGED <<record, intents, reading, stack>>
    BY <1>3 DEF Rsync, RsyncApplies, RsyncHandsOver, RsyncCleansUp
  <2>2. Steady /\ Quiet
    BY <1>3, AppliesKeeps, HandsOverKeeps, CleansUpKeeps DEF Rsync
  <2> QED BY <2>1, <2>2, RoomRsync
<1>4. ASSUME NEW p, PodsRun(p) PROVE RoomInv'
  <2>1. UNCHANGED <<record, intents, reading, stack>>
    BY <1>4 DEF PodsRun
  <2> QED BY <1>4, <2>1, PodsKeep, RoomRsync
<1>5. CASE UNCHANGED vars
  <2>1. UNCHANGED <<record, intents, reading, stack>>
    BY <1>5 DEF vars
  <2> QED BY <1>5, <2>1, StutterKeeps, RoomRsync
<1> QED BY <1>1, <1>2, <1>3, <1>4, <1>5 DEF Next

\* A handler that leaves the placement controller holds nothing.
LEMMA HeldElsewhere ==
    ASSUME NEW k \in Clients, ~At(k, "filter")'
    PROVE  HeldInv(k)'
  BY DEF HeldInv

\* The handler goes on to a step that is not the placement controller's.
LEMMA GoneOn ==
    ASSUME TypeOK, NEW k \in Clients, stack[k] # <<>>, NEW g \in Frame, Goes(k, g), g.pc # "filter"
    PROVE  ~At(k, "filter")'
<1>1. Len(stack'[k]) = Len(stack[k]) /\ stack'[k][Len(stack[k])] = g
  BY GoesIs
<1> QED BY <1>1 DEF At, Top, Last

\* What the handler reads of the intents is where the apps are that must not be moved.
LEMMA HeldReads ==
    ASSUME IInv, RoomInv, OneHandler, NEW k \in Clients, HeldInv(k), ReadsIntents(k)
    PROVE  HeldInv(k)'
<1>1. TypeOK /\ RecordInv /\ StackInv /\ PinInv /\ HoldInv
  BY DEF IInv, RoomInv
<1> DEFINE new == reading'[k]
<1>2. /\ stack[k] # <<>> /\ Top(k).pc = "filter" /\ UNCHANGED <<context, record, stack>>
      /\ Top(k).dig \in Digs
      /\ ~ResetApp(k) => deployedAt' = deployedAt
  BY <1>1, ResetIs
<1>3. PICK d \in Digs : d = Top(k).dig /\ Top(k)'.dig = d /\ At(k, "filter") /\ Top(k)' = Top(k)
  BY <1>2 DEF At, Top
<1> SUFFICES ASSUME Top(k).op = "Update"
             PROVE  /\ new.step # "flag" /\ new.moves
                    /\ new.step \in {"reset", "intents"} => HoldsUnmovable(d, deployedAt)'
                    /\ new.step \in {"apps", "judge"} => new.moving \subseteq Movable /\ HoldsUnmovable(d, new.at)
  BY <1>2, <1>3 DEF HeldInv, HoldsUnmovable
<1>4. CASE ReadFlag(k)
  <2>1. selected[d] /\ ~ResetApp(k)
    BY <1>3, <1>4 DEF HeldInv, ReadFlag, ResetApp, Reads
  <2>2. new.moves /\ new.step = "reset"
    BY <1>1, <1>3, <1>4, <2>1, ReadingIs DEF ReadsIntents, TypeOK
  <2>3. HoldsUnmovable(d, deployedAt)
    BY <1>1, <1>2, <2>1 DEF HoldInv, HoldsUnmovable
  <2> QED BY <1>2, <2>1, <2>2, <2>3 DEF HoldsUnmovable
<1>5. CASE ResetFlag(k)
  <2>1. reading[k].moves /\ HoldsUnmovable(d, deployedAt) /\ ~ResetApp(k)
    BY <1>3, <1>5 DEF HeldInv, ResetFlag, ResetApp, Reads
  <2>2. new.moves /\ new.step = "intents"
    BY <1>1, <1>5, <2>1, ReadingIs DEF ReadsIntents
  <2> QED BY <1>2, <2>1, <2>2 DEF HoldsUnmovable
<1>6. CASE ReadIntents(k)
  <2>1. reading[k].moves /\ HoldsUnmovable(d, deployedAt)
    BY <1>3, <1>6 DEF HeldInv, ReadIntents, Reads
  <2>2. new.moves /\ new.at = deployedAt /\ new.moving = leaving \cap AppSet(d)
        /\ new.step = AfterReset(leaving \cap AppSet(d))
    BY <1>1, <1>3, <1>6, <2>1, ReadingIs DEF ReadsIntents
  <2>3. new.step \in {"apps", "judge"} /\ leaving \subseteq Movable
    BY <1>1, <2>2 DEF AfterReset, HoldInv
  <2> QED BY <2>1, <2>2, <2>3
<1>7. CASE ResetApp(k)
  <2>1. reading[k].moves /\ reading[k].moving \subseteq Movable /\ HoldsUnmovable(d, reading[k].at)
    BY <1>3, <1>7 DEF HeldInv, ResetApp, Reads
  <2>2. new.moves /\ new.at = reading[k].at /\ new.moving = reading[k].moving
        /\ new.step = AfterReset(new.toReset)
    BY <1>1, <1>7, <2>1, ReadingIs DEF ReadsIntents
  <2>3. new.step \in {"apps", "judge"}
    BY <2>2 DEF AfterReset
  <2> QED BY <2>1, <2>2, <2>3
<1> QED BY <1>4, <1>5, <1>6, <1>7 DEF ReadsIntents

\* The Update the scheduler calls is of a DIG that is selected.
LEMMA HeldUpdate ==
    ASSUME IInv, OneHandler, NEW k \in Clients, UpdateSelected(k)
    PROVE  HeldInv(k)'
<1>1. TypeOK /\ ContextInv /\ RecordInv /\ StackInv
  BY DEF IInv
<1>2. stack[k] # <<>> /\ Top(k).pc = "update" /\ UNCHANGED <<record, intents, reading>>
  BY DEF UpdateSelected, At
<1>3. CASE Fails(k)
  <2>1. stack'[k] = <<>>
    BY <1>1, <1>2, <1>3, FailsKeeps
  <2> QED BY <2>1, HeldElsewhere DEF At
<1>4. CASE ~Fails(k)
  <2>1. PICK d \in Digs, g \in Frame :
            /\ selected[d] /\ g = NewFrame("Update", d)
            /\ Len(stack'[k]) = Len(stack[k]) + 1 /\ stack'[k][Len(stack[k]) + 1] = g
    BY <1>4, UpdateSelectedIs
  <2>2. Top(k)'.dig = d
    BY <2>1 DEF Top, Last, NewFrame
  <2>3. reading[k].step = "flag"
    BY <1>2 DEF IInv, PinInv, ReadInv, At
  <2> QED BY <1>2, <2>1, <2>2, <2>3 DEF HeldInv, intents
<1> QED BY <1>3, <1>4

\* rsync and the clusters leave what the handler holds.
LEMMA HeldRsync ==
    ASSUME IInv, RoomInv, Steady, UNCHANGED <<record, intents, reading, stack>>, NEW k \in Clients, HeldInv(k)
    PROVE  HeldInv(k)'
<1> SUFFICES ASSUME At(k, "filter"), Top(k).op = "Update"
             PROVE  HeldInv(k)'
  BY DEF HeldInv, At, Top
<1>1. TypeOK /\ RecordInv /\ StackInv
  BY DEF IInv
<1>2. PICK f \in Frame : f = Top(k) /\ f = Top(k)' /\ f.dig \in Digs /\ StayInv(f)
  BY <1>1, AtWork DEF At, RoomInv, Top
<1>3. record[f.dig] \in Contexts /\ Handed(record[f.dig])
  BY <1>1, <1>2 DEF StayInv, RecordInv, Serving
<1>4. context'[record[f.dig]].tree = context[record[f.dig]].tree
  BY <1>3 DEF Steady
<1> QED BY <1>2, <1>4 DEF HeldInv, HoldsUnmovable, intents

\* Every step keeps what the handler holds.
LEMMA HeldKept ==
    ASSUME IInv, RoomInv, OneHandler, "Update" \notin Operations, NEW k \in Clients, HeldInv(k), [Next]_vars
    PROVE  HeldInv(k)'
<1>1. TypeOK /\ ContextInv /\ RecordInv /\ StackInv
  BY DEF IInv
<1>2. ASSUME NEW l \in Clients, NEW d \in Digs, Starts(l, d) PROVE HeldInv(k)'
  <2>1. l = k /\ stack' = [stack EXCEPT ![k] = <<NewFrame("Instantiate", d)>>]
    BY <1>2 DEF OneHandler, Starts
  <2>2. stack'[k] = <<NewFrame("Instantiate", d)>>
    BY <1>1, <2>1 DEF TypeOK
  <2>3. Top(k)'.op = "Instantiate"
    BY <2>2 DEF Top, Last, NewFrame
  <2> QED BY <2>3 DEF HeldInv
<1>3. ASSUME Serves(k) PROVE HeldInv(k)'
  <2>1. CASE ReadsIntents(k)
    BY <2>1, HeldReads
  <2>2. CASE UpdateSelected(k)
    BY <2>2, HeldUpdate
  <2>3. CASE Fails(k) /\ (FilterClusters(k) \/ MigrationApps(k))
    <3>1. stack'[k] = <<>>
      BY <1>1, <2>3 DEF Fails, TypeOK
    <3> QED BY <3>1, HeldElsewhere DEF At
  <2>4. CASE FilterClusters(k) /\ ~Fails(k)
    <3>1. stack[k] # <<>> /\ \E g \in Frame : Goes(k, g) /\ g.pc # "filter"
      BY <2>4, FilterIs DEF Filtered, FilterClusters, Reads, At
    <3> QED BY <1>1, <3>1, GoneOn, HeldElsewhere
  <2>5. ASSUME NEW pc \in {"update", "deploy", "record"}, stack[k] # <<>>, Goes(k, [Top(k) EXCEPT !.pc = pc])
        PROVE  HeldInv(k)'
    <3>1. PICK f \in Frame : f = Top(k)
      BY <1>1, <2>5, AtWork
    <3>2. PICK g \in Frame : g = [f EXCEPT !.pc = pc] /\ g.pc # "filter"
      BY DEF Frame
    <3> QED BY <1>1, <2>5, <3>1, <3>2, GoneOn, HeldElsewhere
  <2>6. CASE MigrationApps(k) /\ ~Fails(k)
    BY <2>5, <2>6 DEF MigrationApps, At
  <2>7. CASE AllUpdated(k) \/ Deploy(k)
    BY <2>5, <2>7 DEF AllUpdated, Deploy, At
  <2>8. CASE Record(k)
    <3>1. stack[k] # <<>> /\ stack'[k] = Front(stack[k])
      BY <1>1, <2>8 DEF Record, At, TypeOK
    <3>2. PICK n \in Nat : /\ n = Len(stack[k]) - 1 /\ DOMAIN stack[k] = 1 .. n + 1 /\ Len(stack[k]) = n + 1
                            /\ Front(stack[k]) \in Seq(Frame) /\ Len(Front(stack[k])) = n
                            /\ \A i \in 1 .. n : Front(stack[k])[i] = stack[k][i]
      BY <1>1, <3>1, StackTypes
    <3>3. CASE n = 0
      <4>1. stack'[k] = <<>>
        BY <3>1, <3>2, <3>3, EmptySeq
      <4> QED BY <4>1, HeldElsewhere DEF At
    <3>4. CASE n # 0
      <4>1. n \in 1 .. n /\ n \in 1 .. n + 1 /\ n < n + 1
        BY <3>4
      <4>2. Last(stack'[k]) = stack[k][n]
        BY <3>1, <3>2, <4>1 DEF Last
      <4>3. stack[k][n].pc = "update"
        BY <1>1, <3>2, <4>1 DEF StackInv
      <4> QED BY <4>2, <4>3, HeldElsewhere DEF At, Top
    <3> QED BY <3>3, <3>4
  <2> QED BY <1>3, <2>1, <2>2, <2>3, <2>4, <2>6, <2>7, <2>8 DEF Serves, ReadsIntents
<1>4. ASSUME NEW c \in Contexts, Rsync(c) PROVE HeldInv(k)'
  <2>1. UNCHANGED <<record, intents, reading, stack>>
    BY <1>4 DEF Rsync, RsyncApplies, RsyncHandsOver, RsyncCleansUp
  <2>2. Steady
    BY <1>4, AppliesKeeps, HandsOverKeeps, CleansUpKeeps DEF Rsync
  <2> QED BY <2>1, <2>2, HeldRsync
<1>5. ASSUME NEW p, PodsRun(p) PROVE HeldInv(k)'
  <2>1. UNCHANGED <<record, intents, reading, stack>>
    BY <1>5 DEF PodsRun
  <2> QED BY <1>5, <2>1, PodsKeep, HeldRsync
<1>6. CASE UNCHANGED vars
  <2>1. UNCHANGED <<record, intents, reading, stack>>
    BY <1>6 DEF vars
  <2> QED BY <1>6, <2>1, StutterKeeps, HeldRsync
<1>7. \A l \in Clients : l = k
  BY DEF OneHandler
<1> QED BY <1>2, <1>3, <1>4, <1>5, <1>6, <1>7 DEF Next

\* Making room for a DIG never moves an app whose intent forbids migration: while one
\* handler is at work and clients only instantiate DIGs, the clusters the intents hold
\* when a DIG is selected are those its AppContexts list, and the filter pins what stays
\* to them (hpa-plc action.go, the pinning at the top of FilterClusters).
THEOREM UnmovableStaysSafe ==
    ASSUME \A j, l \in Clients : j = l, "Update" \notin Operations
    PROVE  Spec => []UnmovableStays
<1> DEFINE Inv == IInv /\ RoomInv /\ \A k \in Clients : HeldInv(k)
<1>0. OneHandler
  BY DEF OneHandler
<1>1. Init => Inv
  <2> SUFFICES ASSUME Init PROVE RoomInv /\ \A k \in Clients : HeldInv(k)
    BY InitIs
  <2>1. Contexts = {} /\ \A k \in Clients : stack[k] = <<>> /\ DOMAIN stack[k] = {}
    BY DEF Init, Contexts
  <2>2. leaving \subseteq Movable /\ \A d \in Digs : ~selected[d]
    BY DEF Init
  <2> QED BY <2>1, <2>2 DEF RoomInv, AgreeInv, KnownInv, HoldInv, HeldInv, At
<1>2. Inv /\ [Next]_vars => Inv'
  BY <1>0, NextKeeps, RoomKept, HeldKept
<1>3. Inv => UnmovableStays
  <2> SUFFICES ASSUME IInv, RoomInv, NEW c \in Contexts, NEW a \in AppsIn(c) \ Movable,
                      context[c].calls # <<>>, context[c].calls[1].ev = "Update"
               PROVE  context[c].tree[a] = Before(c).tree[a]
    BY DEF UnmovableStays, Moved, AppsIn
  <2>1. TypeOK /\ ContextInv
    BY DEF IInv
  <2>2. PICK e : e = context[c].calls[1].other
    OBVIOUS
  <2>3. Serving(e, context[c].dig)
    <3>1. 1 \in DOMAIN context[c].calls
      BY <2>1, CallsAre
    <3> QED BY <2>1, <2>2, <3>1 DEF ContextInv, ContextOk
  <2>4. Handed(c)
    BY DEF Handed
  <2>5. context[c].tree[a] = context[e].tree[a]
    BY <2>3, <2>4 DEF RoomInv, AgreeInv, Serving
  <2> QED BY <2>2, <2>5 DEF Before
<1> QED BY <1>1, <1>2, <1>3, PTL DEF Spec

================================================================================
