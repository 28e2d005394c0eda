--------------------------- MODULE DwStoreProofs ---------------------------
(***************************************************************************)
(* Proofs about DwStore: for any storage, arity, number of handles and     *)
(* value of kMaxRefCount, whether or not get() may throw.                  *)
(*                                                                         *)
(* RefCountExact is not inductive alone: that an edge is counted depends   *)
(* on which recursive calls are pending, that a freed node has no referrer *)
(* depends on every edge having a live target, and that a decrement never  *)
(* meets 0 depends on both.                                                *)
(***************************************************************************)
EXTENDS ExactDDSimulation, FiniteSetTheorems, TLAPS

\* Recursions do not overlap, and start from a node that just changed side.
PendingOK ==
    /\ incs = {} \/ decs = {}
    /\ \A edge \in incs : ref[edge[1]] > 0
    /\ \A edge \in decs : ref[edge[1]] = 0

\* Between its two recursions applyOperation counts both roots.
OperationOK ==
    /\ pc = "decRef" => replaced \in Handle
    /\ pc # "decRef" => held[Result] = Null

Inv == /\ TypeOK /\ PendingOK /\ OperationOK
       /\ RefCountExact /\ NoDanglingPointer
-----------------------------------------------------------------------------
\* Every edge is a node in use and one of its places.
LEMMA EdgeFacts ==
  /\ \A edge \in AllEdges : /\ edge[1] \in Live
                            /\ edge[2] \in DOMAIN node[edge[1]].e
                            /\ edge = <<edge[1], edge[2]>>
  /\ \A a \in Live : \A i : i \in DOMAIN node[a].e => <<a, i>> \in AllEdges
  /\ \A a \in Live : \A edge : edge \in Edges(a) <=> edge \in AllEdges /\ edge[1] = a
<1>1. \A edge \in AllEdges : /\ edge[1] \in Live
                             /\ edge[2] \in DOMAIN node[edge[1]].e
                             /\ edge = <<edge[1], edge[2]>>
  BY DEF AllEdges, Edges
<1>2. \A a \in Live : \A i : i \in DOMAIN node[a].e => <<a, i>> \in AllEdges
  BY DEF AllEdges, Edges
<1>3. \A a \in Live : \A edge : edge \in Edges(a) <=> edge \in AllEdges /\ edge[1] = a
  BY DEF AllEdges, Edges
<1> QED
  BY <1>1, <1>2, <1>3

\* ... and so it is in the next state.
LEMMA EdgeFactsNext ==
  /\ \A edge \in AllEdges' : /\ edge[1] \in Live'
                             /\ edge[2] \in DOMAIN node'[edge[1]].e
                             /\ edge = <<edge[1], edge[2]>>
  /\ \A a \in Live' : \A i : i \in DOMAIN node'[a].e => <<a, i>> \in AllEdges'
<1>1. \A edge \in AllEdges' : /\ edge[1] \in Live'
                              /\ edge[2] \in DOMAIN node'[edge[1]].e
                              /\ edge = <<edge[1], edge[2]>>
  BY DEF AllEdges, Edges
<1>2. \A a \in Live' : \A i : i \in DOMAIN node'[a].e => <<a, i>> \in AllEdges'
  BY DEF AllEdges, Edges
<1> QED
  BY <1>1, <1>2

\* A key is not Empty, and its edges lead to addresses or to Null.
LEMMA KeyFacts ==
  /\ \A key \in Key : /\ DOMAIN key.e \subseteq (1..VArity) \cup (1..MArity)
                      /\ \A i \in DOMAIN key.e : key.e[i] \in Addr \cup {Null}
  /\ Empty \notin Key
  /\ Null \notin Addr
BY EmptyAssumption, AddrAssumption DEF Key, VKey, MKey, Addr

\* Only finitely many references exist, so they can be counted.
LEMMA FiniteReferences ==
  ASSUME TypeOK
  PROVE  /\ IsFiniteSet(AllEdges)
         /\ IsFiniteSet(Live)
         /\ \A a : IsFiniteSet(InEdges(a)) /\ IsFiniteSet(Roots(a))
         /\ \A a : Cardinality(InEdges(a)) \in Nat /\ Cardinality(Roots(a)) \in Nat
<1>1. IsFiniteSet(Addr) /\ IsFiniteSet(Root)
  BY AddrAssumption, HandleAssumption, FS_Union, FS_AddElement, FS_Singleton
     DEF Addr, Root
<1> DEFINE Place == (1..VArity) \cup (1..MArity)
<1>2. IsFiniteSet(Place)
  <2>1. IsFiniteSet(1..VArity) /\ IsFiniteSet(1..MArity)
    BY ArityAssumption, FS_Interval
  <2> QED
    BY <2>1, FS_Union
<1>3. IsFiniteSet(Addr \X Place)
  BY <1>1, <1>2, FS_Product
<1>4. ASSUME NEW a \in Live PROVE a \in Addr /\ node[a] \in Key
  BY <1>4 DEF TypeOK, Live
<1>5. AllEdges \subseteq Addr \X Place
  BY <1>4, EdgeFacts, KeyFacts
<1>6. IsFiniteSet(AllEdges) /\ IsFiniteSet(Live)
  BY <1>1, <1>3, <1>5, FS_Subset DEF Live
<1>7. ASSUME NEW a PROVE IsFiniteSet(InEdges(a)) /\ IsFiniteSet(Roots(a))
  BY <1>1, <1>6, FS_Subset DEF InEdges, Roots
<1> QED
  BY <1>6, <1>7, FS_CardinalityType

\* A node that is referred to is in use: its count is not 0.
LEMMA ReferredToInUse ==
  ASSUME TypeOK, RefCountExact, NEW a \in Live,
         \/ \E edge \in AllEdges : Target(edge) = a /\ Counted(edge)
         \/ \E h \in Root : held[h] = a
  PROVE  ref[a] > 0
<1>1. InEdges(a) # {} \/ Roots(a) # {}
  BY DEF InEdges, Roots
<1>2. Cardinality(Roots(a)) + Cardinality(InEdges(a)) > 0
  BY <1>1, FiniteReferences, FS_EmptySet
<1>3. CASE Saturated(a)
  BY <1>3, RefCountAssumption DEF Saturated
<1>4. CASE ~Saturated(a)
  BY <1>2, <1>4 DEF RefCountExact
<1> QED
  BY <1>3, <1>4
-----------------------------------------------------------------------------
(***************************************************************************)
(* One call of incRef on a, where rest is what was pending apart from it.  *)
(* An edge is counted afterwards unless it was pending and still is; a     *)
(* count that has not saturated is one higher if it is that of a.          *)
(***************************************************************************)
LEMMA IncRefEffect ==
  ASSUME TypeOK, NEW a \in Live \cup {Null}, NEW rest \in SUBSET incs,
         \A edge \in rest : ref[edge[1]] > 0,
         decs = {}, decs' = {}, node' = node,
         IncRef(a, rest)
  PROVE  /\ ref' \in [Addr -> 0..MaxRefCount]
         /\ active' \in [Kind -> Nat]
         /\ incs' \subseteq AllEdges
         /\ \A edge \in incs' : ref'[edge[1]] > 0
         /\ \A edge \in AllEdges : Counted(edge)' <=> ref[edge[1]] > 0 /\ edge \notin rest
         /\ \A b \in Live : \/ ref'[b] = MaxRefCount
                            \/ /\ ref[b] # MaxRefCount
                               /\ ref'[b] = ref[b] + (IF b = a THEN 1 ELSE 0)
<1>1. /\ ref \in [Addr -> 0..MaxRefCount] /\ active \in [Kind -> Nat]
      /\ rest \subseteq AllEdges /\ Live \subseteq Addr
      /\ a # Null => a \in Live
      /\ Null \notin Live
      /\ MaxRefCount \in Nat \ {0}
      /\ \A b \in Addr : KindOf(b) \in Kind
  BY RefCountAssumption, KeyFacts DEF TypeOK, Live, KindOf, Kind
<1>2. \A edge \in AllEdges : edge[1] \in Live
  BY EdgeFacts
<1>3. CASE IncRefIgnored(a, rest)
  <2>1. /\ a # Null => ref[a] = MaxRefCount
        /\ incs' = rest /\ ref' = ref /\ active' = active
    BY <1>3 DEF IncRefIgnored, Saturated
  <2>2. \A edge \in AllEdges : Counted(edge)' <=> ref[edge[1]] > 0 /\ edge \notin rest
    BY <2>1 DEF Counted
  <2>3. ASSUME NEW b \in Live
        PROVE  \/ ref'[b] = MaxRefCount
               \/ /\ ref[b] # MaxRefCount
                  /\ ref'[b] = ref[b] + (IF b = a THEN 1 ELSE 0)
    BY <1>1, <2>1
  <2> QED
    BY <1>1, <2>1, <2>2, <2>3
<1>4. CASE IncRefAgain(a, rest)
  <2>1. /\ a \in Live /\ ref[a] # MaxRefCount /\ ref[a] > 0
        /\ ref' = [ref EXCEPT ![a] = @ + 1] /\ incs' = rest /\ active' = active
    BY <1>1, <1>4 DEF IncRefAgain, Saturated
  <2>2. \A b \in Addr : ref'[b] = IF b = a THEN ref[b] + 1 ELSE ref[b]
    BY <1>1, <2>1
  <2>3. ref' \in [Addr -> 0..MaxRefCount]
    BY <1>1, <2>1
  <2>4. \A b \in Addr : ref'[b] > 0 <=> ref[b] > 0
    BY <1>1, <2>1, <2>2
  <2> QED
    BY <1>1, <1>2, <2>1, <2>2, <2>3, <2>4 DEF Counted
<1>5. CASE IncRefFirst(a, rest)
  <2>1. /\ a \in Live /\ ref[a] = 0
        /\ ref' = [ref EXCEPT ![a] = 1] /\ incs' = rest \cup Edges(a)
        /\ active' = [active EXCEPT ![KindOf(a)] = @ + 1]
    BY <1>1, <1>5 DEF IncRefFirst
  <2>2. \A b \in Addr : ref'[b] = IF b = a THEN 1 ELSE ref[b]
    BY <1>1, <2>1
  <2>3. ref' \in [Addr -> 0..MaxRefCount] /\ active' \in [Kind -> Nat]
    BY <1>1, <2>1
  <2>4. \A edge : edge \in Edges(a) <=> edge \in AllEdges /\ edge[1] = a
    BY <2>1, EdgeFacts
  <2>5. incs' \subseteq AllEdges /\ \A edge \in incs' : ref'[edge[1]] > 0
    BY <1>1, <1>2, <2>1, <2>2, <2>4
  <2>6. ASSUME NEW edge \in AllEdges
        PROVE  Counted(edge)' <=> ref[edge[1]] > 0 /\ edge \notin rest
    BY <1>1, <1>2, <2>1, <2>2, <2>4 DEF Counted
  <2>7. ASSUME NEW b \in Live
        PROVE  \/ ref'[b] = MaxRefCount
               \/ /\ ref[b] # MaxRefCount
                  /\ ref'[b] = ref[b] + (IF b = a THEN 1 ELSE 0)
    BY <1>1, <2>1, <2>2
  <2> QED
    BY <2>3, <2>5, <2>6, <2>7
<1> QED
  BY <1>3, <1>4, <1>5 DEF IncRef

(***************************************************************************)
(* One call of decRef on a node in use.  An edge is counted afterwards if  *)
(* its node was in use or it is pending; a count that has not saturated is *)
(* one lower if it is that of a.                                           *)
(***************************************************************************)
LEMMA DecRefEffect ==
  ASSUME TypeOK, NEW a \in Live \cup {Null}, NEW rest \in SUBSET decs,
         \A edge \in rest : ref[edge[1]] = 0,
         a # Null => ref[a] > 0,
         incs = {}, incs' = {}, node' = node,
         DecRef(a, rest)
  PROVE  /\ ref' \in [Addr -> 0..MaxRefCount]
         /\ active' \in [Kind -> Nat]
         /\ decs' \subseteq AllEdges
         /\ \A edge \in decs' : ref'[edge[1]] = 0
         /\ \A edge \in AllEdges : Counted(edge)' <=> ref[edge[1]] > 0 \/ edge \in rest
         /\ \A b \in Live : \/ ref'[b] = MaxRefCount
                            \/ /\ ref[b] # MaxRefCount
                               /\ ref'[b] = ref[b] + (IF b = a THEN -1 ELSE 0)
<1>1. /\ ref \in [Addr -> 0..MaxRefCount] /\ active \in [Kind -> Nat]
      /\ rest \subseteq AllEdges /\ Live \subseteq Addr
      /\ a # Null => a \in Live
      /\ Null \notin Live
      /\ MaxRefCount \in Nat \ {0}
      /\ \A b \in Addr : KindOf(b) \in Kind
  BY RefCountAssumption, KeyFacts DEF TypeOK, Live, KindOf, Kind
<1>2. \A edge \in AllEdges : edge[1] \in Live
  BY EdgeFacts
<1>3. CASE DecRefIgnored(a, rest)
  <2>1. /\ a # Null => ref[a] = MaxRefCount
        /\ decs' = rest /\ ref' = ref /\ active' = active
    BY <1>3 DEF DecRefIgnored, Saturated
  <2>2. \A edge \in AllEdges : Counted(edge)' <=> ref[edge[1]] > 0 \/ edge \in rest
    BY <2>1 DEF Counted
  <2>3. ASSUME NEW b \in Live
        PROVE  \/ ref'[b] = MaxRefCount
               \/ /\ ref[b] # MaxRefCount
                  /\ ref'[b] = ref[b] + (IF b = a THEN -1 ELSE 0)
    BY <1>1, <2>1
  <2> QED
    BY <1>1, <2>1, <2>2, <2>3
<1>4. CASE DecRefAgain(a, rest)
  <2>0. /\ a \in Live /\ ref[a] # MaxRefCount /\ ref[a] > 1
        /\ Decremented(ref[a]) = ref[a] - 1
    BY <1>1, <1>4 DEF DecRefAgain, Saturated, Decremented
  <2>1. /\ a \in Live /\ ref[a] # MaxRefCount /\ ref[a] > 1
        /\ ref' = [ref EXCEPT ![a] = ref[a] - 1] /\ decs' = rest /\ active' = active
    BY <1>4, <2>0 DEF DecRefAgain
  <2>2. \A b \in Addr : ref'[b] = IF b = a THEN ref[b] - 1 ELSE ref[b]
    BY <1>1, <2>1
  <2>3. ref' \in [Addr -> 0..MaxRefCount]
    BY <1>1, <2>1
  <2>4. \A b \in Addr : ref'[b] > 0 <=> ref[b] > 0
    BY <1>1, <2>1, <2>2
  <2>5. \A edge \in rest : ref'[edge[1]] = 0
    BY <1>1, <1>2, <2>1, <2>2
  <2> QED
    BY <1>1, <1>2, <2>1, <2>2, <2>3, <2>4, <2>5 DEF Counted
<1>5. CASE DecRefLast(a, rest)
  <2>1. /\ a \in Live /\ ref[a] = 1 /\ ref[a] # MaxRefCount
        /\ ref' = [ref EXCEPT ![a] = 0] /\ decs' = rest \cup Edges(a)
        /\ active' = [active EXCEPT ![KindOf(a)] = IF @ > 0 THEN @ - 1 ELSE @]
    BY <1>1, <1>5 DEF DecRefLast, Saturated, Decremented
  <2>2. \A b \in Addr : ref'[b] = IF b = a THEN 0 ELSE ref[b]
    BY <1>1, <2>1
  <2>3. ref' \in [Addr -> 0..MaxRefCount] /\ active' \in [Kind -> Nat]
    BY <1>1, <2>1
  <2>4. \A edge : edge \in Edges(a) <=> edge \in AllEdges /\ edge[1] = a
    BY <2>1, EdgeFacts
  <2>5. decs' \subseteq AllEdges /\ \A edge \in decs' : ref'[edge[1]] = 0
    BY <1>1, <1>2, <2>1, <2>2, <2>4
  <2>6. ASSUME NEW edge \in AllEdges
        PROVE  Counted(edge)' <=> ref[edge[1]] > 0 \/ edge \in rest
    BY <1>1, <1>2, <2>1, <2>2, <2>4 DEF Counted
  <2>7. ASSUME NEW b \in Live
        PROVE  \/ ref'[b] = MaxRefCount
               \/ /\ ref[b] # MaxRefCount
                  /\ ref'[b] = ref[b] + (IF b = a THEN -1 ELSE 0)
    BY <1>1, <2>1, <2>2
  <2> QED
    BY <2>3, <2>5, <2>6, <2>7
<1> QED
  BY <1>3, <1>4, <1>5 DEF DecRef
-----------------------------------------------------------------------------
\* The edges depend on nothing but the contents of nodes.
LEMMA SameEdges ==
  ASSUME node' = node
  PROVE  /\ AllEdges' = AllEdges /\ Live' = Live
         /\ \A edge : Target(edge)' = Target(edge)
         /\ \A a : Edges(a)' = Edges(a)
BY DEF AllEdges, Edges, Live, Target

\* A change of one reference to a, in either direction, keeps counts exact.
LEMMA RefCountStep ==
  ASSUME TypeOK, RefCountExact, node' = node,
         NEW a, NEW d \in {1, -1},
         ref' \in [Addr -> 0..MaxRefCount],
         \A b \in Live : \/ ref'[b] = MaxRefCount
                         \/ /\ ref[b] # MaxRefCount
                            /\ ref'[b] = ref[b] + (IF b = a THEN d ELSE 0),
         \A b \in Live : Cardinality(Roots(b)') + Cardinality(InEdges(b)') =
                            Cardinality(Roots(b)) + Cardinality(InEdges(b))
                               + (IF b = a THEN d ELSE 0)
  PROVE  RefCountExact'
<1> SUFFICES ASSUME NEW b \in Live, ref'[b] # MaxRefCount
             PROVE  ref'[b] = Cardinality(Roots(b)') + Cardinality(InEdges(b)')
  BY SameEdges DEF RefCountExact, Saturated
<1>1. ref[b] = Cardinality(Roots(b)) + Cardinality(InEdges(b))
  BY DEF RefCountExact, Saturated
<1> QED
  BY <1>1

\* References that are counted before and after a step are counted alike.
LEMMA SameInEdges ==
  ASSUME node' = node, \A edge \in AllEdges : Counted(edge)' <=> Counted(edge)
  PROVE  \A b : InEdges(b)' = InEdges(b)
BY SameEdges DEF InEdges

\* incRef follows an edge: it is counted from now on.
LEMMA OneMoreInEdge ==
  ASSUME TypeOK, node' = node, NEW edge \in AllEdges, ~Counted(edge),
         \A other \in AllEdges : Counted(other)' <=> Counted(other) \/ other = edge
  PROVE  \A b : Cardinality(InEdges(b)') =
                   Cardinality(InEdges(b)) + (IF b = Target(edge) THEN 1 ELSE 0)
<1> TAKE b
<1>1. edge \notin InEdges(b)
  BY DEF InEdges
<1>2. InEdges(b)' = IF b = Target(edge) THEN InEdges(b) \cup {edge} ELSE InEdges(b)
  BY SameEdges DEF InEdges
<1>3. IsFiniteSet(InEdges(b)) /\ Cardinality(InEdges(b)) \in Nat
  BY FiniteReferences
<1> QED
  BY <1>1, <1>2, <1>3, FS_AddElement

\* decRef follows an edge: it is no longer counted.
LEMMA OneInEdgeLess ==
  ASSUME TypeOK, node' = node, NEW edge \in AllEdges, Counted(edge),
         \A other \in AllEdges : Counted(other)' <=> Counted(other) /\ other # edge
  PROVE  \A b : Cardinality(InEdges(b)') =
                   Cardinality(InEdges(b)) + (IF b = Target(edge) THEN -1 ELSE 0)
<1> TAKE b
<1>1. b = Target(edge) => edge \in InEdges(b)
  BY DEF InEdges
<1>2. InEdges(b)' = IF b = Target(edge) THEN InEdges(b) \ {edge} ELSE InEdges(b)
  BY SameEdges DEF InEdges
<1>3. IsFiniteSet(InEdges(b)) /\ Cardinality(InEdges(b)) \in Nat
  BY FiniteReferences
<1> QED
  BY <1>1, <1>2, <1>3, FS_RemoveElement

\* A handle that held nothing holds a now, or one that held a holds nothing.
LEMMA OneMoreRoot ==
  ASSUME TypeOK, NEW h \in Root, NEW a, held[h] = Null,
         held' = [held EXCEPT ![h] = a]
  PROVE  \A b \in Addr : Cardinality(Roots(b)') =
                            Cardinality(Roots(b)) + (IF b = a THEN 1 ELSE 0)
<1> TAKE b \in Addr
<1>1. h \notin Roots(b)
  BY KeyFacts DEF Roots
<1>2. Roots(b)' = IF b = a THEN Roots(b) \cup {h} ELSE Roots(b)
  BY KeyFacts DEF Roots, TypeOK
<1>3. IsFiniteSet(Roots(b)) /\ Cardinality(Roots(b)) \in Nat
  BY FiniteReferences
<1> QED
  BY <1>1, <1>2, <1>3, FS_AddElement

\* The client gives up a root.
LEMMA OneRootLess ==
  ASSUME TypeOK, NEW h \in Root,
         held' = [held EXCEPT ![h] = Null]
  PROVE  \A b \in Addr : Cardinality(Roots(b)') =
                            Cardinality(Roots(b)) + (IF b = held[h] THEN -1 ELSE 0)
<1> TAKE b \in Addr
<1>1. b = held[h] => h \in Roots(b)
  BY DEF Roots
<1>2. Roots(b)' = IF b = held[h] THEN Roots(b) \ {h} ELSE Roots(b)
  BY KeyFacts DEF Roots, TypeOK
<1>3. IsFiniteSet(Roots(b)) /\ Cardinality(Roots(b)) \in Nat
  BY FiniteReferences
<1>4. CASE b = held[h]
  <2>1. Cardinality(Roots(b) \ {h}) = Cardinality(Roots(b)) - 1
    BY <1>1, <1>3, <1>4, FS_RemoveElement
  <2> QED
    BY <1>2, <1>3, <1>4, <2>1
<1>5. CASE b # held[h]
  BY <1>2, <1>3, <1>5
<1> QED
  BY <1>4, <1>5

\* applyOperation's caller puts the result in the place of the old state.
LEMMA RootReplaced ==
  ASSUME TypeOK, NEW h \in Handle,
         held' = [held EXCEPT ![h] = held[Result], ![Result] = Null]
  PROVE  \A b \in Addr : Cardinality(Roots(b)') =
                            Cardinality(Roots(b)) + (IF b = held[h] THEN -1 ELSE 0)
<1> TAKE b \in Addr
<1> DEFINE Others == Roots(b) \ {h, Result}
<1>1. h # Result /\ h \in Root /\ Result \in Root /\ b # Null
  BY HandleAssumption, KeyFacts DEF Root
<1>2. held \in [Root -> Addr \cup {Null}]
  BY DEF TypeOK
<1>3. IsFiniteSet(Roots(b))
  BY FiniteReferences
<1>4. IsFiniteSet(Others) /\ Cardinality(Others) \in Nat
  BY <1>3, FS_Subset, FS_CardinalityType
<1>5. Roots(b)' = IF b = held[Result] THEN Others \cup {h} ELSE Others
  BY <1>1, <1>2 DEF Roots
<1>6. Cardinality(Roots(b)') = Cardinality(Others) + (IF b = held[Result] THEN 1 ELSE 0)
  BY <1>4, <1>5, FS_AddElement
<1> DEFINE WithResult == IF b = held[Result] THEN Others \cup {Result} ELSE Others
<1>7. /\ IsFiniteSet(WithResult)
      /\ Cardinality(WithResult) = Cardinality(Others) + (IF b = held[Result] THEN 1 ELSE 0)
  <2>1. Result \notin Others
    OBVIOUS
  <2> HIDE DEF Others
  <2>2. IsFiniteSet(Others \cup {Result}) /\ Cardinality(Others \cup {Result}) = Cardinality(Others) + 1
    BY <1>4, <2>1, FS_AddElement
  <2> QED
    BY <1>4, <2>2
<1>8. Roots(b) = IF b = held[h] THEN WithResult \cup {h} ELSE WithResult
  BY <1>1, <1>2 DEF Roots
<1>9. h \notin WithResult
  BY <1>1
<1>10. Cardinality(Roots(b)) = Cardinality(WithResult) + (IF b = held[h] THEN 1 ELSE 0)
  <2> HIDE DEF Others, WithResult
  <2>1. Cardinality(WithResult) \in Nat
    BY <1>4, <1>7
  <2>2. Cardinality(WithResult \cup {h}) = Cardinality(WithResult) + 1
    BY <1>7, <1>9, FS_AddElement
  <2> QED
    BY <1>8, <2>1, <2>2
<1> QED
  BY <1>4, <1>6, <1>7, <1>10
-----------------------------------------------------------------------------
\* What is left to show of an action that makes no node and frees none.
LEMMA CallInv ==
  ASSUME Inv,
         UNCHANGED <<tableVars, cacheVars, gcLimit, crashed>>,
         ref' \in [Addr -> 0..MaxRefCount], active' \in [Kind -> Nat],
         incs' \subseteq AllEdges, decs' \subseteq AllEdges,
         held' \in [Root -> Live \cup {Null}],
         pc' \in {"idle", "decRef", "collect"}, replaced' \in Root,
         PendingOK', OperationOK', RefCountExact'
  PROVE  Inv'
<1>1. node' = node /\ orphan' = orphan
  BY DEF tableVars
<1>2. TypeOK'
  <2>1. Live \subseteq Addr
    BY DEF Live
  <2>2. held' \in [Root -> Addr \cup {Null}]
    BY <2>1
  <2> QED
    BY <1>1, <2>2, SameEdges DEF Inv, TypeOK, cacheVars
<1>3. NoDanglingPointer'
  BY <1>1, SameEdges DEF Inv, NoDanglingPointer
<1> QED
  BY <1>2, <1>3 DEF Inv

\* held as Inv restricts it.
LEMMA HeldIsLive ==
  ASSUME Inv PROVE held \in [Root -> Live \cup {Null}]
BY DEF Inv, TypeOK, NoDanglingPointer

\* One recursive call of incRef preserves the invariant.
LEMMA IncRefChildInv ==
  ASSUME Inv, NEW edge \in incs, IncRefChild(edge)
  PROVE  Inv'
<1>1. PICK a : a = Target(edge)
  OBVIOUS
<1>2. PICK rest \in SUBSET incs : rest = incs \ {edge}
  OBVIOUS
<1>3. /\ IncRef(a, rest) /\ node' = node /\ decs' = decs /\ decs = {}
      /\ held' = held /\ pc' = pc /\ replaced' = replaced
      /\ UNCHANGED <<tableVars, cacheVars, gcLimit, crashed>>
  BY <1>1, <1>2 DEF IncRefChild, tableVars, clientVars, Inv, PendingOK
<1>4. /\ edge \in AllEdges /\ a \in Live \cup {Null}
      /\ TypeOK /\ RefCountExact /\ ref[edge[1]] > 0
      /\ \A other \in rest : ref[other[1]] > 0
  BY <1>1, <1>2 DEF Inv, TypeOK, PendingOK, NoDanglingPointer
<1>5. /\ ref' \in [Addr -> 0..MaxRefCount]
      /\ active' \in [Kind -> Nat]
      /\ incs' \subseteq AllEdges
      /\ \A other \in incs' : ref'[other[1]] > 0
      /\ \A other \in AllEdges : Counted(other)' <=> ref[other[1]] > 0 /\ other \notin rest
      /\ \A b \in Live : \/ ref'[b] = MaxRefCount
                         \/ /\ ref[b] # MaxRefCount
                            /\ ref'[b] = ref[b] + (IF b = a THEN 1 ELSE 0)
  BY <1>3, <1>4, IncRefEffect
<1>6. /\ ~Counted(edge)
      /\ \A other \in AllEdges : Counted(other)' <=> Counted(other) \/ other = edge
  BY <1>2, <1>3, <1>4, <1>5 DEF Counted
<1>7. \A b : Cardinality(InEdges(b)') =
                Cardinality(InEdges(b)) + (IF b = a THEN 1 ELSE 0)
  BY <1>1, <1>3, <1>4, <1>6, OneMoreInEdge
<1>8. \A b : Roots(b)' = Roots(b)
  BY <1>3 DEF Roots
<1>9. RefCountExact'
  <2>1. \A b \in Live : Cardinality(Roots(b)') + Cardinality(InEdges(b)') =
                           Cardinality(Roots(b)) + Cardinality(InEdges(b))
                              + (IF b = a THEN 1 ELSE 0)
    BY <1>4, <1>7, <1>8, FiniteReferences
  <2> QED
    BY <1>3, <1>4, <1>5, <2>1, RefCountStep
<1>10. PendingOK' /\ OperationOK'
  BY <1>3, <1>5 DEF Inv, PendingOK, OperationOK
<1>11. /\ held' \in [Root -> Live \cup {Null}] /\ decs' \subseteq AllEdges
       /\ pc' \in {"idle", "decRef", "collect"} /\ replaced' \in Root
  BY <1>3, <1>4, HeldIsLive DEF TypeOK
<1> QED
  BY <1>3, <1>5, <1>9, <1>10, <1>11, CallInv

\* One recursive call of decRef preserves the invariant.
LEMMA DecRefChildInv ==
  ASSUME Inv, NEW edge \in decs, DecRefChild(edge)
  PROVE  Inv'
<1>1. PICK a : a = Target(edge)
  OBVIOUS
<1>2. PICK rest \in SUBSET decs : rest = decs \ {edge}
  OBVIOUS
<1>3. /\ DecRef(a, rest) /\ node' = node /\ incs' = incs /\ incs = {}
      /\ held' = held /\ pc' = pc /\ replaced' = replaced
      /\ UNCHANGED <<tableVars, cacheVars, gcLimit, crashed>>
  BY <1>1, <1>2 DEF DecRefChild, tableVars, clientVars, Inv, PendingOK
<1>4. /\ edge \in AllEdges /\ a \in Live \cup {Null}
      /\ TypeOK /\ RefCountExact /\ ref[edge[1]] = 0
      /\ \A other \in rest : ref[other[1]] = 0
      /\ Counted(edge)
  BY <1>1, <1>2 DEF Inv, TypeOK, PendingOK, NoDanglingPointer, Counted
<1>5. a # Null => ref[a] > 0
  BY <1>1, <1>4, ReferredToInUse
<1>6. /\ ref' \in [Addr -> 0..MaxRefCount]
      /\ active' \in [Kind -> Nat]
      /\ decs' \subseteq AllEdges
      /\ \A other \in decs' : ref'[other[1]] = 0
      /\ \A other \in AllEdges : Counted(other)' <=> ref[other[1]] > 0 \/ other \in rest
      /\ \A b \in Live : \/ ref'[b] = MaxRefCount
                         \/ /\ ref[b] # MaxRefCount
                            /\ ref'[b] = ref[b] + (IF b = a THEN -1 ELSE 0)
  BY <1>3, <1>4, <1>5, DecRefEffect
<1>7. \A other \in AllEdges : Counted(other)' <=> Counted(other) /\ other # edge
  BY <1>2, <1>3, <1>4, <1>6 DEF Counted
<1>8. \A b : Cardinality(InEdges(b)') =
                Cardinality(InEdges(b)) + (IF b = a THEN -1 ELSE 0)
  BY <1>1, <1>3, <1>4, <1>7, OneInEdgeLess
<1>9. RefCountExact'
  <2>1. \A b : Roots(b)' = Roots(b)
    BY <1>3 DEF Roots
  <2>2. \A b \in Live : Cardinality(Roots(b)') + Cardinality(InEdges(b)') =
                           Cardinality(Roots(b)) + Cardinality(InEdges(b))
                              + (IF b = a THEN -1 ELSE 0)
    BY <1>4, <1>8, <2>1, FiniteReferences
  <2> QED
    BY <1>3, <1>4, <1>6, <2>2, RefCountStep
<1>10. PendingOK' /\ OperationOK'
  BY <1>3, <1>6 DEF Inv, PendingOK, OperationOK
<1>11. /\ held' \in [Root -> Live \cup {Null}] /\ incs' \subseteq AllEdges
       /\ pc' \in {"idle", "decRef", "collect"} /\ replaced' \in Root
  BY <1>3, <1>4, HeldIsLive DEF TypeOK
<1> QED
  BY <1>3, <1>6, <1>9, <1>10, <1>11, CallInv
-----------------------------------------------------------------------------
\* A call of incRef from outside a recursion, for the root h.
LEMMA IncRefRootInv ==
  ASSUME Inv, Returned, NEW h \in Root, NEW a \in Live \cup {Null},
         held[h] = Null, held' = [held EXCEPT ![h] = a],
         IncRef(a, {}),
         UNCHANGED <<tableVars, decs, cacheVars, gcLimit, crashed>>,
         pc' \in {"idle", "decRef", "collect"}, replaced' \in Root, OperationOK'
  PROVE  Inv'
<1>1. /\ incs = {} /\ decs = {} /\ decs' = {} /\ node' = node
      /\ TypeOK /\ RefCountExact
  BY DEF Returned, tableVars, Inv
<1>2. /\ ref' \in [Addr -> 0..MaxRefCount]
      /\ active' \in [Kind -> Nat]
      /\ incs' \subseteq AllEdges
      /\ \A edge \in incs' : ref'[edge[1]] > 0
      /\ \A edge \in AllEdges : Counted(edge)' <=> ref[edge[1]] > 0 /\ edge \notin {}
      /\ \A b \in Live : \/ ref'[b] = MaxRefCount
                         \/ /\ ref[b] # MaxRefCount
                            /\ ref'[b] = ref[b] + (IF b = a THEN 1 ELSE 0)
  BY <1>1, IncRefEffect
<1>3. \A b : InEdges(b)' = InEdges(b)
  <2>1. \A edge \in AllEdges : Counted(edge)' <=> Counted(edge)
    BY <1>1, <1>2 DEF Counted
  <2> QED
    BY <1>1, <2>1, SameInEdges
<1>4. RefCountExact'
  <2>1. \A b \in Live : Cardinality(Roots(b)') + Cardinality(InEdges(b)') =
                           Cardinality(Roots(b)) + Cardinality(InEdges(b))
                              + (IF b = a THEN 1 ELSE 0)
    <3>1. \A b \in Addr : Cardinality(Roots(b)') =
                              Cardinality(Roots(b)) + (IF b = a THEN 1 ELSE 0)
      BY <1>1, OneMoreRoot
    <3> QED
      BY <1>1, <1>3, <3>1, FiniteReferences DEF Live
  <2> QED
    BY <1>1, <1>2, <2>1, RefCountStep
<1>5. PendingOK'
  BY <1>1, <1>2 DEF PendingOK
<1>6. held' \in [Root -> Live \cup {Null}] /\ decs' \subseteq AllEdges
  BY <1>1, HeldIsLive
<1> QED
  BY <1>2, <1>4, <1>5, <1>6, CallInv

\* A call of decRef from outside a recursion, for the root h.
LEMMA DecRefRootInv ==
  ASSUME Inv, Returned, NEW h \in Root,
         \A b \in Addr : Cardinality(Roots(b)') =
                            Cardinality(Roots(b)) + (IF b = held[h] THEN -1 ELSE 0),
         held' \in [Root -> Live \cup {Null}],
         DecRef(held[h], {}),
         UNCHANGED <<tableVars, incs, cacheVars, gcLimit, crashed>>,
         pc' \in {"idle", "decRef", "collect"}, replaced' \in Root, OperationOK'
  PROVE  Inv'
<1>1. /\ incs = {} /\ decs = {} /\ incs' = {} /\ node' = node
      /\ TypeOK /\ RefCountExact
  BY DEF Returned, tableVars, Inv
<1>2. PICK a : a = held[h]
  OBVIOUS
<1>3. a \in Live \cup {Null} /\ (a # Null => ref[a] > 0)
  BY <1>1, <1>2, HeldIsLive, ReferredToInUse
<1>4. /\ ref' \in [Addr -> 0..MaxRefCount]
      /\ active' \in [Kind -> Nat]
      /\ decs' \subseteq AllEdges
      /\ \A edge \in decs' : ref'[edge[1]] = 0
      /\ \A edge \in AllEdges : Counted(edge)' <=> ref[edge[1]] > 0 \/ edge \in {}
      /\ \A b \in Live : \/ ref'[b] = MaxRefCount
                         \/ /\ ref[b] # MaxRefCount
                            /\ ref'[b] = ref[b] + (IF b = a THEN -1 ELSE 0)
  BY <1>1, <1>2, <1>3, DecRefEffect
<1>5. \A b : InEdges(b)' = InEdges(b)
  <2>1. \A edge \in AllEdges : Counted(edge)' <=> Counted(edge)
    BY <1>1, <1>4 DEF Counted
  <2> QED
    BY <1>1, <2>1, SameInEdges
<1>6. RefCountExact'
  <2>1. \A b \in Live : Cardinality(Roots(b)') + Cardinality(InEdges(b)') =
                           Cardinality(Roots(b)) + Cardinality(InEdges(b))
                              + (IF b = a THEN -1 ELSE 0)
    BY <1>1, <1>2, <1>5, FiniteReferences DEF Live
  <2> QED
    BY <1>1, <1>4, <2>1, RefCountStep
<1>7. PendingOK' /\ incs' \subseteq AllEdges
  BY <1>1, <1>4 DEF PendingOK
<1> QED
  BY <1>4, <1>6, <1>7, CallInv

\* A call of incRef by a client preserves the invariant.
LEMMA IncRefInv ==
  ASSUME Inv, NEW h \in Handle, NEW a \in Live, incRef(h, a)
  PROVE  Inv'
<1>1. /\ Returned /\ h \in Root /\ h # Result /\ held[h] = Null
      /\ held' = [held EXCEPT ![h] = a] /\ held \in [Root -> Live \cup {Null}]
      /\ pc = "idle" /\ pc' = "idle" /\ replaced' = replaced /\ replaced \in Root
      /\ IncRef(a, {})
      /\ UNCHANGED <<tableVars, decs, cacheVars, gcLimit, crashed>>
  BY HeldIsLive, HandleAssumption DEF incRef, Idle, Root, Inv, TypeOK
<1>2. OperationOK'
  BY <1>1 DEF Inv, OperationOK, Root
<1> QED
  BY <1>1, <1>2, IncRefRootInv

\* A call of decRef by a client preserves the invariant.
LEMMA DecRefInv ==
  ASSUME Inv, NEW h \in Handle, decRef(h)
  PROVE  Inv'
<1>1. /\ Returned /\ h \in Root /\ h # Result /\ held[h] # Null
      /\ held' = [held EXCEPT ![h] = Null] /\ held \in [Root -> Live \cup {Null}]
      /\ pc = "idle" /\ pc' = "idle" /\ replaced' = replaced /\ replaced \in Root
      /\ DecRef(held[h], {})
      /\ UNCHANGED <<tableVars, incs, cacheVars, gcLimit, crashed>>
  BY HeldIsLive, HandleAssumption DEF decRef, Idle, Root, Inv, TypeOK
<1>2. OperationOK'
  BY <1>1 DEF Inv, OperationOK, Root
<1>3. \A b \in Addr : Cardinality(Roots(b)') =
                         Cardinality(Roots(b)) + (IF b = held[h] THEN -1 ELSE 0)
  BY <1>1, OneRootLess DEF Inv
<1>4. held' \in [Root -> Live \cup {Null}]
  BY <1>1
<1> QED
  BY <1>1, <1>2, <1>3, <1>4, DecRefRootInv

\* applyOperation up to incRef(result).
LEMMA ApplyOperationInv ==
  ASSUME Inv, NEW h \in Handle, NEW r \in LiveOrNull(Addr), applyOperation(h, r)
  PROVE  Inv'
<1>1. /\ Returned /\ Result \in Root /\ h # Result /\ h \in Root
      /\ held[Result] = Null
      /\ held' = [held EXCEPT ![Result] = r] /\ held \in [Root -> Live \cup {Null}]
      /\ pc' = "decRef" /\ replaced' = h
      /\ IncRef(r, {}) /\ r \in Live \cup {Null}
      /\ UNCHANGED <<tableVars, decs, cacheVars, gcLimit, crashed>>
  BY HeldIsLive, HandleAssumption
     DEF applyOperation, Idle, Root, Inv, OperationOK, LiveOrNull
<1>2. OperationOK'
  BY <1>1 DEF OperationOK
<1> QED
  BY <1>1, <1>2, IncRefRootInv

\* applyOperation from decRef(e) on: the result takes its place.
LEMMA ApplyOperationDecRefInv ==
  ASSUME Inv, applyOperationDecRef
  PROVE  Inv'
<1>1. /\ Returned /\ replaced \in Handle /\ replaced \in Root
      /\ Result \in Root /\ replaced # Result
      /\ held' = [held EXCEPT ![replaced] = held[Result], ![Result] = Null]
      /\ held \in [Root -> Live \cup {Null}]
      /\ pc' = "collect" /\ replaced' = replaced
      /\ DecRef(held[replaced], {})
      /\ UNCHANGED <<tableVars, incs, cacheVars, gcLimit, crashed>>
  BY HeldIsLive, HandleAssumption
     DEF applyOperationDecRef, Root, Inv, OperationOK
<1>2. OperationOK' /\ held' \in [Root -> Live \cup {Null}]
  BY <1>1 DEF OperationOK
<1>3. \A b \in Addr : Cardinality(Roots(b)') =
                         Cardinality(Roots(b)) + (IF b = held[replaced] THEN -1 ELSE 0)
  BY <1>1, RootReplaced DEF Inv
<1>4. PICK h \in Root : h = replaced
  BY <1>1
<1> QED
  BY <1>1, <1>2, <1>3, <1>4, DecRefRootInv
-----------------------------------------------------------------------------
\* What a new node changes: it has no referrer, and its own edges do not count.
LEMMA MakeNodeEffect ==
  ASSUME Inv, NEW key \in Key, NEW a \in Addr, key.kind = KindOf(a), MakeNode(key, a)
  PROVE  /\ Live' = Live \cup {a} /\ a \notin Live
         /\ \A b \in Live : node'[b] = node[b] /\ ref'[b] = ref[b]
         /\ node'[a] = key /\ ref'[a] = 0
         /\ node' \in [Addr -> Key \cup {Empty}]
         /\ ref' \in [Addr -> 0..MaxRefCount]
         /\ incs' = {} /\ decs' = {} /\ incs = {} /\ decs = {}
<1>1. /\ node' = [node EXCEPT ![a] = key] /\ node \in [Addr -> Key \cup {Empty}]
      /\ ref' = [ref EXCEPT ![a] = 0] /\ ref \in [Addr -> 0..MaxRefCount]
      /\ a \notin Live /\ key # Empty
      /\ MaxRefCount \in Nat
      /\ incs' = {} /\ decs' = {} /\ incs = {} /\ decs = {}
  BY KeyFacts, RefCountAssumption
     DEF MakeNode, Inv, TypeOK, Idle, Returned, callVars
<1>2. \A b \in Addr : node'[b] = IF b = a THEN key ELSE node[b]
  BY <1>1
<1>3. \A b \in Addr : ref'[b] = IF b = a THEN 0 ELSE ref[b]
  BY <1>1
<1>4. ref' \in [Addr -> 0..MaxRefCount] /\ node' \in [Addr -> Key \cup {Empty}]
  BY <1>1
<1>5. Live' = Live \cup {a}
  BY <1>1, <1>2 DEF Live
<1> QED
  BY <1>1, <1>2, <1>3, <1>4, <1>5 DEF Live

\* A new node is not referred to yet, and refers to live nodes.
LEMMA MakeNodeInv ==
  ASSUME Inv, NEW key \in Key, NEW a \in Addr, key.kind = KindOf(a), MakeNode(key, a)
  PROVE  Inv'
<1>1. /\ Live' = Live \cup {a} /\ a \notin Live /\ a # Null
      /\ \A b \in Live : node'[b] = node[b] /\ ref'[b] = ref[b]
      /\ node'[a] = key /\ ref'[a] = 0
      /\ node' \in [Addr -> Key \cup {Empty}]
      /\ ref' \in [Addr -> 0..MaxRefCount]
      /\ incs' = {} /\ decs' = {} /\ incs = {} /\ decs = {}
  BY MakeNodeEffect, KeyFacts
<1>2. /\ Buildable(key)
      /\ UNCHANGED <<orphan, clientVars, cacheVars, active, gcLimit, crashed>>
  BY DEF MakeNode
<1>3. /\ \A edge \in AllEdges' : edge[1] # a => edge \in AllEdges /\ Target(edge)' = Target(edge)
      /\ AllEdges \subseteq AllEdges'
      /\ \A edge \in AllEdges : edge[1] # a /\ Target(edge)' = Target(edge)
  <2>1. ASSUME NEW edge \in AllEdges', edge[1] # a
        PROVE  edge \in AllEdges /\ Target(edge)' = Target(edge)
    <3>1. /\ edge[1] \in Live /\ edge[2] \in DOMAIN node[edge[1]].e
          /\ edge = <<edge[1], edge[2]>>
      BY <1>1, <2>1, EdgeFactsNext
    <3> QED
      BY <1>1, <3>1, EdgeFacts DEF Target
  <2>2. ASSUME NEW edge \in AllEdges
        PROVE  edge \in AllEdges' /\ edge[1] # a /\ Target(edge)' = Target(edge)
    <3>1. /\ edge[1] \in Live /\ edge[2] \in DOMAIN node[edge[1]].e
          /\ edge = <<edge[1], edge[2]>>
      BY <2>2, EdgeFacts
    <3> QED
      BY <1>1, <3>1, EdgeFactsNext DEF Target
  <2> QED
    BY <2>1, <2>2
<1>4. TypeOK'
  <2>1. \A b \in Live' : node'[b].kind = KindOf(b)
    BY <1>1 DEF Inv, TypeOK
  <2> QED
    BY <1>1, <1>2, <2>1 DEF Inv, TypeOK, clientVars, cacheVars
<1>5. NoDanglingPointer'
  <2>1. ASSUME NEW edge \in AllEdges' PROVE Target(edge)' \in Live' \cup {Null}
    <3>1. CASE edge[1] = a
      BY <1>1, <1>2, <2>1, <3>1, EdgeFactsNext DEF Target, Buildable, LiveOrNull
    <3>2. CASE edge[1] # a
      BY <1>1, <1>3, <2>1, <3>2 DEF Inv, NoDanglingPointer
    <3> QED
      BY <3>1, <3>2
  <2> QED
    BY <1>1, <1>2, <2>1 DEF Inv, NoDanglingPointer, clientVars
<1>6. RefCountExact'
  <2>1. ASSUME NEW b \in Live
        PROVE  InEdges(b)' = InEdges(b) /\ Roots(b)' = Roots(b)
    <3>1. \A edge \in AllEdges : Counted(edge)' <=> Counted(edge)
      BY <1>1, EdgeFacts DEF Counted
    <3>2. \A edge \in AllEdges' : Counted(edge)' => edge[1] # a
      BY <1>1 DEF Counted
    <3> QED
      BY <1>2, <1>3, <3>1, <3>2 DEF InEdges, Roots, clientVars
  <2>2. InEdges(a)' = {} /\ Roots(a)' = {}
    <3>1. \A edge \in AllEdges' : Counted(edge)' => edge[1] # a
      BY <1>1 DEF Counted
    <3>2. \A edge \in AllEdges : Target(edge) # a
      BY <1>1 DEF Inv, NoDanglingPointer
    <3>3. \A h \in Root : held'[h] # a
      BY <1>1, <1>2 DEF Inv, NoDanglingPointer, clientVars
    <3> QED
      BY <1>3, <3>1, <3>2, <3>3 DEF InEdges, Roots
  <2>3. ASSUME NEW b \in Live', ref'[b] # MaxRefCount
        PROVE  ref'[b] = Cardinality(Roots(b)') + Cardinality(InEdges(b)')
    <3>1. CASE b = a
      BY <1>1, <2>2, <3>1, FS_EmptySet
    <3>2. CASE b \in Live
      BY <1>1, <2>1, <2>3, <3>2 DEF Inv, RefCountExact, Saturated
    <3> QED
      BY <1>1, <3>1, <3>2
  <2> QED
    BY <2>3 DEF RefCountExact, Saturated
<1>7. PendingOK' /\ OperationOK'
  BY <1>1, <1>2 DEF Inv, PendingOK, OperationOK, clientVars
<1> QED
  BY <1>4, <1>5, <1>6, <1>7 DEF Inv
-----------------------------------------------------------------------------
\* What a sweep keeps: the nodes in use, their contents and their edges.
LEMMA SweepEffect ==
  ASSUME Inv, Returned, SweepTables
  PROVE  /\ Live' = {a \in Live : ref[a] > 0}
         /\ \A a \in Live' : node'[a] = node[a]
         /\ AllEdges' = {edge \in AllEdges : ref[edge[1]] > 0}
         /\ \A edge \in AllEdges' : Target(edge)' = Target(edge)
         /\ node' \in [Addr -> Key \cup {Empty}]
         /\ ref' = ref /\ held' = held /\ orphan = {} /\ orphan' = {}
         /\ incs = {} /\ decs = {} /\ incs' = {} /\ decs' = {}
<1>1. /\ node' = [a \in Addr |-> IF a \in Garbage THEN Empty ELSE node[a]]
      /\ node \in [Addr -> Key \cup {Empty}]
      /\ ref \in [Addr -> 0..MaxRefCount] /\ MaxRefCount \in Nat
      /\ ref' = ref /\ held' = held /\ orphan = {} /\ orphan' = {}
      /\ incs = {} /\ decs = {} /\ incs' = {} /\ decs' = {}
  BY RefCountAssumption DEF SweepTables, Returned, Inv, TypeOK, callVars
<1>2. Live' = {a \in Live : ref[a] > 0} /\ \A a \in Live' : node'[a] = node[a]
  BY <1>1 DEF Live, Garbage
<1>3. ASSUME NEW edge \in AllEdges'
      PROVE  edge \in AllEdges /\ ref[edge[1]] > 0 /\ Target(edge)' = Target(edge)
  <2>1. /\ edge[1] \in Live' /\ edge[2] \in DOMAIN node'[edge[1]].e
        /\ edge = <<edge[1], edge[2]>>
    BY EdgeFactsNext
  <2> QED
    BY <1>2, <2>1, EdgeFacts DEF Target
<1>4. ASSUME NEW edge \in AllEdges, ref[edge[1]] > 0
      PROVE  edge \in AllEdges'
  <2>1. /\ edge[1] \in Live /\ edge[2] \in DOMAIN node[edge[1]].e
        /\ edge = <<edge[1], edge[2]>>
    BY EdgeFacts
  <2> QED
    BY <1>2, <1>4, <2>1, EdgeFactsNext
<1>5. node' \in [Addr -> Key \cup {Empty}]
  BY <1>1
<1> QED
  BY <1>1, <1>2, <1>3, <1>4, <1>5

\* Whatever is referred to, by a node that stays or by a handle, stays.
LEMMA SweepKeepsReferences ==
  ASSUME Inv, Returned, SweepTables
  PROVE  NoDanglingPointer'
<1>1. /\ Live' = {a \in Live : ref[a] > 0}
      /\ AllEdges' = {edge \in AllEdges : ref[edge[1]] > 0}
      /\ \A edge \in AllEdges' : Target(edge)' = Target(edge)
      /\ held' = held /\ incs = {}
  BY SweepEffect
<1>2. TypeOK /\ RefCountExact /\ NoDanglingPointer
  BY DEF Inv
<1>3. ASSUME NEW edge \in AllEdges' PROVE Target(edge)' \in Live' \cup {Null}
  <2>1. /\ edge \in AllEdges /\ Counted(edge) /\ Target(edge)' = Target(edge)
        /\ Target(edge) \in Live \cup {Null}
    BY <1>1, <1>2 DEF Counted, NoDanglingPointer
  <2>2. PICK b : b = Target(edge)
    OBVIOUS
  <2>3. b # Null => ref[b] > 0
    BY <1>2, <2>1, <2>2, ReferredToInUse
  <2> QED
    BY <1>1, <2>1, <2>2, <2>3
<1>4. ASSUME NEW h \in Root PROVE held'[h] \in Live' \cup {Null}
  <2>1. PICK b : b = held[h]
    OBVIOUS
  <2>2. b \in Live \cup {Null}
    BY <1>2, <2>1 DEF NoDanglingPointer
  <2>3. b # Null => ref[b] > 0
    BY <1>2, <2>1, <2>2, ReferredToInUse
  <2> QED
    BY <1>1, <2>1, <2>2, <2>3
<1> QED
  BY <1>3, <1>4 DEF NoDanglingPointer

\* A sweep, or a crash in it, preserves the invariant.
LEMMA SweepInv ==
  ASSUME Inv, Returned, Sweep,
         pc' \in {"idle", "decRef", "collect"}, replaced' \in Root, OperationOK'
  PROVE  Inv'
<1>1. CASE SweepTables
  <2>1. /\ Live' = {a \in Live : ref[a] > 0}
        /\ \A a \in Live' : node'[a] = node[a]
        /\ AllEdges' = {edge \in AllEdges : ref[edge[1]] > 0}
        /\ \A edge \in AllEdges' : Target(edge)' = Target(edge)
        /\ node' \in [Addr -> Key \cup {Empty}]
        /\ ref' = ref /\ held' = held /\ orphan = {} /\ orphan' = {}
        /\ incs = {} /\ decs = {} /\ incs' = {} /\ decs' = {}
    BY <1>1, SweepEffect
  <2>2. \A k \in Kind : TableSize(k)' \in Nat
    <3> TAKE k \in Kind
    <3>1. IsFiniteSet(Live')
      <4>1. IsFiniteSet(Live)
        BY FiniteReferences DEF Inv
      <4> QED
        BY <2>1, <4>1, FS_Subset
    <3>2. IsFiniteSet({a \in Live' : KindOf(a) = k})
      BY <3>1, FS_Subset
    <3>3. IsFiniteSet({key \in orphan' : key.kind = k})
      <4>1. {key \in orphan' : key.kind = k} = {}
        BY <2>1
      <4> QED
        BY <4>1, FS_EmptySet
    <3> QED
      BY <3>2, <3>3, FS_CardinalityType DEF TableSize
  <2>3. active' \in [Kind -> Nat] /\ gcLimit' \in [Kind -> Nat]
    <3>1. \A n \in Nat, limit \in Nat : Threshold!AdjustedLimit(limit, n) \in Nat
      BY LimitAssumption DEF Threshold!AdjustedLimit
    <3> QED
      BY <1>1, <2>2, <3>1 DEF SweepTables, AdjustLimits, Inv, TypeOK
  <2>4. TypeOK'
    <3>1. mvCache' \subseteq mvCache /\ mmCache' \subseteq mmCache /\ crashed' = crashed
      BY <1>1 DEF SweepTables, ClearMV, ClearMM
    <3> QED
      BY <2>1, <2>3, <3>1 DEF Inv, TypeOK
  <2>5. RefCountExact'
    <3>1. \A a : InEdges(a)' = InEdges(a) /\ Roots(a)' = Roots(a)
      BY <2>1 DEF InEdges, Roots, Counted
    <3> QED
      BY <2>1, <3>1 DEF Inv, RefCountExact, Saturated
  <2>6. PendingOK' /\ NoDanglingPointer'
    BY <1>1, <2>1, SweepKeepsReferences DEF PendingOK
  <2> QED
    BY <2>4, <2>5, <2>6 DEF Inv
<1>2. CASE SweepCrashes
  <2>1. /\ UNCHANGED <<tableVars, cacheVars, gcLimit>> /\ crashed' = TRUE
        /\ ref' = ref /\ active' = active /\ incs' = incs /\ decs' = decs
        /\ held' = held /\ node' = node /\ orphan' = orphan
    BY <1>2 DEF SweepCrashes, tableVars, callVars
  <2>2. TypeOK' /\ PendingOK'
    BY <2>1, SameEdges DEF Inv, TypeOK, PendingOK, cacheVars
  <2>3. NoDanglingPointer'
    BY <2>1, SameEdges DEF Inv, NoDanglingPointer
  <2>4. RefCountExact'
    <3>1. \A a : InEdges(a)' = InEdges(a) /\ Roots(a)' = Roots(a)
      BY <2>1, SameEdges DEF InEdges, Roots, Counted
    <3> QED
      BY <2>1, <3>1, SameEdges DEF Inv, RefCountExact, Saturated
  <2> QED
    BY <2>2, <2>3, <2>4 DEF Inv
<1> QED
  BY <1>1, <1>2 DEF Sweep
-----------------------------------------------------------------------------
\* Nothing that Inv speaks of changes but the null entries and the caches.
LEMMA BookkeepingInv ==
  ASSUME Inv,
         UNCHANGED <<node, ref, callVars, clientVars, active, gcLimit>>,
         orphan' \subseteq Key,
         mvCache' \subseteq [m : MAddr \cup {Null}, v : VAddr \cup {Null},
                             r : VAddr \cup {Null}],
         mmCache' \subseteq [x : MAddr \cup {Null}, y : MAddr \cup {Null},
                             r : MAddr \cup {Null}],
         crashed' = crashed
  PROVE  Inv'
<1>1. /\ node' = node /\ ref' = ref /\ incs' = incs /\ decs' = decs
      /\ held' = held /\ pc' = pc /\ replaced' = replaced
      /\ active' = active /\ gcLimit' = gcLimit
  BY DEF callVars, clientVars
<1>2. TypeOK' /\ PendingOK' /\ OperationOK'
  BY <1>1, SameEdges DEF Inv, TypeOK, PendingOK, OperationOK
<1>3. NoDanglingPointer'
  BY <1>1, SameEdges DEF Inv, NoDanglingPointer
<1>4. RefCountExact'
  <2>1. \A a : InEdges(a)' = InEdges(a) /\ Roots(a)' = Roots(a)
    BY <1>1, SameEdges DEF InEdges, Roots, Counted
  <2> QED
    BY <1>1, <2>1, SameEdges DEF Inv, RefCountExact, Saturated
<1> QED
  BY <1>2, <1>3, <1>4 DEF Inv

\* An empty package satisfies the invariant.
LEMMA InitInv == Init => Inv
<1> SUFFICES ASSUME Init PROVE Inv
  OBVIOUS
<1>1. /\ Live = {} /\ AllEdges = {}
  BY DEF Init, Live, AllEdges
<1>2. TypeOK
  <2>1. /\ node \in [Addr -> Key \cup {Empty}] /\ ref \in [Addr -> 0..MaxRefCount]
        /\ active \in [Kind -> Nat] /\ gcLimit \in [Kind -> Nat]
        /\ held \in [Root -> Addr \cup {Null}] /\ replaced \in Root
    BY RefCountAssumption, LimitAssumption DEF Init, Root
  <2>2. /\ orphan = {} /\ incs \cup decs = {} /\ mvCache = {} /\ mmCache = {}
        /\ pc = "idle" /\ crashed = FALSE
    BY DEF Init
  <2> QED
    BY <1>1, <2>1, <2>2 DEF TypeOK
<1> QED
  BY <1>1, <1>2
     DEF Init, Inv, PendingOK, OperationOK, RefCountExact, NoDanglingPointer, Root

\* A key of either table belongs to an address of its kind.
LEMMA KindOfKeys ==
  /\ \A key \in VKey, a \in VAddr : key \in Key /\ a \in Addr /\ key.kind = KindOf(a)
  /\ \A key \in MKey, a \in MAddr : key \in Key /\ a \in Addr /\ key.kind = KindOf(a)
BY AddrAssumption DEF VKey, MKey, Key, Addr, KindOf

\* The invariant is inductive: one case for each action.
LEMMA NextInv == Inv /\ [Next]_vars => Inv'
<1> SUFFICES ASSUME Inv, [Next]_vars PROVE Inv'
  OBVIOUS
<1>1. ASSUME NEW key \in Key, MakeNodeThrows(key) PROVE Inv'
  BY <1>1, BookkeepingInv DEF MakeNodeThrows, Inv, TypeOK, cacheVars
<1>2. CASE makeVEdge
  BY <1>1, <1>2, MakeNodeInv, KindOfKeys DEF makeVEdge, Key
<1>3. CASE makeMEdge
  BY <1>1, <1>3, MakeNodeInv, KindOfKeys DEF makeMEdge, Key
<1>4. CASE multiplyMV
  <2>1. PICK m \in LiveOrNull(MAddr), v \in LiveOrNull(VAddr), r \in LiveOrNull(VAddr) :
           CacheMV(m, v, r)
    BY <1>4 DEF multiplyMV
  <2> QED
    BY <2>1, BookkeepingInv DEF CacheMV, LiveOrNull, Inv, TypeOK, tableVars
<1>5. CASE multiplyMM
  <2>1. PICK x \in LiveOrNull(MAddr), y \in LiveOrNull(MAddr), r \in LiveOrNull(MAddr) :
           CacheMM(x, y, r)
    BY <1>5 DEF multiplyMM
  <2> QED
    BY <2>1, BookkeepingInv DEF CacheMM, LiveOrNull, Inv, TypeOK, tableVars
<1>6. CASE \E force \in BOOLEAN : garbageCollect(force)
  <2>1. /\ Returned /\ Sweep /\ pc' = pc /\ replaced' = replaced /\ pc = "idle"
    BY <1>6 DEF garbageCollect, Idle
  <2>2. held' = held
    BY <2>1 DEF Sweep, SweepTables, SweepCrashes
  <2>3. /\ pc' \in {"idle", "decRef", "collect"} /\ replaced' \in Root /\ OperationOK'
    BY <2>1, <2>2 DEF Inv, TypeOK, OperationOK
  <2> QED
    BY <2>1, <2>3, SweepInv
<1>7. CASE applyOperationCollect
  <2>1. /\ Returned /\ pc = "collect" /\ pc' = "idle" /\ replaced' = Result
        /\ Result \in Root
    BY <1>7 DEF applyOperationCollect, Root
  <2>2. held' = held
    BY <1>7 DEF applyOperationCollect, Sweep, SweepTables, SweepCrashes
  <2>3. OperationOK'
    BY <2>1, <2>2 DEF Inv, OperationOK
  <2>4. CASE Threshold!Triggered
    BY <1>7, <2>1, <2>3, <2>4, SweepInv DEF applyOperationCollect
  <2>5. CASE ~Threshold!Triggered
    <3>1. UNCHANGED <<tableVars, ref, callVars, held, cacheVars, active, gcLimit, crashed>>
      BY <1>7, <2>5 DEF applyOperationCollect
    <3>2. PendingOK' /\ RefCountExact'
      <4>1. /\ node' = node /\ ref' = ref /\ incs' = incs /\ decs' = decs /\ held' = held
        BY <3>1 DEF tableVars, callVars
      <4>2. \A a : InEdges(a)' = InEdges(a) /\ Roots(a)' = Roots(a)
        BY <4>1, SameEdges DEF InEdges, Roots, Counted
      <4> QED
        BY <4>1, <4>2, SameEdges DEF Inv, PendingOK, RefCountExact, Saturated
    <3> QED
      BY <2>1, <2>3, <3>1, <3>2, HeldIsLive, CallInv DEF Inv, TypeOK, callVars
  <2> QED
    BY <2>4, <2>5
<1>8. CASE UNCHANGED vars
  BY <1>8, BookkeepingInv DEF vars, callVars, clientVars, Inv, TypeOK
<1> QED
  BY <1>2, <1>3, <1>4, <1>5, <1>6, <1>7, <1>8, IncRefChildInv, DecRefChildInv,
     IncRefInv, DecRefInv, ApplyOperationInv, ApplyOperationDecRefInv DEF Next

\* The invariant holds throughout.
LEMMA InvAlways == Spec => []Inv
BY InitInv, NextInv, PTL DEF Spec
-----------------------------------------------------------------------------
\* The counts and caches stay within their types; no count passes kMaxRefCount.
THEOREM TypeCorrect == Spec => []TypeOK
BY InvAlways, PTL DEF Inv

(***************************************************************************)
(* At every step of the two recursions, also of those that a saturated or  *)
(* a shared node cuts short, an unsaturated count is exact.                *)
(***************************************************************************)
THEOREM CountsAreExact == Spec => []RefCountExact
BY InvAlways, PTL DEF Inv

(***************************************************************************)
(* The collector never frees a node that a live node or a handle points    *)
(* to, in the middle of applyOperation or outside of it.                   *)
(***************************************************************************)
THEOREM NothingDangles == Spec => []NoDanglingPointer
BY InvAlways, PTL DEF Inv

\* Every reference still to be given up is to a node in use.
LEMMA PendingDecRefsCounted ==
  ASSUME Inv PROVE NoUnderflow
<1>1. TypeOK /\ RefCountExact /\ NoDanglingPointer
  BY DEF Inv
<1>2. ASSUME NEW edge \in decs, Target(edge) # Null
      PROVE  ref[Target(edge)] > 0
  <2>1. PICK b : b = Target(edge)
    OBVIOUS
  <2>2. edge \in AllEdges /\ Counted(edge) /\ b \in Live
    BY <1>1, <1>2, <2>1 DEF TypeOK, Counted, NoDanglingPointer
  <2> QED
    BY <1>1, <2>1, <2>2, ReferredToInUse
<1>3. ASSUME NEW h \in Root, held[h] # Null
      PROVE  ref[held[h]] > 0
  <2>1. PICK b : b = held[h]
    OBVIOUS
  <2> QED
    BY <1>1, <1>3, <2>1, ReferredToInUse DEF NoDanglingPointer
<1> QED
  BY <1>2, <1>3 DEF NoUnderflow

(***************************************************************************)
(* The assertion in decRef never fails, so a build with NDEBUG never wraps *)
(* a count: every reference still to be given up is one that was counted.  *)
(***************************************************************************)
THEOREM DecRefNeverUnderflows == Spec => []NoUnderflow
BY PendingDecRefsCounted, InvAlways, PTL
-----------------------------------------------------------------------------
\* The compute tables stay fresh: only a sweep frees nodes, and it clears them.
LEMMA CachesStep == Inv /\ CachesNameLiveNodes /\ [Next]_vars => CachesNameLiveNodes'
<1> SUFFICES ASSUME Inv, CachesNameLiveNodes, [Next]_vars
             PROVE  CachesNameLiveNodes'
  OBVIOUS
<1> USE DEF CachesNameLiveNodes
<1>1. ASSUME UNCHANGED <<tableVars, cacheVars>> PROVE CachesNameLiveNodes'
  <2>1. Live' = Live
    BY <1>1, SameEdges DEF tableVars
  <2> QED
    BY <1>1, <2>1 DEF cacheVars
<1>2. ASSUME NEW key \in Key, NEW a \in Addr, key.kind = KindOf(a), MakeNode(key, a)
      PROVE  CachesNameLiveNodes'
  <2>1. Live \subseteq Live'
    BY <1>2, MakeNodeEffect
  <2>2. mvCache' = mvCache /\ mmCache' = mmCache
    BY <1>2 DEF MakeNode, cacheVars
  <2> QED
    BY <2>1, <2>2
<1>3. ASSUME NEW key \in Key, MakeNodeThrows(key) PROVE CachesNameLiveNodes'
  BY <1>3, SameEdges DEF MakeNodeThrows, cacheVars
<1>4. CASE makeVEdge
  BY <1>2, <1>3, <1>4, KindOfKeys DEF makeVEdge, Key
<1>5. CASE makeMEdge
  BY <1>2, <1>3, <1>5, KindOfKeys DEF makeMEdge, Key
<1>6. CASE multiplyMV
  <2>1. PICK m \in LiveOrNull(MAddr), v \in LiveOrNull(VAddr), r \in LiveOrNull(VAddr) :
           CacheMV(m, v, r)
    BY <1>6 DEF multiplyMV
  <2>2. /\ mvCache' = mvCache \cup {[m |-> m, v |-> v, r |-> r]}
        /\ mmCache' = mmCache /\ Live' = Live
    BY <2>1, SameEdges DEF CacheMV, tableVars
  <2> QED
    BY <2>2 DEF LiveOrNull
<1>7. CASE multiplyMM
  <2>1. PICK x \in LiveOrNull(MAddr), y \in LiveOrNull(MAddr), r \in LiveOrNull(MAddr) :
           CacheMM(x, y, r)
    BY <1>7 DEF multiplyMM
  <2>2. /\ mmCache' = mmCache \cup {[x |-> x, y |-> y, r |-> r]}
        /\ mvCache' = mvCache /\ Live' = Live
    BY <2>1, SameEdges DEF CacheMM, tableVars
  <2> QED
    BY <2>2 DEF LiveOrNull
<1>8. ASSUME Returned, Sweep PROVE CachesNameLiveNodes'
  <2>1. CASE SweepTables
    <3>1. Live' = Live \ Garbage
      BY <1>8, <2>1, SweepEffect DEF Garbage, Inv, TypeOK, Live
    <3>2. ASSUME NEW c \in mvCache' PROVE {c.m, c.v, c.r} \subseteq Live' \cup {Null}
      BY <2>1, <3>1, <3>2 DEF SweepTables, ClearMV
    <3>3. ASSUME NEW c \in mmCache' PROVE {c.x, c.y, c.r} \subseteq Live' \cup {Null}
      <4>1. /\ c \in mmCache /\ Garbage \cap MAddr = {}
            /\ {c.x, c.y, c.r} \subseteq MAddr \cup {Null}
        BY <2>1, <3>3 DEF SweepTables, ClearMM, Inv, TypeOK
      <4> QED
        BY <3>1, <4>1
    <3> QED
      BY <3>2, <3>3
  <2>2. CASE SweepCrashes
    BY <1>1, <2>2 DEF SweepCrashes
  <2> QED
    BY <1>8, <2>1, <2>2 DEF Sweep
<1>9. CASE \E force \in BOOLEAN : garbageCollect(force)
  BY <1>8, <1>9 DEF garbageCollect, Idle
<1>10. CASE applyOperationCollect
  BY <1>1, <1>8, <1>10 DEF applyOperationCollect
<1>11. CASE UNCHANGED vars
  BY <1>1, <1>11 DEF vars, tableVars, cacheVars
<1> QED
  BY <1>1, <1>4, <1>5, <1>6, <1>7, <1>9, <1>10, <1>11
     DEF Next, IncRefChild, DecRefChild, incRef, decRef, applyOperation, applyOperationDecRef

(***************************************************************************)
(* A hit in a compute table never returns, or matches, a node that was     *)
(* freed: clearing each table when a kind of node it names was freed is    *)
(* enough, and clearing mmCache_ for vector nodes is not needed.           *)
(***************************************************************************)
THEOREM CachesAreFresh == Spec => []CachesNameLiveNodes
<1>1. Init => CachesNameLiveNodes
  BY DEF Init, CachesNameLiveNodes
<1> QED
  BY <1>1, CachesStep, InvAlways, PTL DEF Spec
-----------------------------------------------------------------------------
\* The store as its clients see it, when no node comes or goes.
LEMMA SameHeap ==
  ASSUME node' = node
  PROVE  [a \in Live |-> node[a]]' = [a \in Live |-> node[a]]
BY SameEdges

\* makeVEdge and makeMEdge are the Make of RootedStore.
LEMMA MakeNodeMakes ==
  ASSUME Inv, NEW key \in Key, NEW a \in Addr, key.kind = KindOf(a), MakeNode(key, a)
  PROVE  Store!Make
<1>1. /\ Live' = Live \cup {a} /\ a \notin Live
      /\ \A b \in Live : node'[b] = node[b]
      /\ node'[a] = key
  BY MakeNodeEffect
<1>2. held' = held /\ Buildable(key) /\ \A b \in Live : node[b] # key
  BY DEF MakeNode, clientVars, Present
<1>3. Store!SameContent
  BY <1>1 DEF Store!SameContent
<1>4. Store!Pointees(key) \subseteq Live
  BY <1>2 DEF Store!Pointees, Buildable, LiveOrNull
<1> QED
  BY <1>1, <1>2, <1>3, <1>4 DEF Store!Make

\* A sweep is a Collect of RootedStore: what it frees has no root.
LEMMA SweepCollects ==
  ASSUME Inv, Returned, SweepTables
  PROVE  Store!Collect
<1>1. /\ Live' = {a \in Live : ref[a] > 0}
      /\ \A a \in Live' : node'[a] = node[a]
      /\ held' = held
  BY SweepEffect
<1>2. NoDanglingPointer'
  BY SweepKeepsReferences
<1>3. Store!SameContent
  BY <1>1 DEF Store!SameContent
<1>4. \A h \in Root : held[h] \in Live' \cup {Null}
  BY <1>1, <1>2 DEF NoDanglingPointer
<1>5. ASSUME NEW a \in Live' PROVE Store!Pointees(node'[a]) \subseteq Live'
  <2>1. ASSUME NEW i \in DOMAIN node'[a].e PROVE node'[a].e[i] \in Live' \cup {Null}
    <3>1. <<a, i>> \in AllEdges' /\ Target(<<a, i>>)' = node'[a].e[i]
      BY EdgeFactsNext DEF Target
    <3> QED
      BY <1>2, <3>1 DEF NoDanglingPointer
  <2> QED
    BY <2>1 DEF Store!Pointees
<1> QED
  BY <1>1, <1>3, <1>4, <1>5 DEF Store!Collect

\* Every step of DwStore is a step of RootedStore, or changes neither heap nor root.
LEMMA StoreStep == Inv /\ [Next]_vars => [Store!Next]_(Store!storeVars)
<1> SUFFICES ASSUME Inv, [Next]_vars PROVE [Store!Next]_(Store!storeVars)
  OBVIOUS
<1>1. ASSUME node' = node, held' = held PROVE UNCHANGED Store!storeVars
  BY <1>1, SameHeap DEF Store!storeVars
<1>2. ASSUME NEW key \in Key, MakeNodeThrows(key) PROVE UNCHANGED Store!storeVars
  BY <1>1, <1>2 DEF MakeNodeThrows, clientVars
<1>3. CASE makeVEdge
  BY <1>2, <1>3, MakeNodeMakes, KindOfKeys DEF makeVEdge, Key, Store!Next
<1>4. CASE makeMEdge
  BY <1>2, <1>4, MakeNodeMakes, KindOfKeys DEF makeMEdge, Key, Store!Next
<1>5. ASSUME Returned, Sweep PROVE [Store!Next]_(Store!storeVars)
  <2>1. CASE SweepTables
    BY <1>5, <2>1, SweepCollects DEF Store!Next
  <2>2. CASE SweepCrashes
    BY <1>1, <2>2 DEF SweepCrashes, tableVars
  <2> QED
    BY <1>5, <2>1, <2>2 DEF Sweep
<1>6. ASSUME NEW h \in Handle, NEW a \in Live, incRef(h, a) PROVE Store!Acquire
  <2>1. /\ node' = node /\ held[h] = Null /\ held' = [held EXCEPT ![h] = a]
    BY <1>6 DEF incRef, tableVars
  <2> QED
    BY <2>1, SameHeap DEF Store!Acquire, Root
<1>7. ASSUME NEW h \in Handle, decRef(h) PROVE Store!Release
  <2>1. /\ node' = node /\ held' = [held EXCEPT ![h] = Null]
    BY <1>7 DEF decRef, tableVars
  <2> QED
    BY <2>1, SameHeap DEF Store!Release, Root
<1>8. ASSUME NEW h \in Handle, NEW r \in LiveOrNull(Addr), applyOperation(h, r)
      PROVE  [Store!Next]_(Store!storeVars)
  <2>1. /\ node' = node /\ held[Result] = Null /\ held' = [held EXCEPT ![Result] = r]
        /\ Result \in Root /\ r \in Live \cup {Null}
    BY <1>8 DEF applyOperation, tableVars, Idle, Inv, OperationOK, Root, LiveOrNull
  <2>2. CASE r \in Live
    BY <2>1, <2>2, SameHeap DEF Store!Acquire, Store!Next
  <2>3. CASE r = Null
    BY <1>1, <2>1, <2>3 DEF Inv, TypeOK
  <2> QED
    BY <2>1, <2>2, <2>3
<1>9. CASE applyOperationDecRef
  <2>1. /\ node' = node /\ replaced \in Root /\ Result \in Root
        /\ held' = [held EXCEPT ![replaced] = held[Result], ![Result] = Null]
    BY <1>9 DEF applyOperationDecRef, tableVars, Inv, OperationOK, Root
  <2> QED
    BY <2>1, SameHeap DEF Store!Replace, Store!Next
<1>10. CASE applyOperationCollect
  BY <1>1, <1>5, <1>10 DEF applyOperationCollect, tableVars
<1>11. CASE \E force \in BOOLEAN : garbageCollect(force)
  BY <1>5, <1>11 DEF garbageCollect, Idle
<1>12. CASE UNCHANGED vars \/ multiplyMV \/ multiplyMM
  BY <1>1, <1>12 DEF vars, multiplyMV, multiplyMM, CacheMV, CacheMM, tableVars, clientVars
<1>13. CASE \/ \E edge \in incs : IncRefChild(edge)
            \/ \E edge \in decs : DecRefChild(edge)
  BY <1>1, <1>13 DEF IncRefChild, DecRefChild, tableVars, clientVars
<1> QED
  BY <1>3, <1>4, <1>6, <1>7, <1>8, <1>9, <1>10, <1>11, <1>12, <1>13
     DEF Next, Store!Next

(***************************************************************************)
(* For a client that balances its calls, reference counting with a kept    *)
(* saturation, lazily swept, is a store that keeps all that is rooted: in  *)
(* particular one content never lives under two addresses, and no address  *)
(* changes its content while anything refers to it.                        *)
(***************************************************************************)
THEOREM ImplementsRootedStore == Spec => ImplementsStore
<1>1. Init => Store!Init
  BY DEF Init, Live, Store!Init
<1> QED
  BY <1>1, StoreStep, InvAlways, PTL DEF Spec, ImplementsStore, Store!Spec
-----------------------------------------------------------------------------
\* The nodes of each table that numActiveEntries is to count.
InUse(k) == {a \in Live : KindOf(a) = k /\ ref[a] > 0}

\* The nodes in use can be counted.
LEMMA InUseFinite ==
  ASSUME TypeOK
  PROVE  \A k : IsFiniteSet(InUse(k)) /\ Cardinality(InUse(k)) \in Nat
<1>1. IsFiniteSet(Live)
  BY FiniteReferences
<1>2. ASSUME NEW k PROVE IsFiniteSet(InUse(k))
  <2>1. InUse(k) \subseteq Live
    BY DEF InUse
  <2> QED
    BY <1>1, <2>1, FS_Subset
<1> QED
  BY <1>2, FS_CardinalityType

\* ActiveEntriesExact in terms of InUse.
LEMMA ActiveIsInUse == ActiveEntriesExact <=> \A k \in Kind : active[k] = Cardinality(InUse(k))
BY DEF ActiveEntriesExact, InUse

\* ... and so in the next state.
LEMMA ActiveIsInUseNext ==
  ActiveEntriesExact' <=> \A k \in Kind : active'[k] = Cardinality(InUse(k)')
BY DEF ActiveEntriesExact, InUse

\* The same nodes are in use.
LEMMA SameInUse ==
  ASSUME ActiveEntriesExact, active' = active, \A k \in Kind : InUse(k)' = InUse(k)
  PROVE  ActiveEntriesExact'
BY ActiveIsInUse, ActiveIsInUseNext

\* incRef enters a node in the count of active entries when its own leaves 0.
LEMMA IncRefActive ==
  ASSUME TypeOK, ActiveEntriesExact, node' = node,
         NEW a \in Live \cup {Null}, NEW rest, IncRef(a, rest)
  PROVE  ActiveEntriesExact'
<1>1. /\ ref \in [Addr -> 0..MaxRefCount] /\ active \in [Kind -> Nat]
      /\ Live \subseteq Addr /\ Live' = Live /\ MaxRefCount \in Nat
      /\ (a # Null => a \in Live) /\ KindOf(a) \in Kind
  BY RefCountAssumption, SameEdges DEF TypeOK, Live, KindOf, Kind
<1>2. CASE IncRefIgnored(a, rest)
  BY <1>1, <1>2, SameInUse DEF IncRefIgnored, InUse
<1>3. CASE IncRefAgain(a, rest)
  <2>1. \A b \in Addr : ref'[b] > 0 <=> ref[b] > 0
    BY <1>1, <1>3 DEF IncRefAgain
  <2>2. \A k \in Kind : InUse(k)' = InUse(k)
    BY <1>1, <2>1 DEF InUse
  <2> QED
    BY <1>3, <2>2, SameInUse DEF IncRefAgain
<1>4. CASE IncRefFirst(a, rest)
  <2>1. /\ a \in Live /\ ref[a] = 0 /\ ref' = [ref EXCEPT ![a] = 1]
        /\ active' = [active EXCEPT ![KindOf(a)] = @ + 1]
    BY <1>1, <1>4 DEF IncRefFirst
  <2>2. ASSUME NEW k \in Kind PROVE active'[k] = Cardinality(InUse(k)')
    <3>0. a \notin InUse(k)
      BY <2>1 DEF InUse
    <3>1. /\ a \notin InUse(k) /\ IsFiniteSet(InUse(k))
          /\ active[k] = Cardinality(InUse(k))
      BY <3>0, InUseFinite, ActiveIsInUse
    <3>2. CASE k = KindOf(a)
      <4>1. InUse(k)' = InUse(k) \cup {a}
        BY <1>1, <2>1, <3>2 DEF InUse
      <4>2. Cardinality(InUse(k) \cup {a}) = Cardinality(InUse(k)) + 1
        BY <3>1, FS_AddElement
      <4> QED
        BY <1>1, <2>1, <3>1, <3>2, <4>1, <4>2
    <3>3. CASE k # KindOf(a)
      <4>1. InUse(k)' = InUse(k)
        BY <1>1, <2>1, <3>3 DEF InUse
      <4> QED
        BY <1>1, <2>1, <3>1, <3>3, <4>1
    <3> QED
      BY <3>2, <3>3
  <2> QED
    BY <2>2, ActiveIsInUseNext
<1> QED
  BY <1>2, <1>3, <1>4 DEF IncRef

\* decRef takes it out when its own count returns to 0.
LEMMA DecRefActive ==
  ASSUME TypeOK, ActiveEntriesExact, node' = node,
         NEW a \in Live \cup {Null}, NEW rest, DecRef(a, rest),
         a # Null => ref[a] > 0
  PROVE  ActiveEntriesExact'
<1>1. /\ ref \in [Addr -> 0..MaxRefCount] /\ active \in [Kind -> Nat]
      /\ Live \subseteq Addr /\ Live' = Live /\ MaxRefCount \in Nat
      /\ (a # Null => a \in Live) /\ KindOf(a) \in Kind
  BY RefCountAssumption, SameEdges DEF TypeOK, Live, KindOf, Kind
<1>2. CASE DecRefIgnored(a, rest)
  BY <1>1, <1>2, SameInUse DEF DecRefIgnored, InUse
<1>3. CASE DecRefAgain(a, rest)
  <2>1. /\ a \in Live /\ ref[a] > 1 /\ ref' = [ref EXCEPT ![a] = Decremented(ref[a])]
        /\ Decremented(ref[a]) = ref[a] - 1
    BY <1>1, <1>3 DEF DecRefAgain, Decremented
  <2>2. \A b \in Addr : ref'[b] > 0 <=> ref[b] > 0
    BY <1>1, <2>1
  <2>3. \A k \in Kind : InUse(k)' = InUse(k)
    BY <1>1, <2>2 DEF InUse
  <2> QED
    BY <1>3, <2>3, SameInUse DEF DecRefAgain
<1>4. CASE DecRefLast(a, rest)
  <2>1. /\ a \in Live /\ ref[a] = 1 /\ ref' = [ref EXCEPT ![a] = Decremented(ref[a])]
        /\ Decremented(ref[a]) = 0
        /\ active' = [active EXCEPT ![KindOf(a)] = IF @ > 0 THEN @ - 1 ELSE @]
    BY <1>1, <1>4 DEF DecRefLast, Decremented
  <2>2. \A b \in Addr : ref'[b] = IF b = a THEN 0 ELSE ref[b]
    BY <1>1, <2>1
  <2>3. ASSUME NEW k \in Kind PROVE active'[k] = Cardinality(InUse(k)')
    <3>1. /\ IsFiniteSet(InUse(k)) /\ active[k] = Cardinality(InUse(k))
          /\ Cardinality(InUse(k)) \in Nat
      BY InUseFinite, ActiveIsInUse
    <3>2. CASE k = KindOf(a)
      <4>1. InUse(k)' = InUse(k) \ {a} /\ a \in InUse(k)
        BY <1>1, <2>1, <2>2, <3>2 DEF InUse
      <4>2. Cardinality(InUse(k) \ {a}) = Cardinality(InUse(k)) - 1
        BY <3>1, <4>1, FS_RemoveElement
      <4>3. Cardinality(InUse(k)) > 0
        BY <3>1, <4>1, FS_EmptySet
      <4> QED
        BY <1>1, <2>1, <3>1, <3>2, <4>1, <4>2, <4>3
    <3>3. CASE k # KindOf(a)
      <4>1. InUse(k)' = InUse(k)
        BY <1>1, <2>2, <3>3 DEF InUse
      <4> QED
        BY <1>1, <2>1, <3>1, <3>3, <4>1
    <3> QED
      BY <3>2, <3>3
  <2> QED
    BY <2>3, ActiveIsInUseNext
<1> QED
  BY <1>2, <1>3, <1>4 DEF DecRef

\* After a sweep every node left is in use.
LEMMA SweepActive ==
  ASSUME Inv, Returned, ActiveEntriesExact, Sweep
  PROVE  ActiveEntriesExact'
<1>1. CASE SweepTables
  <2>1. /\ Live' = {a \in Live : ref[a] > 0} /\ ref' = ref /\ orphan' = {}
    BY <1>1, SweepEffect
  <2>2. ASSUME NEW k \in Kind PROVE active'[k] = Cardinality(InUse(k)')
    <3>1. {a \in Live' : KindOf(a) = k} = InUse(k)' /\ {key \in orphan' : key.kind = k} = {}
      BY <2>1 DEF InUse
    <3>2. IsFiniteSet(InUse(k)') /\ Cardinality(InUse(k)') \in Nat
      <4>1. IsFiniteSet(Live)
        BY FiniteReferences DEF Inv
      <4>2. InUse(k)' \subseteq Live
        BY <2>1 DEF InUse
      <4> QED
        BY <4>1, <4>2, FS_Subset, FS_CardinalityType
    <3>3. active'[k] = TableSize(k)'
      BY <1>1 DEF SweepTables
    <3> QED
      BY <3>1, <3>2, <3>3, FS_EmptySet DEF TableSize
  <2> QED
    BY <2>2, ActiveIsInUseNext
<1>2. CASE SweepCrashes
  <2>1. active' = active /\ node' = node /\ ref' = ref
    BY <1>2 DEF SweepCrashes, tableVars
  <2>2. \A k \in Kind : InUse(k)' = InUse(k)
    BY <2>1, SameEdges DEF InUse
  <2> QED
    BY <2>1, <2>2, SameInUse
<1> QED
  BY <1>1, <1>2 DEF Sweep

\* numActiveEntries stays exact at every step.
LEMMA ActiveStep == Inv /\ ActiveEntriesExact /\ [Next]_vars => ActiveEntriesExact'
<1> SUFFICES ASSUME Inv, ActiveEntriesExact, [Next]_vars
             PROVE  ActiveEntriesExact'
  OBVIOUS
<1>1. TypeOK /\ NoDanglingPointer /\ NoUnderflow /\ held \in [Root -> Live \cup {Null}]
  BY PendingDecRefsCounted, HeldIsLive DEF Inv
<1>2. ASSUME UNCHANGED <<node, ref, active>> PROVE ActiveEntriesExact'
  <2>1. \A k \in Kind : InUse(k)' = InUse(k)
    BY <1>2, SameEdges DEF InUse
  <2> QED
    BY <1>2, <2>1, SameInUse
<1>3. ASSUME NEW key \in Key, NEW a \in Addr, key.kind = KindOf(a), MakeNode(key, a)
      PROVE  ActiveEntriesExact'
  <2>1. /\ Live' = Live \cup {a} /\ a \notin Live /\ ref'[a] = 0
        /\ \A b \in Live : ref'[b] = ref[b]
    BY <1>3, MakeNodeEffect
  <2>2. \A k \in Kind : InUse(k)' = InUse(k)
    BY <2>1 DEF InUse
  <2> QED
    BY <1>3, <2>2, SameInUse DEF MakeNode
<1>4. CASE makeVEdge \/ makeMEdge
  <2>1. ASSUME NEW key \in Key, MakeNodeThrows(key) PROVE ActiveEntriesExact'
    BY <1>2, <2>1 DEF MakeNodeThrows
  <2> QED
    BY <1>3, <1>4, <2>1, KindOfKeys DEF makeVEdge, makeMEdge, Key
<1>5. CASE multiplyMV \/ multiplyMM \/ UNCHANGED vars
  BY <1>2, <1>5 DEF multiplyMV, multiplyMM, CacheMV, CacheMM, tableVars, vars
<1>6. ASSUME NEW edge \in incs, IncRefChild(edge) PROVE ActiveEntriesExact'
  <2>1. PICK a : a = Target(edge)
    OBVIOUS
  <2>2. a \in Live \cup {Null} /\ IncRef(a, incs \ {edge}) /\ node' = node
    BY <1>1, <1>6, <2>1 DEF IncRefChild, tableVars, NoDanglingPointer, TypeOK
  <2> QED
    BY <1>1, <2>2, IncRefActive
<1>7. ASSUME NEW edge \in decs, DecRefChild(edge) PROVE ActiveEntriesExact'
  <2>1. PICK a : a = Target(edge)
    OBVIOUS
  <2>2. /\ a \in Live \cup {Null} /\ DecRef(a, decs \ {edge}) /\ node' = node
        /\ a # Null => ref[a] > 0
    BY <1>1, <1>7, <2>1 DEF DecRefChild, tableVars, NoDanglingPointer, TypeOK, NoUnderflow
  <2> QED
    BY <1>1, <2>2, DecRefActive
<1>8. ASSUME NEW h \in Handle, NEW a \in Live, incRef(h, a) PROVE ActiveEntriesExact'
  BY <1>1, <1>8, IncRefActive DEF incRef, tableVars
<1>9. ASSUME NEW h \in Handle, NEW r \in LiveOrNull(Addr), applyOperation(h, r)
      PROVE  ActiveEntriesExact'
  BY <1>1, <1>9, IncRefActive DEF applyOperation, tableVars, LiveOrNull
<1>10. ASSUME NEW h \in Root, DecRef(held[h], {}), node' = node PROVE ActiveEntriesExact'
  <2>1. PICK a : a = held[h]
    OBVIOUS
  <2>2. a \in Live \cup {Null} /\ (a # Null => ref[a] > 0)
    BY <1>1, <2>1 DEF NoUnderflow
  <2> QED
    BY <1>1, <1>10, <2>1, <2>2, DecRefActive
<1>11. ASSUME NEW h \in Handle, decRef(h) PROVE ActiveEntriesExact'
  BY <1>10, <1>11 DEF decRef, tableVars, Root
<1>12. CASE applyOperationDecRef
  BY <1>10, <1>12 DEF applyOperationDecRef, tableVars, Inv, OperationOK, Root
<1>13. CASE applyOperationCollect
  BY <1>2, <1>13, SweepActive DEF applyOperationCollect, tableVars
<1>14. CASE \E force \in BOOLEAN : garbageCollect(force)
  BY <1>14, SweepActive DEF garbageCollect, Idle
<1> QED
  BY <1>4, <1>5, <1>6, <1>7, <1>8, <1>9, <1>11, <1>12, <1>13, <1>14 DEF Next

(***************************************************************************)
(* The counter that UniqueTableStatistics keeps by transitions never       *)
(* drifts from the number of nodes in use, so trackGcSweep, which derives  *)
(* it from the table again, changes nothing.                               *)
(***************************************************************************)
THEOREM ActiveEntriesAreExact == Spec => []ActiveEntriesExact
<1>1. Init => ActiveEntriesExact
  <2> SUFFICES ASSUME Init PROVE ActiveEntriesExact
    OBVIOUS
  <2>1. \A k \in Kind : InUse(k) = {} /\ active[k] = 0
    BY DEF Init, InUse, Live
  <2> QED
    BY <2>1, FS_EmptySet, ActiveIsInUse
<1> QED
  BY <1>1, ActiveStep, InvAlways, PTL DEF Spec
-----------------------------------------------------------------------------
\* A failed insertion leaves one more key behind, so there are finitely many.
OrphansFinite == IsFiniteSet(orphan)

NodesOf(k) == {a \in Live : KindOf(a) = k}
OrphansOf(k) == {key \in orphan : key.kind = k}

\* The size of a table is the number of its nodes and null entries.
LEMMA TableSizes ==
  ASSUME TypeOK, OrphansFinite
  PROVE  \A k : /\ TableSize(k) = Cardinality(NodesOf(k)) + Cardinality(OrphansOf(k))
                /\ IsFiniteSet(NodesOf(k)) /\ IsFiniteSet(OrphansOf(k))
                /\ Cardinality(NodesOf(k)) \in Nat /\ Cardinality(OrphansOf(k)) \in Nat
<1> TAKE k
<1>1. IsFiniteSet(Live)
  BY FiniteReferences
<1>2. IsFiniteSet(NodesOf(k)) /\ IsFiniteSet(OrphansOf(k))
  <2>1. NodesOf(k) \subseteq Live /\ OrphansOf(k) \subseteq orphan
    BY DEF NodesOf, OrphansOf
  <2> QED
    BY <1>1, <2>1, FS_Subset DEF OrphansFinite
<1> QED
  BY <1>2, FS_CardinalityType DEF TableSize, NodesOf, OrphansOf

\* ... and so it is in the next state.
LEMMA TableSizesNext ==
  \A k : TableSize(k)' = Cardinality(NodesOf(k)') + Cardinality(OrphansOf(k)')
BY DEF TableSize, NodesOf, OrphansOf

\* Only finitely many null entries are ever made.
LEMMA OrphansStep == OrphansFinite /\ [Next]_vars => OrphansFinite'
<1> SUFFICES ASSUME OrphansFinite, [Next]_vars PROVE OrphansFinite'
  OBVIOUS
<1> USE DEF OrphansFinite
<1>1. ASSUME NEW key, MakeNodeThrows(key) PROVE OrphansFinite'
  BY <1>1, FS_AddElement DEF MakeNodeThrows
<1>2. CASE makeVEdge \/ makeMEdge
  BY <1>1, <1>2 DEF makeVEdge, makeMEdge, MakeNode
<1>3. CASE orphan' = orphan
  BY <1>3
<1>4. ASSUME Sweep PROVE orphan' = orphan
  BY <1>4 DEF Sweep, SweepTables, SweepCrashes, tableVars
<1> QED
  BY <1>2, <1>3, <1>4
     DEF Next, vars, tableVars, multiplyMV, multiplyMM, CacheMV, CacheMM, IncRefChild,
         DecRefChild, incRef, decRef, applyOperation, applyOperationDecRef,
         applyOperationCollect, garbageCollect

\* The table of one kind grows by one entry, the other stays as it is.
LEMMA TableGrows ==
  ASSUME NEW k \in Kind,
         \A other \in Kind : TableSize(other) \in Nat,
         \A other \in Kind : TableSize(other)' = TableSize(other) + (IF other = k THEN 1 ELSE 0),
         gcLimit' = gcLimit
  PROVE  Threshold!Insert
<1> DEFINE before == [other \in Kind |-> TableSize(other)]
           after == [other \in Kind |-> TableSize(other)']
<1>1. after \in [Kind -> Nat] /\ after[k] > before[k]
  OBVIOUS
<1>2. after = [before EXCEPT ![k] = after[k]]
  <2>1. \A other \in Kind : other # k => TableSize(other)' = TableSize(other)
    OBVIOUS
  <2> QED
    BY ONLY <2>1, k \in Kind
<1> QED
  BY <1>1, <1>2 DEF Threshold!Insert

\* Every step of DwStore is a step of GcLimit or leaves sizes and limits alone.
LEMMA ThresholdStep ==
  Inv /\ OrphansFinite /\ [Next]_vars => [Threshold!Next]_(Threshold!limitVars)
<1> SUFFICES ASSUME Inv, OrphansFinite, [Next]_vars
             PROVE  [Threshold!Next]_(Threshold!limitVars)
  OBVIOUS
<1>1. TypeOK /\ \A k \in Kind : TableSize(k) \in Nat
  BY TableSizes DEF Inv
<1>2. ASSUME node' = node, orphan' = orphan, gcLimit' = gcLimit
      PROVE  UNCHANGED Threshold!limitVars
  <2>1. \A k \in Kind : TableSize(k)' = TableSize(k)
    BY <1>2, SameEdges DEF TableSize
  <2> QED
    BY <1>2, <2>1 DEF Threshold!limitVars
<1>3. ASSUME NEW key \in Key, NEW a \in Addr, key.kind = KindOf(a), MakeNode(key, a)
      PROVE  Threshold!Insert
  <2>1. Live' = Live \cup {a} /\ a \notin Live
    BY <1>3, MakeNodeEffect
  <2>2. orphan' = orphan /\ gcLimit' = gcLimit /\ KindOf(a) \in Kind
    BY <1>3 DEF MakeNode, KindOf, Kind
  <2>3. ASSUME NEW k \in Kind
        PROVE  TableSize(k)' = TableSize(k) + (IF k = KindOf(a) THEN 1 ELSE 0)
    <3>1. OrphansOf(k)' = OrphansOf(k)
      BY <2>2 DEF OrphansOf
    <3>2. a \notin NodesOf(k)
      BY <2>1 DEF NodesOf
    <3>3. NodesOf(k)' = IF k = KindOf(a) THEN NodesOf(k) \cup {a} ELSE NodesOf(k)
      BY <2>1 DEF NodesOf
    <3>4. IsFiniteSet(NodesOf(k)) /\ Cardinality(NodesOf(k)) \in Nat
      BY <1>1, TableSizes
    <3>5. Cardinality(NodesOf(k) \cup {a}) = Cardinality(NodesOf(k)) + 1
      BY <3>2, <3>4, FS_AddElement
    <3>6. Cardinality(OrphansOf(k)) \in Nat
      BY <1>1, TableSizes
    <3>7. TableSize(k) = Cardinality(NodesOf(k)) + Cardinality(OrphansOf(k))
      BY <1>1, TableSizes
    <3>8. TableSize(k)' = Cardinality(NodesOf(k)') + Cardinality(OrphansOf(k)')
      BY TableSizesNext
    <3> QED
      BY <3>1, <3>3, <3>4, <3>5, <3>6, <3>7, <3>8
  <2> QED
    BY <1>1, <2>2, <2>3, TableGrows
<1>4. ASSUME NEW key \in Key, MakeNodeThrows(key) PROVE Threshold!Insert
  <2>1. /\ orphan' = orphan \cup {key} /\ key \notin orphan
        /\ node' = node /\ gcLimit' = gcLimit /\ key.kind \in Kind
    BY <1>4 DEF MakeNodeThrows, Present, Key, VKey, MKey, Kind
  <2>2. ASSUME NEW k \in Kind
        PROVE  TableSize(k)' = TableSize(k) + (IF k = key.kind THEN 1 ELSE 0)
    <3>1. NodesOf(k)' = NodesOf(k)
      BY <2>1, SameEdges DEF NodesOf
    <3>2. key \notin OrphansOf(k)
      BY <2>1 DEF OrphansOf
    <3>3. OrphansOf(k)' = IF k = key.kind THEN OrphansOf(k) \cup {key} ELSE OrphansOf(k)
      BY <2>1 DEF OrphansOf
    <3>4. IsFiniteSet(OrphansOf(k)) /\ Cardinality(OrphansOf(k)) \in Nat
      BY <1>1, TableSizes
    <3>5. Cardinality(OrphansOf(k) \cup {key}) = Cardinality(OrphansOf(k)) + 1
      BY <3>2, <3>4, FS_AddElement
    <3>6. Cardinality(NodesOf(k)) \in Nat
      BY <1>1, TableSizes
    <3>7. TableSize(k) = Cardinality(NodesOf(k)) + Cardinality(OrphansOf(k))
      BY <1>1, TableSizes
    <3>8. TableSize(k)' = Cardinality(NodesOf(k)') + Cardinality(OrphansOf(k)')
      BY TableSizesNext
    <3> QED
      BY <3>1, <3>3, <3>4, <3>5, <3>6, <3>7, <3>8
  <2> QED
    BY <1>1, <2>1, <2>2, TableGrows
<1>5. ASSUME Returned, SweepTables
      PROVE  /\ [k \in Kind |-> TableSize(k)'] \in [Kind -> Nat]
             /\ \A k \in Kind : TableSize(k)' <= TableSize(k)
             /\ gcLimit' = [k \in Kind |-> Threshold!AdjustedLimit(gcLimit[k], TableSize(k)')]
  <2>1. Live' = {a \in Live : ref[a] > 0} /\ orphan = {} /\ orphan' = {}
    BY <1>5, SweepEffect
  <2>2. ASSUME NEW k \in Kind PROVE TableSize(k)' \in Nat /\ TableSize(k)' <= TableSize(k)
    <3>1. NodesOf(k)' \subseteq NodesOf(k) /\ OrphansOf(k)' = OrphansOf(k)
      BY <2>1 DEF NodesOf, OrphansOf
    <3>2. IsFiniteSet(NodesOf(k))
      BY <1>1, TableSizes
    <3>3. /\ Cardinality(NodesOf(k)') <= Cardinality(NodesOf(k))
          /\ Cardinality(NodesOf(k)') \in Nat
      BY <3>1, <3>2, FS_Subset, FS_CardinalityType
    <3>4. Cardinality(OrphansOf(k)) \in Nat /\ Cardinality(NodesOf(k)) \in Nat
      BY <1>1, TableSizes
    <3> QED
      BY <1>1, <3>1, <3>3, <3>4, TableSizes, TableSizesNext
  <2> QED
    BY <1>5, <2>2 DEF SweepTables, AdjustLimits
<1>6. ASSUME NEW force \in BOOLEAN, force \/ Threshold!Triggered, Returned, Sweep
      PROVE  [Threshold!Next]_(Threshold!limitVars)
  <2>1. CASE SweepTables
    <3>1. Threshold!Sweep(force)
      BY <1>5, <1>6, <2>1 DEF Threshold!Sweep
    <3> QED
      BY <3>1 DEF Threshold!Next
  <2>2. CASE SweepCrashes
    BY <1>2, <2>2 DEF SweepCrashes, tableVars
  <2> QED
    BY <1>6, <2>1, <2>2 DEF Sweep
<1>7. CASE makeVEdge \/ makeMEdge
  BY <1>3, <1>4, <1>7, KindOfKeys DEF makeVEdge, makeMEdge, Key, Threshold!Next
<1>8. CASE applyOperationCollect
  BY <1>2, <1>6, <1>8 DEF applyOperationCollect, tableVars
<1>9. CASE \E force \in BOOLEAN : garbageCollect(force)
  BY <1>6, <1>9 DEF garbageCollect, Idle
<1>10. CASE multiplyMV \/ multiplyMM \/ UNCHANGED vars
  BY <1>2, <1>10 DEF multiplyMV, multiplyMM, CacheMV, CacheMM, tableVars, vars
<1> QED
  BY <1>2, <1>7, <1>8, <1>9, <1>10
     DEF Next, IncRefChild, DecRefChild, incRef, decRef, applyOperation,
         applyOperationDecRef, tableVars

(***************************************************************************)
(* The thresholds move as GcLimit says, also when failed insertions leave  *)
(* null entries that count as table entries: GcLimitProofs applies.        *)
(***************************************************************************)
THEOREM ImplementsGcLimit == Spec => ImplementsThreshold
<1>1. Init => OrphansFinite
  BY FS_EmptySet DEF Init, OrphansFinite
<1>2. Init => Threshold!Init
  <2> SUFFICES ASSUME Init PROVE Threshold!Init
    OBVIOUS
  <2>1. \A k \in Kind : TableSize(k) = 0
    <3> TAKE k \in Kind
    <3>1. {a \in Live : KindOf(a) = k} = {} /\ {key \in orphan : key.kind = k} = {}
      BY DEF Init, Live
    <3> QED
      BY <3>1, FS_EmptySet DEF TableSize
  <2> QED
    BY <2>1 DEF Init, Threshold!Init
<1> QED
  BY <1>1, <1>2, OrphansStep, ThresholdStep, InvAlways, PTL
     DEF Spec, ImplementsThreshold, Threshold!Spec
-----------------------------------------------------------------------------
\* The end of an edge is pointed to by the node it starts from.
LEMMA PointedTo ==
  ASSUME NEW S \in SUBSET Live, NEW edge \in AllEdges, edge[1] \in S,
         Target(edge) \in Live
  PROVE  Target(edge) \in PointeesOf(S)
BY EdgeFacts DEF Target, PointeesOf

\* Nodes that keep their contents and had no cycle still have none.
LEMMA SamePointees ==
  ASSUME NEW S \in SUBSET Live, \A a \in S : node'[a] = node[a],
         \A a \in S : \E b \in S : \E i \in DOMAIN node'[b].e : node'[b].e[i] = a
  PROVE  S \subseteq PointeesOf(S)
<1>1. ASSUME NEW a \in S PROVE a \in PointeesOf(S)
  <2>1. PICK b \in S : \E i \in DOMAIN node'[b].e : node'[b].e[i] = a
    OBVIOUS
  <2>2. node'[b] = node[b]
    OBVIOUS
  <2>3. \E i \in DOMAIN node[b].e : node[b].e[i] = a
    BY ONLY <2>1, <2>2
  <2> QED
    BY <2>3 DEF PointeesOf
<1> QED
  BY <1>1

\* A node is new only where nothing points, so it is on no cycle.
LEMMA MakeNodeAcyclic ==
  ASSUME Inv, Acyclic,
         NEW key \in Key, NEW a \in Addr, key.kind = KindOf(a), MakeNode(key, a)
  PROVE  Acyclic'
<1>1. /\ Live' = Live \cup {a} /\ a \notin Live /\ a # Null
      /\ \A b \in Live : node'[b] = node[b]
      /\ node'[a] = key
  BY MakeNodeEffect, KeyFacts
<1>2. ASSUME NEW b \in Live', NEW i \in DOMAIN node'[b].e PROVE node'[b].e[i] # a
  <2>1. CASE b = a
    BY <1>1, <1>2, <2>1 DEF MakeNode, Buildable, LiveOrNull
  <2>2. CASE b \in Live
    <3>1. <<b, i>> \in AllEdges /\ Target(<<b, i>>) = node'[b].e[i]
      BY <1>1, <1>2, <2>2, EdgeFacts DEF Target
    <3>2. Target(<<b, i>>) \in Live \cup {Null}
      BY <3>1 DEF Inv, NoDanglingPointer
    <3> QED
      BY <1>1, <3>1, <3>2
  <2> QED
    BY <1>1, <2>1, <2>2
<1> SUFFICES ASSUME NEW S \in SUBSET (Live'), S \subseteq PointeesOf(S)'
             PROVE  S = {}
  BY DEF Acyclic
<1>3. a \notin S
  BY <1>2 DEF PointeesOf
<1>4. S \in SUBSET Live
  BY <1>1, <1>3
<1>5. S \subseteq PointeesOf(S)
  <2>1. \A c \in S : \E b \in S : \E i \in DOMAIN node'[b].e : node'[b].e[i] = c
    BY DEF PointeesOf
  <2> QED
    BY <1>1, <1>4, <2>1, SamePointees
<1> QED
  BY <1>4, <1>5 DEF Acyclic

\* A sweep only takes nodes away.
LEMMA SweepAcyclic ==
  ASSUME Inv, Acyclic, Returned, SweepTables
  PROVE  Acyclic'
<1>1. Live' \subseteq Live /\ \A a \in Live' : node'[a] = node[a]
  BY SweepEffect
<1> SUFFICES ASSUME NEW S \in SUBSET (Live'), S \subseteq PointeesOf(S)'
             PROVE  S = {}
  BY DEF Acyclic
<1>2. S \in SUBSET Live
  BY <1>1
<1>3. S \subseteq PointeesOf(S)
  <2>1. \A a \in S : \E b \in S : \E i \in DOMAIN node'[b].e : node'[b].e[i] = a
    BY DEF PointeesOf
  <2> QED
    BY <1>1, <1>2, <2>1, SamePointees
<1> QED
  BY <1>2, <1>3 DEF Acyclic

\* No step closes a cycle: a new node has edges to older ones only, and nothing
\* in use points to a freed one.
LEMMA AcyclicStep == Inv /\ Acyclic /\ [Next]_vars => Acyclic'
<1> SUFFICES ASSUME Inv, Acyclic, [Next]_vars PROVE Acyclic'
  OBVIOUS
<1>1. ASSUME node' = node PROVE Acyclic'
  <2>1. Live' = Live /\ \A S : PointeesOf(S)' = PointeesOf(S)
    BY <1>1, SameEdges DEF PointeesOf
  <2> QED
    BY <2>1 DEF Acyclic
<1>2. CASE makeVEdge \/ makeMEdge
  BY <1>1, <1>2, MakeNodeAcyclic, KindOfKeys
     DEF makeVEdge, makeMEdge, MakeNodeThrows
<1>3. CASE \E force \in BOOLEAN : garbageCollect(force)
  BY <1>1, <1>3, SweepAcyclic DEF garbageCollect, Idle, Sweep, SweepCrashes, tableVars
<1>4. CASE applyOperationCollect
  BY <1>1, <1>4, SweepAcyclic DEF applyOperationCollect, Sweep, SweepCrashes, tableVars
<1> QED
  BY <1>1, <1>2, <1>3, <1>4
     DEF Next, IncRefChild, DecRefChild, incRef, decRef, applyOperation,
         applyOperationDecRef, multiplyMV, multiplyMM, CacheMV, CacheMM, tableVars, vars

\* Hence no reachable store has a cycle.
LEMMA AcyclicAlways == Spec => [](Inv /\ Acyclic)
<1>1. Init => Acyclic
  BY DEF Init, Acyclic, Live
<1> QED
  BY <1>1, AcyclicStep, InvAlways, PTL DEF Spec

(***************************************************************************)
(* Whatever is made, collected and made again in the same place, live      *)
(* nodes form no cycle: the recursions of incRef and decRef end.           *)
(***************************************************************************)
THEOREM NoCycles == Spec => []Acyclic
BY AcyclicAlways, PTL

(***************************************************************************)
(* A node in use that no root reaches has a counted edge from another such *)
(* node, so all of them together would form a cycle.                       *)
(***************************************************************************)
LEMMA UnreachableIsGarbage ==
  ASSUME Inv, Acyclic, Idle, \A a \in Live : ~Saturated(a)
  PROVE  \A a \in Live : ref[a] > 0 => a \in Reachable
<1> DEFINE Lost == {a \in Live : ref[a] > 0 /\ a \notin Reachable}
<1>1. ASSUME NEW a \in Live, a \notin Reachable
      PROVE  /\ Roots(a) = {}
             /\ \A edge \in AllEdges : Target(edge) = a => edge[1] \notin Reachable
  <2>1. PICK S \in SUBSET Live : ClosedFromRoots(S) /\ a \notin S
    BY <1>1 DEF Reachable
  <2>2. Roots(a) = {} /\ a \notin PointeesOf(S)
    BY <2>1 DEF ClosedFromRoots
  <2>3. ASSUME NEW edge \in AllEdges, Target(edge) = a PROVE edge[1] \notin S
    BY <1>1, <2>2, <2>3, PointedTo
  <2> QED
    BY <2>1, <2>2, <2>3, EdgeFacts DEF Reachable
<1>2. ASSUME NEW a \in Lost PROVE a \in PointeesOf(Lost)
  <2>1. a \in Live /\ ref[a] > 0 /\ Roots(a) = {}
    BY <1>1, <1>2
  <2>2. Cardinality(Roots(a)) = 0
    BY <2>1, FS_EmptySet
  <2>3. ref[a] = Cardinality(InEdges(a))
    <3>1. ref[a] = Cardinality(Roots(a)) + Cardinality(InEdges(a))
      BY <2>1 DEF Inv, RefCountExact
    <3>2. Cardinality(InEdges(a)) \in Nat
      BY FiniteReferences DEF Inv
    <3> QED
      BY <2>2, <3>1, <3>2
  <2>4. InEdges(a) # {}
    BY <2>1, <2>3, FS_EmptySet
  <2>5. PICK edge \in AllEdges : Target(edge) = a /\ Counted(edge)
    BY <2>4 DEF InEdges
  <2>6. edge[1] \in Lost
    BY <1>1, <2>1, <2>5, EdgeFacts DEF Counted, Idle, Returned
  <2> QED
    BY <2>1, <2>5, <2>6, PointedTo
<1>3. Lost = {}
  BY <1>2 DEF Acyclic
<1> QED
  BY <1>3

(***************************************************************************)
(* Garbage is found: between operations, if no count is saturated, every   *)
(* node that a sweep would spare can be reached from a root.               *)
(***************************************************************************)
THEOREM NothingIsLost == Spec => []OnlyReachableInUse
<1>1. Inv /\ Acyclic => OnlyReachableInUse
  BY UnreachableIsGarbage DEF OnlyReachableInUse
<1> QED
  BY <1>1, AcyclicAlways, PTL
-----------------------------------------------------------------------------
(***************************************************************************)
(* ExactDDSimulation.  When no allocation fails it is a balanced client,   *)
(* so what is shown of DwStore holds for it; when some do, it loses its    *)
(* root in one place only.                                                 *)
(***************************************************************************)
\* Where the root of state_ is between any two of the calls.
SimInv ==
    /\ call \in {"construct", "none", "reset", "gate", "measure"}
    /\ state \in VAddr \cup {Null}
    /\ call \in {"construct", "reset"} =>
          /\ pc = "idle" /\ held[State] = Null
          /\ e \in LiveOrNull(VAddr) /\ qubit \in 0..NumQubits
    /\ call = "none" => pc = "idle" /\ held[State] = state
    /\ call \in {"gate", "measure"} =>
          /\ pc = "decRef" => /\ replaced = State /\ held[State] = state
                              /\ held[Result] \in VAddr \cup {Null}
          /\ pc = "collect" => held[State] \in VAddr \cup {Null}
          /\ pc # "idle"

\* What the constants of a simulation are.
LEMMA StateFacts ==
  /\ State \in Handle /\ State \in Root /\ Result \in Root /\ State # Result
  /\ NumQubits \in Nat
BY StateAssumption, NumQubitsAssumption, HandleAssumption DEF Root

\* While a reset is under way the next node is one makeVEdge may be asked for.
LEMMA ZeroKeyIsKey ==
  ASSUME SimInv, MakingZeroState PROVE ZeroKey \in VKey
<1>1. qubit \in Level
  BY StateFacts, NumQubitsAssumption DEF SimInv, MakingZeroState, Resetting
<1>2. e \in VAddr \cup {Null}
  BY DEF SimInv, MakingZeroState, Resetting, LiveOrNull
<1> QED
  BY <1>1, <1>2, ZeroWeightsAssumption DEF ZeroKey, VKey

\* No call of the simulation is out of balance: each is a step of DwStore.
LEMMA SimStep ==
  ASSUME ~AllocationMayFail, Inv, SimInv, [SimNext]_<<packageVars, simVars>>
  PROVE  [Next]_vars
<1>1. CASE resetDecRef
  <2>1. CASE state = Null
    <3>1. held' = held /\ decs' = decs /\ ref' = ref /\ active' = active
      BY <1>1, <2>1, StateFacts DEF resetDecRef, Ready, Idle, Returned, DecRef,
           DecRefIgnored, DecRefAgain, DecRefLast, SimInv, Inv, TypeOK
    <3> QED
      BY <1>1, <3>1 DEF resetDecRef, vars, tableVars, cacheVars
  <2>2. CASE state # Null
    <3>1. decRef(State)
      BY <1>1, <2>2 DEF resetDecRef, decRef, Ready, SimInv
    <3> QED
      BY <3>1, StateFacts DEF Next
  <2> QED
    BY <2>1, <2>2
<1>2. CASE resetFindsNode
  BY <1>2 DEF resetFindsNode, packageVars
<1>3. CASE resetMakesNode
  BY <1>3, ZeroKeyIsKey DEF resetMakesNode, makeVEdge, Next
<1>4. CASE resetThrows
  BY <1>4 DEF resetThrows, MakeNodeThrows
<1>5. CASE resetIncRef
  <2>1. CASE e = Null
    <3>1. held' = held /\ incs' = incs /\ ref' = ref /\ active' = active
      BY <1>5, <2>1, StateFacts DEF resetIncRef, Resetting, Idle, Returned, IncRef,
           IncRefIgnored, IncRefAgain, IncRefFirst, SimInv, Inv, TypeOK
    <3> QED
      BY <1>5, <3>1 DEF resetIncRef, vars, tableVars, cacheVars
  <2>2. CASE e # Null
    <3>1. e \in Live /\ incRef(State, e)
      BY <1>5, <2>2 DEF resetIncRef, incRef, Resetting, SimInv, LiveOrNull
    <3> QED
      BY <3>1, StateFacts DEF Next
  <2> QED
    BY <2>1, <2>2
<1>6. CASE applyGate \/ measure
  <2>1. PICK r \in LiveOrNull(VAddr) : applyOperation(State, r)
    BY <1>6 DEF applyGate, measure, startProduct
  <2>2. r \in LiveOrNull(Addr)
    BY DEF LiveOrNull, Addr
  <2> QED
    BY <2>1, <2>2, StateFacts DEF Next
<1>7. CASE productDecRef
  <2>1. replaced = State /\ held[State] = state
    BY <1>7, StateFacts DEF productDecRef, SimInv
  <2>2. applyOperationDecRef
    BY <1>7, <2>1 DEF productDecRef, applyOperationDecRef
  <2> QED
    BY <2>2 DEF Next
<1>8. CASE productCollect
  BY <1>8 DEF productCollect, Next
<1>9. CASE package
  BY <1>9 DEF package, Next
<1>10. CASE UNCHANGED <<packageVars, simVars>>
  BY <1>10 DEF packageVars
<1> QED
  BY <1>1, <1>2, <1>3, <1>4, <1>5, <1>6, <1>7, <1>8, <1>9, <1>10 DEF SimNext

\* Every step preserves what relates state_ to the root counted for it.
LEMMA SimInvStep ==
  ASSUME ~AllocationMayFail, Inv, Inv', SimInv, [SimNext]_<<packageVars, simVars>>
  PROVE  SimInv'
<1> USE StateFacts
<1>1. held \in [Root -> Addr \cup {Null}] /\ Null \notin Addr
  BY KeyFacts DEF Inv, TypeOK
<1>2. CASE resetDecRef
  BY <1>1, <1>2 DEF resetDecRef, SimInv, Ready, Idle, LiveOrNull
<1>3. CASE resetFindsNode
  <2>1. /\ call \in {"construct", "reset"} /\ pc = "idle" /\ qubit < NumQubits
        /\ pc' = pc /\ held' = held /\ node' = node /\ call' = call /\ state' = state
        /\ qubit' = qubit + 1
    BY <1>3 DEF resetFindsNode, MakingZeroState, Resetting, Idle, packageVars, vars
  <2>2. e' \in LiveOrNull(VAddr)
    <3>1. ASSUME NEW a \in Live, node[a] = ZeroKey PROVE a \in VAddr
      <4>1. node[a].kind = "v"
        BY <3>1 DEF ZeroKey
      <4> QED
        BY <4>1 DEF Inv, TypeOK, KindOf
    <3> QED
      BY <1>3, <3>1 DEF resetFindsNode, LiveOrNull
  <2>3. Live' = Live
    BY <2>1, SameEdges
  <2> QED
    BY <2>1, <2>2, <2>3 DEF SimInv, LiveOrNull
<1>4. CASE resetMakesNode
  <2>1. PICK a \in VAddr : MakeNode(ZeroKey, a) /\ e' = a
    BY <1>4 DEF resetMakesNode
  <2>2. ZeroKey \in VKey /\ ZeroKey.kind = KindOf(a) /\ a \in Addr
    BY <1>4, ZeroKeyIsKey DEF resetMakesNode, ZeroKey, KindOf, Addr
  <2>3. Live' = Live \cup {a}
    BY <2>1, <2>2, MakeNodeEffect DEF Key
  <2>4. /\ call \in {"construct", "reset"} /\ pc = "idle" /\ qubit < NumQubits
        /\ pc' = pc /\ held' = held /\ call' = call /\ state' = state
        /\ qubit' = qubit + 1
    BY <1>4, <2>1 DEF resetMakesNode, MakingZeroState, Resetting, Idle, MakeNode, clientVars
  <2> QED
    BY <2>1, <2>3, <2>4 DEF SimInv, LiveOrNull
<1>5. CASE resetThrows
  BY <1>5 DEF resetThrows, MakeNodeThrows
<1>6. CASE resetIncRef
  BY <1>1, <1>6 DEF resetIncRef, SimInv, Resetting, Idle, LiveOrNull
<1>7. CASE applyGate \/ measure
  <2>1. PICK r \in LiveOrNull(VAddr) : applyOperation(State, r)
    BY <1>7 DEF applyGate, measure, startProduct
  <2>2. /\ call = "none" /\ call' \in {"gate", "measure"} /\ state' = state
        /\ held[State] = state
    BY <1>7 DEF applyGate, measure, startProduct, Ready, SimInv
  <2>3. /\ pc' = "decRef" /\ replaced' = State
        /\ held'[State] = state /\ held'[Result] = r
    BY <1>1, <2>1, <2>2 DEF applyOperation
  <2> QED
    BY <2>2, <2>3 DEF SimInv, LiveOrNull
<1>8. CASE productDecRef
  <2>1. /\ call \in {"gate", "measure"} /\ held[Result] \in VAddr \cup {Null}
        /\ pc' = "collect" /\ call' = call /\ held'[State] = held[Result]
    BY <1>1, <1>8 DEF productDecRef, SimInv
  <2>2. state' \in VAddr \cup {Null}
    BY <1>8, <2>1 DEF productDecRef, SimInv
  <2> QED
    BY <2>1, <2>2 DEF SimInv
<1>9. CASE productCollect
  <2>1. pc = "collect" /\ pc' = "idle" /\ held' = held
    BY <1>9 DEF productCollect, applyOperationCollect, Sweep, SweepTables, SweepCrashes
  <2>2. held[State] \in VAddr \cup {Null}
    BY <2>1 DEF SimInv
  <2> QED
    BY <1>9, <2>1, <2>2 DEF productCollect, SimInv
<1>10. CASE package
  <2>1. UNCHANGED simVars /\ UNCHANGED <<pc, replaced>>
    BY <1>10 DEF package, IncRefChild, DecRefChild, makeVEdge, makeMEdge, multiplyMV, multiplyMM,
         MakeNode, MakeNodeThrows, CacheMV, CacheMM, incRef, decRef, garbageCollect, clientVars
  <2>2. CASE Ready
    <3>1. held'[State] = held[State]
      BY <1>1, <1>10, <2>2 DEF package, IncRefChild, DecRefChild, makeVEdge, makeMEdge,
           multiplyMV, multiplyMM, MakeNode, MakeNodeThrows, CacheMV, CacheMM, incRef, decRef,
           garbageCollect, clientVars, Sweep, SweepTables, SweepCrashes
    <3> QED
      BY <2>1, <2>2, <3>1 DEF SimInv, simVars, Ready, Idle
  <2>3. CASE ~Ready
    <3>1. UNCHANGED clientVars /\ node' = node
      BY <1>10, <2>3 DEF package, IncRefChild, DecRefChild, tableVars
    <3> QED
      BY <2>1, <3>1, SameEdges DEF SimInv, simVars, clientVars, LiveOrNull
  <2> QED
    BY <2>2, <2>3
<1>11. CASE UNCHANGED <<packageVars, simVars>>
  <2>1. node' = node /\ UNCHANGED <<held, pc, replaced, state, call, qubit, e>>
    BY <1>11 DEF packageVars, vars, simVars
  <2> QED
    BY <2>1, SameEdges DEF SimInv, LiveOrNull
<1> QED
  BY <1>2, <1>3, <1>4, <1>5, <1>6, <1>7, <1>8, <1>9, <1>10, <1>11 DEF SimNext
-----------------------------------------------------------------------------
\* The state before the constructor runs reset().
LEMMA SimInitInv == SimInit => Inv /\ SimInv
<1> SUFFICES ASSUME SimInit PROVE Inv /\ SimInv
  OBVIOUS
<1>1. Inv
  BY InitInv DEF SimInit
<1>2. SimInv
  BY StateFacts DEF SimInit, Init, SimInv, LiveOrNull
<1> QED
  BY <1>1, <1>2

\* The invariants of the package and of the simulation hold throughout.
LEMMA SimInvAlways ==
  ASSUME ~AllocationMayFail
  PROVE  SimSpec => [](Inv /\ SimInv)
<1>1. Inv /\ SimInv /\ [SimNext]_<<packageVars, simVars>> => (Inv /\ SimInv)'
  BY SimStep, NextInv, SimInvStep
<1> QED
  BY <1>1, SimInitInv, PTL DEF SimSpec

\* The loop of makeBasisState stays within the qubits of the simulation.
LoopOK == qubit \in 0..NumQubits /\ e \in VAddr \cup {Null}

\* The loop of makeBasisState keeps its bounds at every step.
LEMMA LoopStep ==
  ASSUME ~AllocationMayFail, Inv, SimInv, SimInv', LoopOK, [SimNext]_<<packageVars, simVars>>
  PROVE  LoopOK'
<1> USE StateFacts DEF LoopOK
<1>1. CASE resetDecRef \/ resetIncRef \/ resetThrows
  BY <1>1 DEF resetDecRef, resetIncRef, resetThrows
<1>2. CASE resetFindsNode
  <2>1. call' \in {"construct", "reset"}
    BY <1>2 DEF resetFindsNode, MakingZeroState, Resetting
  <2> QED
    BY <2>1 DEF SimInv, LiveOrNull
<1>3. CASE resetMakesNode
  BY <1>3 DEF resetMakesNode, MakingZeroState
<1>4. CASE applyGate \/ measure \/ productDecRef \/ productCollect
  BY <1>4 DEF applyGate, measure, startProduct, productDecRef, productCollect
<1>5. CASE package \/ UNCHANGED <<packageVars, simVars>>
  BY <1>5 DEF package, simVars
<1> QED
  BY <1>1, <1>2, <1>3, <1>4, <1>5 DEF SimNext

(***************************************************************************)
(* Every variable keeps its type: no qubit past nqubits is initialized.    *)
(***************************************************************************)
THEOREM SimTypeCorrect ==
  ASSUME ~AllocationMayFail
  PROVE  SimSpec => []SimTypeOK
<1>1. SimInit => LoopOK
  BY StateFacts DEF SimInit, LoopOK
<1>2. /\ Inv /\ SimInv /\ (Inv /\ SimInv)' /\ LoopOK /\ [SimNext]_<<packageVars, simVars>>
      => LoopOK'
  BY LoopStep
<1>3. Inv /\ SimInv /\ LoopOK => SimTypeOK
  BY DEF Inv, SimInv, LoopOK, SimTypeOK
<1> QED
  BY <1>1, <1>2, <1>3, SimInvAlways, PTL DEF SimSpec

(***************************************************************************)
(* However resets, gates, measurements and other users of package()        *)
(* follow each other, the package is used as DwStore assumes.              *)
(***************************************************************************)
THEOREM SimulationIsBalanced ==
  ASSUME ~AllocationMayFail
  PROVE  SimSpec => BalancedClient
<1>1. SimInit => Init
  BY DEF SimInit
<1>2. Inv /\ SimInv /\ [SimNext]_<<packageVars, simVars>> => [Next]_vars
  BY SimStep
<1> QED
  BY <1>1, <1>2, SimInvAlways, PTL DEF SimSpec, BalancedClient, Spec

(***************************************************************************)
(* Between two operations the package counts a root for state_'s node.     *)
(***************************************************************************)
THEOREM StateStaysRooted ==
  ASSUME ~AllocationMayFail
  PROVE  SimSpec => []StateIsRooted
<1>1. SimInv => StateIsRooted
  BY DEF SimInv, StateIsRooted
<1> QED
  BY <1>1, SimInvAlways, PTL

(***************************************************************************)
(* state_ never points to a collected node when it is read again.          *)
(***************************************************************************)
THEOREM StateStaysLive ==
  ASSUME ~AllocationMayFail
  PROVE  SimSpec => []StateIsLive
<1>1. Inv /\ SimInv => StateIsLive
  <2> SUFFICES ASSUME Inv, SimInv, call = "none" \/ pc = "decRef"
               PROVE  state \in LiveOrNull(VAddr)
    BY DEF StateIsLive
  <2>1. held[State] \in Live \cup {Null}
    BY StateFacts DEF Inv, NoDanglingPointer
  <2>2. held[State] = state /\ state \in VAddr \cup {Null}
    BY DEF SimInv
  <2> QED
    BY <2>1, <2>2 DEF LiveOrNull
<1> QED
  BY <1>1, SimInvAlways, PTL
-----------------------------------------------------------------------------
\* What is known of the counted roots even where allocation may fail.
RootsCounted == DOMAIN held = Root

\* What other users of package() do leaves state_ and its root alone.
LEMMA PackageKeepsRoot ==
  ASSUME RootsCounted, package
  PROVE  /\ RootsCounted' /\ UNCHANGED <<state, call, pc>>
         /\ held'[State] = held[State]
<1>1. UNCHANGED <<state, call, pc>>
  BY DEF package, simVars, IncRefChild, DecRefChild, makeVEdge, makeMEdge, multiplyMV,
     multiplyMM, MakeNode, MakeNodeThrows, CacheMV, CacheMM, incRef, decRef, garbageCollect,
     clientVars
<1>2. \/ held' = held
      \/ \E h \in Handle \ {State} : \E a : held' = [held EXCEPT ![h] = a]
  BY DEF package, IncRefChild, DecRefChild, makeVEdge, makeMEdge, multiplyMV, multiplyMM,
     MakeNode, MakeNodeThrows, CacheMV, CacheMM, incRef, decRef, garbageCollect, clientVars,
     Sweep, SweepTables, SweepCrashes
<1> QED
  BY <1>1, <1>2, StateFacts DEF RootsCounted

\* The handles a root may be counted for stay the same.
LEMMA RootsCountedStep ==
  ASSUME RootsCounted, [SimNext]_<<packageVars, simVars>>
  PROVE  RootsCounted'
<1>1. CASE resetDecRef \/ resetIncRef \/ productDecRef
  BY <1>1 DEF resetDecRef, resetIncRef, productDecRef, RootsCounted
<1>2. CASE resetFindsNode \/ resetMakesNode \/ resetThrows
  BY <1>2 DEF resetFindsNode, resetMakesNode, resetThrows, packageVars, vars, MakeNode,
     MakeNodeThrows, clientVars, RootsCounted
<1>3. CASE applyGate \/ measure
  BY <1>3 DEF applyGate, measure, startProduct, applyOperation, RootsCounted
<1>4. CASE productCollect
  BY <1>4 DEF productCollect, applyOperationCollect, Sweep, SweepTables, SweepCrashes,
     RootsCounted
<1>5. CASE package
  BY <1>5, PackageKeepsRoot
<1>6. CASE UNCHANGED <<packageVars, simVars>>
  BY <1>6 DEF packageVars, vars, RootsCounted
<1> QED
  BY <1>1, <1>2, <1>3, <1>4, <1>5, <1>6 DEF SimNext

\* A step after which state_ is not rooted is the exception, or finds it so.
LEMMA OnlyThrowLoses ==
  ASSUME RootsCounted, [SimNext]_<<packageVars, simVars>>, LosesState
  PROVE  resetThrows \/ (call = "none" /\ held[State] # state)
<1> USE StateFacts DEF LosesState
<1>1. CASE resetDecRef
  BY <1>1 DEF resetDecRef
<1>2. CASE resetFindsNode \/ resetMakesNode
  BY <1>2 DEF resetFindsNode, resetMakesNode, MakingZeroState, Resetting
<1>3. CASE resetThrows
  BY <1>3
<1>4. CASE resetIncRef
  BY <1>4 DEF resetIncRef, RootsCounted
<1>5. CASE applyGate \/ measure
  BY <1>5 DEF applyGate, measure, startProduct
<1>6. CASE productDecRef
  BY <1>6 DEF productDecRef
<1>7. CASE productCollect
  <2>1. held' = held /\ state' = held[State]
    BY <1>7 DEF productCollect, applyOperationCollect, Sweep, SweepTables, SweepCrashes
  <2> QED
    BY <2>1
<1>8. CASE package
  BY <1>8, PackageKeepsRoot
<1>9. CASE UNCHANGED <<packageVars, simVars>>
  BY <1>9 DEF packageVars, vars, simVars
<1> QED
  BY <1>1, <1>2, <1>3, <1>4, <1>5, <1>6, <1>7, <1>8, <1>9 DEF SimNext

(***************************************************************************)
(* Whatever allocations fail, in reset(), in the constructor or for other  *)
(* users of package(), state_ loses its root to an exception out of        *)
(* reset() and to nothing else, and each call that returns after it has    *)
(* rooted state_ again.                                                    *)
(***************************************************************************)
THEOREM RootLostOnlyByReset == SimSpec => OnlyFailedResetLosesState
<1>1. SimInit => RootsCounted
  BY DEF SimInit, Init, RootsCounted
<1>2. RootsCounted /\ [SimNext]_<<packageVars, simVars>> => RootsCounted'
  BY RootsCountedStep
<1>3. RootsCounted /\ [SimNext]_<<packageVars, simVars>>
        => [LosesState => \/ resetThrows
                          \/ call = "none" /\ held[State] # state]_<<packageVars, simVars>>
  BY OnlyThrowLoses
<1> QED
  BY <1>1, <1>2, <1>3, PTL DEF SimSpec, OnlyFailedResetLosesState
=============================================================================
