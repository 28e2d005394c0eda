------------------------------ MODULE DwStore ------------------------------
(***************************************************************************)
(* The nodes of DwPackage: the two unique tables, the saturating reference *)
(* counts, the two compute tables and the garbage collector                *)
(* (src/dd/exact/DwPackage.cpp).                                           *)
(*                                                                         *)
(* A node's content is the key it is hash-consed under: its variable, the  *)
(* nodes its edges point to, and a label that stands for the edge weights. *)
(* What the weights are is left open, and so is which nodes a computation  *)
(* makes: between two calls of the reference-counting interface it makes   *)
(* any nodes, and caches any results, that the code's guards admit.        *)
(*                                                                         *)
(* incRef and decRef call themselves once per child.  The calls not made   *)
(* yet are the sets incs and decs of edges, and they are made one at a     *)
(* time, in any order: the depth-first order of the code is one of them.   *)
(***************************************************************************)
EXTENDS Integers, FiniteSets

CONSTANTS
    VAddr, MAddr,       \* storage of vMemory_ and of mMemory_
    Null,               \* nullptr, the terminal node
    Empty,              \* content of an address that holds no node
    Level,              \* variables
    Label,              \* the edge weights, as far as keys tell them apart
    VArity, MArity,     \* edges of a DwVNode and of a DwMNode
    Handle,             \* places where clients keep roots
    Result,             \* ... and the local `result' of applyOperation
    MaxRefCount,        \* kMaxRefCount
    InitialGcLimit,     \* kInitialGcLimit
    MaxCached,          \* bound: entries in each compute table
    AllocationMayFail   \* whether get() may throw bad_alloc

Addr == VAddr \cup MAddr
Root == Handle \cup {Result}
Kind == {"v", "m"}
KindOf(a) == IF a \in VAddr THEN "v" ELSE "m"

\* detail::VKey and detail::MKey.
VKey == [kind: {"v"}, var: Level, e: [1..VArity -> VAddr \cup {Null}], w: Label]
MKey == [kind: {"m"}, var: Level, e: [1..MArity -> MAddr \cup {Null}], w: Label]
Key == VKey \cup MKey

ASSUME AddrAssumption == /\ IsFiniteSet(VAddr) /\ IsFiniteSet(MAddr)
                         /\ VAddr \cap MAddr = {}
                         /\ Null \notin Addr
ASSUME EmptyAssumption == Empty \notin Key
ASSUME LevelAssumption == Level \subseteq Nat
ASSUME ArityAssumption == VArity \in Nat /\ MArity \in Nat
ASSUME HandleAssumption == IsFiniteSet(Handle) /\ Result \notin Handle
ASSUME RefCountAssumption == MaxRefCount \in Nat \ {0}
ASSUME LimitAssumption == InitialGcLimit \in Nat \ {0}
ASSUME FailureAssumption == AllocationMayFail \in BOOLEAN

VARIABLES
    node,           \* content of each address, Empty where the pool owns it
    orphan,         \* keys whose table entry is a null pointer
    ref,            \* DwVNode::ref and DwMNode::ref
    incs, decs,     \* child edges still to be passed to incRef, to decRef
    held,           \* (client) the node each handle has counted a root for
    pc, replaced,   \* what applyOperation does next, and to which handle
    mvCache, mmCache,
    active,         \* numActiveEntries of the two unique tables
    gcLimit,        \* vGcLimit_ and mGcLimit_
    crashed         \* a null pointer was dereferenced

tableVars == <<node, orphan>>
callVars == <<incs, decs>>
clientVars == <<held, pc, replaced>>
cacheVars == <<mvCache, mmCache>>
vars == <<node, orphan, ref, incs, decs, held, pc, replaced,
          mvCache, mmCache, active, gcLimit, crashed>>

Live == {a \in Addr : node[a] # Empty}

TableSize(k) == Cardinality({a \in Live : KindOf(a) = k})
                    + Cardinality({key \in orphan : key.kind = k})

Threshold == INSTANCE GcLimit
                 WITH Size <- Nat, size <- [k \in Kind |-> TableSize(k)]

Edges(a) == {a} \X (DOMAIN node[a].e)
AllEdges == UNION {Edges(a) : a \in Live}
Target(edge) == node[edge[1]].e[edge[2]]

NeverSaturated(a) == FALSE      \* (mutant) no test against kMaxRefCount

Saturated(a) == ref[a] = MaxRefCount

\* No recursive call is pending, and no operation of the interface.
Returned == incs = {} /\ decs = {} /\ ~crashed
Idle == Returned /\ pc = "idle"

Init ==
    /\ node = [a \in Addr |-> Empty]
    /\ orphan = {}
    /\ ref = [a \in Addr |-> 0]
    /\ incs = {} /\ decs = {}
    /\ held = [h \in Root |-> Null]
    /\ pc = "idle" /\ replaced = Result
    /\ mvCache = {} /\ mmCache = {}
    /\ active = [k \in Kind |-> 0]
    /\ gcLimit = [k \in Kind |-> InitialGcLimit]
    /\ crashed = FALSE
-----------------------------------------------------------------------------
(***************************************************************************)
(* makeVEdge and makeMEdge, from the probe of the unique table on.  A key  *)
(* that is present changes nothing.  The children exist; they need not be  *)
(* of lower variables (kronecker without incIdx does not see to it).       *)
(***************************************************************************)
LiveOrNull(as) == (as \cap Live) \cup {Null}

Buildable(key) == \A i \in DOMAIN key.e : key.e[i] \in LiveOrNull(Addr)

NeverPresent(key) == FALSE      \* (mutant) the probe always misses

Present(key) == key \in orphan \/ \E a \in Live : node[a] = key

\* get() hands out some address that is not in use, with ref reset to 0.
MakeNode(key, a) ==
    /\ Idle
    /\ Buildable(key) /\ ~Present(key)
    /\ a \notin Live
    /\ node' = [node EXCEPT ![a] = key]
    /\ ref' = [ref EXCEPT ![a] = 0]
    /\ UNCHANGED <<orphan, callVars, clientVars, cacheVars, active, gcLimit, crashed>>

\* get() throws after try_emplace has put a null pointer under the key.
MakeNodeThrows(key) ==
    /\ Idle /\ AllocationMayFail
    /\ Buildable(key) /\ ~Present(key)
    /\ orphan' = orphan \cup {key}
    /\ UNCHANGED <<node, ref, callVars, clientVars, cacheVars, active, gcLimit, crashed>>

makeVEdge == \E key \in VKey : \/ \E a \in VAddr : MakeNode(key, a)
                               \/ MakeNodeThrows(key)

makeMEdge == \E key \in MKey : \/ \E a \in MAddr : MakeNode(key, a)
                               \/ MakeNodeThrows(key)

(***************************************************************************)
(* multiplyRec remembers a product of two nodes, not both of them          *)
(* terminal, that its cache does not hold yet.                             *)
(***************************************************************************)
CacheMV(m, v, r) ==
    /\ Idle
    /\ m # Null \/ v # Null
    /\ ~\E c \in mvCache : c.m = m /\ c.v = v
    /\ Cardinality(mvCache) < MaxCached
    /\ mvCache' = mvCache \cup {[m |-> m, v |-> v, r |-> r]}
    /\ UNCHANGED <<tableVars, ref, callVars, clientVars, mmCache, active, gcLimit, crashed>>

CacheMM(x, y, r) ==
    /\ Idle
    /\ x # Null \/ y # Null
    /\ ~\E c \in mmCache : c.x = x /\ c.y = y
    /\ Cardinality(mmCache) < MaxCached
    /\ mmCache' = mmCache \cup {[x |-> x, y |-> y, r |-> r]}
    /\ UNCHANGED <<tableVars, ref, callVars, clientVars, mvCache, active, gcLimit, crashed>>

multiplyMV == \E m \in LiveOrNull(MAddr), v, r \in LiveOrNull(VAddr) : CacheMV(m, v, r)
multiplyMM == \E x, y, r \in LiveOrNull(MAddr) : CacheMM(x, y, r)
-----------------------------------------------------------------------------
(***************************************************************************)
(* One call incRef(e) with e.p = a.  The pending calls become rest, and    *)
(* the edges of a too when its count leaves 0.                             *)
(***************************************************************************)
IncRefIgnored(a, rest) ==
    /\ a # Null => Saturated(a)
    /\ incs' = rest
    /\ UNCHANGED <<ref, active>>

IncRefAgain(a, rest) ==
    /\ a # Null /\ ~Saturated(a) /\ ref[a] > 0
    /\ ref' = [ref EXCEPT ![a] = @ + 1]
    /\ incs' = rest
    /\ UNCHANGED active

\* (mutant) the children are not visited
IncRefFirstShallow(a, rest) ==
    /\ a # Null /\ ref[a] = 0
    /\ ref' = [ref EXCEPT ![a] = 1]
    /\ incs' = rest
    /\ active' = [active EXCEPT ![KindOf(a)] = @ + 1]

IncRefFirst(a, rest) ==
    /\ a # Null /\ ref[a] = 0
    /\ ref' = [ref EXCEPT ![a] = 1]
    /\ incs' = rest \cup Edges(a)
    /\ active' = [active EXCEPT ![KindOf(a)] = @ + 1]

IncRef(a, rest) == \/ IncRefIgnored(a, rest)
                   \/ IncRefAgain(a, rest)
                   \/ IncRefFirst(a, rest)

(***************************************************************************)
(* One call decRef(e) with e.p = a.  With NDEBUG a count of 0 wraps.       *)
(***************************************************************************)
Decremented(count) == IF count = 0 THEN MaxRefCount ELSE count - 1

DecRefIgnored(a, rest) ==
    /\ a # Null => Saturated(a)
    /\ decs' = rest
    /\ UNCHANGED <<ref, active>>

\* (mutant) the children are visited at every decrement
DecRefAgainDeep(a, rest) ==
    /\ a # Null /\ ~Saturated(a) /\ ref[a] # 1
    /\ ref' = [ref EXCEPT ![a] = Decremented(@)]
    /\ decs' = rest \cup Edges(a)
    /\ UNCHANGED active

DecRefAgain(a, rest) ==
    /\ a # Null /\ ~Saturated(a) /\ ref[a] # 1
    /\ ref' = [ref EXCEPT ![a] = Decremented(@)]
    /\ decs' = rest
    /\ UNCHANGED active

\* (mutant) the children are not visited
DecRefLastShallow(a, rest) ==
    /\ a # Null /\ ~Saturated(a) /\ ref[a] = 1
    /\ ref' = [ref EXCEPT ![a] = Decremented(@)]
    /\ decs' = rest
    /\ active' = [active EXCEPT ![KindOf(a)] = IF @ > 0 THEN @ - 1 ELSE @]

\* (mutant) untrackActiveEntry is not called
DecRefLastUntracked(a, rest) ==
    /\ a # Null /\ ~Saturated(a) /\ ref[a] = 1
    /\ ref' = [ref EXCEPT ![a] = Decremented(@)]
    /\ decs' = rest \cup Edges(a)
    /\ UNCHANGED active

DecRefLast(a, rest) ==
    /\ a # Null /\ ~Saturated(a) /\ ref[a] = 1
    /\ ref' = [ref EXCEPT ![a] = Decremented(@)]
    /\ decs' = rest \cup Edges(a)
    /\ active' = [active EXCEPT ![KindOf(a)] = IF @ > 0 THEN @ - 1 ELSE @]

DecRef(a, rest) == \/ DecRefIgnored(a, rest)
                   \/ DecRefAgain(a, rest)
                   \/ DecRefLast(a, rest)

\* The recursive calls on the children.
IncRefChild(edge) ==
    /\ IncRef(Target(edge), incs \ {edge})
    /\ UNCHANGED <<tableVars, decs, clientVars, cacheVars, gcLimit, crashed>>

DecRefChild(edge) ==
    /\ DecRef(Target(edge), decs \ {edge})
    /\ UNCHANGED <<tableVars, incs, clientVars, cacheVars, gcLimit, crashed>>

(***************************************************************************)
(* The client counts a root it was given since the last sweep, and later   *)
(* gives it up.  Balanced calls are the client's part of the contract.     *)
(***************************************************************************)
incRef(h, a) ==
    /\ Idle
    /\ held[h] = Null
    /\ held' = [held EXCEPT ![h] = a]
    /\ IncRef(a, {})
    /\ UNCHANGED <<tableVars, decs, pc, replaced, cacheVars, gcLimit, crashed>>

decRef(h) ==
    /\ Idle
    /\ held[h] # Null
    /\ held' = [held EXCEPT ![h] = Null]
    /\ DecRef(held[h], {})
    /\ UNCHANGED <<tableVars, incs, pc, replaced, cacheVars, gcLimit, crashed>>
-----------------------------------------------------------------------------
GarbageUpToOne == {a \in Live : ref[a] <= 1}   \* (mutant)

Garbage == {a \in Live : ref[a] = 0}

\* (mutant) as if mvCache_ only named vector nodes
ClearMVForVectorsOnly(freed) ==
    mvCache' = IF freed \cap VAddr # {} THEN {} ELSE mvCache

\* A product of a matrix and a vector is forgotten if either kind was freed.
ClearMV(freed) == mvCache' = IF freed # {} THEN {} ELSE mvCache

ClearMMNever(freed) == UNCHANGED mmCache   \* (mutant)

ClearMM(freed) == mmCache' = IF freed \cap MAddr # {} THEN {} ELSE mmCache

\* (mutant) the limits follow the sizes of before the sweep
LimitsFromOldSizes ==
    gcLimit' = [k \in Kind |-> Threshold!AdjustedLimit(gcLimit[k], TableSize(k))]

AdjustLimits ==
    gcLimit' = [k \in Kind |-> Threshold!AdjustedLimit(gcLimit[k], TableSize(k)')]

(***************************************************************************)
(* Both sweeps of garbageCollect and what follows them.  A sweep that      *)
(* meets a null table entry reads its count through a null pointer.        *)
(***************************************************************************)
SweepTables ==
    /\ orphan = {}
    /\ UNCHANGED <<orphan, ref, callVars, held, crashed>>
    /\ node' = [a \in Addr |-> IF a \in Garbage THEN Empty ELSE node[a]]
    /\ active' = [k \in Kind |-> TableSize(k)']
    /\ ClearMV(Garbage) /\ ClearMM(Garbage)
    /\ AdjustLimits

SweepCrashes ==
    /\ orphan # {}
    /\ crashed' = TRUE
    /\ UNCHANGED <<tableVars, ref, callVars, held, cacheVars, active, gcLimit>>

Sweep == SweepTables \/ SweepCrashes

\* garbageCollect(force), where it does not return early.
garbageCollect(force) ==
    /\ Idle
    /\ force \/ Threshold!Triggered
    /\ Sweep
    /\ UNCHANGED <<pc, replaced>>

(***************************************************************************)
(* applyOperation, once its multiply has returned r: incRef(result),       *)
(* decRef(e), garbageCollect(), and the caller keeps the result in place   *)
(* of e.  Each recursion ends before the next call begins.  The zero       *)
(* vector is the edge to Null, and may be either of them.                  *)
(***************************************************************************)
applyOperation(h, r) ==
    /\ Idle
    /\ held' = [held EXCEPT ![Result] = r]
    /\ pc' = "decRef" /\ replaced' = h
    /\ IncRef(r, {})
    /\ UNCHANGED <<tableVars, decs, cacheVars, gcLimit, crashed>>

applyOperationDecRef ==
    /\ Returned /\ pc = "decRef"
    /\ held' = [held EXCEPT ![replaced] = held[Result], ![Result] = Null]
    /\ pc' = "collect"
    /\ DecRef(held[replaced], {})
    /\ UNCHANGED <<tableVars, incs, replaced, cacheVars, gcLimit, crashed>>

applyOperationCollect ==
    /\ Returned /\ pc = "collect"
    /\ pc' = "idle" /\ replaced' = Result
    /\ IF Threshold!Triggered
          THEN Sweep
          ELSE UNCHANGED <<tableVars, ref, callVars, held, cacheVars, active,
                           gcLimit, crashed>>

Next ==
    \/ makeVEdge \/ makeMEdge
    \/ multiplyMV \/ multiplyMM
    \/ \E edge \in incs : IncRefChild(edge)
    \/ \E edge \in decs : DecRefChild(edge)
    \/ \E h \in Handle, a \in Live : incRef(h, a)
    \/ \E h \in Handle : decRef(h)
    \/ \E force \in BOOLEAN : garbageCollect(force)
    \/ \E h \in Handle, r \in LiveOrNull(Addr) : applyOperation(h, r)
    \/ applyOperationDecRef
    \/ applyOperationCollect

Spec == Init /\ [][Next]_vars
-----------------------------------------------------------------------------
TypeOK ==
    /\ node \in [Addr -> Key \cup {Empty}]
    /\ \A a \in Live : node[a].kind = KindOf(a)
    /\ orphan \subseteq Key
    /\ ref \in [Addr -> 0..MaxRefCount]
    /\ incs \cup decs \subseteq AllEdges
    /\ held \in [Root -> Addr \cup {Null}]
    /\ pc \in {"idle", "decRef", "collect"} /\ replaced \in Root
    /\ mvCache \subseteq [m : MAddr \cup {Null}, v : VAddr \cup {Null},
                         r : VAddr \cup {Null}]
    /\ mmCache \subseteq [x : MAddr \cup {Null}, y : MAddr \cup {Null},
                         r : MAddr \cup {Null}]
    /\ active \in [Kind -> Nat] /\ gcLimit \in [Kind -> Nat]
    /\ crashed \in BOOLEAN

(***************************************************************************)
(* The references that the counts account for: the client's roots, and the *)
(* edges of the nodes in use.  While incRef runs, the edges it has yet to  *)
(* follow are not counted; while decRef runs, they still are.              *)
(***************************************************************************)
Counted(edge) == \/ ref[edge[1]] > 0 /\ edge \notin incs
                 \/ edge \in decs

InEdges(a) == {edge \in AllEdges : Target(edge) = a /\ Counted(edge)}

Roots(a) == {h \in Root : held[h] = a}

(***************************************************************************)
(* At every step of every recursion, the count of a node that has not      *)
(* saturated is the number of roots and edges that refer to it.            *)
(***************************************************************************)
RefCountExact ==
    \A a \in Live : \/ Saturated(a)
                    \/ ref[a] = Cardinality(Roots(a)) + Cardinality(InEdges(a))

(***************************************************************************)
(* No live node, and no handle, points to an address the pool has taken    *)
(* back, whatever was collected in between.                                *)
(***************************************************************************)
NoDanglingPointer ==
    /\ \A edge \in AllEdges : Target(edge) \in Live \cup {Null}
    /\ \A h \in Root : held[h] \in Live \cup {Null}

(***************************************************************************)
(* The assertion of decRef: a count about to be decremented is not 0.      *)
(***************************************************************************)
NoUnderflow ==
    /\ \A edge \in decs : Target(edge) # Null => ref[Target(edge)] > 0
    /\ \A h \in Root : held[h] # Null => ref[held[h]] > 0

(***************************************************************************)
(* No entry of a compute table names an address that was freed since the   *)
(* entry was made, so none can be found again by a node that reuses it.    *)
(***************************************************************************)
CachesNameLiveNodes ==
    /\ \A c \in mvCache : {c.m, c.v, c.r} \subseteq Live \cup {Null}
    /\ \A c \in mmCache : {c.x, c.y, c.r} \subseteq Live \cup {Null}

(***************************************************************************)
(* numActiveEntries is the number of nodes in use, at every step.          *)
(***************************************************************************)
ActiveEntriesExact ==
    \A k \in Kind :
        active[k] = Cardinality({a \in Live : KindOf(a) = k /\ ref[a] > 0})

PointeesOf(S) ==
    {a \in Live : \E b \in S : \E i \in DOMAIN node[b].e : node[b].e[i] = a}

(***************************************************************************)
(* Diagrams have no cycles: a node is made after the nodes it points to,   *)
(* and although addresses are reused, no set of live nodes ever has a      *)
(* parent for each of its members.  incRef and decRef recurse on it, and   *)
(* reference counts reclaim everything because of it.                      *)
(***************************************************************************)
Acyclic == \A S \in SUBSET Live : S \subseteq PointeesOf(S) => S = {}

(***************************************************************************)
(* Nothing but saturation makes garbage permanent: between operations, if  *)
(* no count is saturated, a node in use is reachable from a held root.     *)
(***************************************************************************)
ClosedFromRoots(S) == \A a \in Live : Roots(a) # {} \/ a \in PointeesOf(S) => a \in S

Reachable == {a \in Live : \A S \in SUBSET Live : ClosedFromRoots(S) => a \in S}

OnlyReachableInUse ==
    Idle /\ (\A a \in Live : ~Saturated(a))
        => \A a \in Live : ref[a] > 0 => a \in Reachable

(***************************************************************************)
(* DwPackage keeps the promise of RootedStore, and drives its thresholds   *)
(* as GcLimit says.                                                        *)
(***************************************************************************)
Store == INSTANCE RootedStore
             WITH heap <- [a \in Live |-> node[a]], root <- held, Handle <- Root
ImplementsStore == Store!Spec
ImplementsThreshold == Threshold!Spec

(***************************************************************************)
(* specs/statistics-design.md:769-775 says the guard that erases a null    *)
(* entry when get() throws "is now actually present at both sites".        *)
(***************************************************************************)
NoNullEntry == orphan = {}
=============================================================================
