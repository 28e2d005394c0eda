# A TLA+ model of exact-dd

exact-dd represents quantum states and operators as decision diagrams whose edge
weights are exact elements of Q[w], w = e^(i pi/4).  What makes such a library hard
to trust is not any single function but what has to stay true between calls: nodes
are shared by hash-consing, counted by saturating reference counts, freed by a
threshold-driven sweep whose storage is reused at once, and remembered by address
in two caches; diagrams skip levels, and three strategies decide which factor an edge
carries.  A slip shows up, if at all, many operations later as a wrong
amplitude.  This directory models those parts, checks them with TLC on small
instances, and proves the central invariants with TLAPS for every value of the
constants.

Paths below are relative to the repository; `exact/` stands for `src/dd/exact/` and
`include/dd/exact/`.

## 1. Inventory

| part | state it keeps | operations | what makes it hard |
|---|---|---|---|
| `Dw` (`exact/Dw.cpp`) | coefficients a, b, c, d, exponent k, odd denominator e | constructor and `canonicalize`, `+ - *`, unary `-`, `conjugate`, `inverse`, `==`, `gcd`, `reduceNorm`, `lexicographicalMinimum`, `quarticNorm` | equality must coincide with equality in the field, whatever way two values were computed; loops that must end; closed forms that replace general products |
| `MemoryManager<T>` (`exact/MemoryManager.hpp`) | chunks, bump pointer, free list threaded through the entries, statistics | `get`, `returnEntry`, `allocateNewChunk` | an entry handed out twice or lost; the counters are the only record of the free list's length |
| unique tables, reference counts, compute tables, collector of `DwPackage` (`exact/DwPackage.cpp`) | `vUnique_`, `mUnique_`, `ref` of each node, `mvCache_`, `mmCache_`, `numActiveEntries`, `vGcLimit_`, `mGcLimit_` | `makeVEdge`, `makeMEdge`, `multiply` (for its caches), `incRef`, `decRef`, `garbageCollect`, `applyOperation` | recursions over shared children, saturation, address reuse under stale cache entries, an allocation that fails in the middle, underflow that wraps in release builds |
| thresholds of the collector | `vGcLimit_`, `mGcLimit_` against the sizes of the tables | the last lines of `garbageCollect` | thrashing when a table stays full; a threshold that collapses |
| normalization (`makeVEdge`, `makeMEdge`, `gcdNormalize`) | none | None, Inverse and Gcd strategies | proportional nodes must become one node |
| diagram algebra of `DwPackage` | none beyond the caches | `multiply`, `add`, `kronecker`, `outerProduct`, `innerProduct`, `amplitude`, `matrixEntry`, `measureOneQubit`, `fidelity` | recursion over levels that may be skipped; zero edges; agreement with vectors and matrices |
| gate builders, gate matrices | none | `makeGate`, controlled gates, SWAP, basis states, constants | unitarity, control polarity, qubit order |
| `ExactDDSimulation` | `state_`, a root in a package others may use too | constructor, `reset`, gates, `measure`, queries | the root counted for `state_` and `state_` itself are updated in different orders |
| statistics | counters | track and report | `numActiveEntries` and the pool counters are kept by transitions and must not drift |
| hashing, printing, examples, benchmark | none that matters | | hash values only choose buckets |

Interaction.  `ExactDDSimulation` calls `DwPackage` (`makeZeroState`, gate builders,
`applyOperation`, `incRef`, `decRef`).  `DwPackage` takes and returns nodes from two
`MemoryManager`s, keys its tables by child addresses and `Dw` weights, and consults
its thresholds after each operation.  Everything is sequential: there are no threads
and nothing is persisted.  The hazards are therefore sequences of legal calls,
recursions half done, reuse of addresses, limits and boundaries, and exceptions
between two steps.  `PROJECT.json` lists them, each at its line.

What makes each part correct:

* `Dw`: results are canonical; two values are `==` exactly if they are the same
  element; every operator is the field operation; `gcd` ends with a greatest common
  divisor.
* `MemoryManager`: no entry is handed out while held; no slot is lost; the free list
  and the counters agree.
* node store: a node reachable from a counted root keeps its content and its address;
  counts are exact until they saturate; nothing points to a freed node, neither edges
  nor roots nor cache entries; a count never goes below 0; what is not reachable is
  eventually collectable.
* thresholds: never below the initial one; always some headroom after a sweep.
* simulation: between operations `state_` is the counted root, and it is alive
  wherever it is read; every call returns or throws.
* normalization and diagram algebra: what is computed is exactly the vector or matrix
  of linear algebra, diagrams stay ordered and reduced, and under Inverse equal vectors
  are equal edges, however they were computed.
* gates: unitary for all targets and controls, in the qubit order the callers assume.

## 2. Modules

| module | models | proved in |
|---|---|---|
| `MemoryManager` | the pool, one action per path of `get` and `returnEntry` | `MemoryManagerProofs` |
| `NodePool` | abstract: what a pool promises | |
| `GcLimit` | the two thresholds and the sizes of the tables | `GcLimitProofs` |
| `DwStore` | unique tables, counts, caches, collector, `applyOperation` | `DwStoreProofs` |
| `RootedStore` | abstract: a heap with roots, no counts and no caches | |
| `ExactDDSimulation` | a simulation beside other users of its package; extends `DwStore` | `DwStoreProofs` |
| `Dw` | ring operations and canonical form, as operators and recursive functions | `DwProofs` |
| `DwEuclid` | division with rounding, `gcd`, `reduceAssociate`; extends `Dw` | `DwProofs` |
| `QOmega` | abstract: the field Q[w], by rational coordinates | |
| `QOmegaRegisters` | abstract: two registers that hold elements of the field; extends `QOmega` | |
| `DwRing` | two variables of type `Dw` under all operators; extends `Dw` | `DwRingProofs` |
| `DwGcd` | the loops of `gcd` and `reduceAssociate`, one turn per action; extends `DwEuclid` | `DwGcdProofs` |
| `DwDiagram` | `makeVEdge`, `makeMEdge`, states, and every recursion over diagrams; extends `DwEuclid` | `DwCalculatorProofs`, `DwAlgebraProofs` |
| `DwGates` | the gate matrices and the builders; extends `DwDiagram` | `DwCalculatorProofs`, `DwAlgebraProofs` |
| `DwCalculator` | a client with two vector edges and a matrix edge under all operations; extends `DwGates` | `DwCalculatorProofs`, `DwAlgebraProofs` |
| `DenseAlgebra` | abstract: two vectors and an operator, by linear algebra | |
| `MC...` | instances for TLC | |

How state corresponds to code:

* `MemoryManager`.  An entry is the pair of its chunk and its slot.  `chunks` is the
  sequence of chunk sizes, `chunkIt` the bump pointer, `next` the link of every entry
  ever handed out, `available` the head of the free list; `inUse` is a history
  variable, the entries the client holds.  `returnEntry` of an entry that is not held
  is outside the contract and not modelled.
* `DwStore`.  `node[a]` is the key an address is hash-consed under, or `Empty` where
  the pool owns it; the label in a key stands for the weights, as far as they
  distinguish keys.  The pool is the choice of any free address, which is what
  `NodePool` promises.  `orphan` holds keys whose table entry is a null pointer.
  `incRef` and `decRef` recurse once per child edge: the calls still to be made are
  the edges in `incs` and `decs`, made one at a time in any order, of which the code's
  depth-first order is one.  `held` is the client: the node each handle has counted a
  root for, with `Result` for the local variable of `applyOperation`; `pc` and
  `replaced` say how far that function has got.  A null pointer read by a sweep sets
  `crashed`, after which nothing happens.
* Which nodes a computation makes is left open: between two calls of the counting
  interface any buildable node may be made and any result cached that the guards of
  `makeVEdge`, `makeMEdge` and `multiplyRec` admit.  Every diagram operation of the
  code is a sequence of such steps.  Children need not be of lower variables than
  their parents, because `kronecker` without `incIdx` does not see to it.
* Clients are balanced: a handle gives up what it counted, once.  This is the
  contract in `DwPackage.hpp`; `BalancedClient` shows that `ExactDDSimulation`
  keeps it.
* `ExactDDSimulation`.  `state` is `state_`, `call` the operation under way, `qubit`
  and `e` the loop of `makeBasisState`.  The product a gate or a measurement computes
  is any node; `package` is what other users of `package()` do.  `reset` is split where
  an exception can leave it.
* `Dw`.  A value is `[t |-> <<a, b, c, d>>, k |-> ..., e |-> ...]`.  Integers are
  unbounded in the code and in the model.  Loops of `canonicalize` are recursive
  functions; the `==` of the model is the equality of records, which is field by field
  as in `operator==`.  `Canonical` is the form `Dw.hpp` describes, `Element` the element
  of the field a value stands for.
* `DwEuclid` and `DwGcd`.  `DwEuclid` has the functions, of which the diagrams are
  built.  `DwGcd` steps through the same turns: `in1`, `in2` are the operands, `z1`,
  `z2` the local variables; the loops of `gcd` and `reduceNorm` are one turn per action.
* `DwDiagram`.  An edge is `[p |-> node, w |-> weight]` and a node is its content,
  `[var |-> ..., e |-> children]`: `makeVEdge` and `makeMEdge` give nodes of equal
  content one address, and that this stays so through sweeps is the business of
  `DwStore`.  Equality of nodes in the model is thus equality of pointers in the code.
  What `mvCache_`, `mmCache_` or a memo local to a call holds for a key is a function of
  the key, because the caches keep the product of nodes with unit weights and the
  caller multiplies the weights in (`Rescaled`).
  A recursion of the code is a recursive function on its arguments, `addRec`,
  `multiplyRec`, `kroneckerRec` and so on; what one call does, given the results of the
  calls it makes, is an operator of its own (`addStep`, `multiplyStep`, ...), about which
  the proofs can speak without the recursion.  `Nodes(arity, k)[n]` are the nodes for the
  qubits k to n - 1; the functions are defined on edges to such nodes and on the
  level, where the code counts levels.
  `gcd` asserts that its operands have `e` = 1 (`Dw.cpp:300`).  The package calls it for
  any weights, and without assertions it ends for any, which is what is modelled.
* `DwCalculator`.  `strategy` is `strategy_`; `x`, `y` and `m` are edges the client
  holds; each action replaces one of them by the result of one call.  `u`, `v`
  and `a` are the entries that `amplitude` and `matrixEntry` read back from the new
  edges, `op` the operation; they make the refinement of `DenseAlgebra` a mapping by
  name.  Guards are the exceptions the code throws (`Accepted`, `kroneckerFits`) and
  the contract of `kronecker` in `DwPackage.hpp:259-270`, that the second operand is
  on lower qubits than those the first one comes to occupy, which the code does not
  check.

Definitions marked `(mutant)` are wrong variants, kept beside the right ones to show
that each property depends on the code: replacing the definition by its mutant
makes the property fail (`PROJECT.json`, "mutants").

## 3. Runs

| run | bounds | shows |
|---|---|---|
| `memory_manager` | first chunk of 1 entry, growth 2, at most 5 entries held: chunks of 1, 2 and 4 | free list, slots and counters stay exact; implements `NodePool` |
| `gc_limit` | the real 4096, sizes on both sides of each comparison | thresholds stay above the first; headroom after each sweep |
| `store_vectors` | 3 vector nodes, 2 clients, counts saturate at 3, threshold 2; `get` may throw, with at most 3 entries in the tables, null ones included | the nine invariants and refinements of the store, at every step of every recursion, and after failed allocations up to the sweep that reads the null entry |
| `store_mixed` | 2 vector nodes, 1 matrix node with four edges, both caches | sweeps of either kind forget what they must; implements `RootedStore` |
| `store_null_entry` | 2 vector nodes, `get` may throw | finding 1 |
| `simulation` | 2 qubits, 4 nodes, another user, counts saturate at 3 | `state_` is rooted and alive; the package sees a balanced client |
| `simulation_failures` | 1 qubit, 3 nodes, another user, `get` may throw | only an exception out of `reset` loses the root; every call returns or throws |
| `simulation_reset` | 2 qubits, 4 nodes, `get` may throw | finding 2 |
| `dw_ring` | pairs of values with \|a\|+\|b\|+\|c\|+\|d\| <= 3, k <= 2, e <= 3; results beyond that are checked for canonical form but not kept | canonical form, exact equality, exact operators |
| `dw_gcd` | 63 operands: coefficients up to 1, k up to 1, and products of primes over 3, 5, 7 and 17 | the loops end, with a greatest common divisor |
| `dw_associate` | as above | finding 3 |
| `algebra` | 3 qubits, all strategies; each operation once, from two products of basis states, a state no qubit of which factors out, a random product state on the low qubit, and a block of a matrix that is not unitary; `y`, `h` and `dcx` on every combination of targets with up to two controls in descending order, equal targets and a repeated control refused | implements `DenseAlgebra`; reduced; canonical under Inverse; inner products, measurements and fidelity exact; gates unitary and rightly named |

Why the bounds are enough.  In the store, the interesting cases are a node reached
along two edges of one parent, a chain of three, a child shared by two parents, a
count that saturates while an ancestor still moves, a root that is replaced by one of
its own descendants or by itself, and an address that is reused while a cache still
names it: three nodes with two edges each, two handles, and a maximum count of 3 have
all of them.  The matrix nodes differ only in the number of edges, for which the
theorems hold in general.  One level is enough in `DwStore` because the model does
not order variables; with one label keys still differ by their children.  Thresholds
of 2 make triggered and skipped sweeps both frequent.  `RoomForZeroState` keeps
other users of the package from taking the last addresses, so that `reset` can finish;
`MaxEntries` bounds the tables with their null entries, so that a failed allocation
takes the place of a node; `MaxCached` bounds the caches, `MaxInUse` the pool, `MaxSum`,
`MaxK` and `MaxE` the weights.  In `DwRing` the operands include 1/sqrt(2) and 1/3, so
sums meet unequal k, unequal e, and both.

In `algebra` the recursions have their cases in one operation already: three qubits
give a level above, between and below any other, targets on both sides of a control,
two skipped levels in a row, and the top level skipped; the operands have equal and
zero children, weights in every quarter of the circle, and 1/3.  `MaxOps` is 1 for
that reason: the second operation would start from an edge of the same kinds, with
weights that only grow.  `GateIdentities` composes up to five gates on each initial
state, and `InverseIsCanonical` rebuilds each result from its entries and compares
edges, so that what two sequences of operations lead to is compared without walking
them.  `MeasurementsComplete` asks of each state after a measurement what a second
one would give.

Deadlock is checked except where the program may really stop, in the runs in which
`get` may throw and a sweep then reads a null entry.

Fairness.  Two runs state liveness.  `DwGcd!Returns` has the fairness of a loop in a
sequential program: as long as the call has not returned, some turn is eventually
taken.  It is written with the condition under which a step is enabled spelled out
(`pc # "done"`), which is weak fairness of `Next`.  `CallsReturn` in
`simulation_failures` holds under `FairSimSpec`, weak fairness of `Continue`, the
disjunction of the steps the program takes by itself once a call of the simulation is
under way: the program is sequential, so a step of it that can be taken is taken.
Nothing is assumed of the client, who may never call again, nor of allocation, which
may fail each time.  The property needs that fairness and no more: a recursion of
`incRef` or `decRef` ends because diagrams have no cycles, and a sweep that meets a
null entry is the one way a call does not come back (`crashed`).  `simulation_failures`
does without symmetry, which is not sound for liveness.  The other specifications are
about clients that may stop at any time, and state safety only.

## 4. Findings

1. `store_null_entry`.  `makeVEdge` and `makeMEdge` insert a null pointer under the key
   and then call `get()` with nothing around it (`DwPackage.cpp:131,138,191,198`).
   `specs/statistics-design.md:769-775` says a guard that erases the entry is "now
   actually present at both sites".  After a failed allocation the key maps to the
   terminal, and the next sweep dereferences null.
2. `simulation_reset`.  `reset()` gives up its count before the new state exists
   (`ExactDDSimulation.cpp:16`).  If `makeZeroState` throws, `state_` points to a node
   that is no longer counted, against `ExactDDSimulation.hpp:27`.
3. `dw_associate`.  `reduceAssociate` is called "a full canonical-associate selection"
   (`Dw.hpp:126`), but associates of one value reach different representatives, so
   under `NormalizationStrategy::Gcd` nodes that differ by a unit need not be shared.
   The norm of the ring is the same for all associates; `quarticNorm` (with `+da` where
   `normXY` has `-da`) is another function.  `RemainderShrinks` states the bound that
   `Dw.hpp:131` gives for E, E(r) <= (9/16) E(z2), for the norm with the sign of
   `normXY`: it holds, which is why `gcd` ends.  For `quarticNorm` it does not: with
   z1 = -3 + 4w^2 and z2 = 1 - w - w^3 the remainder is w^2, and E is 1 for both.
   This is why `InverseIsCanonical` is about Inverse; None promises no sharing of
   proportional nodes.

Two disagreements of words with code that no run is about: `DwPackage.hpp:71-72,100-101`
call None the default strategy, and the constructor's default (123) is Inverse; and
`kronecker` relies on the caller for the place of its second operand, as its comment
says, while its check of the width is of the first operand only (`DwPackage.cpp:656`).

## 5. Proofs

Assumptions are the named ASSUMEs of the modules: finite, disjoint sets of addresses
that do not contain `Null`; finitely many handles; a positive maximum count and
positive thresholds; a positive first chunk and growth factor.  Nothing bounds the
number of nodes, handles, edges per node, levels or weights, and for `DwStore`
`AllocationMayFail` may be either.

* `MemoryManagerProofs`: the conjunction of the four invariants and the finiteness of
  `inUse` is inductive.  The free list is given by a witness, the sequence that follows
  the links; each action builds the new witness from the old.  Refinement of `NodePool`
  follows: an entry that is reused is free, one that is carved is untouched.
* `GcLimitProofs`: `TypeOK` and the lower bound are inductive; headroom is arithmetic.
  `HeadroomAfterSweep` is proved for every initial limit.
* `DwStoreProofs`: exact counts are not inductive alone.  The invariant is

      Inv == TypeOK /\ PendingOK /\ OperationOK /\ RefCountExact /\ NoDanglingPointer

  `PendingOK` says that incs and decs are never both pending, that edges waiting in
  `incs` start at nodes in use, and edges in `decs` at nodes no longer in use;
  `OperationOK` ties `pc` to the two roots `applyOperation` holds.  The count of a node
  is the number of its roots plus the number of its in-edges that are counted
  (`Counted`), and the lemmas say how one call moves exactly one of these sets by
  exactly one element.  That a sweep leaves no dangling pointer follows: a node of
  count 0 has no counted in-edge, so whoever points to it is swept with it.  From `Inv`
  follow `NoUnderflow`, `CachesNameLiveNodes`, `ActiveEntriesExact`, and the refinements
  of `RootedStore` and `GcLimit`.
* `ExactDDSimulation`, also in `DwStoreProofs`: where allocation does not fail, `SimInv` with the invariant
  of `DwStore` is inductive.  Every step is a step of `DwStore`
  (`SimulationIsBalanced`), so all theorems about the store hold of a simulation.
  Where allocation may fail that is not so (finding 2), but `RootLostOnlyByReset` still
  holds, from no more than that the set of handles is fixed: the
  root is lost by an exception out of `reset` only, and is back after the next operation
  that returns.
* `DwProofs`: `Dw` for all integers.  The induction theorems of the
  library take an operator, which cannot be instantiated here, so it proves
  induction for a set (`SetInduction`): a set of numbers that contains 0 and is closed
  under successor misses no n, because m |-> m + 1 would inject its members below n into
  themselves without 0.  From it come least elements, and a solution of every recursion
  along a measure (`RecursiveFunction`, and `RecursionExists` where a call makes several), so that `Pow2`, `lsb`, `Euclid` and
  `reduceSqrt2Power` satisfy their equations on the whole of their domains.

  `CanonicalizeIsExact`: whatever coefficients, exponent and positive denominator a
  constructor is given, it ends in a canonical value of the same element.  The odd
  factor that phase 2 divides by keeps the parities `reduceSqrt2Power` looks at
  (`OddFactorKeepsParity`), which is why the two phases may follow each other once.
  `CanonicalIsUnique`: two canonical values of one element are equal.  The exponent is
  settled first: if the two differed, one tuple would be a multiple of sqrt(2) up to
  an odd factor; then each denominator divides the other, by the least positive
  combination of the denominator and the coefficients it is coprime to.  Each operator
  is the field operation on elements and canonical (`AddIsExact` to `InverseIsInverse`).
  `inverse` divides by a positive number because sqrt(2) is irrational, by descent.

  `DwEuclid`, in the same module.  The laws of the field, as equalities of canonical values,
  follow from the operators being exact and equality being equality of elements.  Then
  division with rounding: the norm is multiplicative, the coefficients of what rounding
  leaves are at most 1/2 (`RoundingIsNearest`), and those of such tuples have a norm of at
  most 9/16 (`NormOfRounding`), which is the bound in `Dw.hpp:131`.  Over a common
  denominator of two weights, whatever their `e`, the norm of the remainder is thus a smaller
  natural number: `gcd` satisfies its equation for all weights, and is not 0 unless both
  are (`GcdRecursion`).  `reduceNorm` ends because `quarticNorm`
  falls with each turn (`ReduceNormRecursion`).
* `DwRingProofs`: the two variables are canonical, which is inductive by itself.  That
  every result is (`AlwaysCanonical`), that `==` is equality of elements, that
  `DwRing` implements `QOmegaRegisters`, and that norms multiply then follow from
  `DwProofs`; nothing bounds the values, `MaxSum`, `MaxK` and `MaxE` may be any.
* `DwGcdProofs`: the invariant

      IInv == RingInv /\ DivisorInv

  says that the four variables stay in D[w] (`e` = 1) and that the pair at hand has
  the common divisors the operands have, among all canonical values and not only those
  the run tries.  The first part is needed because only in the ring does a quotient that is
  rounded leave a remainder with the same divisors; the steps of `reduceNorm` and
  `lexicographicalMinimum` multiply by units or change sign.  `RemainderShrinks` is
  an action property, from the bound that makes `gcd` end.
* `NoCycles` and `NothingIsLost`, in `DwStoreProofs`: live nodes form no cycle
  (`Acyclic`: every set of live nodes has a member no member points to),
  whatever addresses are used again, because a new node has edges to older ones and a
  freed one is pointed to by nothing.  The unreachable nodes of an unsaturated store
  between operations would be such a set, each counted by an edge from within: so there are
  none, which is `OnlyReachableInUse`.

* `DwCalculatorProofs`: the package's operations on diagrams of any number of qubits, of any
  states, matrices and gates that the assumptions on the inputs admit, and without a bound on
  the number of operations.  The inductive invariant is

      IInv == AlwaysReduced /\ u = Vector(x) /\ v = Vector(y) /\ a = Matrix(m)

  (with `strategy` one of the three), and nearly all of the work is in one question:
  that what each operation returns is a reduced edge.  The functions of the code
  recurse on unlike measures: `add` and `multiply` on the higher of two nodes,
  `kronecker` on one node while the result is shifted, `outerProduct` on a count of
  levels that edges may skip, the constructions on blocks of numbers.  For each there is a
  lemma about one step, with any function in place of the recursive calls (if that gives
  edges of the level below, the step gives an edge of the level: `AddStepEdges`,
  `MultiplyStepEdges`, `KroneckerStepEdges`, `OuterStepEdges`, `MatrixStepEdges`), then
  the equation of the recursive function, by `RecursionExists`, then induction on the
  measure (`MeasureInduction`).  The lemmas are about a `Family` of levels; `Nodes` and
  `ReducedNodes` under each strategy are such families, so that one proof gives both the
  types and the reduced form.  `makeEdge` is where the family is entered
  (`Makes`): a node that is made is not redundant, its factor is not 0 under any
  strategy, and dividing by it neither makes two children equal that were not nor
  takes a zero from its place.  Under Gcd this is where `GcdRecursion` is needed.
  The builders of gates walk over all qubits between the blocks and the top (`CountUp`).
  `EdgesAlwaysReduced` follows for `AlwaysReduced`.

  `InverseAlwaysCanonical` is `InverseIsCanonical` for every number of qubits, from `IInv`
  alone.  An edge that is reduced under Inverse is made again by `makeEdge` from
  the edges that it stands for one level below, whether its node is of that level or
  skips it (`Remade`): so by induction on the level the edge is the one that
  `makeStateFromVector` and `makeDDFromMatrix` return for its entries
  (`MatchesMakes`, `SquareMakes`, `MadeAgain`, `MatrixMadeAgain`).  Equal entries then give
  equal edges.  Of proportional vectors one is a multiple of the other by some c, as the field
  has inverses (`Exchanged`), and an edge with its weight multiplied by c has the entries
  multiplied by c: so the nodes are the same (`SameFactor`).  The converse is the
  homogeneity of `amplitude` (`SameNode`).

* `DwAlgebraProofs`: the refinement of `DenseAlgebra`, for every number of qubits, every strategy
  and all inputs that the assumptions admit.

  `Read(arity, e, i, j, l)` is the number that `amplitude` or `matrixEntry` reads of an edge
  for the qubits below l.  What is read of a node is what is read of the child that the bits of
  i and j choose, and normalization does not change it
  (`ReadVectorNode`, `ReadMatrixNode`), nor does a skipped level.  Then each operation has a
  lemma about one step, in the shape of those of `DwCalculatorProofs`: where the recursive
  calls read as they should, so does the result.  `add` reads as a sum, of vectors and of matrices (`AddIsSum`).
  `multiply` reads as a row times a column, which is a sum of Pow2[l] products (`Total`);
  a node of the product adds two such sums, one for each half of the index, and a
  level that an operand skips has equal halves or two zeros among its four blocks
  (`MultiplyIsApply`, `MultiplyIsProduct`).  `kronecker` reads the high bits of the index
  of its first operand and the low bits of the second: the levels of the first are shifted, so
  there the lemma is about all heights at once (`KroneckerIsTensor`,
  `KroneckerIsTensorOperator`, `KroneckerIsPointwise`).  A gate is read in three loops,
  each wrapped around what the one before it made: below, between and above the targets
  a level is a control, and the block is read only where its bit is 1, or it is not, and
  the block is on the diagonal (`ReadWrapped`).  What is left is that this is the operator of
  the request, in either order of the targets (`GateIsOperator`).  `measureOneQubit`
  (`MeasureIsProjection`), the states and the matrices that are given
  (`GivenVector`, `GivenMatrix`), `makeBasisState` (`BasisIsProduct`) and
  `makeRandomSingleQubitState` (`RandomIsProduct`) follow in the same way.

  `DiagramsImplementAlgebra` combines them: `IInv` says that `u`, `v` and `a` are what
  the edges stand for, so that each step of the client, one theorem above for each operation,
  is a step of `DenseAlgebra`.  What reading needs of `add` and `multiply` is at the end of
  `DwCalculatorProofs`.

  Inner products.  `innerProduct` is the sum over all basis states (`InnerIsDot`), in the way
  of `multiply`: an edge that skips a level has two equal halves there.
  `MeasurementsAlwaysComplete` needs more than `IInv`, because it is about the state right
  after a measurement: `Collapsed` says that such an `x` has amplitude 0 wherever the bit of
  the qubit is not the outcome.  The probabilities of both outcomes add up because every index
  has one bit or the other.  `InnerProductsAlwaysExact` is the inequality of Cauchy and Schwarz
  for weights, which needs an order without real numbers: `NormLike` (in `DwProofs`) says that
  a value is p + q sqrt(2) with p and q rational and is not below 0, decided by comparing
  squares.  Squared moduli are so, sums, products and quotients of such values are so, and a
  sum of two is 0 only where both are (`NormLikeClosure`, `NormLikeFacts`); the squared norm of
  |q|^2 p - (q, p) q then gives the inequality (`CauchySchwarz`).  That `fidelity` divides by 0
  for the edge 0 only rests on reduced edges: below an edge whose weight is not 0 some
  path carries no 0 (`ReachesAll`), so its vector is not 0.

  `NormPreserved`.  The entries of a gate are taken as one matrix over all qubits
  (`GateCells`).  Two of its columns meet in the rows that agree with both outside the targets:
  two rows, or four, so their product is the product of two columns of the 2 x 2 or 4 x 4
  matrix, or they are the columns of the identity where a control is 0
  (`SingleTargetColumns`, `TwoTargetColumns`).  Where the small matrix is unitary the columns
  of the large one are thus orthonormal (`GateOrthonormal`), and such a matrix keeps norms
  (`Isometry`, by exchanging two sums): `UnitaryGatesKeepNorm`.  That the matrices of
  `DwGateMatrixDefinitions` are unitary is arithmetic on numerators over 1 or 2
  (`NamedUnitary`, `TwoQubitNamedUnitary`), which gives `NamedGatesKeepNorm`: its hypothesis
  `GatesAreNamed`, that the matrices of accepted requests are among those, is how the
  requests of the run are made (`MCRequest`) and what `ExactDDSimulation` passes.  Without
  a hypothesis of this kind the property is false: `makeGate` takes any numbers.

TLC and TLAPS check the same formulas: the runs check `AlwaysReduced` and
`InverseIsCanonical`, and the other conjuncts of `IInv` say only how `u`, `v` and `a` are
computed.

Only model-checked: `Returns` and `CallsReturn`, which are liveness properties
(`RemainderAlwaysShrinks` is the measure that `Returns` rests on); that the recursive
functions `gcd` and `reduceNorm`, of which the diagrams are built, compute what the
loops of `DwGcd` do; and of the `algebra` run `GateIdentities`, which composes the seventeen
matrices on the states of the run: a computation, whose circuits are folds over sequences and
sets.

## 6. Not modelled, and why

* Hash values choose buckets only, the tables are partial functions on keys.
* Text and JSON output, floating-point conversion (`toDouble`, the last step of
  `fidelity`), peaks and hit counters, and the reports keep no state that anything
  reads back.
* The examples and the benchmark are command lines around the library.
* Growth of `std::unordered_map` and failures of its own allocations:
  `MakeNodeThrows` is the failure of `get`.
* `size_t` overflow of `k` and of the counters is out of reach of any execution.
* A pool whose first chunk has size 0 (`MemoryManager.hpp:93`): no caller makes one,
  and `InitialSizeAssumption` excludes it.
* Operands of `kronecker` that break its contract, and edges of another package.

In `DwStore` weights are labels and products are any nodes; in `DwDiagram` nodes are
contents and nothing is freed.  The two meet in one fact, that equal content is one
live address: the refinement of `RootedStore` shows it for the first, and the second
reads equality of nodes that way.

## 7. Plan

Done: `MemoryManager`, `GcLimit`, `DwStore`, `ExactDDSimulation`, `Dw`, `DwEuclid`,
`DwGcd`, `DwDiagram`, `DwGates`, `DwCalculator`, each against its abstraction, and the
theorems above.  What would come next, in this order:

1. The identities of `GateIdentities` one by one for every number of qubits, from
   `GateIsOperator`.
2. `StateIsLive` where allocation fails, up to the first failed `reset`.
3. That the loops of `DwGcd` end with the values of `gcd` and `reduceNorm`, from
   `GcdRecursion`.
4. Garbage of an unsaturated store is collected once a sweep is forced, as liveness of
   `DwStore` under fairness of its recursions.
