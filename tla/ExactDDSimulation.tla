------------------------- MODULE ExactDDSimulation -------------------------
(***************************************************************************)
(* ExactDDSimulation as a client of DwPackage: how state_ follows the root *)
(* that the package counts for it through reset(), the gates and measure() *)
(* (src/dd/exact/ExactDDSimulation.cpp).                                   *)
(*                                                                         *)
(* package() is public: other handles, and other nodes, come and go        *)
(* between two operations.  Nothing in ExactDDSimulation tells a state     *)
(* vector's values apart, so a product is any node the package may return. *)
(***************************************************************************)
EXTENDS DwStore

CONSTANTS
    State,          \* the handle that stands for state_
    NumQubits,      \* nqubits
    ZeroWeights     \* the label of a node of |0...0>

ASSUME StateAssumption == State \in Handle
ASSUME NumQubitsAssumption == NumQubits \in Nat /\ 0..NumQubits - 1 \subseteq Level
ASSUME ZeroWeightsAssumption == ZeroWeights \in Label

VARIABLES
    state,          \* state_.p
    call,           \* the operation in progress
    qubit, e        \* makeBasisState: the next qubit, and the node built so far

simVars == <<state, call, qubit, e>>
packageVars == vars

\* The constructor runs reset() on a state_ of nullptr.
SimInit == Init /\ state = Null /\ call = "construct" /\ qubit = 0 /\ e = Null

Ready == Idle /\ call = "none"
-----------------------------------------------------------------------------
\* reset(): decRef(state_) of a state that is counted.
resetDecRef ==
    /\ Ready
    /\ call' = "reset" /\ qubit' = 0 /\ e' = Null
    /\ held' = [held EXCEPT ![State] = Null]
    /\ DecRef(state, {})
    /\ UNCHANGED <<tableVars, incs, pc, replaced, cacheVars, gcLimit, crashed, state>>

\* The node of |0...0> at the next qubit: e[0] is the rest, e[1] is zero.
ZeroKey == [kind |-> "v", var |-> qubit, w |-> ZeroWeights,
            e |-> [i \in 1..VArity |-> IF i = 1 THEN e ELSE Null]]

Resetting == Idle /\ call \in {"construct", "reset"}

\* (mutant) one qubit too many
MakingTooMuch == Resetting /\ qubit <= NumQubits

MakingZeroState == Resetting /\ qubit < NumQubits

\* makeVEdge finds the node, or the null pointer a failed call left there.
resetFindsNode ==
    /\ MakingZeroState /\ Present(ZeroKey)
    /\ e' \in IF ZeroKey \in orphan THEN {Null} ELSE {a \in Live : node[a] = ZeroKey}
    /\ qubit' = qubit + 1
    /\ UNCHANGED <<packageVars, state, call>>

resetMakesNode ==
    /\ MakingZeroState
    /\ \E a \in VAddr : MakeNode(ZeroKey, a) /\ e' = a
    /\ qubit' = qubit + 1
    /\ UNCHANGED <<state, call>>

\* The exception leaves reset(): state_ is what it was.  There is no
\* simulation if it leaves the constructor too.
resetThrows ==
    /\ MakingZeroState
    /\ MakeNodeThrows(ZeroKey)
    /\ call' = IF call = "construct" THEN "failed" ELSE "none"
    /\ qubit' = 0 /\ e' = Null
    /\ UNCHANGED state

\* (mutant) the zero state is kept without a count
resetForgetsIncRef ==
    /\ Resetting /\ qubit = NumQubits
    /\ state' = e
    /\ call' = "none" /\ qubit' = 0 /\ e' = Null
    /\ UNCHANGED packageVars

resetIncRef ==
    /\ Resetting /\ qubit = NumQubits
    /\ state' = e
    /\ held' = [held EXCEPT ![State] = e]
    /\ IncRef(e, {})
    /\ call' = "none" /\ qubit' = 0 /\ e' = Null
    /\ UNCHANGED <<tableVars, decs, pc, replaced, cacheVars, gcLimit, crashed>>

(***************************************************************************)
(* The gates replace state_ by DwPackage::applyOperation, and measure() by *)
(* the same three calls; it assigns state_ before garbageCollect, they do  *)
(* after it.  A gate or a projector that cannot be built changes nothing.  *)
(***************************************************************************)
startProduct(operation) ==
    /\ Ready
    /\ call' = operation
    /\ \E r \in LiveOrNull(VAddr) : applyOperation(State, r)
    /\ UNCHANGED <<state, qubit, e>>

applyGate == startProduct("gate")
measure == startProduct("measure")

\* decRef(state_)
productDecRef ==
    /\ Returned /\ pc = "decRef"
    /\ state' = IF call = "measure" THEN held[Result] ELSE state
    /\ held' = [held EXCEPT ![State] = held[Result], ![Result] = Null]
    /\ pc' = "collect"
    /\ DecRef(state, {})
    /\ UNCHANGED <<tableVars, incs, replaced, cacheVars, gcLimit, crashed, call, qubit, e>>

\* (mutant) the caller drops the edge applyOperation returned
productKeepsOldState ==
    /\ applyOperationCollect
    /\ call' = "none"
    /\ UNCHANGED <<state, qubit, e>>

productCollect ==
    /\ applyOperationCollect
    /\ state' = held[State]
    /\ call' = "none"
    /\ UNCHANGED <<qubit, e>>

\* Bound: other users leave enough of VAddr free for a |0...0>.
RoomForZeroState == Cardinality(VAddr \ Live) > NumQubits

\* What the package does on its own, or for users of package().
package ==
    /\ \/ \E edge \in incs : IncRefChild(edge)
       \/ \E edge \in decs : DecRefChild(edge)
       \/ /\ Ready
          /\ \/ (RoomForZeroState /\ makeVEdge) \/ makeMEdge \/ multiplyMV \/ multiplyMM
             \/ \E h \in Handle \ {State}, a \in Live : incRef(h, a)
             \/ \E h \in Handle \ {State} : decRef(h)
             \/ \E force \in BOOLEAN : garbageCollect(force)
    /\ UNCHANGED simVars

SimNext ==
    \/ resetDecRef \/ resetFindsNode \/ resetMakesNode \/ resetThrows \/ resetIncRef
    \/ applyGate \/ measure \/ productDecRef \/ productCollect
    \/ package

SimSpec == SimInit /\ [][SimNext]_<<packageVars, simVars>>

\* What the program does next in a call that was made; nobody has to make one.
Continue ==
    \/ resetFindsNode \/ resetMakesNode \/ resetThrows \/ resetIncRef
    \/ productDecRef \/ productCollect
    \/ /\ \/ \E edge \in incs : IncRefChild(edge)
          \/ \E edge \in decs : DecRefChild(edge)
       /\ UNCHANGED simVars

FairSimSpec == SimSpec /\ WF_<<packageVars, simVars>>(Continue)
-----------------------------------------------------------------------------
SimTypeOK == /\ TypeOK
             /\ state \in VAddr \cup {Null}
             /\ call \in {"construct", "failed", "none", "reset", "gate", "measure"}
             /\ qubit \in 0..NumQubits /\ e \in VAddr \cup {Null}

(***************************************************************************)
(* "state_ is kept incRef'd with pkg_ as its persistent GC root"           *)
(* (ExactDDSimulation.hpp:27): between two operations, the root counted    *)
(* for state_ is the node it points to.                                    *)
(***************************************************************************)
StateIsRooted == call = "none" /\ pc = "idle" => held[State] = state

(***************************************************************************)
(* Whatever state_ points to, in the middle of an operation too, is alive  *)
(* where it is next read: by decRef, or by the next operation.             *)
(***************************************************************************)
StateIsLive == call = "none" \/ pc = "decRef" => state \in LiveOrNull(VAddr)

(***************************************************************************)
(* Where allocation may fail, an exception out of reset() is the only way  *)
(* to lose the root of state_, and the next operation that returns, be it  *)
(* a gate, measure() or reset(), has a rooted state_ again.                *)
(***************************************************************************)
LosesState == call' = "none" /\ pc' = "idle" /\ held'[State] # state'
OnlyFailedResetLosesState ==
    [][LosesState => \/ resetThrows
                     \/ call = "none" /\ held[State] # state]_<<packageVars, simVars>>

(***************************************************************************)
(* Every call returns or throws, whatever diagrams it finds: the loop of   *)
(* makeZeroState and the recursions of incRef and decRef end, and no step  *)
(* of one call waits for something that only another call could do.        *)
(***************************************************************************)
CallsReturn ==
    call \notin {"none", "failed"} ~> call \in {"none", "failed"} \/ crashed

(***************************************************************************)
(* The simulation keeps its part of the contract: as far as the package    *)
(* sees, it is one of the balanced clients that DwStore speaks of.         *)
(***************************************************************************)
BalancedClient == Spec
=============================================================================
