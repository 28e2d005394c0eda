------------------------------ MODULE NodePool ------------------------------
(***************************************************************************)
(* What a MemoryManager<T> promises DwPackage, without chunks, free list   *)
(* or counters: get() hands out an entry nobody holds, returnEntry() takes *)
(* a held entry back, and fresh storage is taken only while every entry    *)
(* that exists is held.                                                    *)
(***************************************************************************)
EXTENDS Integers

CONSTANT Entry          \* every entry the pool could ever own

VARIABLES
    owned,              \* entries that have storage
    inUse,              \* entries handed out by get() and not returned
    outstanding         \* calls of get() that no returnEntry() has answered

poolVars == <<owned, inUse, outstanding>>

Init == /\ owned \subseteq Entry
        /\ inUse = {}
        /\ outstanding = 0

Get == \E entry \in owned \ inUse :
          /\ inUse' = inUse \cup {entry}
          /\ outstanding' = outstanding + 1
          /\ UNCHANGED owned

\* A pool whose entries are all held obtains new ones, and hands one out.
GrowAndGet ==
    /\ inUse = owned
    /\ owned \subseteq owned' /\ owned' \subseteq Entry
    /\ \E entry \in owned' \ owned : inUse' = inUse \cup {entry}
    /\ outstanding' = outstanding + 1

Return == \E entry \in inUse :
             /\ inUse' = inUse \ {entry}
             /\ outstanding' = outstanding - 1
             /\ UNCHANGED owned

Next == Get \/ GrowAndGet \/ Return

Spec == Init /\ [][Next]_poolVars
=============================================================================
