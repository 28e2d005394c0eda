---------------------------- MODULE RootedStore ----------------------------
(***************************************************************************)
(* What DwPackage promises about the nodes of its decision diagrams,       *)
(* without reference counts, caches or thresholds: a node is created once  *)
(* for each content, after its children; it keeps its content for as long  *)
(* as it exists; and a collection may drop any nodes as long as what stays *)
(* holds every root and every child of what stays.                         *)
(***************************************************************************)
CONSTANTS
    Addr,           \* node addresses
    Null,           \* nullptr, the terminal
    Handle          \* places where a client keeps a root

VARIABLES
    heap,           \* address |-> content, of the nodes that exist
    root            \* handle |-> address of its node, or Null

storeVars == <<heap, root>>

Pointees(content) == {content.e[i] : i \in DOMAIN content.e} \ {Null}

Init == /\ DOMAIN heap = {}
        /\ root = [h \in Handle |-> Null]

\* Content never changes under an address that stays.
SameContent == \A a \in DOMAIN heap \cap DOMAIN heap' : heap'[a] = heap[a]

Make == \E a \in Addr \ DOMAIN heap :
           /\ DOMAIN heap' = DOMAIN heap \cup {a}
           /\ SameContent
           /\ Pointees(heap'[a]) \subseteq DOMAIN heap
           /\ \A b \in DOMAIN heap : heap[b] # heap'[a]
           /\ UNCHANGED root

Acquire == \E h \in Handle, a \in DOMAIN heap :
              /\ root[h] = Null
              /\ root' = [root EXCEPT ![h] = a]
              /\ UNCHANGED heap

Release == \E h \in Handle :
              /\ root' = [root EXCEPT ![h] = Null]
              /\ UNCHANGED heap

\* h gives its root up for the one another handle brought.
Replace == \E h, from \in Handle :
              /\ root' = [root EXCEPT ![h] = root[from], ![from] = Null]
              /\ UNCHANGED heap

Collect == /\ DOMAIN heap' \subseteq DOMAIN heap
           /\ SameContent
           /\ \A h \in Handle : root[h] \in DOMAIN heap' \cup {Null}
           /\ \A a \in DOMAIN heap' : Pointees(heap'[a]) \subseteq DOMAIN heap'
           /\ UNCHANGED root

Next == Make \/ Acquire \/ Release \/ Replace \/ Collect

Spec == Init /\ [][Next]_storeVars
=============================================================================
