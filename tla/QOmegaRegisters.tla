-------------------------- MODULE QOmegaRegisters --------------------------
(***************************************************************************)
(* What exact arithmetic promises: two registers that hold elements of the *)
(* field Q[w] are combined without error.                                  *)
(***************************************************************************)
EXTENDS QOmega

CONSTANT Operand    \* the elements the registers may start with
VARIABLES u, v

Init == u \in Operand /\ v \in Operand

Next ==
    \/ /\ UNCHANGED v
       /\ \/ Same(u', Sum(u, v))
          \/ Same(u', Sum(u, Opposite(v)))
          \/ Same(u', Product(u, v))
          \/ Same(u', Opposite(u))
          \/ Same(u', Conjugate(u))
          \/ Same(Product(u', u), One)
    \/ u' = v /\ v' = u

Spec == Init /\ [][Next]_<<u, v>>
=============================================================================
