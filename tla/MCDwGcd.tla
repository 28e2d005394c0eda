------------------------------ MODULE MCDwGcd ------------------------------
(***************************************************************************)
(* Small instances of DwGcd: elements with coefficients up to 1, and       *)
(* products of primes of the ring, which are not coprime.                  *)
(***************************************************************************)
EXTENDS DwGcd

\* Primes over 3, 5, 7 and 17.
Prime == {Integral(<<1, 1, 0, 1>>), Integral(<<1, 0, 2, 0>>),
          Integral(<<3, 1, 0, -1>>), Integral(<<1, 2, 0, 0>>)}

MCDivisor == Prime \cup {conjugate(p) : p \in Prime} \cup {Integral(<<3, 0, 0, 0>>)}

MCInput ==
    {Zero} \cup {canonicalize(<<1, b, c, d>>, k, 1) : b, c, d \in -1..1, k \in 0..1}
           \cup {Multiply(p, q) : p, q \in Prime}
=============================================================================
