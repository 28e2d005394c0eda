------------------------------- MODULE QOmega -------------------------------
(***************************************************************************)
(* The field Q[w], w^4 = -1.  An element is its four rational coordinates  *)
(* over 1, w, w^2, w^3: integers n[1..4] over one positive denominator d.  *)
(* Elements are compared by cross-multiplying, so nothing is assumed of    *)
(* how a fraction is written.                                              *)
(***************************************************************************)
EXTENDS Integers

\* m times the coordinates n, and the sum of two lists of coordinates.
Times(m, n) == <<m * n[1], m * n[2], m * n[3], m * n[4]>>
Plus(n, o) == <<n[1] + o[1], n[2] + o[2], n[3] + o[3], n[4] + o[4]>>

\* w times 1, w, w^2, w^3 is w, w^2, w^3, -1.
TimesOmega(n) == <<-n[4], n[1], n[2], n[3]>>

\* The powers of w that o stands for are multiplied out by Horner's rule.
Convolution(n, o) ==
    LET cubic == Times(o[4], n)
        quadratic == Plus(TimesOmega(cubic), Times(o[3], n))
        linear == Plus(TimesOmega(quadratic), Times(o[2], n))
    IN  Plus(TimesOmega(linear), Times(o[1], n))

Same(p, q) == Times(q.d, p.n) = Times(p.d, q.n)

One == [n |-> <<1, 0, 0, 0>>, d |-> 1]
Opposite(p) == [n |-> Times(-1, p.n), d |-> p.d]
Sum(p, q) == [n |-> Plus(Times(q.d, p.n), Times(p.d, q.n)), d |-> p.d * q.d]
Product(p, q) == [n |-> Convolution(p.n, q.n), d |-> p.d * q.d]

\* The automorphism that takes w to its inverse -w^3.
Conjugate(p) == [n |-> <<p.n[1], -p.n[4], -p.n[3], -p.n[2]>>, d |-> p.d]
=============================================================================
