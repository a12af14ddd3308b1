------------------------------ MODULE Rational ------------------------------
(***************************************************************************)
(* The rational numbers of the C runtime (util/rational.c), in which the   *)
(* factors and shifts of clocks are given.  The denominator of what the    *)
(* code computes may be negative.                                          *)
(***************************************************************************)
EXTENDS Integers

Rat(a, b) == [m |-> a, n |-> b]

(* The operators / and % of C: the quotient is truncated. *)
Size(a) == IF a < 0 THEN -a ELSE a
Quot(a, b) == IF (a < 0) = (b < 0) THEN Size(a) \div Size(b) ELSE -(Size(a) \div Size(b))
Rem(a, b) == a - b * Quot(a, b)

(* gcd: negative for some negative arguments. *)
gcd[p \in Int \X Int] == IF p[1] = 0 THEN p[2] ELSE gcd[<<Rem(p[2], p[1]), p[1]>>]

RATIONAL == [m : Int, n : Int]

simplifyRat[r \in RATIONAL] ==
    LET tmp == gcd[<<r.m, r.n>>]
    IN IF tmp = 0 THEN r ELSE Rat(Quot(r.m, tmp), Quot(r.n, tmp))

subInt2Rat(a, r) == simplifyRat[Rat(a * r.n - r.m, r.n)]

divRat2Rat(r, s) == simplifyRat[Rat(r.m * s.n, IF r.n * s.m = 0 THEN 1 ELSE r.n * s.m)]

ceilRat[r \in RATIONAL] ==
    Quot(r.m, r.n) + (IF r.m > 0 /\ Rem(r.m, r.n) # 0 THEN 1 ELSE 0)

floorRatStrict[r \in RATIONAL] ==
    Quot(r.m, r.n) - (IF r.m >= 0 /\ Rem(r.m, r.n) # 0 THEN 0 ELSE 1)
=============================================================================
