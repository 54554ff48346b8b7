------------------------------ MODULE Fractions ------------------------------
(***************************************************************************)
(* Rational numbers for bin contents: <<numerator, denominator>>, reduced, *)
(* the denominator positive, so that equal numbers are equal values.       *)
(***************************************************************************)
EXTENDS Integers, Functions

Abs(i) == IF i < 0 THEN -i ELSE i

Gcd[a \in Nat, b \in Nat] == IF b = 0 THEN a ELSE Gcd[b, a % b]

Reduced(n, d) ==
  LET g == Gcd[Abs(n), Abs(d)]
      sign == IF d < 0 THEN -1 ELSE 1
  IN <<(sign * n) \div g, Abs(d) \div g>>

Int2F(i) == <<i, 1>>
Zero == Int2F(0)
One == Int2F(1)

a ++ b == Reduced(a[1] * b[2] + b[1] * a[2], a[2] * b[2])
a -- b == Reduced(a[1] * b[2] - b[1] * a[2], a[2] * b[2])
a ** b == Reduced(a[1] * b[1], a[2] * b[2])
a // b == Reduced(a[1] * b[2], a[2] * b[1])       \* b # Zero
Less(a, b) == a[1] * b[2] < b[1] * a[2]
AbsF(a) == <<Abs(a[1]), a[2]>>

\* Sums and extrema over f[i], i \in S.
SumF(f, S) == FoldFunctionOnSet(LAMBDA a, b : a ++ b, Zero, f, S)
MaxF(S) == CHOOSE a \in S : \A b \in S : ~Less(a, b)
MinF(S) == CHOOSE a \in S : \A b \in S : ~Less(b, a)
=============================================================================
