------------------------- MODULE NumberTokensProofs -------------------------
(***************************************************************************)
(* Proofs about NumberTokens, for every precision, range and number of     *)
(* digits, those of binary64 and of RFC 8785 among them.                   *)
(***************************************************************************)
EXTENDS NumberTokens, WellFoundedInduction, TLAPS

LEMMA Least ==
  ASSUME NEW T, T \subseteq Nat, T # {}
  PROVE  \E x \in T : \A y \in T : x <= y
  <1> DEFINE R == OpToRel(<,Nat)
  <1>1. IsWellFoundedOn(R, Nat)
    BY NatLessThanWellFounded
  <1>2. \A x, y \in Nat : y < x => <<y, x>> \in R
    BY DEF OpToRel
  <1> HIDE DEF R
  <1>3. PICK x \in T : \A y \in T : ~ (<<y, x>> \in R)
    BY <1>1, WFMin
  <1>4. ASSUME NEW y \in T PROVE x <= y
    <2>1. <<y, x>> \notin R BY <1>3
    <2>2. ~ (y < x) BY <2>1, <1>2
    <2> QED BY <2>2
  <1> QED BY <1>4

LEMMA Induction ==
  ASSUME NEW T, T \subseteq Nat, 0 \in T, \A n \in T : n + 1 \in T
  PROVE  T = Nat
  <1> SUFFICES ASSUME Nat \ T # {} PROVE FALSE
    OBVIOUS
  <1>1. PICK x \in Nat \ T : \A y \in Nat \ T : x <= y
    <2> DEFINE C == Nat \ T
    <2>1. C \subseteq Nat /\ C # {} OBVIOUS
    <2> HIDE DEF C
    <2>2. \E x \in C : \A y \in C : x <= y BY <2>1, Least
    <2> QED BY <2>2 DEF C
  <1>2. x # 0 /\ x - 1 \in Nat  OBVIOUS
  <1>3. x - 1 \in T  BY <1>1, <1>2
  <1>4. (x - 1) + 1 \in T  BY <1>3
  <1> QED  BY <1>4, <1>2

-----------------------------------------------------------------------------
(* Powers.                                                                 *)

Fits(b, n, g) == g[0] = 1 /\ \A i \in 1 .. n : g[i] = b * g[i - 1]

LEMMA SomeFits ==
  ASSUME NEW b \in Nat, NEW n \in Nat
  PROVE  \E g \in [Nat -> Nat] : Fits(b, n, g)
  <1> DEFINE T == {m \in Nat : \E g \in [Nat -> Nat] : Fits(b, m, g)}
  <1>1. 0 \in T
    <2>1. Fits(b, 0, [i \in Nat |-> 1])  BY DEF Fits
    <2> QED  BY <2>1
  <1>2. ASSUME NEW m \in T  PROVE m + 1 \in T
    <2>1. PICK g \in [Nat -> Nat] : Fits(b, m, g)  OBVIOUS
    <2> DEFINE h == [g EXCEPT ![m + 1] = b * g[m]]
    <2>2. h \in [Nat -> Nat]  OBVIOUS
    <2>3. Fits(b, m + 1, h)  BY <2>1 DEF Fits
    <2> HIDE DEF h
    <2> QED  BY <2>2, <2>3
  <1>3. T \subseteq Nat  OBVIOUS
  <1> HIDE DEF T
  <1>4. T = Nat  BY <1>1, <1>2, <1>3, Induction
  <1> QED  BY <1>4 DEF T

LEMMA FitsAgree ==
  ASSUME NEW b \in Nat, NEW n \in Nat,
         NEW g \in [Nat -> Nat], NEW h \in [Nat -> Nat], Fits(b, n, g), Fits(b, n, h)
  PROVE  g[n] = h[n]
  <1> DEFINE T == {m \in Nat : m <= n => g[m] = h[m]}
  <1>1. 0 \in T  BY DEF Fits
  <1>2. ASSUME NEW m \in T  PROVE m + 1 \in T
    <2>1. CASE m + 1 <= n
      <3>1. m + 1 \in 1 .. n /\ (m + 1) - 1 = m  BY <2>1
      <3>2. g[m + 1] = b * g[m] /\ h[m + 1] = b * h[m]  BY <3>1 DEF Fits
      <3> QED  BY <3>1, <3>2
    <2>2. CASE ~(m + 1 <= n)  BY <2>2
    <2> QED  BY <2>1, <2>2
  <1>3. T \subseteq Nat  OBVIOUS
  <1> HIDE DEF T
  <1>4. T = Nat  BY <1>1, <1>2, <1>3, Induction
  <1> QED  BY <1>4 DEF T

LEMMA PowerDef ==
  ASSUME NEW b \in Nat
  PROVE  /\ Power(b) \in [Nat -> Nat]
         /\ Power(b)[0] = 1
         /\ \A n \in Nat : Power(b)[n + 1] = b * Power(b)[n]
  <1> DEFINE Def(f) == [n \in Nat |-> IF n = 0 THEN 1 ELSE b * f[n - 1]]
             F == CHOOSE f : f = Def(f)
             g(n) == CHOOSE h \in [Nat -> Nat] : Fits(b, n, h)
             G == [n \in Nat |-> g(n)[n]]
  <1>1. \A n \in Nat : g(n) \in [Nat -> Nat] /\ Fits(b, n, g(n))
    BY SomeFits
  <1> HIDE DEF g
  <1>2. G[0] = 1  BY <1>1 DEF Fits
  <1>3. ASSUME NEW n \in Nat, n # 0  PROVE G[n] = b * G[n - 1]
    <2>1. n - 1 \in Nat /\ n \in 1 .. n  BY <1>3
    <2>2. g(n)[n] = b * g(n)[n - 1]  BY <1>1, <2>1 DEF Fits
    <2>3. Fits(b, n - 1, g(n))  BY <1>1, <2>1 DEF Fits
    <2>4. g(n)[n - 1] = g(n - 1)[n - 1]  BY <1>1, <2>1, <2>3, FitsAgree
    <2> QED  BY <2>1, <2>2, <2>4
  <1>4. G = Def(G)  BY <1>2, <1>3
  <1>5. \E f : f = Def(f)  BY <1>4
  <1>6. F = Def(F)  BY <1>5
  <1>7. Power(b) = F  BY DEF Power
  <1> HIDE DEF F
  <1>8. F[0] = 1 /\ \A n \in Nat : F[n + 1] = b * F[n]
    <2>1. F[0] = 1  BY <1>6
    <2>2. ASSUME NEW n \in Nat  PROVE F[n + 1] = b * F[n]
      <3>1. n + 1 \in Nat /\ n + 1 # 0 /\ (n + 1) - 1 = n OBVIOUS
      <3> QED BY <1>6, <3>1
    <2> QED BY <2>1, <2>2
  <1> DEFINE T == {n \in Nat : F[n] \in Nat}
  <1>9. T = Nat
    <2>1. 0 \in T /\ (\A n \in T : n + 1 \in T) /\ T \subseteq Nat  BY <1>8
    <2> HIDE DEF T
    <2> QED  BY <2>1, Induction
  <1>10. F \in [Nat -> Nat]
    <2>1. F = [n \in Nat |-> F[n]]  BY <1>6
    <2>2. \A n \in Nat : F[n] \in Nat  BY <1>9
    <2> QED  BY <2>1, <2>2
  <1> QED  BY <1>7, <1>8, <1>10
LEMMA TwoGrows ==
  /\ Two[0] = 1
  /\ \A n \in Nat : Two[n] \in Nat \ {0} /\ Two[n + 1] = 2 * Two[n]
  <1>1. Two \in [Nat -> Nat] /\ Two[0] = 1 /\ \A n \in Nat : Two[n + 1] = 2 * Two[n]
    BY PowerDef DEF Two
  <1> DEFINE T == {n \in Nat : Two[n] # 0}
  <1>2. 0 \in T /\ (\A n \in T : n + 1 \in T) /\ T \subseteq Nat  BY <1>1
  <1> HIDE DEF T
  <1>3. T = Nat  BY <1>2, Induction
  <1> QED  BY <1>1, <1>3 DEF T

LEMMA TwoMonotone ==
  ASSUME NEW m \in Nat, NEW n \in Nat, m <= n
  PROVE  Two[m] <= Two[n]
  <1> DEFINE T == {k \in Nat : Two[m] <= Two[m + k]}
  <1>1. 0 \in T  BY TwoGrows
  <1>2. ASSUME NEW k \in T  PROVE k + 1 \in T
    <2>1. m + k \in Nat /\ m + (k + 1) = (m + k) + 1  OBVIOUS
    <2>2. Two[m + (k + 1)] = 2 * Two[m + k]  BY <2>1, TwoGrows
    <2> QED  BY <2>1, <2>2, TwoGrows
  <1>3. T \subseteq Nat  OBVIOUS
  <1> HIDE DEF T
  <1>4. T = Nat  BY <1>1, <1>2, <1>3, Induction
  <1>5. n - m \in T /\ m + (n - m) = n  BY <1>4
  <1> QED  BY <1>5 DEF T

LEMMA TwoExceeds ==
  ASSUME NEW m \in Nat, NEW n \in Nat, Two[m] < Two[n]
  PROVE  m < n
  BY TwoMonotone, TwoGrows

LEMMA TwoOfSum ==
  ASSUME NEW m \in Nat, NEW n \in Nat
  PROVE  Two[m + n] = Two[m] * Two[n]
  <1> DEFINE T == {k \in Nat : Two[m + k] = Two[m] * Two[k]}
  <1>1. 0 \in T  BY TwoGrows
  <1>2. ASSUME NEW k \in T  PROVE k + 1 \in T
    <2>1. m + k \in Nat /\ m + (k + 1) = (m + k) + 1  OBVIOUS
    <2>2. Two[m + (k + 1)] = 2 * Two[m + k]  BY <2>1, TwoGrows
    <2>3. Two[m] * Two[k + 1] = 2 * (Two[m] * Two[k])
      <3>1. Two[k + 1] = 2 * Two[k]  BY TwoGrows
      <3>2. \A a, c \in Nat : a * (2 * c) = 2 * (a * c)  OBVIOUS
      <3> QED  BY <3>1, <3>2, TwoGrows
    <2> QED  BY <2>2, <2>3
  <1>3. T \subseteq Nat  OBVIOUS
  <1> HIDE DEF T
  <1>4. T = Nat  BY <1>1, <1>2, <1>3, Induction
  <1> QED  BY <1>4 DEF T

LEMMA TenPositive ==
  /\ Ten[0] = 1
  /\ \A n \in Nat : Ten[n] \in Nat \ {0}
  <1>1. Ten \in [Nat -> Nat] /\ Ten[0] = 1 /\ \A n \in Nat : Ten[n + 1] = 10 * Ten[n]
    BY PowerDef DEF Ten
  <1> DEFINE T == {n \in Nat : Ten[n] # 0}
  <1>2. 0 \in T /\ (\A n \in T : n + 1 \in T) /\ T \subseteq Nat  BY <1>1
  <1> HIDE DEF T
  <1>3. T = Nat  BY <1>2, Induction
  <1> QED  BY <1>1, <1>3 DEF T

-----------------------------------------------------------------------------
(* Rounding.                                                               *)

LEMMA Multiple ==
  ASSUME NEW q \in Nat, NEW u \in Nat \ {0}, NEW r \in 0 .. u - 1
  PROVE  (q * u + r) \div u = q /\ (q * u + r) % u = r
  OBVIOUS

LEMMA Division ==
  ASSUME NEW n \in Nat, NEW u \in Nat \ {0}
  PROVE  n \div u \in Nat /\ n % u \in 0 .. u - 1 /\ n = (n \div u) * u + (n % u)
  <1> DEFINE Divided(m) == \E q \in Nat, r \in 0 .. u - 1 : m = q * u + r
             T == {m \in Nat : Divided(m)}
  <1>1. 0 \in T
    <2>1. 0 \in Nat /\ 0 \in 0 .. u - 1 /\ 0 = 0 * u + 0  OBVIOUS
    <2>2. Divided(0)  BY <2>1
    <2> QED  BY <2>2
  <1>2. ASSUME NEW m \in T  PROVE m + 1 \in T
    <2>1. PICK q \in Nat, r \in 0 .. u - 1 : m = q * u + r  OBVIOUS
    <2>2. CASE r + 1 # u
      <3>1. r + 1 \in 0 .. u - 1 /\ m + 1 = q * u + (r + 1)  BY <2>1, <2>2
      <3>2. Divided(m + 1)  BY <3>1
      <3> HIDE DEF Divided
      <3> QED  BY <3>2
    <2>3. CASE r + 1 = u
      <3>1. q + 1 \in Nat /\ 0 \in 0 .. u - 1 /\ m + 1 = (q + 1) * u + 0  BY <2>1, <2>3
      <3>2. Divided(m + 1)  BY <3>1
      <3> HIDE DEF Divided
      <3> QED  BY <3>2
    <2> QED  BY <2>2, <2>3
  <1>3. T \subseteq Nat  OBVIOUS
  <1> HIDE DEF T
  <1>4. n \in T  BY <1>1, <1>2, <1>3, Induction
  <1>5. PICK q \in Nat, r \in 0 .. u - 1 : n = q * u + r  BY <1>4 DEF T
  <1> QED  BY <1>5, Multiple

LEMMA Greatest ==
  ASSUME NEW m \in Nat, NEW S, S \subseteq 0 .. m, S # {}
  PROVE  Max(S) \in S /\ \A y \in S : y <= Max(S)
  <1> DEFINE T == {m - x : x \in S}
  <1>1. T \subseteq Nat
    <2>1. \A x \in S : x \in 0 .. m /\ m - x \in Nat  OBVIOUS
    <2> QED  BY <2>1
  <1> HIDE DEF T
  <1>5. T # {}
    <2>1. PICK x \in S : TRUE  OBVIOUS
    <2>2. m - x \in T  BY DEF T
    <2> QED  BY <2>2
  <1>2. PICK t \in T : \A y \in T : t <= y  BY <1>1, <1>5, Least
  <1>3. PICK x \in S : t = m - x  BY <1>2 DEF T
  <1>4. \A y \in S : x >= y  BY <1>2, <1>3 DEF T
  <1> QED  BY <1>4 DEF Max

\* Every size below the overflow has its last place, and just one.
LEMMA SomePlace ==
  ASSUME NEW n \in Nat, n < Two[Precision + TopBit]
  PROVE  \E e \in 0 .. TopBit : IsPlace(n, e)
  <1> DEFINE T == {e \in Nat : n < Two[Precision + e]}
  <1>1. TopBit \in T /\ T \subseteq Nat  BY TokensAssumption DEF TokensAssumption
  <1> HIDE DEF T
  <1>2. PICK e \in T : \A f \in T : e <= f  BY <1>1, Least
  <1>3. e \in 0 .. TopBit  BY <1>1, <1>2
  <1>4. n < Two[Precision + e]  BY <1>2 DEF T
  <1>5. ASSUME e > 0  PROVE n >= Two[Precision + e - 1]
    <2>1. e - 1 \in Nat /\ e - 1 \notin T  BY <1>2, <1>3, <1>5
    <2>2. Precision + (e - 1) = Precision + e - 1 /\ Precision + e - 1 \in Nat
      BY <2>1, TokensAssumption DEF TokensAssumption
    <2>3. ~(n < Two[Precision + e - 1])  BY <2>1, <2>2 DEF T
    <2> QED  BY <2>2, <2>3, TwoGrows
  <1> QED  BY <1>3, <1>4, <1>5 DEF IsPlace

LEMMA OnePlace ==
  ASSUME NEW n \in Nat, NEW e \in 0 .. TopBit, NEW f \in 0 .. TopBit,
         IsPlace(n, e), IsPlace(n, f)
  PROVE  e = f
  <1>1. ASSUME NEW a \in 0 .. TopBit, NEW c \in 0 .. TopBit,
               IsPlace(n, a), IsPlace(n, c), a < c
        PROVE  FALSE
    <2>1. Precision + a \in Nat /\ Precision + c - 1 \in Nat
          /\ Precision + a <= Precision + c - 1 /\ c > 0
      BY <1>1, TokensAssumption DEF TokensAssumption
    <2>2. n < Two[Precision + a] /\ n >= Two[Precision + c - 1]
      BY <1>1, <2>1 DEF IsPlace
    <2>3. Two[Precision + a] <= Two[Precision + c - 1]  BY <2>1, TwoMonotone
    <2>4. Two[Precision + a] \in Nat /\ Two[Precision + c - 1] \in Nat
      BY <2>1, TwoGrows
    <2> QED  BY <2>2, <2>3, <2>4
  <1>2. ~(e < f) /\ ~(f < e)  BY <1>1
  <1> QED  BY <1>2, TokensAssumption DEF TokensAssumption

LEMMA UnitOf ==
  ASSUME NEW n \in Nat, NEW e \in 0 .. TopBit, IsPlace(n, e)
  PROVE  Unit(n) = Two[e]
  <1>1. (CHOOSE f \in 0 .. TopBit : IsPlace(n, f)) = e  BY OnePlace
  <1> QED  BY <1>1 DEF Unit

\* A multiple of its last place is left as it is.
LEMMA RoundMultiple ==
  ASSUME NEW q \in Nat, NEW e \in 0 .. TopBit, IsPlace(q * Two[e], e)
  PROVE  Round(q * Two[e]) = q * Two[e]
  <1> DEFINE u == Two[e]
             n == q * u
  <1>1. u \in Nat \ {0} /\ n \in Nat  BY TwoGrows, TokensAssumption DEF TokensAssumption
  <1>2. Unit(n) = u  BY <1>1, UnitOf
  <1> HIDE DEF u
  <1>3. n \div u = q /\ n % u = 0
    <2>1. 0 \in 0 .. u - 1 /\ q * u + 0 = q * u  BY <1>1
    <2> QED  BY <1>1, <2>1, Multiple
  <1>4. Round(n) = q * u  BY <1>1, <1>2, <1>3 DEF Round
  <1> QED  BY <1>4 DEF u

\* Safe integers are floating-point numbers.
LEMMA RoundSmall ==
  ASSUME NEW n \in Nat, n < Two[Precision]
  PROVE  Round(n) = n
  <1>1. IsPlace(n, 0)  BY TokensAssumption DEF IsPlace, TokensAssumption
  <1>2. 0 \in 0 .. TopBit /\ n * Two[0] = n
    BY TwoGrows, TokensAssumption DEF TokensAssumption
  <1> QED  BY <1>1, <1>2, RoundMultiple

LEMMA PlaceExists ==
  ASSUME NEW n \in Nat, n < Two[TopBit + 1]
  PROVE  \E e \in 0 .. TopBit : IsPlace(n, e)
  <1>1. TopBit + 1 \in Nat /\ Precision + TopBit \in Nat /\ TopBit + 1 <= Precision + TopBit
    BY TokensAssumption DEF TokensAssumption
  <1>2. Two[TopBit + 1] <= Two[Precision + TopBit]  BY <1>1, TwoMonotone
  <1>3. n < Two[Precision + TopBit]  BY <1>1, <1>2, TwoGrows
  <1> QED  BY <1>3, SomePlace

\* A number in units of its last place has Precision digits.
LEMMA InUnits ==
  ASSUME NEW n \in Nat, NEW e \in 0 .. TopBit, IsPlace(n, e)
  PROVE  /\ Two[e] \in Nat \ {0}
         /\ Two[Precision] \in Nat /\ Two[Precision + e] = Two[Precision] * Two[e]
         /\ n \div Two[e] \in Nat /\ n % Two[e] \in 0 .. Two[e] - 1
         /\ n = (n \div Two[e]) * Two[e] + (n % Two[e])
         /\ n \div Two[e] < Two[Precision]
         /\ e > 0 => /\ Two[Precision - 1] \in Nat
                     /\ Two[Precision + e - 1] = Two[Precision - 1] * Two[e]
                     /\ n \div Two[e] >= Two[Precision - 1]
  <1> DEFINE u == Two[e]
             q == n \div u
             r == n % u
  <1>0. Precision \in Nat /\ Precision - 1 \in Nat /\ e \in Nat
    BY TokensAssumption DEF TokensAssumption
  <1>1. u \in Nat \ {0}  BY <1>0, TwoGrows
  <1>2. Two[Precision + e] = Two[Precision] * u  BY <1>0, TwoOfSum
  <1>3. Two[Precision] \in Nat /\ Two[Precision - 1] \in Nat  BY <1>0, TwoGrows
  <1>4. q \in Nat /\ r \in 0 .. u - 1 /\ n = q * u + r
    <2> HIDE DEF u
    <2> QED  BY <1>1, Division
  <1>5. q < Two[Precision]
    <2>1. n < Two[Precision] * u  BY <1>2 DEF IsPlace
    <2> HIDE DEF u, q, r
    <2>2. q * u < Two[Precision] * u  BY <2>1, <1>1, <1>3, <1>4
    <2>3. \A a, b, c \in Nat : a >= b => a * c >= b * c  OBVIOUS
    <2> QED  BY <2>2, <2>3, <1>1, <1>3, <1>4
  <1>6. Two[Precision + e - 1] = Two[Precision - 1] * u
    <2>1. (Precision - 1) + e = Precision + e - 1  BY <1>0
    <2> QED  BY <1>0, <2>1, TwoOfSum
  <1>7. ASSUME e > 0  PROVE q >= Two[Precision - 1]
    <2>1. n >= Two[Precision - 1] * u  BY <1>6, <1>7 DEF IsPlace
    <2> HIDE DEF u, q, r
    <2>2. (q + 1) * u > Two[Precision - 1] * u  BY <2>1, <1>1, <1>3, <1>4
    <2>3. \A a, b, c \in Nat : a <= b => a * c <= b * c  OBVIOUS
    <2>4. ~(q + 1 <= Two[Precision - 1])  BY <2>2, <2>3, <1>1, <1>3, <1>4
    <2> QED  BY <2>4, <1>3, <1>4
  <1> QED  BY <1>1, <1>2, <1>3, <1>4, <1>5, <1>6, <1>7

\* What rounding makes of a number: a multiple of its last place.
LEMMA Rounded ==
  ASSUME NEW n \in Nat, NEW e \in 0 .. TopBit, IsPlace(n, e)
  PROVE  /\ \E q \in Nat : /\ Round(n) = q * Two[e]
                           /\ q <= Two[Precision]
                           /\ e > 0 => q >= Two[Precision - 1]
         /\ Round(n) \in Nat
  <1> DEFINE u == Two[e]
             q == n \div u
  <1>1. /\ u \in Nat \ {0} /\ q \in Nat /\ Two[Precision] \in Nat /\ q < Two[Precision]
        /\ e > 0 => Two[Precision - 1] \in Nat /\ q >= Two[Precision - 1]
    BY InUnits
  <1>2. Round(n) \in {q * u, (q + 1) * u}  BY UnitOf DEF Round
  <1> HIDE DEF u, q
  <1>3. PICK p \in {q, q + 1} : Round(n) = p * u  BY <1>2
  <1>4. p \in Nat /\ p <= Two[Precision] /\ (e > 0 => p >= Two[Precision - 1])
    BY <1>1, <1>3
  <1>5. Round(n) \in Nat  BY <1>1, <1>3, <1>4
  <1> QED  BY <1>3, <1>4, <1>5 DEF u

\* No number is nearer than the one a size is rounded to.
LEMMA RoundIsNearest ==
  ASSUME NEW n \in Nat, n < Two[TopBit + 1],
         NEW y \in Nat, y < Two[TopBit + 1], Round(y) = y
  PROVE  Abs(Round(n) - n) <= Abs(y - n)
  <1>1. PICK e \in 0 .. TopBit : IsPlace(n, e)  BY PlaceExists
  <1>2. PICK f \in 0 .. TopBit : IsPlace(y, f)  BY PlaceExists
  <1> DEFINE u == Two[e]
             q == n \div u
             r == n % u
             low == q * u
             high == (q + 1) * u
  <1>3. /\ u \in Nat \ {0} /\ q \in Nat /\ r \in 0 .. u - 1 /\ n = q * u + r
        /\ Two[Precision] \in Nat /\ q < Two[Precision]
        /\ Two[Precision + e] = Two[Precision] * u
        /\ e > 0 => /\ Two[Precision - 1] \in Nat /\ q >= Two[Precision - 1]
                    /\ Two[Precision + e - 1] = Two[Precision - 1] * u
    BY <1>1, InUnits
  <1>4. Round(n) = IF 2 * r < u \/ (2 * r = u /\ q % 2 = 0) THEN low ELSE high
    BY <1>1, UnitOf DEF Round
  <1>5. Precision \in Nat \ {0} /\ e \in Nat /\ f \in Nat
    BY TokensAssumption DEF TokensAssumption
  <1> HIDE DEF u, q, r
  <1>6. \A a, b, c \in Nat : a <= b => a * c <= b * c  OBVIOUS
  <1>7. low \in Nat /\ high \in Nat /\ high = low + u /\ n = low + r  BY <1>3
  <1>8. y <= low \/ y >= high
    <2>1. CASE f = e
      <3>1. PICK p \in Nat : y = p * u  BY <1>2, <2>1, Rounded DEF u
      <3>2. p <= q \/ q + 1 <= p  BY <1>3, <3>1
      <3>3. CASE p <= q
        <4>1. p * u <= q * u  BY <1>3, <1>6, <3>3
        <4> QED  BY <3>1, <4>1
      <3>4. CASE q + 1 <= p
        <4>1. (q + 1) * u <= p * u  BY <1>3, <1>6, <3>4
        <4> QED  BY <1>3, <1>7, <3>1, <4>1
      <3> QED  BY <3>2, <3>3, <3>4
    <2>2. CASE f > e
      <3>1. y >= Two[Precision + f - 1]  BY <1>2, <1>5, <2>2 DEF IsPlace
      <3>2. Precision + e \in Nat /\ Precision + f - 1 \in Nat /\ Precision + e <= Precision + f - 1
        BY <1>5, <2>2
      <3>3. Two[Precision + e] <= Two[Precision + f - 1]  BY <3>2, TwoMonotone
      <3>4. high <= Two[Precision] * u  BY <1>3, <1>6
      <3> QED  BY <1>3, <1>7, <3>1, <3>2, <3>3, <3>4, TwoGrows
    <2>3. CASE f < e
      <3>1. y < Two[Precision + f]  BY <1>2 DEF IsPlace
      <3>2. Precision + f \in Nat /\ Precision + e - 1 \in Nat /\ Precision + f <= Precision + e - 1
        BY <1>5, <2>3
      <3>3. Two[Precision + f] <= Two[Precision + e - 1]  BY <3>2, TwoMonotone
      <3>4. e > 0  BY <1>5, <2>3
      <3>5. Two[Precision - 1] * u <= low  BY <1>3, <1>6, <3>4
      <3> QED  BY <1>3, <1>7, <3>1, <3>2, <3>3, <3>4, <3>5, TwoGrows
    <2> QED  BY <1>5, <2>1, <2>2, <2>3
  <1> HIDE DEF low, high
  <1>9. CASE Round(n) = low /\ 2 * r <= u
    BY <1>3, <1>7, <1>8, <1>9 DEF Abs
  <1>10. CASE Round(n) = high /\ 2 * r >= u
    BY <1>3, <1>7, <1>8, <1>10 DEF Abs
  <1> QED  BY <1>3, <1>4, <1>9, <1>10

\* A rounded number below the overflow is left as it is by rounding again.
LEMMA RoundTwice ==
  ASSUME NEW n \in Nat, n < Two[TopBit + 1], Round(n) < Two[TopBit]
  PROVE  Round(n) \in Nat /\ Round(Round(n)) = Round(n)
  <1>0. Precision \in Nat /\ Precision - 1 \in Nat /\ TopBit \in Nat
    BY TokensAssumption DEF TokensAssumption
  <1>1. PICK e \in 0 .. TopBit : IsPlace(n, e)  BY PlaceExists
  <1>2. PICK q \in Nat : /\ Round(n) = q * Two[e]
                         /\ q <= Two[Precision]
                         /\ e > 0 => q >= Two[Precision - 1]
    BY <1>1, Rounded
  <1>3. Two[e] \in Nat \ {0} /\ Two[Precision] \in Nat \ {0} /\ e \in Nat
    BY <1>0, TwoGrows
  <1>4. Two[Precision + e] = Two[Precision] * Two[e]  BY <1>0, <1>3, TwoOfSum
  <1>5. CASE q < Two[Precision]
    <2>1. q * Two[e] < Two[Precision + e]
      <3>1. \A a, b, c \in Nat : a < b /\ c # 0 => a * c < b * c  OBVIOUS
      <3> QED  BY <1>3, <1>4, <1>5, <3>1
    <2>2. ASSUME e > 0  PROVE q * Two[e] >= Two[Precision + e - 1]
      <3>1. Two[Precision + e - 1] = Two[Precision - 1] * Two[e]
        <4>1. (Precision - 1) + e = Precision + e - 1  BY <1>0, <1>3
        <4> QED  BY <1>0, <1>3, <4>1, TwoOfSum
      <3>2. q >= Two[Precision - 1] /\ Two[Precision - 1] \in Nat
        BY <1>0, <1>2, <2>2, TwoGrows
      <3>3. \A a, b, c \in Nat : a >= b => a * c >= b * c  OBVIOUS
      <3> QED  BY <1>3, <3>1, <3>2, <3>3
    <2>3. IsPlace(q * Two[e], e)  BY <2>1, <2>2 DEF IsPlace
    <2> QED  BY <1>2, <1>1, <2>3, RoundMultiple, Rounded
  <1>6. CASE q = Two[Precision]
    <2>1. Round(n) = Two[Precision + e] /\ Precision + e \in Nat
      BY <1>0, <1>2, <1>3, <1>4, <1>6
    <2>2. Precision + e < TopBit  BY <1>0, <2>1, TwoExceeds
    <2>3. e + 1 \in 0 .. TopBit /\ e + 1 \in Nat  BY <1>0, <1>3, <2>2
    <2>4. Precision + e = (Precision - 1) + (e + 1)  BY <1>0, <1>3
    <2>5. Two[Precision + e] = Two[Precision - 1] * Two[e + 1]
      BY <1>0, <2>3, <2>4, TwoOfSum
    <2>6. IsPlace(Two[Precision + e], e + 1)
      <3>1. Precision + (e + 1) = (Precision + e) + 1 /\ Precision + (e + 1) - 1 = Precision + e
        BY <1>0, <1>3
      <3>2. Two[Precision + (e + 1)] = 2 * Two[Precision + e]  BY <2>1, <3>1, TwoGrows
      <3>3. Two[Precision + e] \in Nat \ {0}  BY <2>1, TwoGrows
      <3> QED  BY <3>1, <3>2, <3>3 DEF IsPlace
    <2>7. Two[Precision - 1] \in Nat  BY <1>0, TwoGrows
    <2>8. Round(Two[Precision - 1] * Two[e + 1]) = Two[Precision - 1] * Two[e + 1]
      BY <2>3, <2>5, <2>6, <2>7, RoundMultiple
    <2>9. Two[Precision + e] \in Nat  BY <2>1, TwoGrows
    <2> QED  BY <2>1, <2>5, <2>8, <2>9
  <1> QED  BY <1>2, <1>3, <1>5, <1>6

-----------------------------------------------------------------------------
(* Numbers and how they are written.                                       *)

LEMMA SafeFloat ==
  ASSUME NEW v \in Int, Safe(v)
  PROVE  Float(v) = v
  <1>1. Abs(v) \in Nat /\ Abs(v) < Two[Precision]
    BY TwoGrows, TokensAssumption DEF Safe, Abs, TokensAssumption
  <1>2. Round(Abs(v)) = Abs(v)  BY <1>1, RoundSmall
  <1> QED  BY <1>2 DEF Float, Like, Abs

\* The size of a number is itself a number below the overflow.
LEMMA SizeOf ==
  ASSUME NEW x \in Numbers
  PROVE  x \in Int /\ Abs(x) \in Nat /\ Abs(x) < Two[TopBit] /\ Round(Abs(x)) = Abs(x)
  <1>0. Two[TopBit] \in Nat \ {0} /\ Two[Precision] \in Nat \ {0}
        /\ Two[Precision] <= Two[TopBit] /\ Two[TopBit] < Two[TopBit + 1]
    BY TwoGrows, TwoMonotone, TokensAssumption DEF TokensAssumption
  <1>1. x \in Int /\ Abs(x) \in Nat  BY <1>0 DEF Numbers, Abs
  <1>2. CASE Safe(x)
    <2>1. Abs(x) < Two[Precision]  BY <1>0, <1>1, <1>2 DEF Safe
    <2> QED  BY <1>0, <1>1, <2>1, RoundSmall
  <1>3. CASE ~Safe(x)
    <2>1. ~Overflows(x) /\ Float(x) = x  BY <1>3 DEF Numbers
    <2>2. Abs(x) < Two[TopBit]  BY <2>1, <1>0, <1>1 DEF Overflows
    <2>3. PICK e \in 0 .. TopBit : IsPlace(Abs(x), e)
      <3>1. Abs(x) < Two[TopBit + 1]  
        BY <1>0, <1>1, <2>2, TwoGrows, TokensAssumption DEF TokensAssumption
      <3> QED  BY <1>1, <3>1, PlaceExists
    <2>4. Round(Abs(x)) \in Nat  BY <1>1, <2>3, Rounded
    <2>5. Round(Abs(x)) = Abs(x)
      <3> DEFINE r == Round(Abs(x))
      <3>1. Like(x, r) = x /\ r \in Nat  BY <2>1, <2>4 DEF Float
      <3> HIDE DEF r
      <3>2. r = Abs(x)  BY <1>1, <3>1 DEF Like, Abs
      <3> QED  BY <3>2 DEF r
    <2> QED  BY <1>1, <2>2, <2>5
  <1> QED  BY <1>2, <1>3

\* A number is its own decimal, with zeros from place 0 on.
LEMMA NearItself ==
  ASSUME NEW x \in Numbers
  PROVE  Near(Abs(x), 0) # {}
  <1> DEFINE n == Abs(x)
  <1>1. n \in Nat /\ n < Two[TopBit] /\ Round(n) = n  BY SizeOf
  <1> HIDE DEF n
  <1>2. n - (n % Ten[0]) = n  BY <1>1, TenPositive
  <1>3. n \in Near(n, 0)  BY <1>1, <1>2 DEF Near
  <1> QED  BY <1>3 DEF n

\* Shortest picks a natural number that rounds to the size of x.
LEMMA ShortestRounds ==
  ASSUME NEW x \in Numbers
  PROVE  \E c \in Nat : Shortest(x) = Like(x, c) /\ c < Two[TopBit] /\ Round(c) = Abs(x)
  <1> DEFINE n == Abs(x)
             J == {i \in 0 .. Digits : Near(n, i) # {}}
             j == Max(J)
             Dist == {IF c < n THEN n - c ELSE c - n : c \in Near(n, j)}
  <1>1. x \in Int /\ n \in Nat  BY SizeOf
  <1>2. 0 \in J  BY NearItself, TokensAssumption DEF TokensAssumption
  <1>3. j \in J
    <2>1. J \subseteq 0 .. Digits /\ J # {} /\ Digits \in Nat
      BY <1>2, TokensAssumption DEF TokensAssumption
    <2> HIDE DEF J
    <2> QED  BY <2>1, Greatest
  <1> HIDE DEF n
  <1>4. Near(n, j) # {} /\ j \in Nat  BY <1>3
  <1> HIDE DEF J, j
  <1>5. ASSUME NEW c \in Near(n, j)
        PROVE  c \in Nat /\ c < Two[TopBit] /\ Round(c) = n
    <2>1. Ten[j] \in Nat \ {0}  BY <1>4, TenPositive
    <2>2. n - (n % Ten[j]) \in Nat
      <3>1. n % Ten[j] \in 0 .. Ten[j] - 1 /\ n \div Ten[j] \in Nat
            /\ n = (n \div Ten[j]) * Ten[j] + (n % Ten[j])
        BY <1>1, <2>1, Division
      <3> DEFINE p == (n \div Ten[j]) * Ten[j]
                 m == n % Ten[j]
      <3>2. p \in Nat  BY <2>1, <3>1
      <3>3. n = p + m /\ m \in Nat  BY <2>1, <3>1
      <3> HIDE DEF p, m
      <3>4. n - m \in Nat  BY <3>2, <3>3
      <3> QED  BY <3>4 DEF m
    <2> DEFINE below == n - (n % Ten[j])
    <2>3. c \in {below, below + Ten[j]} /\ c < Two[TopBit] /\ Round(c) = n
      BY <1>5 DEF Near
    <2> HIDE DEF below
    <2>4. below \in Nat  BY <2>2 DEF below
    <2> QED  BY <2>1, <2>3, <2>4
  <1>6. \E c \in Near(n, j) : \A d \in Near(n, j) : Abs(c - n) <= Abs(d - n)
    <2>1. Dist \subseteq Nat
      <3>1. \A c \in Near(n, j) : (IF c < n THEN n - c ELSE c - n) \in Nat  BY <1>1, <1>5
      <3> QED  BY <3>1
    <2>2. Dist # {}  BY <1>4
    <2> HIDE DEF Dist
    <2>3. PICK t \in Dist : \A s \in Dist : t <= s  BY <2>1, <2>2, Least
    <2>4. PICK c \in Near(n, j) : t = (IF c < n THEN n - c ELSE c - n)  BY DEF Dist
    <2>5. ASSUME NEW d \in Near(n, j)  PROVE Abs(c - n) <= Abs(d - n)
      <3>1. t <= (IF d < n THEN n - d ELSE d - n)  BY <2>3 DEF Dist
      <3> QED  BY <1>1, <1>5, <2>4, <3>1 DEF Abs
    <2> QED  BY <2>5
  <1> DEFINE best == CHOOSE c \in Near(n, j) : \A d \in Near(n, j) : Abs(c - n) <= Abs(d - n)
  <1>7. best \in Near(n, j)  BY <1>6
  <1>8. Shortest(x) = Like(x, best)  BY DEF Shortest, n, j, J
  <1> HIDE DEF best
  <1> QED  BY <1>5, <1>7, <1>8 DEF n

\* float() is the nearest number: Float, written by units and remainders, is
\* what the conversion of Python promises.
THEOREM FloatIsNearest ==
  ASSUME NEW v \in Int, ~Overflows(v), NEW x \in Numbers
  PROVE  Abs(Float(v) - v) <= Abs(x - v)
  <1> DEFINE n == Abs(v)
             y == Abs(x)
             m == Round(n)
  <1>1. Two[TopBit] \in Nat \ {0} /\ Two[TopBit + 1] = 2 * Two[TopBit]
    BY TwoGrows, TokensAssumption DEF TokensAssumption
  <1>2. n \in Nat /\ n < Two[TopBit + 1]
    <2>1. n \in Nat  BY DEF Abs
    <2> QED  BY <1>1, <2>1 DEF Overflows
  <1>3. x \in Int /\ y \in Nat /\ y < Two[TopBit + 1] /\ Round(y) = y
    <2>1. x \in Int /\ y \in Nat /\ y < Two[TopBit] /\ Round(y) = y  BY SizeOf
    <2> HIDE DEF y
    <2> QED  BY <1>1, <2>1
  <1>4. m \in Nat  BY <1>2, PlaceExists, Rounded
  <1>5. Abs(m - n) <= Abs(y - n)
    <2> HIDE DEF n, y
    <2> QED  BY <1>2, <1>3, RoundIsNearest DEF m
  <1>6. Float(v) = Like(v, m)  BY DEF Float
  <1> HIDE DEF m
  <1>7. Abs(Float(v) - v) = Abs(m - n)  BY <1>4, <1>6 DEF Like, Abs, n
  <1>8. Abs(y - n) <= Abs(x - v)  BY <1>3 DEF Abs, n, y
  <1>9. Abs(m - n) \in Int /\ Abs(y - n) \in Int /\ Abs(x - v) \in Int
    BY <1>2, <1>3, <1>4 DEF Abs
  <1> QED  BY <1>5, <1>7, <1>8, <1>9

\* What a number is written as reads as that number: it rounds to it, and is
\* how the result is written.
LEMMA WrittenReadsBack ==
  ASSUME NEW x \in Numbers, Written(x) # Exponential
  PROVE  Written(x) \in Int /\ Adapted(Written(x)) = x
  <1>1. Written(x) = Shortest(x)  BY DEF Written
  <1>2. PICK c \in Nat : Shortest(x) = Like(x, c) /\ c < Two[TopBit] /\ Round(c) = Abs(x)
    BY ShortestRounds
  <1> DEFINE t == Like(x, c)
  <1>3. Written(x) = t  BY <1>1, <1>2
  <1>4. x \in Int /\ Abs(x) \in Nat /\ Abs(x) < Two[TopBit]  BY SizeOf
  <1>5. Two[TopBit] \in Nat \ {0} /\ Two[TopBit + 1] = 2 * Two[TopBit] /\ Two[Precision] \in Nat \ {0}
    BY TwoGrows, TokensAssumption DEF TokensAssumption
  <1>6. t \in Int /\ Abs(t) = c  BY <1>2, <1>4 DEF Like, Abs
  <1>7. x < 0 => t < 0
    <2>1. Round(0) = 0  BY <1>5, RoundSmall
    <2>2. x < 0 => c # 0  BY <1>2, <1>4, <2>1 DEF Abs
    <2> QED  BY <1>2, <1>4, <2>2 DEF Like
  <1>8. x >= 0 => t >= 0  BY <1>2, <1>4 DEF Like
  <1>9. Float(t) = x
    <2>1. Float(t) = Like(t, Abs(x))  BY <1>2, <1>6 DEF Float
    <2> HIDE DEF t
    <2> QED  BY <1>4, <1>6, <1>7, <1>8, <2>1 DEF Like, Abs
  <1> HIDE DEF t
  <1>10. CASE Safe(t)
    <2>1. t = x  BY <1>6, <1>9, <1>10, SafeFloat
    <2> QED  BY <1>3, <1>6, <1>10, <2>1 DEF Adapted
  <1>11. CASE ~Safe(t)
    <2>1. ~Overflows(t)  BY <1>2, <1>4, <1>5, <1>6, <1>9 DEF Overflows
    <2>2. Written(Float(t)) = t  BY <1>3, <1>9
    <2> QED  BY <1>3, <1>6, <1>9, <1>11, <2>1, <2>2 DEF Adapted
  <1> QED  BY <1>10, <1>11

LEMMA NumberReads ==
  ASSUME NEW x \in Numbers
  PROVE  Adapted(x) = x
  BY DEF Numbers, Adapted

\* What is read is a number, and the token is that number or how it is written.
LEMMA ReadsNumber ==
  ASSUME NEW v \in Int, Adapted(v) # Rejected
  PROVE  /\ Adapted(v) \in Numbers
         /\ v = Adapted(v) \/ v = Written(Adapted(v))
  <1>1. Two[TopBit] \in Nat \ {0} /\ Two[TopBit + 1] \in Nat \ {0} /\ Two[Precision] \in Nat \ {0}
        /\ Two[Precision] <= Two[TopBit] /\ Two[TopBit] < Two[TopBit + 1]
    BY TwoGrows, TwoMonotone, TokensAssumption DEF TokensAssumption
  <1>2. Abs(v) \in Nat  BY DEF Abs
  <1>3. CASE Safe(v)
    <2>1. v \in -Two[TopBit] .. Two[TopBit]  BY <1>1, <1>3 DEF Safe, Abs
    <2> QED  BY <1>3, <2>1 DEF Adapted, Numbers
  <1>4. CASE ~Safe(v)
    <2> DEFINE n == Abs(v)
               m == Round(n)
               x == Float(v)
    <2>1. ~Overflows(v) /\ Adapted(v) = x /\ (x = v \/ Written(x) = v)
      BY <1>4 DEF Adapted
    <2>2. n < Two[TopBit + 1] /\ ~(Abs(x) >= Two[TopBit])
      BY <1>1, <1>2, <2>1 DEF Overflows
    <2>3. PICK e \in 0 .. TopBit : IsPlace(n, e)  BY <1>2, <2>2, PlaceExists
    <2>4. m \in Nat  BY <1>2, <2>3, Rounded
    <2>5. x = Like(v, m)  BY DEF Float
    <2> HIDE DEF m
    <2>6. Abs(x) = m /\ x \in Int  BY <2>4, <2>5 DEF Like, Abs
    <2>7. m < Two[TopBit]  BY <1>1, <2>2, <2>4, <2>6
    <2>8. Round(m) = m  BY <1>2, <2>2, <2>7, RoundTwice DEF m
    <2>9. Float(x) = Like(x, m)  BY <2>6, <2>8 DEF Float
    <2> HIDE DEF x, n
    <2>10. Float(x) = x  BY <2>6, <2>9 DEF Like, Abs
    <2>11. ~Overflows(x)  BY <1>1, <2>4, <2>6, <2>7, <2>10 DEF Overflows
    <2>12. x \in -Two[TopBit] .. Two[TopBit]  BY <1>1, <2>4, <2>6, <2>7 DEF Abs
    <2>13. x \in Numbers  BY <2>10, <2>11, <2>12 DEF Numbers
    <2> QED  BY <2>1, <2>13
  <1> QED  BY <1>3, <1>4

-----------------------------------------------------------------------------
(* The steps.                                                              *)

\* A token that stands for a number is how the number is written; what is read
\* and signed follows from the token.
IInv ==
  /\ token = None => read = None
  /\ read \in {None, Rejected} => signed = None
  /\ token # None =>
       /\ token \in Int
       /\ wrote # Any => wrote \in Numbers /\ token = Written(wrote)
       /\ read \in {None, Adapted(token)}
  /\ signed # None => signed = Written(read)
  /\ wrote = None <=> token = None

LEMMA Invariant == Spec => []IInv
  <1>1. Init => IInv
    BY TokensAssumption DEF Init, IInv, TokensAssumption
  <1>2. IInv /\ [Next]_vars => IInv'
    <2> SUFFICES ASSUME IInv, [Next]_vars  PROVE IInv'
      OBVIOUS
    <2>0. /\ None # Any /\ None # Rejected
          /\ None \notin Int /\ Any \notin Int /\ Rejected \notin Int /\ Exponential \notin Int
      BY TokensAssumption DEF TokensAssumption
    <2>1. ASSUME NEW x \in Numbers, Stringify(x)  PROVE IInv'
      <3>1. Written(x) \in Int /\ x \in Int  BY <2>1, WrittenReadsBack, SizeOf DEF Stringify
      <3> QED  BY <2>0, <2>1, <3>1 DEF Stringify, IInv
    <2>2. ASSUME NEW v \in Tokens, WriteInteger(v)  PROVE IInv'
      <3>1. v \in Int  BY TokensAssumption DEF Tokens, TokensAssumption
      <3> QED  BY <2>0, <2>2, <3>1 DEF WriteInteger, IInv
    <2>3. CASE Read
      <3>1. Adapted(token) # None
        <4>1. Adapted(token) # Rejected => Adapted(token) \in Int
          BY <2>3, ReadsNumber, SizeOf DEF Read, IInv
        <4> QED  BY <2>0, <4>1
      <3> QED  BY <2>0, <2>3, <3>1 DEF Read, IInv
    <2>4. CASE Sign
      BY <2>0, <2>4 DEF Sign, IInv
    <2>5. CASE Answer
      BY <2>0, <2>5 DEF Answer, IInv
    <2>6. CASE UNCHANGED vars
      BY <2>6 DEF vars, IInv
    <2> QED  BY <2>1, <2>2, <2>3, <2>4, <2>5, <2>6 DEF Next
  <1> QED  BY <1>1, <1>2, PTL DEF Spec

\* What a handler reads under the invariant is the number, or no number.
LEMMA ReadIsNumber ==
  ASSUME IInv, read # None, read # Rejected
  PROVE  /\ token \in Int /\ read = Adapted(token) /\ read \in Numbers
         /\ token = read \/ token = Written(read)
  <1>1. token \in Int /\ read = Adapted(token)  BY DEF IInv
  <1> QED  BY <1>1, ReadsNumber

\* Types: what the service takes a token for is a floating-point number or
\* nothing, whatever integer is sent.
TypeOK ==
  /\ wrote \in Numbers \cup {Any, None}
  /\ token \in Int \cup {None}
  /\ read \in Numbers \cup {Rejected, None}
  /\ signed \in Int \cup {Exponential, None}

THEOREM TypeCorrect == Spec => []TypeOK
  <1>1. IInv => TypeOK
    <2> SUFFICES ASSUME IInv  PROVE TypeOK
      OBVIOUS
    <2>1. wrote \in Numbers \cup {Any, None} /\ token \in Int \cup {None}  BY DEF IInv
    <2>2. read \in Numbers \cup {Rejected, None}  BY ReadIsNumber
    <2>3. signed \in Int \cup {Exponential, None}
      <3>1. CASE signed = None  BY <3>1
      <3>2. CASE signed # None
        <4>1. signed = Written(read) /\ read \in Numbers  BY <3>2, ReadIsNumber DEF IInv
        <4> QED  BY <4>1, WrittenReadsBack
      <3> QED  BY <3>1, <3>2
    <2> QED  BY <2>1, <2>2, <2>3 DEF TypeOK
  <1> QED  BY <1>1, Invariant, PTL

\* The number JSON.stringify wrote is the number read, and its own digits are
\* signed: _binary64_numbers undoes what rfc8785.dumps does.
THEOREM ClientAndServiceAgree == Spec => []StringifiedIsSigned
  <1>1. IInv => StringifiedIsSigned
    <2> SUFFICES ASSUME IInv, wrote \in Int, read # None
                 PROVE  read = wrote /\ signed \in {None, token}
      BY DEF StringifiedIsSigned
    <2>1. wrote # Any /\ wrote # None  BY TokensAssumption DEF TokensAssumption
    <2>2. wrote \in Numbers /\ token = Written(wrote) /\ token \in Int /\ read = Adapted(token)
      BY <2>1 DEF IInv
    <2>3. token # Exponential  BY <2>2, TokensAssumption DEF TokensAssumption
    <2>4. read = wrote  BY <2>2, <2>3, WrittenReadsBack
    <2> QED  BY <2>2, <2>4 DEF IInv
  <1> QED  BY <1>1, Invariant, PTL

\* Accepted are the floating-point numbers and their canonical spellings: every
\* other integer is refused, and none of these.
THEOREM ExactlyNumbers == Spec => []OnlyNumbersAreRead
  <1>1. IInv => OnlyNumbersAreRead
    <2> SUFFICES ASSUME IInv, read # None
                 PROVE  read # Rejected <=> \E x \in Numbers : token = x \/ token = Written(x)
      BY DEF OnlyNumbersAreRead
    <2>1. token \in Int /\ read = Adapted(token)  BY DEF IInv
    <2>2. ASSUME read # Rejected
          PROVE  \E x \in Numbers : token = x \/ token = Written(x)
      BY <2>2, ReadIsNumber
    <2>3. ASSUME NEW x \in Numbers, token = x \/ token = Written(x)
          PROVE  read # Rejected
      <3>1. token # Exponential  BY <2>1, TokensAssumption DEF TokensAssumption
      <3>2. Adapted(token) = x  BY <2>3, <3>1, NumberReads, WrittenReadsBack
      <3> QED  BY <2>1, <3>2, SizeOf, TokensAssumption DEF TokensAssumption
    <2> QED  BY <2>2, <2>3
  <1> QED  BY <1>1, Invariant, PTL

\* What was signed is itself accepted, as the number that was signed: whoever
\* verifies the canonical bytes computes the same digest from them.
THEOREM SignedReadsBack ==
  Spec => [](signed \in Int => Adapted(signed) = read /\ Written(Adapted(signed)) = signed)
  <1>1. IInv => (signed \in Int => Adapted(signed) = read /\ Written(Adapted(signed)) = signed)
    <2> SUFFICES ASSUME IInv, signed \in Int
                 PROVE  Adapted(signed) = read /\ Written(Adapted(signed)) = signed
      OBVIOUS
    <2>1. signed # None /\ signed # Exponential  BY TokensAssumption DEF TokensAssumption
    <2>2. signed = Written(read) /\ read \in Numbers  BY <2>1, ReadIsNumber DEF IInv
    <2> QED  BY <2>1, <2>2, WrittenReadsBack
  <1> QED  BY <1>1, Invariant, PTL
=============================================================================
