------------------------- MODULE ArithmeticLemmas -------------------------
(***************************************************************************)
(* Facts about division, multiples and least elements that the proofs      *)
(* about block addresses, disk layouts and directory searches rest on.     *)
(***************************************************************************)
EXTENDS Integers, FiniteSetsExt, WellFoundedInduction, TLAPS

----------------------------------------------------------------------------
(* Division and multiples.                                                 *)

\* Integer division is determined by the interval that holds the dividend.
LEMMA DivUnique ==
  \A n \in Nat \ {0}, q \in Nat, x \in Int :
    (n * q <= x /\ x < n * q + n) => x \div n = q
  OBVIOUS

\* Division with remainder, as itog, dtog and the alignment tests use it.
LEMMA DivMod ==
  \A n \in Nat \ {0}, x \in Int :
    /\ x \div n \in Int
    /\ x % n \in 0 .. n - 1
    /\ x = n * (x \div n) + (x % n)
  OBVIOUS

\* A remainder lies below its divisor.
LEMMA ModType ==
  ASSUME NEW n \in Nat \ {0}, NEW x \in Int  PROVE x % n \in 0 .. n - 1
  BY DivMod

\* Multiples of n grow by at least n.
LEMMA MulMono ==
  \A n \in Nat \ {0}, p, q \in Int : p < q => n * p + n <= n * q
  OBVIOUS

\* The order of multiples is the order of their factors.
LEMMA MulCancel ==
  \A n \in Nat \ {0}, p, q \in Int : n * p < n * q => p < q
  OBVIOUS

\* Two multiples of n that differ are at least n apart.
LEMMA MultiplesApart ==
  ASSUME NEW n \in Nat \ {0}, NEW x \in Int, NEW y \in Int,
         x % n = 0, y % n = 0, x < y
  PROVE  x + n <= y
<1> DEFINE p == x \div n
           q == y \div n
<1>1. p \in Int /\ x = n * p  BY DivMod
<1>2. q \in Int /\ y = n * q  BY DivMod
<1> HIDE DEF p, q
<1>3. p < q  BY <1>1, <1>2, MulCancel
<1> QED  BY <1>1, <1>2, <1>3, MulMono

\* The quotient counts the whole steps that fit.
LEMMA DivLess ==
  ASSUME NEW n \in Nat \ {0}, NEW x \in Nat, NEW k \in Int
  PROVE  n * k + n <= x <=> k < x \div n
<1> DEFINE q == x \div n
<1>1. q \in Int /\ x % n \in 0 .. n - 1 /\ x = n * q + (x % n)  BY DivMod
<1> HIDE DEF q
<1>2. k < q => n * k + n <= n * q  BY <1>1, MulMono
<1>3. q <= k => n * q <= n * k
  <2>1. q < k => n * q + n <= n * k  BY <1>1, MulMono
  <2> QED  BY <1>1, <2>1
<1>4. n * q \in Int /\ n * k \in Int  BY <1>1
<1>5. CASE k < q  BY <1>1, <1>2, <1>4, <1>5 DEF q
<1>6. CASE ~(k < q)
  <2>1. n * q <= n * k  BY <1>1, <1>3, <1>6
  <2> QED  BY <1>1, <1>4, <1>6, <2>1 DEF q
<1> QED  BY <1>5, <1>6

----------------------------------------------------------------------------
(* Least elements.                                                         *)

\* A non-empty set of naturals has a least element, which Min returns (the
\* allocator takes the first free block of the first group with room).
LEMMA MinInSet ==
  ASSUME NEW S, S \subseteq Nat, S # {}
  PROVE  Min(S) \in S /\ \A y \in S : Min(S) <= y
<1> DEFINE R == OpToRel(<, Nat)
<1>1. PICK x \in S : \A y \in S : ~ (<<y, x>> \in R)
  <2>1. IsWellFoundedOn(R, Nat)  BY NatLessThanWellFounded
  <2> HIDE DEF R
  <2> QED  BY <2>1, WFMin
<1>2. \A y \in S : x <= y
  <2> SUFFICES ASSUME NEW y \in S  PROVE x <= y  OBVIOUS
  <2>1. ~ (y < x)  BY <1>1 DEF OpToRel
  <2> QED  BY <2>1
<1> QED  BY <1>2 DEF Min

\* A least member is what Min returns.
LEMMA MinIs ==
  ASSUME NEW S, S \subseteq Nat, NEW m \in S, \A y \in S : m <= y
  PROVE  Min(S) = m
<1> DEFINE x == Min(S)
<1>1. x \in S /\ \A y \in S : x <= y  BY MinInSet
<1> HIDE DEF x
<1>2. x \in Nat /\ m \in Nat  BY <1>1
<1>3. x <= m /\ m <= x  BY <1>1
<1>4. x = m  BY <1>2, <1>3
<1> QED  BY <1>4 DEF x

----------------------------------------------------------------------------
(* Functions defined step by step.                                         *)

Steps(S, n) == [1 .. n -> [S -> S]]

IsStepwise(f, S, n, a, g) ==
  /\ f \in [0 .. n -> S]
  /\ f[0] = a /\ \A k \in 1 .. n : f[k] = g[k][f[k - 1]]

\* A function may be defined by its first value and by each value from the
\* one before: it is built up to k from what it is up to k - 1.
LEMMA StepwiseExists ==
  ASSUME NEW S, NEW n \in Nat, NEW a \in S, NEW g \in Steps(S, n)
  PROVE  \E f : IsStepwise(f, S, n, a, g)
<1> USE DEF Steps
<1> DEFINE Upto(k) ==
             \E f \in [0 .. k -> S] :
               f[0] = a /\ \A r \in 1 .. k : f[r] = g[r][f[r - 1]]
           Bad == {k \in 0 .. n : ~ Upto(k)}
<1>1. Bad = {}
  <2> SUFFICES ASSUME Bad # {}  PROVE FALSE  OBVIOUS
  <2> DEFINE m == Min(Bad)
  <2>1. Bad \subseteq Nat  OBVIOUS
  <2>2. m \in Bad /\ \A k \in Bad : m <= k
    <3> HIDE DEF Bad
    <3> QED  BY <2>1, MinInSet
  <2> HIDE DEF m
  <2>3. m \in 0 .. n /\ ~ Upto(m)  BY <2>2
  <2>4. m # 0
    <3> DEFINE z == [i \in 0 .. 0 |-> a]
    <3>1. z \in [0 .. 0 -> S] /\ z[0] = a /\ 1 .. 0 = {}  OBVIOUS
    <3> HIDE DEF z
    <3>2. Upto(0)  BY <3>1
    <3> QED  BY <2>3, <3>2
  <2>5. m - 1 \in 0 .. n /\ m \in 1 .. n /\ m \in Nat  BY <2>3, <2>4
  <2>6. Upto(m - 1)
    <3>1. m - 1 \notin Bad
      <4>1. m \in Int /\ ~ (m <= m - 1)  BY <2>3
      <4> HIDE DEF Bad
      <4> QED  BY <2>2, <4>1
    <3> QED  BY <2>5, <3>1
  <2>7. PICK f \in [0 .. m - 1 -> S] :
          f[0] = a /\ \A r \in 1 .. m - 1 : f[r] = g[r][f[r - 1]]
    BY <2>6
  <2> DEFINE h == [i \in 0 .. m |-> IF i = m THEN g[m][f[m - 1]] ELSE f[i]]
  <2>8. g[m][f[m - 1]] \in S
    <3>1. m - 1 \in 0 .. m - 1  BY <2>5
    <3>2. f[m - 1] \in S /\ g[m] \in [S -> S]  BY <2>5, <2>7, <3>1
    <3> QED  BY <3>2
  <2>9. h \in [0 .. m -> S]
    <3>1. \A i \in 0 .. m : i # m => i \in 0 .. m - 1  BY <2>5
    <3> QED  BY <2>8, <3>1
  <2>10. h[0] = a /\ \A r \in 1 .. m : h[r] = g[r][h[r - 1]]
    <3>1. h[0] = a  BY <2>4, <2>5, <2>7
    <3>2. ASSUME NEW r \in 1 .. m  PROVE h[r] = g[r][h[r - 1]]
      <4>1. r - 1 \in 0 .. m /\ r - 1 # m /\ r \in 0 .. m  BY <2>5
      <4>2. h[r - 1] = f[r - 1]  BY <4>1
      <4>3. CASE r = m  BY <4>1, <4>2, <4>3
      <4>4. CASE r # m
        <5>1. r \in 1 .. m - 1  BY <2>5, <4>4
        <5>2. h[r] = f[r]  BY <4>1, <4>4
        <5> QED  BY <2>7, <4>2, <5>1, <5>2
      <4> QED  BY <4>3, <4>4
    <3> QED  BY <3>1, <3>2
  <2> HIDE DEF h
  <2>11. Upto(m)  BY <2>9, <2>10
  <2> QED  BY <2>3, <2>11
<1>2. n \in 0 .. n  OBVIOUS
<1> QED  BY <1>1, <1>2 DEF IsStepwise

============================================================================
