----------------------------- MODULE LeastIndex -----------------------------
(***************************************************************************)
(* Facts about natural numbers that the proofs share.  The finders of      *)
(* quo.c and sub.c return the first cell that matches, which takes that    *)
(* there is a first one; and what is defined along a list or a table takes *)
(* that such definitions exist.  Induction is stated for sets of numbers,  *)
(* and recursion for functions that are the step.  The decimal numbers are *)
(* divided and multiplied, which the provers know little about.            *)
(***************************************************************************)
EXTENDS Integers, FiniteSetTheorems, WellFoundedInduction, TLAPS

\* A set of places that is not empty has a first one: among the intervals
\* 1 .. i there is one that contains no other.
LEMMA Least ==
    ASSUME NEW I, I \subseteq Nat, I # {}
    PROVE  \E i \in I : \A j \in I : i <= j
<1> DEFINE T == {1 .. i : i \in I}
<1>1. T \subseteq FiniteSubsetsOf(Nat) /\ T # {}
  <2>1. ASSUME NEW i \in I
        PROVE  1 .. i \in FiniteSubsetsOf(Nat)
    <3>1. IsFiniteSet(1 .. i)
      BY FS_Interval
    <3>2. QED
      BY <3>1 DEF FiniteSubsetsOf
  <2>2. QED
    BY <2>1
<1>2. PICK x \in T : \A y \in T : <<y, x>> \notin StrictSubsetOrdering(Nat)
  <2> HIDE DEF T
  <2>1. QED
    BY <1>1, FS_StrictSubsetOrderingWellFounded, WFMin, Zenon
<1>3. PICK i \in I : x = 1 .. i
  OBVIOUS
<1>4. ASSUME NEW j \in I
      PROVE  i <= j
  <2>1. SUFFICES ASSUME j < i
                 PROVE  FALSE
    OBVIOUS
  <2>2. 1 .. j \in T /\ 1 .. j \subseteq Nat /\ 1 .. i \subseteq Nat
    OBVIOUS
  <2>3. 1 .. j \subseteq 1 .. i
    BY <2>1
  <2>4. i \in 1 .. i /\ i \notin 1 .. j
    BY <2>1
  <2>5. QED
    BY <1>2, <1>3, <2>2, <2>3, <2>4 DEF StrictSubsetOrdering
<1>5. QED
  BY <1>4

\* A set that has 0, and with a number the next one, has all.
LEMMA Induction ==
    ASSUME NEW B, 0 \in B, \A n \in Nat : n \in B => n + 1 \in B
    PROVE  Nat \subseteq B
<1> DEFINE I == Nat \ B
<1>1. SUFFICES ASSUME I # {}
               PROVE  FALSE
  OBVIOUS
<1>2. PICK i \in I : \A j \in I : i <= j
  <2>1. I \subseteq Nat
    OBVIOUS
  <2> HIDE DEF I
  <2>2. QED
    BY <1>1, <2>1, Least
<1>3. i # 0 /\ i - 1 \in Nat /\ i - 1 + 1 = i
  OBVIOUS
<1>4. i - 1 \in I
  BY <1>3
<1>5. QED
  BY <1>2, <1>3, <1>4

\* g begins with a and goes on by the step F.
Recurs(g, a, F) == g[0] = a /\ \A n \in Nat : g[n + 1] = F[<<n, g[n]>>]

\* From a start and a step there is a function that begins with the one and
\* goes on by the other.
LEMMA Recursion ==
    ASSUME NEW S, NEW a \in S, NEW F \in [Nat \X S -> S]
    PROVE  \E g \in [Nat -> S] : Recurs(g, a, F)
<1> DEFINE Up(m, g) == g[0] = a /\ \A n \in Nat : n < m => g[n + 1] = F[<<n, g[n]>>]
           B == {m \in Nat : \E g \in [Nat -> S] : Up(m, g)}
<1>1. Nat \subseteq B
  <2>1. 0 \in B
    <3>1. [n \in Nat |-> a] \in [Nat -> S] /\ Up(0, [n \in Nat |-> a])
      OBVIOUS
    <3>2. QED
      BY <3>1
  <2>2. ASSUME NEW m \in Nat, m \in B
        PROVE  m + 1 \in B
    <3>1. PICK g \in [Nat -> S] : Up(m, g)
      BY <2>2
    <3> DEFINE h == [n \in Nat |-> IF n = m + 1 THEN F[<<m, g[m]>>] ELSE g[n]]
    <3>2. h \in [Nat -> S]
      OBVIOUS
    <3>3. h[0] = a
      BY <3>1
    <3>4. ASSUME NEW n \in Nat, n < m + 1
          PROVE  h[n + 1] = F[<<n, h[n]>>]
      <4>1. h[n] = g[n]
        BY <3>4
      <4>2. CASE n = m
        BY <4>1, <4>2
      <4>3. CASE n # m
        <5>1. n < m /\ n + 1 # m + 1 /\ n + 1 \in Nat
          BY <3>4, <4>3
        <5>2. h[n + 1] = g[n + 1] /\ g[n + 1] = F[<<n, g[n]>>]
          BY <3>1, <5>1
        <5>3. QED
          BY <4>1, <5>2
      <4>4. QED
        BY <4>2, <4>3
    <3>5. Up(m + 1, h)
      BY <3>3, <3>4
    <3> HIDE DEF h, Up
    <3>6. QED
      BY <3>2, <3>5
  <2> HIDE DEF B
  <2>3. QED
    BY <2>1, <2>2, Induction
<1>2. \A m \in Nat : \A g, h \in [Nat -> S] :
         Up(m, g) /\ Up(m, h) => \A n \in 0 .. m : g[n] = h[n]
  <2> SUFFICES ASSUME NEW m \in Nat, NEW g \in [Nat -> S], NEW h \in [Nat -> S],
                      Up(m, g), Up(m, h)
               PROVE  \A n \in 0 .. m : g[n] = h[n]
    OBVIOUS
  <2> DEFINE E == {n \in Nat : n <= m => g[n] = h[n]}
  <2>1. 0 \in E
    OBVIOUS
  <2>2. ASSUME NEW n \in Nat, n \in E
        PROVE  n + 1 \in E
    <3>1. SUFFICES ASSUME n + 1 <= m
                   PROVE  g[n + 1] = h[n + 1]
      OBVIOUS
    <3>2. n < m /\ g[n] = h[n]
      BY <2>2, <3>1
    <3>3. g[n + 1] = F[<<n, g[n]>>] /\ h[n + 1] = F[<<n, h[n]>>]
      BY <3>2
    <3>4. QED
      BY <3>2, <3>3
  <2>3. Nat \subseteq E
    <3> HIDE DEF E
    <3>1. QED
      BY <2>1, <2>2, Induction
  <2>4. QED
    BY <2>3
<1> DEFINE G(m) == CHOOSE g \in [Nat -> S] : Up(m, g)
           f == [n \in Nat |-> G(n)[n]]
<1>3. \A m \in Nat : G(m) \in [Nat -> S] /\ Up(m, G(m))
  <2> HIDE DEF Up
  <2>1. QED
    BY <1>1
<1>4. ASSUME NEW n \in Nat
      PROVE  f[n + 1] = F[<<n, f[n]>>]
  <2> HIDE DEF G
  <2>1. n + 1 \in Nat /\ n < n + 1 /\ n \in 0 .. n
    OBVIOUS
  <2>2. Up(n, G(n + 1))
    BY <1>3, <2>1
  <2>3. G(n + 1)[n] = G(n)[n]
    <3> HIDE DEF Up
    <3>1. QED
      BY <1>2, <1>3, <2>1, <2>2
  <2>4. G(n + 1)[n + 1] = F[<<n, G(n + 1)[n]>>]
    BY <1>3, <2>1
  <2>5. QED
    BY <2>1, <2>3, <2>4
<1>5. f \in [Nat -> S] /\ f[0] = a
  <2> HIDE DEF G
  <2>1. QED
    BY <1>3
<1> HIDE DEF f
<1>6. QED
  BY <1>4, <1>5 DEF Recurs

\* The same up to a number.
LEMMA InductionTo ==
    ASSUME NEW N \in Nat, NEW B, 0 \in B,
           \A n \in Nat : n < N /\ n \in B => n + 1 \in B
    PROVE  0 .. N \subseteq B
<1> DEFINE D == {n \in Nat : n <= N => n \in B}
<1>1. 0 \in D
  OBVIOUS
<1>2. ASSUME NEW n \in Nat, n \in D
      PROVE  n + 1 \in D
  BY <1>2
<1>3. Nat \subseteq D
  <2> HIDE DEF D
  <2>1. QED
    BY <1>1, <1>2, Induction
<1>4. QED
  BY <1>3

RecursTo(g, a, F, N) == g[0] = a /\ \A n \in 1 .. N : g[n] = F[<<n - 1, g[n - 1]>>]

\* A function on 0 .. N.
LEMMA RecursionTo ==
    ASSUME NEW S, NEW a \in S, NEW F \in [Nat \X S -> S], NEW N \in Nat
    PROVE  \E g \in [0 .. N -> S] : RecursTo(g, a, F, N)
<1>1. PICK f \in [Nat -> S] : Recurs(f, a, F)
  BY Recursion
<1> DEFINE g == [n \in 0 .. N |-> f[n]]
<1>2. g \in [0 .. N -> S] /\ g[0] = a
  BY <1>1 DEF Recurs
<1>3. ASSUME NEW n \in 1 .. N
      PROVE  g[n] = F[<<n - 1, g[n - 1]>>]
  <2>1. n - 1 \in Nat /\ n - 1 \in 0 .. N /\ n \in 0 .. N /\ (n - 1) + 1 = n
    OBVIOUS
  <2>2. f[(n - 1) + 1] = F[<<n - 1, f[n - 1]>>]
    BY <1>1, <2>1 DEF Recurs
  <2>3. QED
    BY <2>1, <2>2
<1> HIDE DEF g
<1>4. QED
  BY <1>2, <1>3 DEF RecursTo

-----------------------------------------------------------------------------
(* Multiplying and dividing.                                                *)

\* A product grows with its factors.
LEMMA Times ==
    ASSUME NEW a \in Nat, NEW b \in Nat, NEW c \in Nat, b <= c
    PROVE  a * b \in Nat /\ a * b <= a * c
<1>1. PICK d \in Nat : c = b + d
  <2>1. c - b \in Nat /\ c = b + (c - b)
    OBVIOUS
  <2>2. QED
    BY <2>1
<1>2. a * c = a * b + a * d
  BY <1>1
<1>3. a * d \in Nat /\ a * b \in Nat
  OBVIOUS
<1>4. QED
  BY <1>2, <1>3

\* Quotient and remainder.
LEMMA DivMod ==
    ASSUME NEW m \in Nat, NEW a \in Nat \ {0}
    PROVE  /\ m \div a \in Nat /\ m % a \in 0 .. a - 1
           /\ m = a * (m \div a) + (m % a)
<1>1. m \div a \in Int
  OBVIOUS
<1>2. m % a \in 0 .. a - 1
  OBVIOUS
<1>3. m = a * (m \div a) + (m % a)
  OBVIOUS
<1>4. m \div a >= 0
  <2>1. SUFFICES ASSUME m \div a + 1 <= 0
                 PROVE  FALSE
    BY <1>1
  <2>2. PICK d \in Nat : m \div a = - d - 1
    <3>1. - (m \div a) - 1 \in Nat
      BY <1>1, <2>1
    <3>2. QED
      BY <1>1, <3>1
  <2>3. a * (m \div a) = - (a * d) - a
    BY <2>2
  <2>4. a * d \in Nat
    BY Times
  <2>5. QED
    BY <1>2, <1>3, <2>3, <2>4
<1>5. QED
  BY <1>1, <1>2, <1>3, <1>4

\* There is but one way to divide.
LEMMA DivUnique ==
    ASSUME NEW a \in Nat \ {0}, NEW q \in Nat, NEW p \in Nat,
           NEW r \in 0 .. a - 1, NEW s \in 0 .. a - 1, a * q + r = a * p + s
    PROVE  q = p /\ r = s
<1>1. ASSUME NEW x \in Nat, NEW y \in Nat, NEW u \in 0 .. a - 1, NEW v \in 0 .. a - 1,
             a * x + u = a * y + v, x < y
      PROVE  FALSE
  <2>1. a * (x + 1) <= a * y
    BY <1>1, Times
  <2>2. a * (x + 1) = a * x + a
    OBVIOUS
  <2>3. QED
    BY <1>1, <2>1, <2>2
<1>2. ~(q < p) /\ ~(p < q)
  BY <1>1
<1>3. QED
  BY <1>2

\* So one that is written down is the one the operators find.
LEMMA Divides ==
    ASSUME NEW a \in Nat \ {0}, NEW q \in Nat, NEW r \in 0 .. a - 1
    PROVE  (a * q + r) \div a = q /\ (a * q + r) % a = r
<1> DEFINE m == a * q + r
<1>1. m \in Nat
  BY Times
<1> HIDE DEF m
<1>2. m \div a \in Nat /\ m % a \in 0 .. a - 1 /\ m = a * (m \div a) + (m % a)
  BY <1>1, DivMod
<1>3. a * (m \div a) + (m % a) = a * q + r
  BY <1>2 DEF m
<1>4. QED
  BY <1>2, <1>3, DivUnique DEF m

\* Dividing by a product is dividing by one factor and then by the other.
InTwo(m, a, b) == /\ a * b \in Nat \ {0}
                  /\ m \div (a * b) = (m \div a) \div b
                  /\ m % (a * b) = (m % a) + a * ((m \div a) % b)

LEMMA DivDiv ==
    ASSUME NEW m \in Nat, NEW a \in Nat \ {0}, NEW b \in Nat \ {0}
    PROVE  InTwo(m, a, b)
<1> DEFINE q == m \div a
           r == m % a
           p == q \div b
           s == q % b
<1>1. q \in Nat /\ r \in 0 .. a - 1 /\ m = a * q + r
  BY DivMod
<1> HIDE DEF q, r
<1>2. p \in Nat /\ s \in 0 .. b - 1 /\ q = b * p + s
  BY <1>1, DivMod
<1> HIDE DEF p, s
<1>3. a * b \in Nat \ {0}
  <2>1. a * 1 <= a * b /\ a * b \in Nat
    BY Times
  <2>2. QED
    BY <2>1
<1>4. m = (a * b) * p + (a * s + r)
  BY <1>1, <1>2
<1>5. a * s + r \in 0 .. (a * b) - 1
  <2>1. a * s <= a * (b - 1) /\ a * s \in Nat
    BY <1>2, Times
  <2>2. a * (b - 1) = a * b - a
    OBVIOUS
  <2>3. QED
    BY <1>1, <2>1, <2>2
<1> DEFINE c == a * b
           t == a * s + r
<1>6. c \in Nat \ {0} /\ t \in 0 .. c - 1 /\ m = c * p + t
  BY <1>3, <1>4, <1>5
<1> HIDE DEF c, t
<1>7. m \div c = p /\ m % c = t
  BY <1>2, <1>6, Divides
<1>8. QED
  BY <1>3, <1>7 DEF InTwo, c, t, p, q, r, s

\* A number below what it is divided by is its own remainder.
LEMMA Small ==
    ASSUME NEW m \in Nat, NEW p \in Nat, m < p
    PROVE  m % p = m /\ m \div p = 0
<1>1. p \in Nat \ {0} /\ m \in 0 .. p - 1 /\ p * 0 + m = m
  OBVIOUS
<1>2. (p * 0 + m) \div p = 0 /\ (p * 0 + m) % p = m
  BY <1>1, Divides
<1>3. QED
  BY <1>1, <1>2

=============================================================================
