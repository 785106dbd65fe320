------------------------------ MODULE PfTwsProofs ------------------------------
(***************************************************************************)
(* The positions daemon, for any accounts, names and number of sessions:   *)
(* a symbol reads as its name for ever, the names fit into their memory,   *)
(* what is published names its own account and instrument, and the         *)
(* accounts are asked for in order, in each session that becomes ready.    *)
(***************************************************************************)
EXTENDS PfTws, LeastIndex, SequenceTheorems

-----------------------------------------------------------------------------
(* The interned names: what intern_pos_name returns and find_intern reads.  *)

Bytes == Char \cup {NUL}

Terminated(src) == Append(src, NUL)

LEMMA TerminatedFacts ==
    ASSUME NEW src \in Strings
    PROVE  /\ Terminated(src) \in Seq(Bytes) /\ src \in Seq(Bytes)
           /\ Len(src) \in Nat
           /\ Len(Terminated(src)) = Len(src) + 1
           /\ \A j \in 1 .. Len(src) : Terminated(src)[j] = src[j] /\ src[j] # NUL
           /\ Terminated(src)[Len(src) + 1] = NUL
<1>1. src \in Seq(Char) /\ NUL \notin Char
  BY InternAssumption
<1>2. src \in Seq(Bytes) /\ NUL \in Bytes /\ Len(src) \in Nat
  BY <1>1, SeqMonotonic, LenProperties DEF Bytes
<1>3. \A j \in 1 .. Len(src) : src[j] \in Char
  BY <1>1, ElementOfSeq
<1>4. QED
  BY <1>1, <1>2, <1>3, AppendProperties DEF Terminated

-----------------------------------------------------------------------------
(* Names in an array that grows.                                            *)

\* What lies in the old part of the array is not disturbed by the new part.
LEMMA OccursGrow ==
    ASSUME NEW h \in Seq(Bytes), NEW t \in Seq(Bytes), NEW n \in Seq(Bytes),
           NEW k \in Nat, k + Len(n) <= Len(h)
    PROVE  Occurs(h \o t, k, n) <=> Occurs(h, k, n)
<1>1. /\ Len(h) \in Nat /\ Len(t) \in Nat /\ Len(n) \in Nat
      /\ Len(h \o t) = Len(h) + Len(t)
      /\ \A i \in 1 .. Len(h) + Len(t) :
             (h \o t)[i] = IF i <= Len(h) THEN h[i] ELSE t[i - Len(h)]
  BY LenProperties, ConcatProperties
<1>2. \A j \in 1 .. Len(n) : (h \o t)[k + j] = h[k + j]
  BY <1>1
<1>3. k + Len(n) <= Len(h \o t)
  BY <1>1
<1>4. QED
  BY <1>2, <1>3 DEF Occurs

LEMMA OccursAtEnd ==
    ASSUME NEW h \in Seq(Bytes), NEW n \in Seq(Bytes)
    PROVE  Occurs(h \o n, Len(h), n)
<1>1. /\ Len(h) \in Nat /\ Len(n) \in Nat
      /\ Len(h \o n) = Len(h) + Len(n)
      /\ \A i \in 1 .. Len(h) + Len(n) :
             (h \o n)[i] = IF i <= Len(h) THEN h[i] ELSE n[i - Len(h)]
  BY LenProperties, ConcatProperties
<1>2. ASSUME NEW j \in 1 .. Len(n)
      PROVE  (h \o n)[Len(h) + j] = n[j]
  <2>1. /\ Len(h) + j \in 1 .. Len(h) + Len(n) /\ ~(Len(h) + j <= Len(h))
        /\ Len(h) + j - Len(h) = j
    BY <1>1
  <2>2. QED
    BY <1>1, <2>1
<1>3. QED
  BY <1>1, <1>2 DEF Occurs

\* The first place where a name lies.
First(h, s, n) == Occurs(h, s, n) /\ \A k \in Nat : k < s => ~Occurs(h, k, n)

LEMMA FirstGrows ==
    ASSUME NEW h \in Seq(Bytes), NEW t \in Seq(Bytes), NEW n \in Seq(Bytes),
           NEW s \in Nat, First(h, s, n)
    PROVE  First(h \o t, s, n)
<1>1. s + Len(n) <= Len(h) /\ Len(h) \in Nat /\ Len(n) \in Nat
  BY LenProperties DEF First, Occurs
<1>2. Occurs(h \o t, s, n)
  BY <1>1, OccursGrow DEF First
<1>3. ASSUME NEW k \in Nat, k < s
      PROVE  ~Occurs(h \o t, k, n)
  <2>1. k + Len(n) <= Len(h)
    BY <1>1, <1>3
  <2>2. QED
    BY <1>3, <2>1, OccursGrow DEF First
<1>4. QED
  BY <1>2, <1>3 DEF First

\* The array is empty or ends with a NUL, so a name that is not in it does
\* not begin in the old part and end in the new one either.
Ended(h) == h # <<>> => h[Len(h)] = NUL

LEMMA FirstAtEnd ==
    ASSUME NEW h \in Seq(Bytes), Ended(h), NEW src \in Strings,
           \A k \in 0 .. Len(h) : ~Occurs(h, k, Terminated(src))
    PROVE  First(h \o Terminated(src), Len(h), Terminated(src))
<1> DEFINE n == Terminated(src)
           g == h \o n
<1>1. /\ n \in Seq(Bytes) /\ Len(h) \in Nat /\ Len(src) \in Nat /\ Len(n) = Len(src) + 1
      /\ \A j \in 1 .. Len(src) : n[j] # NUL
  BY TerminatedFacts, LenProperties
<1>2. /\ Len(g) = Len(h) + Len(n)
      /\ \A i \in 1 .. Len(h) : g[i] = h[i]
  <2>1. Len(n) \in Nat
    BY <1>1
  <2> HIDE DEF n
  <2>2. /\ Len(g) = Len(h) + Len(n)
        /\ \A i \in 1 .. Len(h) + Len(n) :
               g[i] = IF i <= Len(h) THEN h[i] ELSE n[i - Len(h)]
    BY <1>1, ConcatProperties
  <2> HIDE DEF g
  <2>3. \A i \in 1 .. Len(h) : i \in 1 .. Len(h) + Len(n) /\ i <= Len(h)
    BY <1>1, <2>1
  <2>4. QED
    BY <2>2, <2>3
<1>3. Occurs(g, Len(h), n)
  <2> HIDE DEF n
  <2>1. QED
    BY <1>1, OccursAtEnd
<1>4. ASSUME NEW k \in Nat, k < Len(h), Occurs(g, k, n)
      PROVE  FALSE
  <2> HIDE DEF n
  <2>1. CASE k + Len(n) <= Len(h)
    <3>1. Occurs(h, k, n)
      BY <1>1, <1>4, <2>1, OccursGrow
    <3>2. k \in 0 .. Len(h)
      BY <1>1, <1>4
    <3>3. QED
      BY <3>1, <3>2 DEF n
  <2>2. CASE ~(k + Len(n) <= Len(h))
    <3> DEFINE j == Len(h) - k
    <3>1. j \in 1 .. Len(src) /\ j \in 1 .. Len(n) /\ k + j = Len(h)
      BY <1>1, <1>4, <2>2
    <3>2. g[k + j] = n[j]
      <4> HIDE DEF j, g
      <4>1. QED
        BY <1>4, <3>1 DEF Occurs
    <3>3. h # <<>> /\ Len(h) \in 1 .. Len(h)
      BY <1>1, <1>4
    <3>4. g[Len(h)] = NUL
      BY <1>2, <3>3 DEF Ended
    <3>5. QED
      BY <1>1, <3>1, <3>2, <3>4
  <2>3. QED
    BY <2>1, <2>2
<1>5. QED
  BY <1>3, <1>4 DEF First

-----------------------------------------------------------------------------
(* The inductive invariant: a symbol is the first place of its name.        *)

Symbols ==
    /\ pos_names \in Seq(Bytes)
    /\ Ended(pos_names)
    /\ given \subseteq Strings \X Nat
    /\ \A g \in given : First(pos_names, g[2], Terminated(g[1]))

\* What intern_pos_name finds is the first place of the name.
LEMMA SymFirst ==
    ASSUME pos_names \in Seq(Bytes), NEW src \in Strings, Found(src) # {}
    PROVE  sym(src) \in Nat /\ First(pos_names, sym(src), Terminated(src))
<1>1. Len(pos_names) \in Nat /\ Len(Terminated(src)) \in Nat
  BY TerminatedFacts, LenProperties
<1>2. Found(src) = {k \in 0 .. Len(pos_names) : Occurs(pos_names, k, Terminated(src))}
  BY DEF Found, Terminated
<1>3. Found(src) \subseteq Nat
  BY <1>1, <1>2
<1>4. \E k \in Found(src) : \A j \in Found(src) : k <= j
  BY <1>3, Least
<1>5. sym(src) \in Found(src) /\ \A j \in Found(src) : sym(src) <= j
  BY <1>4 DEF sym
<1>6. ASSUME NEW k \in Nat, k < sym(src), Occurs(pos_names, k, Terminated(src))
      PROVE  FALSE
  <2>1. k \in 0 .. Len(pos_names)
    BY <1>1, <1>6 DEF Occurs
  <2>2. k \in Found(src)
    BY <1>2, <1>6, <2>1
  <2>3. QED
    BY <1>3, <1>5, <1>6, <2>2
<1>7. QED
  BY <1>2, <1>3, <1>5, <1>6 DEF First

LEMMA InternHolds ==
    ASSUME Symbols, NEW src \in Strings, intern_pos_name(src)
    PROVE  Symbols'
<1> DEFINE n == Terminated(src)
<1>1. /\ pos_names \in Seq(Bytes) /\ Ended(pos_names) /\ given \subseteq Strings \X Nat
      /\ \A g \in given : First(pos_names, g[2], Terminated(g[1]))
  BY DEF Symbols
<1>2. given' = given \cup {<<src, sym(src)>>}
  BY DEF intern_pos_name
<1>3. CASE Found(src) # {}
  <2>1. pos_names' = pos_names
    BY <1>3 DEF intern_pos_name
  <2>2. sym(src) \in Nat /\ First(pos_names, sym(src), n)
    BY <1>1, <1>3, SymFirst
  <2>3. given' \subseteq Strings \X Nat
    BY <1>1, <1>2, <2>2
  <2>4. \A g \in given' : First(pos_names, g[2], Terminated(g[1]))
    BY <1>1, <1>2, <2>2
  <2>5. QED
    BY <1>1, <2>1, <2>3, <2>4 DEF Symbols
<1>4. CASE Found(src) = {}
  <2>1. pos_names' = pos_names \o n
    BY <1>4 DEF intern_pos_name, Terminated
  <2>2. sym(src) = Len(pos_names) /\ Len(pos_names) \in Nat
    BY <1>1, <1>4, LenProperties DEF sym
  <2>3. /\ n \in Seq(Bytes) /\ Len(src) \in Nat /\ Len(n) = Len(src) + 1
        /\ n[Len(src) + 1] = NUL
    BY TerminatedFacts
  <2>4. First(pos_names', Len(pos_names), n)
    <3>1. \A k \in 0 .. Len(pos_names) : ~Occurs(pos_names, k, n)
      BY <1>4 DEF Found, Terminated
    <3>2. QED
      BY <1>1, <2>1, <3>1, FirstAtEnd
  <2> HIDE DEF n
  <2>5. pos_names' \in Seq(Bytes) /\ Ended(pos_names')
    <3>1. /\ pos_names \o n \in Seq(Bytes)
          /\ Len(pos_names \o n) = Len(pos_names) + Len(n)
          /\ \A i \in 1 .. Len(pos_names) + Len(n) :
                 (pos_names \o n)[i] = IF i <= Len(pos_names) THEN pos_names[i]
                                       ELSE n[i - Len(pos_names)]
      BY <1>1, <2>3, ConcatProperties
    <3> DEFINE L == Len(pos_names) + Len(n)
    <3>2. L \in 1 .. L /\ ~(L <= Len(pos_names)) /\ L - Len(pos_names) = Len(src) + 1
      BY <2>2, <2>3
    <3>3. (pos_names \o n)[L] = NUL
      BY <2>3, <3>1, <3>2
    <3>4. QED
      BY <2>1, <3>1, <3>3 DEF Ended
  <2>6. ASSUME NEW g \in given
        PROVE  First(pos_names', g[2], Terminated(g[1]))
    <3>1. g[1] \in Strings /\ g[2] \in Nat /\ First(pos_names, g[2], Terminated(g[1]))
      BY <1>1
    <3>2. Terminated(g[1]) \in Seq(Bytes)
      BY <3>1, TerminatedFacts
    <3>3. QED
      BY <1>1, <2>1, <2>3, <3>1, <3>2, FirstGrows
  <2>7. \A g \in given' : First(pos_names', g[2], Terminated(g[1]))
    BY <1>2, <2>2, <2>4, <2>6 DEF n
  <2>8. given' \subseteq Strings \X Nat
    BY <1>1, <1>2, <2>2
  <2>9. QED
    BY <2>5, <2>7, <2>8 DEF Symbols
<1>5. QED
  BY <1>3, <1>4

LEMMA SymbolsHold == InternSpec => []Symbols
<1>1. internInit => Symbols
  BY DEF internInit, Symbols, Ended
<1>2. Symbols /\ [internNext]_symVars => Symbols'
  <2> SUFFICES ASSUME Symbols, [internNext]_symVars
               PROVE  Symbols'
    OBVIOUS
  <2>1. CASE internNext
    BY <2>1, InternHolds DEF internNext
  <2>2. CASE UNCHANGED symVars
    BY <2>2 DEF symVars, Symbols
  <2>3. QED
    BY <2>1, <2>2
<1>3. QED
  BY <1>1, <1>2, PTL DEF InternSpec

\* The bytes from the symbol's place to the next NUL are the name.
LEMMA Reading ==
    ASSUME pos_names \in Seq(Bytes), NEW src \in Strings, NEW s \in Nat,
           Occurs(pos_names, s, Terminated(src))
    PROVE  find_intern(s) = src
<1> DEFINE ends == {e \in (s + 1) .. Len(pos_names) : pos_names[e] = NUL}
           e0 == s + Len(src) + 1
<1>1. /\ Len(pos_names) \in Nat /\ Len(src) \in Nat /\ src \in Seq(Bytes)
      /\ s + Len(src) + 1 <= Len(pos_names)
      /\ \A j \in 1 .. Len(src) : pos_names[s + j] = src[j] /\ src[j] # NUL
      /\ pos_names[s + (Len(src) + 1)] = NUL
  BY TerminatedFacts, LenProperties DEF Occurs
<1>2. e0 \in ends
  BY <1>1
<1>3. \A e \in ends : e0 <= e
  <2>1. SUFFICES ASSUME NEW e \in ends, e < e0
                 PROVE  FALSE
    BY <1>1
  <2>2. e - s \in 1 .. Len(src) /\ s + (e - s) = e
    BY <1>1, <2>1
  <2>3. QED
    BY <1>1, <2>1, <2>2
<1>4. (CHOOSE e \in ends : \A f \in ends : e <= f) = e0
  <2>1. \A e \in ends : e \in Nat
    BY <1>1
  <2>2. e0 \in Nat
    BY <1>1
  <2> HIDE DEF ends, e0
  <2>3. \A e \in ends : (\A f \in ends : e <= f) => e = e0
    BY <1>2, <1>3, <2>1, <2>2
  <2>4. QED
    BY <1>2, <1>3, <2>3
<1>5. find_intern(s) = SubSeq(pos_names, s + 1, s + Len(src))
  <2>1. find_intern(s) = SubSeq(pos_names, s + 1, e0 - 1)
    BY <1>4 DEF find_intern
  <2>2. e0 - 1 = s + Len(src)
    BY <1>1
  <2>3. QED
    BY <2>1, <2>2
<1>6. \A i \in (s + 1) .. (s + Len(src)) : pos_names[i] \in Bytes
  BY <1>1, ElementOfSeq
<1> DEFINE r == SubSeq(pos_names, s + 1, s + Len(src))
<1>7. /\ r \in Seq(Bytes)
      /\ Len(r) = Len(src)
      /\ \A i \in 1 .. Len(src) : r[i] = pos_names[s + i]
  <2>1. /\ r \in Seq(Bytes)
        /\ Len(r) = IF s + 1 <= s + Len(src) THEN (s + Len(src)) - (s + 1) + 1 ELSE 0
        /\ \A i \in 1 .. ((s + Len(src)) - (s + 1) + 1) : r[i] = pos_names[(s + 1) + i - 1]
    BY <1>1, <1>6, SubSeqProperties
  <2>2. (s + Len(src)) - (s + 1) + 1 = Len(src)
    BY <1>1
  <2>3. \A i \in 1 .. Len(src) : (s + 1) + i - 1 = s + i
    BY <1>1
  <2>4. ~(s + 1 <= s + Len(src)) => Len(src) = 0
    BY <1>1
  <2> HIDE DEF r
  <2>5. QED
    BY <2>1, <2>2, <2>3, <2>4
<1> HIDE DEF r
<1>8. r = src
  BY <1>1, <1>7, SeqEqual
<1>9. QED
  BY <1>5, <1>8 DEF r

LEMMA NamesRead ==
    ASSUME Symbols
    PROVE  /\ NamesKept
           /\ \A g \in given : find_intern(g[2]) = g[1]
<1>1. \A g \in given : g[1] \in Strings /\ g[2] \in Nat
                       /\ First(pos_names, g[2], Terminated(g[1]))
  BY DEF Symbols
<1>2. ASSUME NEW g \in given
      PROVE  find_intern(g[2]) = g[1]
  BY <1>1, Reading DEF First, Symbols
<1>3. ASSUME NEW g \in given, NEW h \in given, g[1] = h[1]
      PROVE  g[2] = h[2]
  <2>1. ~(g[2] < h[2]) /\ ~(h[2] < g[2])
    BY <1>1, <1>3 DEF First
  <2>2. QED
    BY <1>1, <2>1
<1>4. QED
  BY <1>2, <1>3 DEF NamesKept

\* Every symbol reads as the name it was handed out for, and a name has one
\* symbol: intern_pos_name and find_intern, for any set of names, those that
\* are the end of others included.
THEOREM Kept == InternSpec => []NamesKept
<1>1. QED
  BY SymbolsHold, NamesRead, PTL

-----------------------------------------------------------------------------
(* The memory of the names.                                                 *)

\* The powers of two are defined by going from one to the next.
LEMMA Powers ==
    /\ Pow2 \in [Nat -> Nat]
    /\ \A k \in Nat : Pow2[k] > k
<1> DEFINE F == [p \in Nat \X Nat |-> 2 * p[2]]
<1>1. PICK g \in [Nat -> Nat] : Recurs(g, 1, F)
  <2>1. F \in [Nat \X Nat -> Nat]
    OBVIOUS
  <2> HIDE DEF F
  <2>2. QED
    BY <2>1, Recursion
<1>2. g[0] = 1 /\ \A n \in Nat : g[n + 1] = 2 * g[n]
  BY <1>1 DEF Recurs
<1>3. g = [k \in Nat |-> IF k = 0 THEN 1 ELSE 2 * g[k - 1]]
  <2>1. ASSUME NEW k \in Nat, k # 0
        PROVE  g[k] = 2 * g[k - 1]
    <3> DEFINE m == k - 1
    <3>1. m \in Nat /\ m + 1 = k
      BY <2>1
    <3>2. g[m + 1] = 2 * g[m]
      <4> HIDE DEF m
      <4>1. QED
        BY <1>2, <3>1
    <3>3. QED
      BY <3>1, <3>2
  <2>2. QED
    BY <1>2, <2>1
<1>4. Pow2 = [k \in Nat |-> IF k = 0 THEN 1 ELSE 2 * Pow2[k - 1]]
  <2> DEFINE P(f) == f = [k \in Nat |-> IF k = 0 THEN 1 ELSE 2 * f[k - 1]]
  <2>1. P(CHOOSE f : P(f))
    <3>1. \E f : P(f)
      BY <1>3
    <3> HIDE DEF P
    <3>2. QED
      BY <3>1
  <2>2. Pow2 = CHOOSE f : P(f)
    BY DEF Pow2
  <2>3. P(Pow2)
    <3> HIDE DEF P
    <3>1. QED
      BY <2>1, <2>2
  <2>4. QED
    BY <2>3
<1>5. Pow2[0] = 1 /\ \A n \in Nat : Pow2[n + 1] = 2 * Pow2[n]
  <2>1. \A k \in Nat : Pow2[k] = IF k = 0 THEN 1 ELSE 2 * Pow2[k - 1]
    BY <1>4
  <2>2. ASSUME NEW n \in Nat
        PROVE  Pow2[n + 1] = 2 * Pow2[n]
    <3>1. n + 1 \in Nat /\ n + 1 # 0 /\ (n + 1) - 1 = n
      OBVIOUS
    <3>2. QED
      BY <2>1, <3>1
  <2>3. QED
    BY <2>1, <2>2
<1> DEFINE B == {k \in Nat : Pow2[k] \in Nat /\ Pow2[k] > k}
<1>6. Nat \subseteq B
  <2>1. 0 \in B
    BY <1>5
  <2>2. ASSUME NEW n \in Nat, n \in B
        PROVE  n + 1 \in B
    <3>1. Pow2[n + 1] = 2 * Pow2[n] /\ Pow2[n] \in Nat /\ Pow2[n] > n
      BY <1>5, <2>2
    <3>2. 2 * Pow2[n] \in Nat /\ 2 * Pow2[n] > n + 1
      BY <3>1
    <3>3. QED
      BY <3>1, <3>2
  <2> HIDE DEF B
  <2>3. QED
    BY <2>1, <2>2, Induction
<1>7. QED
  BY <1>4, <1>6

\* A number is not rounded down.
LEMMA RoundedUp ==
    ASSUME NEW z \in Nat
    PROVE  next_alz(z) \in Nat /\ next_alz(z) >= z
<1>1. CASE z = 0
  BY <1>1 DEF next_alz
<1>2. CASE z # 0
  <2> DEFINE I == {Pow2[k] : k \in {k \in 0 .. z : Pow2[k] >= z}}
             P(p) == p >= z /\ \A k \in 0 .. z : Pow2[k] >= z => p <= Pow2[k]
             T == {Pow2[k] : k \in 0 .. z}
  <2>1. \A k \in 0 .. z : Pow2[k] \in Nat
    BY Powers
  <2>2. z \in 0 .. z /\ Pow2[z] >= z
    BY Powers
  <2>3. PICK p \in I : \A q \in I : p <= q
    <3>1. I \subseteq Nat /\ I # {}
      BY <2>1, <2>2
    <3> HIDE DEF I
    <3>2. QED
      BY <3>1, Least
  <2>4. p \in T /\ P(p)
    BY <2>3
  <2>5. next_alz(z) = CHOOSE q \in T : P(q)
    BY <1>2 DEF next_alz
  <2>6. next_alz(z) \in T /\ P(next_alz(z))
    <3> HIDE DEF T, P
    <3>1. QED
      BY <2>4, <2>5
  <2>7. T \subseteq Nat
    BY <2>1
  <2>8. QED
    BY <2>6, <2>7
<1>3. QED
  BY <1>1, <1>2

\* The names fit, and what is allocated is a number.
Fits == pos_names_alz \in Nat /\ NamesFit

LEMMA FitsHolds ==
    ASSUME pos_names \in Seq(Bytes), Fits, NEW src \in Strings, intern_pos_name(src)
    PROVE  Fits'
<1> DEFINE n == Terminated(src)
           srz == Len(src) + 1
<1>1. /\ Len(pos_names) \in Nat /\ pos_names_alz \in Nat /\ Len(pos_names) <= pos_names_alz
  BY LenProperties DEF Fits, NamesFit
<1>2. CASE Found(src) # {}
  BY <1>2 DEF intern_pos_name, Fits, NamesFit
<1>3. CASE Found(src) = {}
  <2>1. n \in Seq(Bytes) /\ Len(n) = srz /\ srz \in Nat
    BY TerminatedFacts
  <2>2. pos_names' = pos_names \o n /\ pos_names_alz' = Room(srz)
    BY <1>3 DEF intern_pos_name, Terminated
  <2> HIDE DEF n, srz
  <2>3. Len(pos_names') = Len(pos_names) + srz
    BY <2>1, <2>2, ConcatProperties
  <2>4. CASE Len(pos_names) + srz >= pos_names_alz
    <3> DEFINE z == pos_names_alz + srz
    <3>1. Room(srz) = next_alz(z) /\ z \in Nat
      BY <1>1, <2>1, <2>4 DEF Room
    <3>2. next_alz(z) \in Nat /\ next_alz(z) >= z
      <4> HIDE DEF z
      <4>1. QED
        BY <3>1, RoundedUp
    <3>3. z >= Len(pos_names) + srz
      BY <1>1, <2>1
    <3>4. QED
      BY <1>1, <2>1, <2>2, <2>3, <3>1, <3>2, <3>3 DEF Fits, NamesFit
  <2>5. CASE ~(Len(pos_names) + srz >= pos_names_alz)
    <3>1. Room(srz) = pos_names_alz
      BY <2>5 DEF Room
    <3>2. QED
      BY <1>1, <2>1, <2>2, <2>3, <2>5, <3>1 DEF Fits, NamesFit
  <2>6. QED
    BY <2>4, <2>5
<1>4. QED
  BY <1>2, <1>3

\* The names never run over what intern_pos_name has allocated for them,
\* however long they are and in whatever order they come.
THEOREM Fit == InternSpec => []NamesFit
<1>1. internInit => Fits
  BY DEF internInit, Fits, NamesFit
<1>2. Symbols /\ Fits /\ [internNext]_symVars => Fits'
  <2> SUFFICES ASSUME Symbols, Fits, [internNext]_symVars
               PROVE  Fits'
    OBVIOUS
  <2>1. CASE internNext
    BY <2>1, FitsHolds DEF internNext, Symbols
  <2>2. CASE UNCHANGED symVars
    BY <2>2 DEF symVars, Fits, NamesFit
  <2>3. QED
    BY <2>1, <2>2
<1>3. Fits => NamesFit
  BY DEF Fits
<1>4. QED
  BY <1>1, <1>2, <1>3, SymbolsHold, PTL DEF InternSpec

-----------------------------------------------------------------------------
(* The daemon.  Its inductive invariant has five parts.                     *)

\* prep_cb has seen the session that is served.
Seen == \/ loop \in {"flush", "wait"}
        \/ loop \in {"poll", "recv"} /\ polled = priv

\* A session is set up in the round of another one's poll only.
Session ==
    /\ priv \in {0, sess}
    /\ priv = 0 => ~sockok /\ next_oid = 0
    /\ loop = "recv" => sockok /\ polled = priv
    /\ "reco" \in ready => polled \in {0, sess}

\* Positions are right as long as they are queued, since the queue is empty
\* when the accounts they point to are freed.
Right(p, g) == p.ac # 0 /\ p.live /\ Accounts[p.ac] = p.of /\ <<p.src, p.sym>> \in g

Queue ==
    /\ \A i \in DOMAIN pq : Right(pq[i], given)
    /\ sockok /\ Seen /\ ~listed /\ loop # "flush" => pq = <<>>
    /\ listed => nac_names >= 1
    /\ cur # None => cur = Accounts[1] \/ (listed /\ \E k \in 1 .. nac_names : cur = Accounts[k])
    /\ PublishedRight

\* A session is asked for its accounts once, when it is first seen ready.
Asked ==
    /\ st = "RDY" /\ old_st = "RDY" => subd # <<>>
    /\ st = "RDY" /\ old_st # "RDY" => subd = <<>>
    /\ st = "SUP" => subd = <<>>
    /\ st = "SUP" /\ Seen => old_st # "RDY"
    /\ owed => next_oid # 0 /\ subd # <<>>

\* A fresh session has gone through the accounts as far as nex.
Walk ==
    fresh => /\ Len(subd) <= Len(Accounts)
             /\ \A i \in 1 .. Len(subd) : subd[i] = Accounts[i]
             /\ ~listed \/ subd = <<>> => nex.at = 0
             /\ nex.at # 0 => nex.live
             /\ owed => Len(subd) = IF nex.at = 0 THEN 1 ELSE nex.at

IInv == TypeOK /\ Symbols /\ Session /\ Queue /\ Asked /\ Walk

-----------------------------------------------------------------------------
(* Types.                                                                   *)

LEMMA AccountFacts ==
    /\ Len(Accounts) \in Nat \ {0} /\ DOMAIN Accounts = 1 .. Len(Accounts)
    /\ 1 \in 1 .. Len(Accounts)
    /\ \A k \in 1 .. Len(Accounts) : Accounts[k] \in Names
    /\ \A n \in Listings : n \in 1 .. Len(Accounts)
<1>1. Len(Accounts) \in Nat /\ DOMAIN Accounts = 1 .. Len(Accounts)
  BY PfTwsAssumption
<1>2. \E n \in Listings : n \in 1 .. Len(Accounts)
  BY PfTwsAssumption
<1>3. QED
  BY <1>1, <1>2, PfTwsAssumption DEF Names

\* The account found is the one looked for, if it is on the list.
LEMMA AccountFound ==
    ASSUME nac_names \in 0 .. Len(Accounts), NEW k \in 1 .. nac_names
    PROVE  /\ find_ac_name(Accounts[k]) \in 1 .. Len(Accounts)
           /\ Accounts[find_ac_name(Accounts[k])] = Accounts[k]
<1> DEFINE K == {j \in 1 .. nac_names : Accounts[j] = Accounts[k]}
<1>1. k \in K
  OBVIOUS
<1>2. (CHOOSE j \in K : TRUE) \in K
  BY <1>1
<1>3. find_ac_name(Accounts[k]) = CHOOSE j \in K : TRUE
  BY <1>1 DEF find_ac_name
<1>4. QED
  BY <1>2, <1>3, AccountFacts

\* In either case of intern_pos_name, a symbol is a number.
LEMMA SymIsNat ==
    ASSUME Symbols, NEW src \in Strings
    PROVE  sym(src) \in Nat
<1>1. CASE Found(src) = {}
  BY <1>1, LenProperties DEF sym, Symbols
<1>2. CASE Found(src) # {}
  BY <1>2, SymFirst DEF Symbols
<1>3. QED
  BY <1>1, <1>2

LEMMA TypesKept ==
    ASSUME IInv, [Next]_vars
    PROVE  TypeOK'
<1>1. TypeOK
  BY DEF IInv
<1> USE DEF TypeOK
<1>2. CASE UNCHANGED vars
  BY <1>1, <1>2 DEF vars
<1>3. CASE PrepCb
  <2>1. loop' \in {"prep", "flush", "wait", "poll", "recv"} /\ old_st' \in {"UNK", "SUP", "RDY", "DWN"}
        /\ timer' \in BOOLEAN /\ sockok' \in BOOLEAN
    BY <1>1, <1>3 DEF PrepCb, Then, Noted, tws_state, st, SockBreaks, twsVars
  <2>2. cur' \in Names \cup {None} /\ owed' \in BOOLEAN /\ subd' \in Seq(Names)
    <3>1. Accounts[1] \in Names
      BY AccountFacts
    <3>2. Append(subd, Accounts[1]) \in Seq(Names)
      BY <1>1, <3>1
    <3>3. QED
      BY <1>1, <1>3, <3>1, <3>2 DEF PrepCb, tws_sub_ac, broker
  <2>3. QED
    BY <1>1, <1>3, <2>1, <2>2 DEF PrepCb, SockBreaks, twsVars, symVars, acVars, tws_sub_ac, broker
<1>4. CASE FlushOne
  <2>1. pq' \in Seq(Positions)
    BY <1>1, <1>4 DEF FlushOne, pfaq_pop
  <2>2. QED
    BY <1>1, <1>4, <2>1 DEF FlushOne, twsVars, symVars, acVars, evVars, broker
<1>5. CASE FlushDone \/ RoundDone \/ OtherCb \/ RecoIdle \/ TwscData
  <2>1. /\ loop' \in {"prep", "wait", "poll", "recv"} /\ ready' \subseteq ready
        /\ UNCHANGED <<twsVars, symVars, acVars, pq, polled, timer, twsc, old_st, broker>>
    BY <1>1, <1>5 DEF FlushDone, RoundDone, OtherCb, RecoIdle, TwscData, Serve, evVars
  <2>2. QED
    BY <1>1, <2>1 DEF twsVars, symVars, acVars, broker
<1>6. ASSUME NEW evs \in SUBSET Possible, Poll(evs)
      PROVE  TypeOK'
  BY <1>1, <1>6 DEF Poll, Possible, twsVars, symVars, acVars, broker
<1>7. CASE TwscHangup
  <2>1. 0 \in 0 .. Sessions /\ 0 \in Nat
    BY PfTwsAssumption
  <2>2. QED
    BY <1>1, <1>7, <2>1 DEF TwscHangup, Serve, fini_tws, symVars, acVars
<1>8. CASE RecoConnect
  <2>1. (sess % Sessions) + 1 \in 0 .. Sessions
    BY <1>1, PfTwsAssumption
  <2>2. fresh' \in BOOLEAN
    BY <1>8, Zenon DEF RecoConnect
  <2>3. <<>> \in Seq(Names)
    OBVIOUS
  <2>4. 0 \in Nat /\ priv' \in 0 .. Sessions /\ sess' \in 0 .. Sessions
    BY <1>8, <2>1 DEF RecoConnect, init_tws
  <2>5. QED
    BY <1>1, <1>8, <2>2, <2>3, <2>4 DEF RecoConnect, Serve, init_tws, symVars, acVars
<1>9. CASE RecvDone
  BY <1>1, <1>9 DEF RecvDone, SockBreaks, twsVars, symVars, acVars, evVars, broker
<1>10. CASE RecvValidId
  BY <1>1, <1>10 DEF RecvValidId, nextValidId, symVars, acVars, evVars, broker
<1>11. ASSUME NEW n \in Listings, RecvMngdAc(n)
       PROVE  TypeOK'
  <2>1. n \in 0 .. Len(Accounts)
    BY AccountFacts
  <2>2. pq' \in Seq(Positions)
    <3>1. \A i \in 1 .. Len(pq) : [pq[i] EXCEPT !.live = FALSE] \in Positions
      <4>1. ASSUME NEW i \in 1 .. Len(pq)
            PROVE  [pq[i] EXCEPT !.live = FALSE] \in Positions
        <5>1. pq[i] \in Positions
          BY <1>1
        <5>2. QED
          BY <5>1 DEF Positions
      <4>2. QED
        BY <4>1
    <3>2. Len(pq) \in Nat /\ pq' = [i \in 1 .. Len(pq) |-> [pq[i] EXCEPT !.live = FALSE]]
      BY <1>1, <1>11 DEF RecvMngdAc
    <3>3. QED
      BY <3>1, <3>2
  <2>3. QED
    BY <1>1, <1>11, <2>1, <2>2 DEF RecvMngdAc, twsVars, symVars, evVars
<1>12. ASSUME NEW src \in Strings, RecvAcup(src)
       PROVE  TypeOK'
  <2>1. pos_names' \in Seq(Char \cup {NUL})
    <3>1. Symbols'
      BY <1>12, InternHolds DEF RecvAcup, IInv
    <3>2. QED
      BY <3>1 DEF Symbols, Bytes
  <2>2. find_ac_name(cur) \in 0 .. Len(Accounts)
    <3> DEFINE K == {k \in 1 .. nac_names : Accounts[k] = cur}
    <3>1. K # {} => (CHOOSE k \in K : TRUE) \in K
      OBVIOUS
    <3>2. QED
      BY <1>1, <3>1, AccountFacts DEF find_ac_name
  <2>3. sym(src) \in Nat /\ cur \in Names
    BY <1>1, <1>12, SymIsNat DEF IInv, RecvAcup
  <2>4. pq' \in Seq(Positions)
    BY <1>1, <1>12, <2>2, <2>3 DEF RecvAcup, pfaq_add, Positions
  <2>5. QED
    BY <1>1, <1>12, <2>1, <2>4 DEF RecvAcup, twsVars, acVars, evVars, broker
<1>13. CASE EndSingle \/ EndJunk
  BY <1>1, <1>13 DEF EndSingle, EndJunk, AcupEnd, twsVars, symVars, acVars, evVars
<1>14. ASSUME NEW p \in DOMAIN Accounts, EndNext(p)
       PROVE  TypeOK'
  <2>1. p + 1 \in 1 .. Len(Accounts) /\ Accounts[p + 1] \in Names
    BY <1>1, <1>14, AccountFacts DEF EndNext, After
  <2>2. Append(subd, Accounts[p + 1]) \in Seq(Names)
    BY <1>1, <2>1
  <2>3. QED
    BY <1>1, <1>14, <2>1, <2>2 DEF EndNext, After, tws_sub_ac, twsVars, symVars, evVars
<1>15. ASSUME NEW p \in DOMAIN Accounts, EndLast(p)
       PROVE  TypeOK'
  <2>1. nex' \in [at : 0 .. Len(Accounts), live : BOOLEAN]
    BY <1>15, AccountFacts DEF EndLast, WrapTo
  <2>2. QED
    BY <1>1, <1>15, <2>1 DEF EndLast, AcupEnd, twsVars, symVars, evVars
<1>16. QED
  BY <1>2, <1>3, <1>4, <1>5, <1>6, <1>7, <1>8, <1>9, <1>10, <1>11, <1>12, <1>13, <1>14, <1>15
  DEF Next

\* Only ACUP interns a name.
LEMMA OthersKeepNames ==
    ASSUME [Next]_vars, ~\E src \in Strings : RecvAcup(src)
    PROVE  UNCHANGED symVars
BY DEF Next, vars, symVars, PrepCb, FlushOne, FlushDone, Poll, RoundDone, OtherCb,
   TwscHangup, RecoIdle, RecoConnect, TwscData, RecvDone, RecvValidId, RecvMngdAc,
   EndSingle, EndJunk, EndNext, EndLast

LEMMA SymbolsKept ==
    ASSUME IInv, [Next]_vars
    PROVE  Symbols'
<1>1. Symbols
  BY DEF IInv
<1>2. CASE \E src \in Strings : RecvAcup(src)
  BY <1>1, <1>2, InternHolds DEF RecvAcup
<1>3. CASE ~\E src \in Strings : RecvAcup(src)
  <2>1. UNCHANGED symVars
    BY <1>3, OthersKeepNames
  <2>2. QED
    BY <1>1, <2>1 DEF symVars, Symbols
<1>4. QED
  BY <1>2, <1>3

-----------------------------------------------------------------------------
(* Sessions.                                                                *)

\* A new session has another name than the one that was polled.
LEMMA RecoUnseen ==
    ASSUME TypeOK, Session, RecoConnect
    PROVE  /\ priv' = sess' /\ priv' # 0 /\ polled' # priv' /\ loop' = "poll"
           /\ sockok' /\ next_oid' = 0
           /\ ready' \subseteq ready
<1>1. sess \in 0 .. Sessions /\ polled \in {0, sess} /\ Sessions \in Nat \ {0, 1}
  BY PfTwsAssumption DEF TypeOK, Session, RecoConnect, Serve
<1>2. (sess % Sessions) + 1 # sess /\ (sess % Sessions) + 1 # 0
  <2>1. CASE sess < Sessions
    <3>1. sess % Sessions = sess
      BY <1>1, <2>1
    <3>2. QED
      BY <1>1, <3>1
  <2>2. CASE sess = Sessions
    <3>1. sess % Sessions = 0
      BY <1>1, <2>2
    <3>2. QED
      BY <1>1, <2>2, <3>1
  <2>3. QED
    BY <1>1, <2>1, <2>2
<1>3. QED
  BY <1>1, <1>2 DEF RecoConnect, init_tws, Serve

LEMMA SessionKept ==
    ASSUME IInv, [Next]_vars
    PROVE  Session'
<1>1. TypeOK /\ Session
  BY DEF IInv
<1> USE DEF Session
<1>2. CASE UNCHANGED vars
  BY <1>1, <1>2 DEF vars
<1>3. CASE PrepCb
  BY <1>1, <1>3 DEF PrepCb, Then, SockBreaks, twsVars
<1>4. CASE FlushOne \/ FlushDone \/ RoundDone \/ OtherCb \/ RecoIdle \/ TwscData
  BY <1>1, <1>4 DEF FlushOne, FlushDone, RoundDone, OtherCb, RecoIdle, TwscData, Serve,
     twsVars, evVars
<1>5. ASSUME NEW evs \in SUBSET Possible, Poll(evs)
      PROVE  Session'
  BY <1>1, <1>5 DEF Poll, twsVars
<1>6. CASE TwscHangup
  BY <1>1, <1>6 DEF TwscHangup, Serve, fini_tws
<1>7. CASE RecoConnect
  <2>1. "reco" \notin ready'
    BY <1>7 DEF RecoConnect, Serve
  <2>2. QED
    BY <1>1, <1>7, <2>1, RecoUnseen
<1>8. CASE RecvDone \/ RecvValidId
  BY <1>1, <1>8 DEF RecvDone, RecvValidId, SockBreaks, nextValidId, twsVars, evVars
<1>9. CASE \/ \E n \in Listings : RecvMngdAc(n)
           \/ \E src \in Strings : RecvAcup(src)
           \/ EndSingle \/ EndJunk
           \/ \E p \in DOMAIN Accounts : EndNext(p) \/ EndLast(p)
  <2>1. UNCHANGED <<priv, sess, sockok, next_oid, loop, ready, polled>>
    BY <1>9 DEF RecvMngdAc, RecvAcup, EndSingle, EndJunk, EndNext, EndLast, twsVars, evVars
  <2>2. QED
    BY <1>1, <2>1
<1>10. QED
  BY <1>2, <1>3, <1>4, <1>5, <1>6, <1>7, <1>8, <1>9 DEF Next

-----------------------------------------------------------------------------
(* The queue.                                                               *)

LEMMA QueueKept ==
    ASSUME IInv, [Next]_vars
    PROVE  Queue'
<1>1. TypeOK /\ Session /\ Symbols /\ Queue
  BY DEF IInv
<1>2. pq \in Seq(Positions) /\ nac_names \in 0 .. Len(Accounts)
  BY <1>1 DEF TypeOK
<1>3. CASE UNCHANGED vars
  BY <1>1, <1>3 DEF vars, Queue, Seen, Right, PublishedRight
<1>4. CASE PrepCb
  <2>1. sockok' => loop' = "flush"
    BY <1>1, <1>4 DEF PrepCb, Then, Session, SockBreaks, twsVars, st, tws_state
  <2>2. cur' # None => cur' = Accounts[1] \/ (listed' /\ \E k \in 1 .. nac_names' : cur' = Accounts[k])
    BY <1>1, <1>4 DEF PrepCb, Queue, tws_sub_ac, broker, acVars
  <2>3. QED
    BY <1>1, <1>4, <2>1, <2>2 DEF PrepCb, Queue, tws_sub_ac, broker, acVars, symVars, Right,
       PublishedRight
<1>5. CASE FlushOne
  <2>1. pq # <<>> /\ pq' = Tail(pq) /\ out' = [pos |-> Head(pq), name |-> find_intern(Head(pq).sym)]
    BY <1>5 DEF FlushOne, pfaq_pop
  <2>2. Head(pq) = pq[1] /\ 1 \in DOMAIN pq /\ \A i \in DOMAIN pq' : i + 1 \in DOMAIN pq /\ pq'[i] = pq[i + 1]
    BY <1>2, <2>1
  <2>3. Right(Head(pq), given) /\ \A i \in DOMAIN pq' : Right(pq'[i], given)
    BY <1>1, <2>2 DEF Queue
  <2>4. find_intern(Head(pq).sym) = Head(pq).src
    BY <1>1, <2>3, NamesRead DEF Right
  <2>5. PublishedRight'
    BY <2>1, <2>3, <2>4 DEF Right, PublishedRight
  <2>6. given' = given /\ loop' = "flush"
    BY <1>5 DEF FlushOne, symVars
  <2>7. QED
    BY <1>1, <1>5, <2>3, <2>5, <2>6 DEF FlushOne, Queue, broker, acVars, Right
<1>6. CASE FlushDone
  BY <1>1, <1>6 DEF FlushDone, Queue, twsVars, symVars, acVars, evVars, broker, Right,
     PublishedRight
<1>7. CASE RoundDone \/ OtherCb \/ RecoIdle \/ TwscData
  BY <1>1, <1>7 DEF RoundDone, OtherCb, RecoIdle, TwscData, Serve, Queue, Seen, twsVars,
     symVars, acVars, evVars, broker, Right, PublishedRight
<1>8. ASSUME NEW evs \in SUBSET Possible, Poll(evs)
      PROVE  Queue'
  BY <1>1, <1>8 DEF Poll, Queue, Seen, twsVars, symVars, acVars, broker, Right, PublishedRight
<1>9. CASE TwscHangup
  BY <1>1, <1>9 DEF TwscHangup, fini_tws, Queue, symVars, acVars, Right, PublishedRight
<1>10. CASE RecoConnect
  <2>1. ~Seen'
    BY <1>1, <1>10, RecoUnseen DEF Seen
  <2>2. QED
    BY <1>1, <1>10, <2>1 DEF RecoConnect, Queue, symVars, acVars, Right, PublishedRight
<1>11. CASE RecvDone \/ RecvValidId
  BY <1>1, <1>11 DEF RecvDone, RecvValidId, SockBreaks, nextValidId, Queue, Seen, Session,
     twsVars, symVars, acVars, evVars, broker, Right, PublishedRight
<1>12. ASSUME NEW n \in Listings, RecvMngdAc(n)
       PROVE  Queue'
  <2>1. pq = <<>>
    BY <1>1, <1>12 DEF RecvMngdAc, Queue, Seen, Session
  <2>2. DOMAIN pq' = {}
    BY <2>1, <1>12 DEF RecvMngdAc
  <2>3. n \in 1 .. Len(Accounts) /\ nac_names' = n /\ listed'
    BY <1>12, AccountFacts DEF RecvMngdAc
  <2>4. cur' # None => cur' = Accounts[1]
    BY <1>1, <1>12 DEF RecvMngdAc, Queue
  <2>5. PublishedRight'
    BY <1>1, <1>12 DEF RecvMngdAc, Queue, PublishedRight
  <2>6. QED
    BY <2>2, <2>3, <2>4, <2>5, AccountFacts DEF Queue
<1>13. ASSUME NEW src \in Strings, RecvAcup(src)
       PROVE  Queue'
  <2> DEFINE p == [ac |-> find_ac_name(cur), live |-> TRUE, sym |-> sym(src),
                   of |-> cur, src |-> src]
  <2>1. PICK k \in 1 .. nac_names : cur = Accounts[k]
    BY <1>1, <1>2, <1>13 DEF RecvAcup, Queue
  <2>2. find_ac_name(cur) # 0 /\ Accounts[find_ac_name(cur)] = cur
    BY <1>2, <2>1, AccountFound, AccountFacts
  <2>3. given' = given \cup {<<src, sym(src)>>}
    BY <1>13 DEF RecvAcup, intern_pos_name
  <2>4. Right(p, given')
    BY <2>2, <2>3 DEF Right
  <2>5. pq' = Append(pq, p)
    BY <1>13 DEF RecvAcup, pfaq_add
  <2>6. \A i \in DOMAIN pq : Right(pq[i], given')
    BY <1>1, <2>3 DEF Queue, Right
  <2> HIDE DEF p
  <2>7. \A i \in DOMAIN pq' : Right(pq'[i], given')
    BY <1>2, <2>4, <2>5, <2>6
  <2>8. QED
    BY <1>1, <1>13, <2>7 DEF RecvAcup, Queue, Seen, broker, acVars, PublishedRight
<1>14. CASE EndSingle \/ EndJunk
  BY <1>1, <1>14 DEF EndSingle, EndJunk, AcupEnd, Queue, Seen, twsVars, symVars, acVars,
     evVars, Right, PublishedRight
<1>15. ASSUME NEW p \in DOMAIN Accounts, EndNext(p)
       PROVE  Queue'
  <2>1. p + 1 \in 1 .. nac_names /\ cur' = Accounts[p + 1]
    BY <1>2, <1>15, AccountFacts DEF EndNext, After, tws_sub_ac
  <2>2. QED
    BY <1>1, <1>15, <2>1 DEF EndNext, tws_sub_ac, Queue, Seen, twsVars, symVars, evVars,
       Right, PublishedRight
<1>16. ASSUME NEW p \in DOMAIN Accounts, EndLast(p)
       PROVE  Queue'
  BY <1>1, <1>16 DEF EndLast, AcupEnd, Queue, Seen, twsVars, symVars, evVars, Right,
     PublishedRight
<1>17. QED
  BY <1>3, <1>4, <1>5, <1>6, <1>7, <1>8, <1>9, <1>10, <1>11, <1>12, <1>13, <1>14, <1>15,
     <1>16 DEF Next

-----------------------------------------------------------------------------
(* The walk over the accounts.                                              *)

\* What the steps do to the broker's subscriptions, but for the two that
\* subscribe and the one that begins a session.
LEMMA Untouched ==
    ASSUME [Next]_vars, ~PrepCb, ~RecoConnect, ~\E p \in DOMAIN Accounts : EndNext(p)
    PROVE  subd' = subd /\ fresh' = fresh /\ (owed' => owed) /\ old_st' = old_st
<1>1. CASE FlushOne \/ FlushDone \/ RoundDone \/ OtherCb \/ TwscHangup \/ RecoIdle
           \/ TwscData \/ RecvDone \/ RecvValidId \/ UNCHANGED vars
           \/ \E evs \in SUBSET Possible \ {{}} : Poll(evs)
  BY <1>1 DEF vars, FlushOne, FlushDone, Poll, RoundDone, OtherCb, TwscHangup, RecoIdle,
     TwscData, RecvDone, RecvValidId, broker, evVars
<1>2. CASE (\E n \in Listings : RecvMngdAc(n)) \/ (\E src \in Strings : RecvAcup(src))
  <2>1. UNCHANGED <<subd, fresh, owed, old_st>>
    BY <1>2 DEF RecvMngdAc, RecvAcup, broker, evVars
  <2>2. QED
    BY <2>1
<1>3. CASE EndSingle \/ EndJunk \/ \E p \in DOMAIN Accounts : EndLast(p)
  <2>1. subd' = subd /\ fresh' = fresh /\ old_st' = old_st
    BY <1>3 DEF EndSingle, EndJunk, EndLast, evVars
  <2>2. ~owed'
    BY <1>3 DEF EndSingle, EndJunk, EndLast, AcupEnd
  <2>3. QED
    BY <2>1, <2>2
<1>4. QED
  BY <1>1, <1>2, <1>3 DEF Next

LEMMA AskedKept ==
    ASSUME IInv, [Next]_vars
    PROVE  Asked'
<1>1. TypeOK /\ Session /\ Asked
  BY DEF IInv
<1> USE DEF Asked, st, tws_state
<1>2. CASE PrepCb
  <2>1. /\ old_st' = st
        /\ UNCHANGED <<priv, next_oid>> /\ (sockok' => sockok)
    BY <1>2 DEF PrepCb, Noted, SockBreaks, twsVars
  <2>2. CASE st = "RDY" /\ old_st # "RDY"
    <3>1. subd' = Append(subd, Accounts[1]) /\ subd' # <<>> /\ next_oid # 0
      BY <1>1, <1>2, <2>2, AccountFacts DEF PrepCb, tws_sub_ac, TypeOK
    <3>2. QED
      BY <2>1, <2>2, <3>1
  <2>3. CASE ~(st = "RDY" /\ old_st # "RDY")
    <3>1. subd' = subd /\ owed' = owed
      BY <1>2, <2>3 DEF PrepCb, broker
    <3>2. QED
      BY <1>1, <2>1, <2>3, <3>1
  <2>4. QED
    BY <2>2, <2>3
<1>3. CASE RecoConnect
  <2>1. subd' = <<>> /\ owed' = FALSE
    BY <1>3 DEF RecoConnect
  <2>2. ~Seen'
    BY <1>1, <1>3, RecoUnseen DEF Seen
  <2>3. priv' # 0 /\ next_oid' = 0
    BY <1>1, <1>3, RecoUnseen
  <2>4. QED
    BY <2>1, <2>2, <2>3
<1>4. ASSUME NEW p \in DOMAIN Accounts, EndNext(p)
      PROVE  Asked'
  <2>1. /\ sockok /\ Seen /\ owed /\ UNCHANGED <<priv, sockok, next_oid, old_st, loop, polled>>
        /\ owed' = TRUE /\ subd' = Append(subd, Accounts[p + 1])
    BY <1>1, <1>4 DEF EndNext, After, tws_sub_ac, Session, Seen, twsVars, evVars
  <2>2. st = "RDY" /\ old_st = "RDY"
    BY <1>1, <2>1 DEF Session
  <2>3. subd' # <<>>
    <3>1. p + 1 \in 1 .. Len(Accounts)
      BY <1>1, <1>4, AccountFacts DEF EndNext, After, TypeOK
    <3>2. subd \in Seq(Names) /\ Accounts[p + 1] \in Names
      BY <1>1, <3>1, AccountFacts DEF TypeOK
    <3> HIDE DEF Asked, st, tws_state
    <3>3. Len(Append(subd, Accounts[p + 1])) = Len(subd) + 1 /\ Len(subd) \in Nat
      BY <3>2, AppendProperties, LenProperties
    <3>4. Len(subd') # 0
      BY <2>1, <3>3
    <3>5. QED
      BY <3>4, EmptySeq
  <2>4. QED
    BY <1>1, <2>1, <2>2, <2>3
<1>5. CASE ~PrepCb /\ ~RecoConnect /\ ~\E p \in DOMAIN Accounts : EndNext(p)
  <2>1. subd' = subd /\ (owed' => owed) /\ old_st' = old_st
    BY <1>5, Untouched
  <2>2. CASE RecvValidId
    <3>1. /\ sockok /\ Seen /\ next_oid = 0 /\ next_oid' = 1 /\ UNCHANGED <<priv, sockok>>
      BY <1>1, <2>2 DEF RecvValidId, nextValidId, Session, Seen
    <3>2. st = "SUP"
      BY <1>1, <3>1 DEF Session
    <3>3. QED
      BY <1>1, <2>1, <3>1, <3>2
  <2>3. CASE TwscHangup
    <3>1. priv' = 0 /\ owed' = FALSE
      BY <2>3 DEF TwscHangup, fini_tws
    <3>2. QED
      BY <3>1
  <2>4. CASE RecvDone
    <3>1. UNCHANGED <<priv, next_oid, polled>> /\ (sockok' => sockok) /\ (Seen' => Seen)
      BY <2>4 DEF RecvDone, SockBreaks, twsVars, evVars, Seen
    <3>2. QED
      BY <1>1, <2>1, <3>1
  <2>5. CASE ~RecvValidId /\ ~TwscHangup /\ ~RecvDone
    <3>1. UNCHANGED twsVars
      BY <1>5, <2>5 DEF Next, vars, twsVars, FlushOne, FlushDone, Poll, RoundDone, OtherCb,
         RecoIdle, TwscData, RecvMngdAc, RecvAcup, EndSingle, EndJunk, EndLast
    <3>2. st = "SUP" /\ Seen' => old_st # "RDY"
      <4>1. CASE \E evs \in SUBSET Possible \ {{}} : Poll(evs)
        BY <1>1, <4>1 DEF Poll, Seen
      <4>2. CASE ~\E evs \in SUBSET Possible \ {{}} : Poll(evs)
        <5>1. Seen' => Seen
          BY <1>5, <2>5, <3>1, <4>2 DEF Next, vars, twsVars, evVars, FlushOne, FlushDone,
             RoundDone, OtherCb, RecoIdle, TwscData, Serve, RecvMngdAc, RecvAcup, EndSingle,
             EndJunk, EndLast, Seen
        <5>2. QED
          BY <1>1, <5>1
      <4>3. QED
        BY <4>1, <4>2
    <3>3. QED
      BY <1>1, <2>1, <3>1, <3>2 DEF twsVars
  <2>6. QED
    BY <2>2, <2>3, <2>4, <2>5
<1>6. QED
  BY <1>2, <1>3, <1>4, <1>5

LEMMA WalkKept ==
    ASSUME IInv, [Next]_vars
    PROVE  Walk'
<1>1. TypeOK /\ Session /\ Asked /\ Walk
  BY DEF IInv
<1>2. /\ subd \in Seq(Names) /\ Len(subd) \in Nat /\ nac_names \in 0 .. Len(Accounts)
      /\ nex.at \in 0 .. Len(Accounts) /\ Len(Accounts) \in Nat
      /\ owed => subd # <<>>
  BY <1>1, AccountFacts DEF TypeOK, Asked
<1>3. CASE PrepCb
  <2>1. nex' = nex /\ listed' = listed /\ fresh' = fresh
    BY <1>3 DEF PrepCb, acVars, tws_sub_ac, broker
  <2>2. CASE st = "RDY" /\ old_st # "RDY"
    <3>1. subd = <<>>
      BY <1>1, <2>2 DEF Asked
    <3>2. subd' = Append(subd, Accounts[1])
      BY <1>3, <2>2 DEF PrepCb, tws_sub_ac
    <3>3. Len(subd') = 1 /\ subd'[1] = Accounts[1]
      BY <1>2, <3>1, <3>2, AccountFacts
    <3>4. QED
      BY <1>1, <1>2, <2>1, <3>1, <3>3, AccountFacts DEF Walk
  <2>3. CASE ~(st = "RDY" /\ old_st # "RDY")
    <3>1. subd' = subd /\ owed' = owed
      BY <1>3, <2>3 DEF PrepCb, broker
    <3>2. QED
      BY <1>1, <2>1, <3>1 DEF Walk
  <2>4. QED
    BY <2>2, <2>3
<1>4. CASE RecoConnect
  <2>1. subd' = <<>> /\ owed' = FALSE /\ nex' = nex /\ (fresh' => nex.at = 0)
    BY <1>4 DEF RecoConnect, acVars
  <2>2. Len(subd') = 0
    BY <2>1
  <2>3. QED
    BY <1>2, <2>1, <2>2 DEF Walk
<1>5. ASSUME NEW p \in DOMAIN Accounts, EndNext(p)
      PROVE  Walk'
  <2>1. /\ listed /\ owed /\ owed' = TRUE /\ listed' = listed /\ fresh' = fresh
        /\ p \in Places \ {0} /\ p + 1 <= nac_names
        /\ nex' = [at |-> p + 1, live |-> nex.live \/ nex.at = 0]
        /\ subd' = Append(subd, Accounts[p + 1])
    BY <1>5 DEF EndNext, After, tws_sub_ac
  <2>2. SUFFICES ASSUME fresh
                 PROVE  Walk'
    BY <2>1 DEF Walk
  <2>3. p = Len(subd) /\ p \in Nat
    <3>1. nex.at # 0 => nex.live
      BY <1>1, <2>2 DEF Walk
    <3>2. p = IF nex.at = 0 THEN 1 ELSE nex.at
      BY <2>1, <3>1 DEF Places
    <3>3. QED
      BY <1>1, <1>2, <2>1, <2>2, <3>2 DEF Walk
  <2>4. p + 1 \in 1 .. Len(Accounts) /\ Accounts[p + 1] \in Names
    BY <1>2, <2>1, <2>3, AccountFacts
  <2>5. /\ Len(subd') = Len(subd) + 1 /\ subd' # <<>>
        /\ \A i \in 1 .. Len(subd') : subd'[i] = IF i = p + 1 THEN Accounts[p + 1] ELSE subd[i]
    BY <1>2, <2>1, <2>3, <2>4
  <2>6. \A i \in 1 .. Len(subd') : subd'[i] = Accounts[i]
    BY <1>1, <1>2, <2>2, <2>3, <2>5 DEF Walk
  <2>7. nex'.live /\ nex'.at = Len(subd') /\ nex'.at # 0
    <3>1. nex'.at = p + 1
      BY <2>1
    <3>2. nex.live \/ nex.at = 0
      BY <1>1, <2>2 DEF Walk
    <3>3. (nex.live \/ nex.at = 0) = TRUE
      BY <3>2
    <3>4. nex'.live = TRUE
      BY <2>1, <3>3
    <3>5. QED
      BY <2>3, <2>5, <3>1, <3>4
  <2>8. QED
    BY <1>2, <2>1, <2>3, <2>4, <2>5, <2>6, <2>7 DEF Walk
<1>6. CASE ~PrepCb /\ ~RecoConnect /\ ~\E p \in DOMAIN Accounts : EndNext(p)
  <2>1. subd' = subd /\ fresh' = fresh /\ (owed' => owed)
    BY <1>6, Untouched
  <2>2. ASSUME NEW n \in Listings, RecvMngdAc(n)
        PROVE  Walk'
    <3>1. ~listed /\ listed' /\ nex' = [nex EXCEPT !.live = FALSE]
      BY <2>2 DEF RecvMngdAc
    <3>2. nex'.at = nex.at
      BY <1>1, <3>1 DEF TypeOK
    <3>3. QED
      BY <1>1, <2>1, <3>1, <3>2 DEF Walk
  <2>3. ASSUME NEW p \in DOMAIN Accounts, EndLast(p)
        PROVE  Walk'
    <3>1. /\ listed /\ listed' /\ owed /\ owed' = FALSE
          /\ nex'.at = 1 /\ nex'.live
      BY <2>3 DEF EndLast, AcupEnd, WrapTo
    <3>2. QED
      BY <1>1, <1>2, <2>1, <3>1 DEF Walk
  <2>4. CASE /\ ~\E n \in Listings : RecvMngdAc(n)
             /\ ~\E p \in DOMAIN Accounts : EndLast(p)
    <3>1. nex' = nex /\ listed' = listed
      BY <1>6, <2>4 DEF Next, vars, acVars, broker, FlushOne, FlushDone, Poll, RoundDone,
         OtherCb, TwscHangup, RecoIdle, TwscData, RecvDone, RecvValidId, RecvAcup,
         EndSingle, EndJunk
    <3>2. QED
      BY <1>1, <2>1, <3>1 DEF Walk
  <2>5. QED
    BY <2>2, <2>3, <2>4
<1>7. QED
  BY <1>3, <1>4, <1>5, <1>6

-----------------------------------------------------------------------------
(* The theorems.                                                            *)

LEMMA InitRight == Init => IInv
<1> SUFFICES ASSUME Init
             PROVE  IInv
  OBVIOUS
<1> USE DEF Init, twsInit, internInit
<1>1. TypeOK
  <2>1. 0 \in 0 .. Sessions
    BY PfTwsAssumption
  <2>2. [at |-> 0, live |-> FALSE] \in [at : 0 .. Len(Accounts), live : BOOLEAN]
        /\ 0 \in 0 .. Len(Accounts)
    BY AccountFacts
  <2>3. <<>> \in Seq(Char \cup {NUL}) /\ <<>> \in Seq(Positions) /\ <<>> \in Seq(Names)
    OBVIOUS
  <2>4. 0 \in Nat /\ {} \subseteq {"other", "reco", "twsc"}
    OBVIOUS
  <2>5. priv = 0 /\ sess = 0 /\ polled = 0 /\ sockok = FALSE /\ next_oid = 0 /\ pos_names = <<>>
    OBVIOUS
  <2> HIDE DEF twsInit, internInit
  <2>6. QED
    BY <2>1, <2>2, <2>3, <2>4, <2>5 DEF TypeOK
<1>2. Symbols
  BY DEF Symbols, Ended
<1>3. Session
  BY DEF Session
<1>4. Queue
  BY DEF Queue, PublishedRight
<1>5. Asked
  BY DEF Asked, st, tws_state
<1>6. Walk
  BY AccountFacts DEF Walk
<1>7. QED
  BY <1>1, <1>2, <1>3, <1>4, <1>5, <1>6 DEF IInv

LEMMA Invariant == Spec => []IInv
<1>1. IInv /\ [Next]_vars => IInv'
  BY TypesKept, SymbolsKept, SessionKept, QueueKept, AskedKept, WalkKept DEF IInv
<1>2. QED
  BY <1>1, InitRight, PTL DEF Spec

\* In the daemon, over any number of sessions, a symbol reads as its name.
THEOREM DaemonKept == Spec => []NamesKept
<1>1. IInv => NamesKept
  BY NamesRead DEF IInv
<1>2. QED
  BY <1>1, Invariant, PTL

\* And the names fit their memory in all the sessions of the process.
THEOREM DaemonFits == Spec => []NamesFit
<1>1. Init => Fits
  BY DEF Init, internInit, Fits, NamesFit
<1>2. IInv /\ Fits /\ [Next]_vars => Fits'
  <2> SUFFICES ASSUME IInv, Fits, [Next]_vars
               PROVE  Fits'
    OBVIOUS
  <2>1. CASE \E src \in Strings : RecvAcup(src)
    BY <2>1, FitsHolds DEF RecvAcup, IInv, Symbols
  <2>2. CASE ~\E src \in Strings : RecvAcup(src)
    <3>1. UNCHANGED symVars
      BY <2>2, OthersKeepNames
    <3>2. QED
      BY <3>1 DEF symVars, Fits, NamesFit
  <2>3. QED
    BY <2>1, <2>2
<1>3. Fits => NamesFit
  BY DEF Fits
<1>4. QED
  BY <1>1, <1>2, <1>3, Invariant, PTL DEF Spec

\* A position is published with the account and the instrument it is of,
\* though sessions are lost and set up between queuing and flushing it, and the
\* accounts and names it points to are freed and moved.
THEOREM Published == Spec => []PublishedRight
<1>1. IInv => PublishedRight
  BY DEF IInv, Queue
<1>2. QED
  BY <1>1, Invariant, PTL

\* No session becomes ready without being asked for its accounts, whenever
\* within a round the one before it was lost (prep_cb).
THEOREM EachAsked == Spec => []ReadyAsked
<1>1. IInv => ReadyAsked
  BY DEF IInv, Asked, ReadyAsked
<1>2. QED
  BY <1>1, Invariant, PTL

\* A session that finds no place left by an earlier one asks for the accounts
\* in the order listed, each once, for any number of accounts (post_cb).
THEOREM InOrder == Spec => []OnceInOrder
<1>1. IInv => OnceInOrder
  <2> SUFFICES ASSUME IInv, fresh
               PROVE  subd = SubSeq(Accounts, 1, Len(subd))
    BY DEF OnceInOrder
  <2>1. /\ subd \in Seq(Names) /\ Accounts \in Seq(Names)
        /\ Len(subd) \in Nat /\ Len(subd) <= Len(Accounts) /\ Len(Accounts) \in Nat
        /\ \A i \in 1 .. Len(subd) : subd[i] = Accounts[i]
    BY PfTwsAssumption DEF IInv, TypeOK, Walk
  <2> DEFINE s == SubSeq(Accounts, 1, Len(subd))
  <2>2. s \in Seq(Names) /\ Len(s) = Len(subd) /\ \A i \in 1 .. Len(subd) : s[i] = Accounts[i]
    BY <2>1
  <2> HIDE DEF s
  <2>3. s = subd
    BY <2>1, <2>2, SeqEqual
  <2>4. QED
    BY <2>3 DEF s
<1>2. QED
  BY <1>1, Invariant, PTL
=============================================================================
