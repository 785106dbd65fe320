----------------------------- MODULE QuoProofs -----------------------------
(***************************************************************************)
(* The quote queue of quo.c keeps one cell per key and never mixes the     *)
(* ticks of two keys, for any tickers, market sides and values.            *)
(***************************************************************************)
EXTENDS Quo, LeastIndex, SequenceTheorems

\* What find_p_cell returns: the first cell of the key, or 0 if there is none.
LEMMA FindCell ==
    ASSUME NEW lst \in Seq(Quotes), NEW k \in Keys
    PROVE  /\ find_p_cell(lst, k) \in 0 .. Len(lst)
           /\ find_p_cell(lst, k) # 0 => key(lst[find_p_cell(lst, k)]) = k
           /\ find_p_cell(lst, k) = 0 => \A j \in 1 .. Len(lst) : key(lst[j]) # k
           /\ \A j \in 1 .. Len(lst) : key(lst[j]) = k => find_p_cell(lst, k) <= j
<1> DEFINE I == {i \in DOMAIN lst : matches_q30_p(lst[i], k)}
<1>1. DOMAIN lst = 1 .. Len(lst) /\ Len(lst) \in Nat
  OBVIOUS
<1>2. \A c \in Quotes : matches_q30_p(c, k) <=> key(c) = k
  BY DEF Quotes, Keys, matches_q30_p, key
<1>3. \A i \in 1 .. Len(lst) : lst[i] \in Quotes
  BY ElementOfSeq
<1>4. CASE I = {}
  BY <1>1, <1>2, <1>3, <1>4 DEF find_p_cell
<1>5. CASE I # {}
  <2>1. I \subseteq Nat
    BY <1>1
  <2>2. \E i \in I : \A j \in I : i <= j
    <3> HIDE DEF I
    <3>1. QED
      BY <1>5, <2>1, Least
  <2>3. find_p_cell(lst, k) = CHOOSE i \in I : \A j \in I : i <= j
    BY <1>5 DEF find_p_cell
  <2>4. find_p_cell(lst, k) \in I /\ \A j \in I : find_p_cell(lst, k) <= j
    <3> HIDE DEF I
    <3>1. QED
      BY <2>2, <2>3
  <2>5. QED
    BY <1>1, <1>2, <1>3, <2>4
<1>6. QED
  BY <1>4, <1>5

LEMMA KeyOf == \A c \in Quotes : key(c) \in Keys
BY DEF Quotes, Keys, key

-----------------------------------------------------------------------------
(* The inductive invariant.                                                 *)

\* Genuine cells: of the type of a quote, with values of their key.
Genuine == {c \in Quotes : OfKey(c)}

\* A cell that is off the free list is on sbuf or on pbuf, pbuf has a cell
\* per key and no cell has a foreign value.
IInv == /\ sbuf \in Seq(Genuine)
        /\ pbuf \in Seq(Genuine)
        /\ flushing \in BOOLEAN
        /\ out \in Genuine \cup {NoQuote}
        /\ held = Len(sbuf) + Len(pbuf)
        /\ \A i, j \in 1 .. Len(pbuf) : key(pbuf[i]) = key(pbuf[j]) => i = j

LEMMA GenuineQuotes == Genuine \subseteq Quotes /\ Seq(Genuine) \subseteq Seq(Quotes)
<1>1. Genuine \subseteq Quotes
  BY DEF Genuine
<1>2. QED
  BY <1>1, SeqMonotonic

\* A list with a genuine cell at its end.
LEMMA AppendGenuine ==
    ASSUME NEW s \in Seq(Genuine), NEW c \in Genuine
    PROVE  /\ Append(s, c) \in Seq(Genuine)
           /\ Len(Append(s, c)) = Len(s) + 1
           /\ \A i \in 1 .. Len(s) : Append(s, c)[i] = s[i]
           /\ Append(s, c)[Len(s) + 1] = c
BY AppendProperties

LEMMA AddPriceHolds ==
    ASSUME IInv, NEW k \in Keys, NEW p \in Price[k], AddPrice(k, p)
    PROVE  IInv'
<1> DEFINE c == [idx |-> k[1], sup |-> k[2], sub |-> 0, p |-> p, q |-> 0]
<1>1. k[1] \in Idx /\ k[2] \in Sup /\ k = <<k[1], k[2]>> /\ p \in Nat
  BY QuoAssumption DEF Keys
<1>2. c \in Genuine
  BY <1>1 DEF Genuine, Quotes, OfKey, key
<1>3. sbuf' = Append(sbuf, c) /\ held' = held + 1 /\ UNCHANGED <<pbuf, flushing, out>>
  BY DEF AddPrice
<1> HIDE DEF c
<1>4. sbuf' \in Seq(Genuine) /\ Len(sbuf') = Len(sbuf) + 1
  BY <1>2, <1>3, AppendGenuine DEF IInv
<1>5. held' = Len(sbuf') + Len(pbuf')
  BY <1>3, <1>4, LenProperties DEF IInv
<1>6. QED
  BY <1>3, <1>4, <1>5 DEF IInv

\* The size put on a cell is one of its own key: find_p_cell compares both
\* halves of the key.
LEMMA MergeSizeHolds ==
    ASSUME IInv, NEW k \in Keys, NEW q \in Size[k], MergeSize(k, q)
    PROVE  IInv'
<1> DEFINE i == find_p_cell(sbuf, k)
<1>1. /\ i # 0 /\ sbuf' = [sbuf EXCEPT ![i].q = q]
      /\ UNCHANGED <<pbuf, held, flushing, out>>
  BY DEF MergeSize
<1>2. sbuf \in Seq(Genuine) /\ sbuf \in Seq(Quotes)
  BY GenuineQuotes DEF IInv
<1>3. i \in 0 .. Len(sbuf) /\ (i # 0 => key(sbuf[i]) = k)
  BY <1>2, FindCell
<1> HIDE DEF i
<1>4. i \in 1 .. Len(sbuf) /\ key(sbuf[i]) = k
  BY <1>1, <1>2, <1>3, LenProperties
<1> DEFINE c == [sbuf[i] EXCEPT !.q = q]
<1>5. c \in Genuine
  <2>1. sbuf[i] \in Quotes /\ OfKey(sbuf[i]) /\ q \in Nat /\ q \in Size[key(sbuf[i])]
    BY <1>2, <1>4, ElementOfSeq, QuoAssumption DEF Genuine
  <2>2. c \in Quotes /\ key(c) = key(sbuf[i]) /\ c.p = sbuf[i].p /\ c.q = q
    BY <2>1 DEF Quotes, key
  <2> HIDE DEF c
  <2>3. QED
    BY <2>1, <2>2 DEF Genuine, OfKey
<1>6. sbuf' = [sbuf EXCEPT ![i] = c]
  BY <1>1
<1> HIDE DEF c
<1>7. sbuf' \in Seq(Genuine) /\ Len(sbuf') = Len(sbuf)
  BY <1>2, <1>4, <1>5, <1>6, ExceptSeq
<1>8. QED
  BY <1>1, <1>7 DEF IInv

\* The price a size is queued with is 0 or one of its own key.
LEMMA PriceForGenuine ==
    ASSUME IInv, NEW k \in Keys
    PROVE  PriceFor(k) \in Price[k] \cup {0} /\ PriceFor(k) \in Nat
<1>1. Price[k] \subseteq Nat
  BY QuoAssumption
<1>2. ASSUME NEW lst \in Seq(Genuine), find_p_cell(lst, k) # 0
      PROVE  lst[find_p_cell(lst, k)].p \in Price[k] \cup {0}
  <2> DEFINE i == find_p_cell(lst, k)
  <2>1. lst \in Seq(Quotes)
    BY GenuineQuotes
  <2>2. i \in 0 .. Len(lst) /\ key(lst[i]) = k
    BY <1>2, <2>1, FindCell
  <2>3. i # 0 /\ Len(lst) \in Nat
    BY <1>2, LenProperties
  <2> HIDE DEF i
  <2>4. i \in 1 .. Len(lst)
    BY <2>2, <2>3
  <2>5. lst[i] \in Genuine
    BY <2>4, ElementOfSeq
  <2>6. lst[i].p \in Price[k] \cup {0}
    BY <2>2, <2>5 DEF Genuine, OfKey
  <2>7. QED
    BY <2>6 DEF i
<1>3. PriceFor(k) \in Price[k] \cup {0}
  BY <1>2 DEF PriceFor, IInv
<1>4. QED
  BY <1>1, <1>3

LEMMA PushSizeHolds ==
    ASSUME IInv, NEW k \in Keys, NEW q \in Size[k], PushSize(k, q)
    PROVE  IInv'
<1> DEFINE c == [idx |-> k[1], sup |-> k[2], sub |-> 1, p |-> PriceFor(k), q |-> q]
<1>1. k[1] \in Idx /\ k[2] \in Sup /\ k = <<k[1], k[2]>> /\ q \in Nat
  BY QuoAssumption DEF Keys
<1>2. c \in Genuine
  BY <1>1, PriceForGenuine DEF Genuine, Quotes, OfKey, key
<1>3. sbuf' = Append(sbuf, c) /\ held' = held + 1 /\ UNCHANGED <<pbuf, flushing, out>>
  BY DEF PushSize
<1> HIDE DEF c
<1>4. sbuf' \in Seq(Genuine) /\ Len(sbuf') = Len(sbuf) + 1
  BY <1>2, <1>3, AppendGenuine DEF IInv
<1>5. held' = Len(sbuf') + Len(pbuf')
  BY <1>3, <1>4, LenProperties DEF IInv
<1>6. QED
  BY <1>3, <1>4, <1>5 DEF IInv

\* A flushed cell replaces the one of its key on pbuf, or is the first there.
LEMMA FlushOneHolds == IInv /\ FlushOne => IInv'
<1> SUFFICES ASSUME IInv, FlushOne
             PROVE  IInv'
  OBVIOUS
<1> DEFINE c == Head(sbuf)
           j == find_p_cell(pbuf, key(c))
<1>1. /\ sbuf # <<>> /\ sbuf' = Tail(sbuf) /\ flushing' \in BOOLEAN /\ out' = c
      /\ j # 0 => pbuf' = [pbuf EXCEPT ![j] = c] /\ held' = held - 1
      /\ j = 0 => pbuf' = bang_qqq(c) /\ held' = held
  BY DEF FlushOne
<1>2. /\ sbuf \in Seq(Genuine) /\ pbuf \in Seq(Genuine) /\ pbuf \in Seq(Quotes)
      /\ Len(sbuf) \in Nat /\ Len(pbuf) \in Nat
  BY GenuineQuotes, LenProperties DEF IInv
<1>3. c \in Genuine /\ sbuf' \in Seq(Genuine) /\ Len(sbuf') = Len(sbuf) - 1
  BY <1>1, <1>2, HeadTailProperties
<1>4. c \in Quotes /\ key(c) \in Keys
  BY <1>3, GenuineQuotes, KeyOf
<1>5. /\ j \in 0 .. Len(pbuf)
      /\ j # 0 => key(pbuf[j]) = key(c)
      /\ j = 0 => \A i \in 1 .. Len(pbuf) : key(pbuf[i]) # key(c)
  BY <1>2, <1>4, FindCell
<1> HIDE DEF j, c
<1>6. CASE j # 0
  <2>1. j \in 1 .. Len(pbuf)
    BY <1>2, <1>5, <1>6
  <2>2. /\ pbuf' \in Seq(Genuine) /\ Len(pbuf') = Len(pbuf)
        /\ \A i \in 1 .. Len(pbuf) : pbuf'[i] = IF i = j THEN c ELSE pbuf[i]
    BY <1>1, <1>2, <1>3, <1>6, <2>1, ExceptSeq
  <2>3. \A i \in 1 .. Len(pbuf) : key(pbuf'[i]) = key(pbuf[i])
    BY <1>5, <1>6, <2>2
  <2>4. \A h, i \in 1 .. Len(pbuf') : key(pbuf'[h]) = key(pbuf'[i]) => h = i
    BY <2>2, <2>3 DEF IInv
  <2>5. held' = Len(sbuf') + Len(pbuf')
    BY <1>1, <1>2, <1>3, <1>6, <2>2 DEF IInv
  <2>6. QED
    BY <1>1, <1>3, <2>2, <2>4, <2>5 DEF IInv
<1>7. CASE j = 0
  <2> DEFINE d == [c EXCEPT !.sub = 0]
  <2>1. d \in Quotes /\ key(d) = key(c) /\ d.p = c.p /\ d.q = c.q
    BY <1>4 DEF Quotes, key
  <2>2. pbuf' = Append(pbuf, d)
    BY <1>1, <1>7 DEF bang_qqq
  <2> HIDE DEF d
  <2>3. d \in Genuine
    BY <1>3, <2>1 DEF Genuine, OfKey
  <2>4. /\ pbuf' \in Seq(Genuine) /\ Len(pbuf') = Len(pbuf) + 1
        /\ \A i \in 1 .. Len(pbuf) : pbuf'[i] = pbuf[i]
        /\ pbuf'[Len(pbuf) + 1] = d
    BY <1>2, <2>2, <2>3, AppendGenuine
  <2>5. \A h, i \in 1 .. Len(pbuf') : key(pbuf'[h]) = key(pbuf'[i]) => h = i
    <3>1. SUFFICES ASSUME NEW h \in 1 .. Len(pbuf'), NEW i \in 1 .. Len(pbuf'),
                          key(pbuf'[h]) = key(pbuf'[i])
                   PROVE  h = i
      OBVIOUS
    <3>2. \A g \in 1 .. Len(pbuf') : g \in 1 .. Len(pbuf) \/ g = Len(pbuf) + 1
      BY <1>2, <2>4
    <3>3. CASE h \in 1 .. Len(pbuf) /\ i \in 1 .. Len(pbuf)
      BY <2>4, <3>1, <3>3 DEF IInv
    <3>4. \A g \in 1 .. Len(pbuf) : key(pbuf'[g]) # key(d)
      BY <1>5, <1>7, <2>1, <2>4
    <3>5. QED
      BY <2>4, <3>1, <3>2, <3>3, <3>4
  <2>6. held' = Len(sbuf') + Len(pbuf')
    BY <1>1, <1>2, <1>3, <1>7, <2>4 DEF IInv
  <2>7. QED
    BY <1>1, <1>3, <2>4, <2>5, <2>6 DEF IInv
<1>8. QED
  BY <1>6, <1>7

LEMMA InitHolds == Init => IInv
<1> SUFFICES ASSUME Init
             PROVE  IInv
  OBVIOUS
<1>1. sbuf = <<>> /\ pbuf = <<>> /\ held = 0 /\ flushing = FALSE /\ out = NoQuote
  BY DEF Init
<1>2. <<>> \in Seq(Genuine) /\ Len(<<>>) = 0
  BY EmptySeq
<1>3. sbuf \in Seq(Genuine) /\ pbuf \in Seq(Genuine) /\ Len(sbuf) = 0 /\ Len(pbuf) = 0
  BY <1>1, <1>2
<1>4. held = Len(sbuf) + Len(pbuf) /\ 1 .. Len(pbuf) = {}
  BY <1>1, <1>3
<1>5. QED
  BY <1>1, <1>3, <1>4 DEF IInv

LEMMA Invariance == Spec => []IInv
<1>1. Init => IInv
  BY InitHolds
<1>2. IInv /\ [Next]_vars => IInv'
  <2> SUFFICES ASSUME IInv, [Next]_vars
               PROVE  IInv'
    OBVIOUS
  <2>1. CASE UNCHANGED vars
    BY <2>1 DEF vars, IInv
  <2>2. QED
    BY <2>1, AddPriceHolds, MergeSizeHolds, PushSizeHolds, FlushOneHolds DEF Next
<1>3. QED
  BY <1>1, <1>2, PTL DEF Spec

-----------------------------------------------------------------------------
(* The theorems.                                                            *)

\* The types of quoq_s and quo_s hold for good.
THEOREM Typing == Spec => []TypeOK
<1>1. IInv => TypeOK
  <2> SUFFICES ASSUME IInv
               PROVE  TypeOK
    OBVIOUS
  <2>1. sbuf \in Seq(Quotes) /\ pbuf \in Seq(Quotes) /\ out \in Quotes \cup {NoQuote}
    BY GenuineQuotes DEF IInv
  <2>2. held \in Nat
    BY <2>1, LenProperties DEF IInv
  <2>3. QED
    BY <2>1, <2>2 DEF IInv, TypeOK
<1>2. QED
  BY <1>1, Invariance, PTL

\* quoq_flush_cb never keeps two cells of a key on pbuf.
THEOREM OneCell == Spec => []OneCellPerKey
<1>1. IInv => OneCellPerKey
  BY LenProperties DEF IInv, OneCellPerKey
<1>2. QED
  BY <1>1, Invariance, PTL

\* The queue never holds more cells than there are keys and ticks waiting, and
\* loses none.
THEOREM Bounded == Spec => []CellsBounded
<1>1. IInv => CellsBounded
  <2> SUFFICES ASSUME IInv
               PROVE  CellsBounded
    OBVIOUS
  <2> DEFINE n == Len(pbuf)
             f == [i \in 1 .. n |-> key(pbuf[i])]
  <2>1. n \in Nat /\ Len(sbuf) \in Nat /\ IsFiniteSet(Keys) /\ Cardinality(Keys) \in Nat
    BY LenProperties, FS_CardinalityType, QuoAssumption DEF IInv
  <2>2. \A i \in 1 .. n : key(pbuf[i]) \in Keys
    BY ElementOfSeq, KeyOf, GenuineQuotes DEF IInv
  <2>3. f \in Injection(1 .. n, Keys)
    BY <2>2 DEF IInv, Injection, IsInjective
  <2>4. Cardinality(1 .. n) <= Cardinality(Keys)
    <3> HIDE DEF f
    <3>1. QED
      BY <2>1, <2>3, FS_Injection
  <2>5. Cardinality(1 .. n) = n
    <3> HIDE DEF n
    <3>1. 1 \in Int /\ n \in Int /\ (1 > n => n = 0) /\ n - 1 + 1 = n
      BY <2>1
    <3>2. Cardinality(1 .. n) = IF 1 > n THEN 0 ELSE n - 1 + 1
      BY <3>1, FS_Interval
    <3>3. QED
      BY <3>1, <3>2
  <2>6. QED
    BY <2>1, <2>4, <2>5 DEF IInv, CellsBounded
<1>2. QED
  BY <1>1, Invariance, PTL

\* No quote, waiting, kept or handed out, mixes the ticks of two keys.
THEOREM NeverMixed == Spec => []ValuesGenuine
<1>1. IInv => ValuesGenuine
  <2> SUFFICES ASSUME IInv
               PROVE  ValuesGenuine
    OBVIOUS
  <2>1. ASSUME NEW s \in Seq(Genuine), NEW i \in DOMAIN s
        PROVE  OfKey(s[i])
    BY ElementOfSeq, LenProperties DEF Genuine
  <2>2. out # NoQuote => OfKey(out)
    BY DEF IInv, Genuine
  <2>3. QED
    BY <2>1, <2>2 DEF IInv, ValuesGenuine
<1>2. QED
  BY <1>1, Invariance, PTL

-----------------------------------------------------------------------------
(* Columns of a list.                                                       *)

Fields == {"p", "q"}

\* What the function in the definition of column does, up to the n-th cell.
Collects(lst, C, f, col) ==
    /\ col[0] = <<>>
    /\ \A n \in 1 .. Len(lst) :
          col[n] = IF lst[n] \in C THEN Append(col[n - 1], lst[n][f]) ELSE col[n - 1]

\* There is such a function.
LEMMA Collected ==
    ASSUME NEW lst \in Seq(Quotes), NEW C, NEW f \in Fields
    PROVE  \E col \in [Nat -> Seq(Nat)] :
              Collects(lst, C, f, col) /\ column(lst, C, f) = col[Len(lst)]
<1> DEFINE F == [x \in Nat \X Seq(Nat) |->
                    IF x[1] < Len(lst) /\ lst[x[1] + 1] \in C
                    THEN Append(x[2], lst[x[1] + 1][f]) ELSE x[2]]
<1>1. Len(lst) \in Nat
  BY LenProperties
<1>2. \A n \in 1 .. Len(lst) : lst[n][f] \in Nat
  <2>1. \A c \in Quotes : c[f] \in Nat
    BY DEF Quotes, Fields
  <2>2. QED
    BY <2>1, ElementOfSeq
<1>3. F \in [Nat \X Seq(Nat) -> Seq(Nat)]
  <2> SUFFICES ASSUME NEW n \in Nat, NEW s \in Seq(Nat)
               PROVE  (IF n < Len(lst) /\ lst[n + 1] \in C
                       THEN Append(s, lst[n + 1][f]) ELSE s) \in Seq(Nat)
    OBVIOUS
  <2>1. CASE n < Len(lst)
    <3>1. n + 1 \in 1 .. Len(lst)
      BY <1>1, <2>1
    <3>2. lst[n + 1][f] \in Nat
      BY <1>2, <3>1
    <3>3. QED
      BY <3>2, AppendProperties
  <2>2. CASE ~(n < Len(lst))
    BY <2>2
  <2>3. QED
    BY <2>1, <2>2
<1>4. <<>> \in Seq(Nat)
  OBVIOUS
<1>5. PICK g \in [Nat -> Seq(Nat)] :
          g[0] = <<>> /\ \A n \in Nat : g[n + 1] = F[<<n, g[n]>>]
  <2> DEFINE S == Seq(Nat)
             a == <<>>
  <2>1. a \in S /\ F \in [Nat \X S -> S]
    BY <1>3, <1>4
  <2> HIDE DEF F, S, a
  <2>2. \E g \in [Nat -> S] : Recurs(g, a, F)
    BY <2>1, Recursion
  <2>3. QED
    BY <2>2 DEF S, a, Recurs
<1>6. \A n \in Nat : g[n] \in Seq(Nat)
  OBVIOUS
<1>7. Collects(lst, C, f, g)
  <2>1. ASSUME NEW n \in 1 .. Len(lst)
        PROVE  g[n] = IF lst[n] \in C THEN Append(g[n - 1], lst[n][f]) ELSE g[n - 1]
    <3>1. n - 1 \in Nat /\ n - 1 < Len(lst) /\ n - 1 + 1 = n
      BY <1>1
    <3>2. \A q \in Seq(Nat) : F[<<n - 1, q>>] =
              IF lst[n] \in C THEN Append(q, lst[n][f]) ELSE q
      BY <3>1
    <3> HIDE DEF F
    <3>3. g[n] = F[<<n - 1, g[n - 1]>>]
      BY <1>5, <3>1
    <3>4. g[n - 1] \in Seq(Nat)
      BY <1>6, <3>1
    <3>5. QED
      BY <3>2, <3>3, <3>4
  <2> HIDE DEF F
  <2>2. QED
    BY <1>5, <2>1 DEF Collects
<1> DEFINE Body(c) == [n \in 0 .. Len(lst) |->
                          IF n = 0 THEN <<>>
                          ELSE IF lst[n] \in C THEN Append(c[n - 1], lst[n][f])
                          ELSE c[n - 1]]
           h == CHOOSE c : c = Body(c)
<1>8. column(lst, C, f) = h[Len(lst)]
  BY DEF column
<1>9. h = Body(h)
  <2> DEFINE r == [n \in 0 .. Len(lst) |-> g[n]]
  <2>1. r = Body(r)
    <3>1. ASSUME NEW n \in 0 .. Len(lst)
          PROVE  g[n] = IF n = 0 THEN <<>>
                        ELSE IF lst[n] \in C THEN Append(r[n - 1], lst[n][f])
                        ELSE r[n - 1]
      <4>1. CASE n = 0
        BY <1>7, <4>1 DEF Collects
      <4>2. CASE n # 0
        <5>1. n \in 1 .. Len(lst) /\ n - 1 \in 0 .. Len(lst)
          BY <1>1, <4>2
        <5>2. r[n - 1] = g[n - 1]
          BY <5>1
        <5> HIDE DEF r
        <5>3. QED
          BY <1>7, <4>2, <5>1, <5>2 DEF Collects
      <4>3. QED
        BY <4>1, <4>2
    <3>2. QED
      BY <3>1
  <2> HIDE DEF Body
  <2>2. QED
    BY <2>1
<1>10. ASSUME NEW n \in 0 .. Len(lst)
       PROVE  h[n] = IF n = 0 THEN <<>>
                     ELSE IF lst[n] \in C THEN Append(h[n - 1], lst[n][f]) ELSE h[n - 1]
  <2> DEFINE hh == h
  <2>1. hh = Body(hh)
    BY <1>9
  <2> HIDE DEF hh
  <2>2. hh[n] = Body(hh)[n]
    BY <2>1
  <2>3. hh[n] = IF n = 0 THEN <<>>
                ELSE IF lst[n] \in C THEN Append(hh[n - 1], lst[n][f]) ELSE hh[n - 1]
    BY <2>2
  <2>4. QED
    BY <2>3 DEF hh
<1> HIDE DEF h
<1>11. \A n \in Nat : n <= Len(lst) => h[n] = g[n]
  <2> DEFINE B == {n \in Nat : n <= Len(lst) => h[n] = g[n]}
  <2>1. 0 \in B
    <3>1. h[0] = <<>>
      BY <1>1, <1>10
    <3>2. QED
      BY <1>5, <3>1
  <2>2. ASSUME NEW n \in Nat, n \in B
        PROVE  n + 1 \in B
    <3> SUFFICES ASSUME n + 1 <= Len(lst)
                 PROVE  h[n + 1] = g[n + 1]
      OBVIOUS
    <3>1. n + 1 \in 1 .. Len(lst) /\ n + 1 \in 0 .. Len(lst) /\ n + 1 # 0 /\ n + 1 - 1 = n
      BY <1>1
    <3>2. h[n] = g[n]
      BY <1>1, <2>2
    <3>3. g[n + 1] = IF lst[n + 1] \in C THEN Append(g[n], lst[n + 1][f]) ELSE g[n]
      BY <1>7, <3>1 DEF Collects
    <3>4. h[n + 1] = IF lst[n + 1] \in C THEN Append(h[n], lst[n + 1][f]) ELSE h[n]
      BY <1>10, <3>1
    <3>5. QED
      BY <3>2, <3>3, <3>4
  <2>3. Nat \subseteq B
    <3> HIDE DEF B
    <3>1. QED
      BY <2>1, <2>2, Induction
  <2>4. QED
    BY <2>3
<1>12. column(lst, C, f) = g[Len(lst)]
  BY <1>1, <1>8, <1>11
<1>13. QED
  BY <1>7, <1>12

\* Two lists are the same up to a place, as far as C goes.
SameTo(l, r, C, f, m) ==
    \A i \in 1 .. m : /\ l[i] \in C <=> r[i] \in C
                      /\ l[i] \in C => l[i][f] = r[i][f]

\* Lists that agree on the cells of C up to a place collect the same up to it.
LEMMA Agree ==
    ASSUME NEW l \in Seq(Quotes), NEW r \in Seq(Quotes), NEW C, NEW f \in Fields,
           NEW g \in [Nat -> Seq(Nat)], Collects(l, C, f, g),
           NEW h \in [Nat -> Seq(Nat)], Collects(r, C, f, h),
           NEW m \in Nat, m <= Len(l), m <= Len(r), SameTo(l, r, C, f, m)
    PROVE  g[m] = h[m]
<1> DEFINE B == {n \in Nat : n <= m => g[n] = h[n]}
<1>1. 0 \in B
  BY DEF Collects
<1>2. ASSUME NEW n \in Nat, n \in B
      PROVE  n + 1 \in B
  <2> SUFFICES ASSUME n + 1 <= m
               PROVE  g[n + 1] = h[n + 1]
    OBVIOUS
  <2>1. Len(l) \in Nat /\ Len(r) \in Nat
    BY LenProperties
  <2>3. n <= m /\ g[n] = h[n]
    BY <1>2
  <2> HIDE DEF B
  <2>2. n + 1 \in 1 .. m /\ n + 1 \in 1 .. Len(l) /\ n + 1 \in 1 .. Len(r) /\ n + 1 - 1 = n
    <3>1. n + 1 \in 1 .. m
      OBVIOUS
    <3>2. n + 1 \in 1 .. Len(l)
      BY <2>1
    <3>3. n + 1 \in 1 .. Len(r)
      BY <2>1
    <3>4. QED
      BY <3>1, <3>2, <3>3
  <2>4. g[n + 1] = IF l[n + 1] \in C THEN Append(g[n], l[n + 1][f]) ELSE g[n]
    BY <2>2 DEF Collects
  <2>5. h[n + 1] = IF r[n + 1] \in C THEN Append(h[n], r[n + 1][f]) ELSE h[n]
    BY <2>2 DEF Collects
  <2>6. /\ l[n + 1] \in C <=> r[n + 1] \in C
        /\ l[n + 1] \in C => l[n + 1][f] = r[n + 1][f]
    BY <2>2 DEF SameTo
  <2>7. QED
    BY <2>3, <2>4, <2>5, <2>6
<1>3. Nat \subseteq B
  <2> HIDE DEF B
  <2>1. QED
    BY <1>1, <1>2, Induction
<1>4. QED
  BY <1>3

\* A column is of numbers.
LEMMA ColumnType ==
    ASSUME NEW l \in Seq(Quotes), NEW C, NEW f \in Fields
    PROVE  column(l, C, f) \in Seq(Nat)
<1>1. PICK g \in [Nat -> Seq(Nat)] : column(l, C, f) = g[Len(l)]
  BY Collected
<1>2. Len(l) \in Nat
  BY LenProperties
<1>3. QED
  BY <1>1, <1>2

\* The column of an empty list, or of a list without a cell of C.
LEMMA ColumnNone ==
    ASSUME NEW l \in Seq(Quotes), NEW C, NEW f \in Fields,
           \A i \in 1 .. Len(l) : l[i] \notin C
    PROVE  column(l, C, f) = <<>>
<1>1. PICK g \in [Nat -> Seq(Nat)] :
          Collects(l, C, f, g) /\ column(l, C, f) = g[Len(l)]
  BY Collected
<1>2. Len(l) \in Nat
  BY LenProperties
<1> DEFINE B == {n \in Nat : n <= Len(l) => g[n] = <<>>}
<1>3. 0 \in B
  BY <1>1 DEF Collects
<1>4. ASSUME NEW n \in Nat, n \in B
      PROVE  n + 1 \in B
  <2> SUFFICES ASSUME n + 1 <= Len(l)
               PROVE  g[n + 1] = <<>>
    OBVIOUS
  <2>1. n + 1 \in 1 .. Len(l) /\ n + 1 - 1 = n /\ g[n] = <<>>
    BY <1>2, <1>4
  <2> HIDE DEF B
  <2>2. g[n + 1] = IF l[n + 1] \in C THEN Append(g[n], l[n + 1][f]) ELSE g[n]
    <3> DEFINE k == n + 1
    <3>1. k \in 1 .. Len(l) /\ k - 1 = n
      BY <2>1
    <3> HIDE DEF k
    <3>2. g[k] = IF l[k] \in C THEN Append(g[k - 1], l[k][f]) ELSE g[k - 1]
      BY <1>1, <3>1 DEF Collects
    <3>3. QED
      BY <3>1, <3>2 DEF k
  <2>3. l[n + 1] \notin C
    BY <2>1
  <2>4. QED
    BY <2>1, <2>2, <2>3
<1>5. Nat \subseteq B
  <2> HIDE DEF B
  <2>1. QED
    BY <1>3, <1>4, Induction
<1>6. QED
  BY <1>1, <1>2, <1>5

\* A list that is the same, as far as C goes, has the same column.
LEMMA ColumnSame ==
    ASSUME NEW l \in Seq(Quotes), NEW r \in Seq(Quotes), NEW C, NEW f \in Fields,
           Len(l) = Len(r), SameTo(l, r, C, f, Len(l))
    PROVE  column(l, C, f) = column(r, C, f)
<1>1. PICK g \in [Nat -> Seq(Nat)] :
          Collects(l, C, f, g) /\ column(l, C, f) = g[Len(l)]
  BY Collected
<1>2. PICK h \in [Nat -> Seq(Nat)] :
          Collects(r, C, f, h) /\ column(r, C, f) = h[Len(r)]
  BY Collected
<1>3. Len(l) \in Nat /\ Len(l) <= Len(l) /\ Len(l) <= Len(r)
  BY LenProperties
<1>4. g[Len(l)] = h[Len(l)]
  BY <1>1, <1>2, <1>3, Agree
<1>5. QED
  BY <1>1, <1>2, <1>4

\* A cell at the end of the list adds to the end of the column, if it is of C.
LEMMA ColumnAppend ==
    ASSUME NEW l \in Seq(Quotes), NEW c \in Quotes, NEW C, NEW f \in Fields
    PROVE  column(Append(l, c), C, f) =
               IF c \in C THEN Append(column(l, C, f), c[f]) ELSE column(l, C, f)
<1> DEFINE r == Append(l, c)
<1>1. r \in Seq(Quotes) /\ Len(r) = Len(l) + 1 /\ Len(l) \in Nat
      /\ (\A i \in 1 .. Len(l) : r[i] = l[i]) /\ r[Len(l) + 1] = c
  BY AppendProperties, LenProperties
<1> HIDE DEF r
<1>2. PICK g \in [Nat -> Seq(Nat)] :
          Collects(l, C, f, g) /\ column(l, C, f) = g[Len(l)]
  BY Collected
<1>3. PICK h \in [Nat -> Seq(Nat)] :
          Collects(r, C, f, h) /\ column(r, C, f) = h[Len(r)]
  BY <1>1, Collected
<1>4. g[Len(l)] = h[Len(l)]
  <2>1. Len(l) <= Len(l) /\ Len(l) <= Len(r)
    BY <1>1
  <2>2. SameTo(l, r, C, f, Len(l))
    BY <1>1 DEF SameTo
  <2>3. QED
    BY <1>1, <1>2, <1>3, <2>1, <2>2, Agree
<1>5. Len(r) \in 1 .. Len(r) /\ Len(r) - 1 = Len(l)
  BY <1>1
<1>6. h[Len(r)] = IF c \in C THEN Append(h[Len(l)], c[f]) ELSE h[Len(l)]
  BY <1>1, <1>3, <1>5 DEF Collects
<1>7. QED
  BY <1>2, <1>3, <1>4, <1>6 DEF r

\* Taking the first cell off a list takes the first value off the column, if
\* it is of C.
LEMMA ColumnTail ==
    ASSUME NEW l \in Seq(Quotes), l # <<>>, NEW C, NEW f \in Fields
    PROVE  /\ l[1] \in C => /\ column(l, C, f) # <<>>
                            /\ Head(column(l, C, f)) = l[1][f]
                            /\ column(Tail(l), C, f) = Tail(column(l, C, f))
           /\ l[1] \notin C => column(Tail(l), C, f) = column(l, C, f)
<1> DEFINE r == Tail(l)
<1>1. r \in Seq(Quotes) /\ Len(r) = Len(l) - 1 /\ Len(l) \in Nat \ {0}
      /\ (\A i \in 1 .. Len(r) : r[i] = l[i + 1])
  BY HeadTailProperties, LenProperties, EmptySeq
<1> HIDE DEF r
<1>2. PICK g \in [Nat -> Seq(Nat)] :
          Collects(l, C, f, g) /\ column(l, C, f) = g[Len(l)]
  BY Collected
<1>3. PICK h \in [Nat -> Seq(Nat)] :
          Collects(r, C, f, h) /\ column(r, C, f) = h[Len(r)]
  BY <1>1, Collected
<1>4. \A n \in Nat : g[n] \in Seq(Nat) /\ h[n] \in Seq(Nat)
  OBVIOUS
<1>5. g[1] = (IF l[1] \in C THEN Append(<<>>, l[1][f]) ELSE <<>>) /\ h[0] = <<>>
  <2>1. 1 \in 1 .. Len(l) /\ 1 - 1 = 0
    BY <1>1
  <2>2. QED
    BY <1>2, <1>3, <2>1 DEF Collects
<1>6. ASSUME NEW n \in Nat, n + 1 <= Len(r)
      PROVE  /\ h[n + 1] = IF l[n + 2] \in C THEN Append(h[n], l[n + 2][f]) ELSE h[n]
             /\ g[n + 2] = IF l[n + 2] \in C THEN Append(g[n + 1], l[n + 2][f]) ELSE g[n + 1]
             /\ l[n + 2][f] \in Nat
  <2>1. /\ n + 1 \in 1 .. Len(r) /\ n + 1 - 1 = n /\ n + 1 + 1 = n + 2
        /\ n + 2 \in 1 .. Len(l) /\ n + 2 - 1 = n + 1
    BY <1>1, <1>6
  <2>2. r[n + 1] = l[n + 2]
    BY <1>1, <2>1
  <2>3. h[n + 1] = IF l[n + 2] \in C THEN Append(h[n], l[n + 2][f]) ELSE h[n]
    <3>1. h[n + 1] = IF r[n + 1] \in C THEN Append(h[n], r[n + 1][f]) ELSE h[n]
      BY <1>3, <2>1 DEF Collects
    <3>2. QED
      BY <2>2, <3>1
  <2>4. g[n + 2] = IF l[n + 2] \in C THEN Append(g[n + 1], l[n + 2][f]) ELSE g[n + 1]
    <3> DEFINE k == n + 2
    <3>1. k \in 1 .. Len(l) /\ k - 1 = n + 1
      BY <2>1
    <3> HIDE DEF k
    <3>2. g[k] = IF l[k] \in C THEN Append(g[k - 1], l[k][f]) ELSE g[k - 1]
      BY <1>2, <3>1 DEF Collects
    <3>3. QED
      BY <3>1, <3>2 DEF k
  <2>5. l[n + 2] \in Quotes
    BY <2>1, ElementOfSeq
  <2>6. QED
    BY <2>3, <2>4, <2>5 DEF Quotes, Fields
<1>7. Len(r) \in Nat /\ Len(r) + 1 = Len(l)
  BY <1>1
<1>8. CASE l[1] \in C
  <2> DEFINE x == l[1][f]
             B == {n \in Nat : n <= Len(r) => /\ g[n + 1] # <<>> /\ Head(g[n + 1]) = x
                                              /\ Tail(g[n + 1]) = h[n]}
  <2>1. 0 \in B
    <3>1. g[1] = Append(<<>>, x) /\ <<>> \in Seq(Nat)
      BY <1>5, <1>8
    <3>2. x \in Nat
      <4>1. l[1] \in Quotes
        BY <1>1, ElementOfSeq
      <4>2. QED
        BY <4>1 DEF Quotes, Fields
    <3> HIDE DEF x
    <3>3. g[1] # <<>> /\ Head(g[1]) = x /\ Tail(g[1]) = <<>>
      BY <3>1, <3>2, AppendProperties, HeadTailAppend
    <3>4. 0 + 1 = 1 /\ Tail(g[1]) = h[0]
      BY <1>5, <3>3
    <3>5. QED
      BY <3>3, <3>4
  <2>2. ASSUME NEW n \in Nat, n \in B
        PROVE  n + 1 \in B
    <3> SUFFICES ASSUME n + 1 <= Len(r)
                 PROVE  g[n + 2] # <<>> /\ Head(g[n + 2]) = x /\ Tail(g[n + 2]) = h[n + 1]
      OBVIOUS
    <3>1. g[n + 1] # <<>> /\ Head(g[n + 1]) = x /\ Tail(g[n + 1]) = h[n]
      <4>1. n <= Len(r)
        BY <1>7
      <4>2. QED
        BY <2>2, <4>1
    <3> HIDE DEF x, B
    <3>2. CASE l[n + 2] \in C
      <4> DEFINE y == l[n + 2][f]
      <4>1. h[n + 1] = Append(h[n], y) /\ g[n + 2] = Append(g[n + 1], y) /\ y \in Nat
        BY <1>6, <3>2
      <4> HIDE DEF y
      <4>2. g[n + 1] \in Seq(Nat)
        BY <1>4
      <4>3. g[n + 2] # <<>> /\ Head(g[n + 2]) = Head(g[n + 1])
            /\ Tail(g[n + 2]) = Append(Tail(g[n + 1]), y)
        <5> DEFINE z == g[n + 1]
        <5>1. g[n + 2] = Append(z, y) /\ z # <<>> /\ z \in Seq(Nat)
          BY <3>1, <4>1, <4>2
        <5> HIDE DEF z
        <5>2. Append(z, y) # <<>>
          <6>1. y \in Nat /\ z \in Seq(Nat)
            BY <4>1, <5>1
          <6> DEFINE w == Append(z, y)
          <6>2. Len(w) = Len(z) + 1 /\ Len(z) \in Nat
            BY <6>1, AppendProperties, LenProperties
          <6> HIDE DEF w
          <6>3. w # <<>>
            BY <6>2
          <6>4. QED
            BY <6>3 DEF w
        <5>3. Head(Append(z, y)) = Head(z) /\ Tail(Append(z, y)) = Append(Tail(z), y)
          BY <5>1, HeadTailAppend
        <5>4. QED
          BY <5>1, <5>2, <5>3 DEF z
      <4>4. QED
        BY <3>1, <4>1, <4>3
    <3>3. CASE l[n + 2] \notin C
      BY <1>6, <3>1, <3>3
    <3>4. QED
      BY <3>2, <3>3
  <2>3. Nat \subseteq B
    <3> HIDE DEF B
    <3>1. QED
      BY <2>1, <2>2, Induction
  <2>4. g[Len(l)] # <<>> /\ Head(g[Len(l)]) = x /\ Tail(g[Len(l)]) = h[Len(r)]
    <3> DEFINE m == Len(r)
    <3>1. m \in Nat /\ m <= m /\ m + 1 = Len(l)
      BY <1>7
    <3> HIDE DEF m
    <3>2. m \in B
      BY <2>3, <3>1
    <3>3. g[m + 1] # <<>> /\ Head(g[m + 1]) = x /\ Tail(g[m + 1]) = h[m]
      BY <3>1, <3>2 DEF m
    <3>4. QED
      BY <3>1, <3>3 DEF m
  <2>5. QED
    BY <1>2, <1>3, <1>8, <2>4 DEF r
<1>9. CASE l[1] \notin C
  <2> DEFINE B == {n \in Nat : n <= Len(r) => g[n + 1] = h[n]}
  <2>1. 0 \in B
    BY <1>5, <1>9
  <2>2. ASSUME NEW n \in Nat, n \in B
        PROVE  n + 1 \in B
    <3> SUFFICES ASSUME n + 1 <= Len(r)
                 PROVE  g[n + 2] = h[n + 1]
      OBVIOUS
    <3>1. g[n + 1] = h[n]
      BY <1>7, <2>2
    <3>2. QED
      BY <1>6, <3>1
  <2>3. Nat \subseteq B
    <3> HIDE DEF B
    <3>1. QED
      BY <2>1, <2>2, Induction
  <2>4. g[Len(l)] = h[Len(r)]
    <3> DEFINE m == Len(r)
    <3>1. m \in Nat /\ m <= m /\ m + 1 = Len(l)
      BY <1>7
    <3> HIDE DEF m
    <3>2. m \in B
      BY <2>3, <3>1
    <3>3. g[m + 1] = h[m]
      BY <3>1, <3>2 DEF m
    <3>4. QED
      BY <3>1, <3>3 DEF m
  <2>5. QED
    BY <1>2, <1>3, <1>9, <2>4 DEF r
<1>10. QED
  BY <1>8, <1>9

\* The column of a list with one cell of C.
LEMMA ColumnOne ==
    ASSUME NEW l \in Seq(Quotes), NEW C, NEW f \in Fields, NEW i \in 1 .. Len(l),
           \A j \in 1 .. Len(l) : l[j] \in C <=> j = i
    PROVE  column(l, C, f) = <<l[i][f]>>
<1>1. PICK g \in [Nat -> Seq(Nat)] :
          Collects(l, C, f, g) /\ column(l, C, f) = g[Len(l)]
  BY Collected
<1>2. Len(l) \in Nat
  BY LenProperties
<1> DEFINE x == l[i][f]
           B == {n \in Nat : n <= Len(l) => g[n] = IF n < i THEN <<>> ELSE <<x>>}
<1>3. 0 \in B
  BY <1>1 DEF Collects
<1>4. ASSUME NEW n \in Nat, n \in B
      PROVE  n + 1 \in B
  <2> SUFFICES ASSUME n + 1 <= Len(l)
               PROVE  g[n + 1] = IF n + 1 < i THEN <<>> ELSE <<x>>
    OBVIOUS
  <2>1. g[n] = IF n < i THEN <<>> ELSE <<x>>
    <3>1. n <= Len(l)
      BY <1>2
    <3>2. QED
      BY <1>4, <3>1
  <2> HIDE DEF B
  <2>2. g[n + 1] = IF n + 1 = i THEN Append(g[n], l[n + 1][f]) ELSE g[n]
    <3> DEFINE k == n + 1
    <3>1. k \in 1 .. Len(l) /\ k - 1 = n
      BY <1>2
    <3> HIDE DEF k
    <3>2. g[k] = IF l[k] \in C THEN Append(g[k - 1], l[k][f]) ELSE g[k - 1]
      BY <1>1, <3>1 DEF Collects
    <3>3. l[k] \in C <=> k = i
      BY <3>1
    <3>4. QED
      BY <3>1, <3>2, <3>3 DEF k
  <2>3. CASE n + 1 = i
    <3>1. n < i /\ ~(n + 1 < i)
      BY <2>3
    <3>2. g[n + 1] = Append(<<>>, x)
      BY <2>1, <2>2, <2>3, <3>1
    <3>3. Append(<<>>, x) = <<x>>
      OBVIOUS
    <3>4. QED
      BY <3>1, <3>2, <3>3
  <2>4. CASE n + 1 # i
    <3>1. n < i <=> n + 1 < i
      BY <2>4
    <3>2. QED
      BY <2>1, <2>2, <2>4, <3>1
  <2>5. QED
    BY <2>3, <2>4
<1>5. Nat \subseteq B
  <2> HIDE DEF B
  <2>1. QED
    BY <1>3, <1>4, Induction
<1>6. g[Len(l)] = <<x>>
  <2> DEFINE m == Len(l)
  <2>1. m \in Nat /\ m <= m /\ ~(m < i)
    BY <1>2
  <2> HIDE DEF m
  <2>2. m \in B
    BY <1>5, <2>1
  <2>3. QED
    BY <2>1, <2>2 DEF m
<1>7. QED
  BY <1>1, <1>6

-----------------------------------------------------------------------------
(* The promise of QuoteFeed.                                                *)

\* If the first cell of a key has no size, none of its cells has: a size that
\* finds one there is the next to come out.
FirstFull(s) ==
    \A i, j \in 1 .. Len(s) :
        /\ key(s[i]) = key(s[j]) /\ s[j].q # 0
        /\ \A h \in 1 .. i - 1 : key(s[h]) # key(s[i])
        => s[i].q # 0

RInv == IInv /\ (flushing = TRUE \/ FirstFull(sbuf))

\* The first cell of a key is the one find_p_cell returns.
LEMMA FirstIsFound ==
    ASSUME NEW s \in Seq(Quotes), NEW k \in Keys, NEW i \in 1 .. Len(s), key(s[i]) = k,
           \A h \in 1 .. i - 1 : key(s[h]) # key(s[i])
    PROVE  i = find_p_cell(s, k)
<1> DEFINE n == find_p_cell(s, k)
<1>1. /\ n \in 0 .. Len(s) /\ n <= i
      /\ n # 0 => key(s[n]) = k
      /\ n = 0 => key(s[i]) # k
  BY FindCell
<1>2. Len(s) \in Nat
  BY LenProperties
<1> HIDE DEF n
<1>3. ~(n \in 1 .. i - 1)
  BY <1>1
<1>4. n = i
  BY <1>1, <1>2, <1>3
<1>5. QED
  BY <1>4 DEF n

LEMMA FirstFullAppend ==
    ASSUME NEW s \in Seq(Genuine), FirstFull(s), NEW c \in Genuine,
           LET i == find_p_cell(s, key(c)) IN c.q = 0 \/ (i # 0 => s[i].q # 0)
    PROVE  FirstFull(Append(s, c))
<1> DEFINE r == Append(s, c)
           m == Len(s)
<1>1. /\ Len(r) = m + 1 /\ m \in Nat
      /\ \A i \in 1 .. m : r[i] = s[i]
      /\ r[m + 1] = c
  BY AppendGenuine, LenProperties
<1>2. s \in Seq(Quotes) /\ c \in Quotes /\ key(c) \in Keys
  BY GenuineQuotes, KeyOf
<1> SUFFICES ASSUME NEW i \in 1 .. m + 1, NEW j \in 1 .. m + 1,
                    key(r[i]) = key(r[j]), r[j].q # 0,
                    \A h \in 1 .. i - 1 : key(r[h]) # key(r[i])
             PROVE  r[i].q # 0
  BY <1>1 DEF FirstFull
<1> HIDE DEF r, m
<1>3. CASE i = j
  BY <1>3
<1>4. CASE i = m + 1 /\ i # j
  <2>1. j \in 1 .. i - 1
    BY <1>1, <1>4
  <2>2. QED
    BY <2>1
<1>5. CASE i \in 1 .. m /\ j \in 1 .. m
  <2>1. \A h \in 1 .. i - 1 : h \in 1 .. m
    BY <1>1, <1>5
  <2>2. \A h \in 1 .. i - 1 : key(s[h]) # key(s[i])
    BY <1>1, <1>5, <2>1
  <2>3. s[i].q # 0
    BY <1>1, <1>5, <2>2 DEF FirstFull, m
  <2>4. QED
    BY <1>1, <1>5, <2>3
<1>6. CASE i \in 1 .. m /\ j = m + 1
  <2>1. \A h \in 1 .. i - 1 : h \in 1 .. m
    BY <1>1, <1>6
  <2>2. \A h \in 1 .. i - 1 : key(s[h]) # key(s[i])
    BY <1>1, <1>6, <2>1
  <2>3. key(s[i]) = key(c) /\ c.q # 0 /\ i \in 1 .. Len(s)
    BY <1>1, <1>6 DEF m
  <2>4. i = find_p_cell(s, key(c))
    BY <1>2, <2>2, <2>3, FirstIsFound
  <2>5. s[i].q # 0
    BY <1>6, <2>3, <2>4
  <2>6. QED
    BY <1>1, <1>6, <2>5
<1>7. QED
  <2>1. i \in 1 .. m \/ i = m + 1
    BY <1>1
  <2>2. j \in 1 .. m \/ j = m + 1
    BY <1>1
  <2>3. QED
    BY <1>3, <1>4, <1>5, <1>6, <2>1, <2>2

PriceCells(k) == {c \in Quotes : key(c) = k /\ c.sub = 0}
SizeCells(k)  == {c \in Quotes : key(c) = k /\ c.q # 0}

\* The cell that joins the queue when a price or a size comes in joins the
\* column of its key, if it has something for it, and no other.
LEMMA Queued ==
    ASSUME sbuf \in Seq(Quotes), NEW c \in Quotes, sbuf' = Append(sbuf, c), NEW k \in Keys
    PROVE  /\ PricesQueued(k)' = IF key(c) = k /\ c.sub = 0
                                 THEN Append(PricesQueued(k), c.p) ELSE PricesQueued(k)
           /\ SizesQueued(k)' = IF key(c) = k /\ c.q # 0
                                THEN Append(SizesQueued(k), c.q) ELSE SizesQueued(k)
<1>1. "p" \in Fields /\ "q" \in Fields
  BY DEF Fields
<1>2. /\ PricesQueued(k) = column(sbuf, PriceCells(k), "p")
      /\ SizesQueued(k) = column(sbuf, SizeCells(k), "q")
      /\ PricesQueued(k)' = column(Append(sbuf, c), PriceCells(k), "p")
      /\ SizesQueued(k)' = column(Append(sbuf, c), SizeCells(k), "q")
  BY DEF PricesQueued, SizesQueued, PriceCells, SizeCells
<1>3. column(Append(sbuf, c), PriceCells(k), "p") =
          IF c \in PriceCells(k) THEN Append(column(sbuf, PriceCells(k), "p"), c["p"])
          ELSE column(sbuf, PriceCells(k), "p")
  BY <1>1, ColumnAppend
<1>4. column(Append(sbuf, c), SizeCells(k), "q") =
          IF c \in SizeCells(k) THEN Append(column(sbuf, SizeCells(k), "q"), c["q"])
          ELSE column(sbuf, SizeCells(k), "q")
  BY <1>1, ColumnAppend
<1>5. /\ c \in PriceCells(k) <=> key(c) = k /\ c.sub = 0
      /\ c \in SizeCells(k) <=> key(c) = k /\ c.q # 0
  BY DEF PriceCells, SizeCells
<1>6. QED
  BY <1>2, <1>3, <1>4, <1>5

\* A price comes in.
LEMMA AddPriceIn ==
    ASSUME RInv, NEW k \in Keys, NEW p \in Price[k], AddPrice(k, p)
    PROVE  RInv' /\ Feed!PriceIn(k, p)
<1> DEFINE c == [idx |-> k[1], sup |-> k[2], sub |-> 0, p |-> p, q |-> 0]
<1>1. k[1] \in Idx /\ k[2] \in Sup /\ k = <<k[1], k[2]>> /\ p \in Nat
  BY QuoAssumption DEF Keys
<1>2. c \in Genuine /\ c \in Quotes /\ key(c) = k /\ c.sub = 0 /\ c.p = p /\ c.q = 0
  BY <1>1 DEF Genuine, Quotes, OfKey, key
<1>3. sbuf' = Append(sbuf, c) /\ ~flushing /\ UNCHANGED <<flushing, out>>
  BY DEF AddPrice
<1> HIDE DEF c
<1>4. IInv' /\ FirstFull(sbuf')
  <2>1. IInv' /\ FirstFull(sbuf) /\ sbuf \in Seq(Genuine)
    BY <1>3, AddPriceHolds DEF RInv, IInv
  <2>2. FirstFull(Append(sbuf, c))
    BY <1>2, <2>1, FirstFullAppend
  <2>3. QED
    BY <1>3, <2>1, <2>2
<1>5. sbuf \in Seq(Quotes)
  BY GenuineQuotes DEF RInv, IInv
<1>6. \A kk \in Keys : /\ PricesQueued(kk)' = IF kk = k THEN Append(PricesQueued(kk), p)
                                              ELSE PricesQueued(kk)
                       /\ SizesQueued(kk)' = SizesQueued(kk)
  BY <1>2, <1>3, <1>5, Queued
<1>7. [kk \in Keys |-> PricesQueued(kk)]' =
          [[kk \in Keys |-> PricesQueued(kk)] EXCEPT ![k] = Append(@, p)]
  BY <1>6
<1>8. [kk \in Keys |-> SizesQueued(kk)]' = [kk \in Keys |-> SizesQueued(kk)]
  BY <1>6
<1>9. QED
  BY <1>3, <1>4, <1>7, <1>8 DEF RInv, Feed!PriceIn

\* A size comes in behind those of its key.
LEMMA PushSizeIn ==
    ASSUME RInv, NEW k \in Keys, NEW q \in Size[k], PushSize(k, q)
    PROVE  RInv' /\ Feed!SizeIn(k, q)
<1> DEFINE c == [idx |-> k[1], sup |-> k[2], sub |-> 1, p |-> PriceFor(k), q |-> q]
           i == find_p_cell(sbuf, k)
<1>0. IInv
  BY DEF RInv
<1>1. k[1] \in Idx /\ k[2] \in Sup /\ k = <<k[1], k[2]>> /\ q \in Nat
  BY QuoAssumption DEF Keys
<1>2. c \in Genuine /\ c \in Quotes /\ key(c) = k /\ c.sub = 1 /\ c.q = q
  BY <1>0, <1>1, PriceForGenuine DEF Genuine, Quotes, OfKey, key
<1>3. /\ sbuf' = Append(sbuf, c) /\ ~flushing /\ UNCHANGED <<flushing, out>>
      /\ i # 0 => sbuf[i].q # 0
  BY DEF PushSize
<1> HIDE DEF c
<1>4. IInv' /\ FirstFull(sbuf')
  <2>1. IInv' /\ FirstFull(sbuf) /\ sbuf \in Seq(Genuine)
    BY <1>0, <1>3, PushSizeHolds DEF RInv, IInv
  <2>2. FirstFull(Append(sbuf, c))
    BY <1>2, <1>3, <2>1, FirstFullAppend
  <2>3. QED
    BY <1>3, <2>1, <2>2
<1>5. sbuf \in Seq(Quotes)
  BY GenuineQuotes DEF RInv, IInv
<1>6. \A kk \in Keys : /\ PricesQueued(kk)' = PricesQueued(kk)
                       /\ SizesQueued(kk)' = IF kk = k /\ q # 0
                                             THEN Append(SizesQueued(kk), q)
                                             ELSE SizesQueued(kk)
  BY <1>2, <1>3, <1>5, Queued
<1>7. [kk \in Keys |-> PricesQueued(kk)]' = [kk \in Keys |-> PricesQueued(kk)]
  BY <1>6
<1>8. [kk \in Keys |-> SizesQueued(kk)]' =
          IF q = 0 THEN [kk \in Keys |-> SizesQueued(kk)]
          ELSE [[kk \in Keys |-> SizesQueued(kk)] EXCEPT ![k] = Append(@, q)]
  BY <1>6
<1>9. QED
  BY <1>3, <1>4, <1>7, <1>8 DEF RInv, Feed!SizeIn

\* A size comes in and is joined to a price: none of its key is waiting then,
\* so that it is the only one.
LEMMA MergeSizeIn ==
    ASSUME RInv, NEW k \in Keys, NEW q \in Size[k], MergeSize(k, q)
    PROVE  RInv' /\ Feed!SizeIn(k, q)
<1> DEFINE i == find_p_cell(sbuf, k)
<1>1. /\ i # 0 /\ sbuf[i].q = 0 /\ sbuf' = [sbuf EXCEPT ![i].q = q]
      /\ ~flushing /\ UNCHANGED <<flushing, out>>
  BY DEF MergeSize
<1>2. /\ IInv /\ IInv' /\ FirstFull(sbuf)
      /\ sbuf \in Seq(Quotes) /\ sbuf' \in Seq(Quotes) /\ Len(sbuf) \in Nat /\ q \in Nat
  BY <1>1, MergeSizeHolds, GenuineQuotes, LenProperties, QuoAssumption DEF RInv, IInv
<1>3. /\ i \in 0 .. Len(sbuf) /\ (i # 0 => key(sbuf[i]) = k)
      /\ \A j \in 1 .. Len(sbuf) : key(sbuf[j]) = k => i <= j
  BY <1>2, FindCell
<1> HIDE DEF i
<1>4. i \in 1 .. Len(sbuf) /\ key(sbuf[i]) = k
  BY <1>1, <1>2, <1>3
<1>5. \A j \in 1 .. Len(sbuf) : sbuf[j] \in Quotes
  BY <1>2, ElementOfSeq
<1> DEFINE c == [sbuf[i] EXCEPT !.q = q]
<1>6. /\ c \in Quotes /\ key(c) = key(sbuf[i]) /\ c.p = sbuf[i].p /\ c.sub = sbuf[i].sub
      /\ c.q = q
  BY <1>2, <1>4, <1>5 DEF Quotes, key
<1>7. /\ Len(sbuf') = Len(sbuf)
      /\ \A j \in 1 .. Len(sbuf) : sbuf'[j] = IF j = i THEN c ELSE sbuf[j]
  <2>1. sbuf' = [sbuf EXCEPT ![i] = c]
    BY <1>1
  <2> HIDE DEF c
  <2>2. QED
    BY <1>2, <1>4, <1>6, <2>1, ExceptSeq
<1> HIDE DEF c
<1>8. \A j \in 1 .. Len(sbuf) : key(sbuf'[j]) = key(sbuf[j])
  BY <1>6, <1>7
<1>9. \A j \in 1 .. Len(sbuf) : key(sbuf[j]) = k => sbuf[j].q = 0
  <2> SUFFICES ASSUME NEW j \in 1 .. Len(sbuf), key(sbuf[j]) = k
               PROVE  sbuf[j].q = 0
    OBVIOUS
  <2>1. \A h \in 1 .. i - 1 : key(sbuf[h]) # key(sbuf[i])
    <3>1. ASSUME NEW h \in 1 .. i - 1
          PROVE  h \in 1 .. Len(sbuf) /\ ~(i <= h)
      BY <1>2, <1>4
    <3>2. QED
      BY <1>3, <1>4, <3>1
  <2>2. key(sbuf[i]) = key(sbuf[j])
    BY <1>4
  <2>3. QED
    BY <1>1, <1>2, <1>4, <2>1, <2>2 DEF FirstFull
<1>10. FirstFull(sbuf')
  <2> SUFFICES ASSUME NEW h \in 1 .. Len(sbuf), NEW j \in 1 .. Len(sbuf),
                      key(sbuf'[h]) = key(sbuf'[j]), sbuf'[j].q # 0,
                      \A g \in 1 .. h - 1 : key(sbuf'[g]) # key(sbuf'[h])
               PROVE  sbuf'[h].q # 0
    BY <1>7 DEF FirstFull
  <2>1. key(sbuf[h]) = key(sbuf[j])
    BY <1>8
  <2>2. \A g \in 1 .. h - 1 : key(sbuf[g]) # key(sbuf[h])
    <3>1. \A g \in 1 .. h - 1 : g \in 1 .. Len(sbuf)
      BY <1>2
    <3>2. QED
      BY <1>8, <3>1
  <2>3. CASE key(sbuf[h]) = k
    <3>1. h = i
      BY <1>2, <2>2, <2>3, FirstIsFound DEF i
    <3>2. q # 0
      <4>1. CASE j = i
        BY <1>6, <1>7, <4>1
      <4>2. CASE j # i
        BY <1>7, <1>9, <2>1, <2>3, <4>2
      <4>3. QED
        BY <4>1, <4>2
    <3>3. QED
      BY <1>6, <1>7, <3>1, <3>2
  <2>4. CASE key(sbuf[h]) # k
    <3>1. h # i /\ j # i
      BY <1>4, <2>1, <2>4
    <3>2. sbuf'[h] = sbuf[h] /\ sbuf'[j] = sbuf[j]
      BY <1>7, <3>1
    <3>3. QED
      BY <1>2, <2>1, <2>2, <3>2 DEF FirstFull
  <2>5. QED
    BY <2>3, <2>4
<1>11. ASSUME NEW kk \in Keys
       PROVE  PricesQueued(kk)' = PricesQueued(kk)
  <2>1. SameTo(sbuf, sbuf', PriceCells(kk), "p", Len(sbuf))
    <3> SUFFICES ASSUME NEW j \in 1 .. Len(sbuf)
                 PROVE  /\ sbuf[j] \in PriceCells(kk) <=> sbuf'[j] \in PriceCells(kk)
                        /\ sbuf[j]["p"] = sbuf'[j]["p"]
      BY DEF SameTo
    <3>1. CASE j = i
      BY <1>5, <1>6, <1>7, <3>1 DEF PriceCells
    <3>2. CASE j # i
      BY <1>7, <3>2
    <3>3. QED
      BY <3>1, <3>2
  <2>2. "p" \in Fields
    BY DEF Fields
  <2>3. column(sbuf, PriceCells(kk), "p") = column(sbuf', PriceCells(kk), "p")
    BY <1>2, <1>7, <2>1, <2>2, ColumnSame
  <2>4. QED
    BY <2>3 DEF PricesQueued, PriceCells
<1>12. ASSUME NEW kk \in Keys, kk # k
       PROVE  SizesQueued(kk)' = SizesQueued(kk)
  <2>1. SameTo(sbuf, sbuf', SizeCells(kk), "q", Len(sbuf))
    <3> SUFFICES ASSUME NEW j \in 1 .. Len(sbuf)
                 PROVE  /\ sbuf[j] \in SizeCells(kk) <=> sbuf'[j] \in SizeCells(kk)
                        /\ sbuf[j] \in SizeCells(kk) => sbuf[j]["q"] = sbuf'[j]["q"]
      BY DEF SameTo
    <3>1. CASE j = i
      BY <1>4, <1>6, <1>7, <1>12, <3>1 DEF SizeCells
    <3>2. CASE j # i
      BY <1>7, <3>2
    <3>3. QED
      BY <3>1, <3>2
  <2>2. "q" \in Fields
    BY DEF Fields
  <2>3. column(sbuf, SizeCells(kk), "q") = column(sbuf', SizeCells(kk), "q")
    BY <1>2, <1>7, <2>1, <2>2, ColumnSame
  <2>4. QED
    BY <2>3 DEF SizesQueued, SizeCells
<1>13. SizesQueued(k) = <<>>
  <2>1. \A j \in 1 .. Len(sbuf) : sbuf[j] \notin SizeCells(k)
    BY <1>9 DEF SizeCells
  <2>2. "q" \in Fields
    BY DEF Fields
  <2>3. column(sbuf, SizeCells(k), "q") = <<>>
    BY <1>2, <2>1, <2>2, ColumnNone
  <2>4. QED
    BY <2>3 DEF SizesQueued, SizeCells
<1>14. SizesQueued(k)' = IF q = 0 THEN <<>> ELSE <<q>>
  <2>1. ASSUME NEW j \in 1 .. Len(sbuf)
        PROVE  sbuf'[j] \in SizeCells(k) <=> j = i /\ q # 0
    <3>1. CASE j = i
      BY <1>4, <1>6, <1>7, <3>1 DEF SizeCells
    <3>2. CASE j # i
      BY <1>7, <1>9, <3>2 DEF SizeCells
    <3>3. QED
      BY <3>1, <3>2
  <2>2. "q" \in Fields
    BY DEF Fields
  <2>3. CASE q = 0
    <3>1. column(sbuf', SizeCells(k), "q") = <<>>
      BY <1>2, <1>7, <2>1, <2>2, <2>3, ColumnNone
    <3>2. QED
      BY <2>3, <3>1 DEF SizesQueued, SizeCells
  <2>4. CASE q # 0
    <3>1. \A j \in 1 .. Len(sbuf') : sbuf'[j] \in SizeCells(k) <=> j = i
      BY <1>7, <2>1, <2>4
    <3>2. i \in 1 .. Len(sbuf')
      BY <1>4, <1>7
    <3>3. column(sbuf', SizeCells(k), "q") = <<sbuf'[i]["q"]>>
      BY <1>2, <2>2, <3>1, <3>2, ColumnOne
    <3>4. sbuf'[i]["q"] = q
      BY <1>4, <1>6, <1>7
    <3>5. QED
      BY <2>4, <3>3, <3>4 DEF SizesQueued, SizeCells
  <2>5. QED
    BY <2>3, <2>4
<1>15. [kk \in Keys |-> PricesQueued(kk)]' = [kk \in Keys |-> PricesQueued(kk)]
  BY <1>11
<1>16. [kk \in Keys |-> SizesQueued(kk)]' =
          IF q = 0 THEN [kk \in Keys |-> SizesQueued(kk)]
          ELSE [[kk \in Keys |-> SizesQueued(kk)] EXCEPT ![k] = Append(@, q)]
  <2>1. Append(<<>>, q) = <<q>>
    OBVIOUS
  <2>2. QED
    BY <1>12, <1>13, <1>14, <2>1
<1>17. QED
  BY <1>1, <1>2, <1>10, <1>15, <1>16 DEF RInv, Feed!SizeIn

\* A quote comes out: it is the first of its key, its price the first price
\* and its size the first size.
LEMMA FlushOneOut ==
    ASSUME RInv, FlushOne
    PROVE  RInv' /\ \E k \in Keys : Feed!Emit(k)
<1> DEFINE c == Head(sbuf)
           k == key(c)
<1>1. sbuf # <<>> /\ sbuf' = Tail(sbuf) /\ flushing' = (Tail(sbuf) # <<>>) /\ out' = c
  BY DEF FlushOne
<1>2. IInv' /\ sbuf \in Seq(Quotes) /\ sbuf' \in Seq(Quotes)
  BY FlushOneHolds, GenuineQuotes DEF RInv, IInv
<1>3. flushing' = TRUE \/ FirstFull(sbuf')
  <2>1. CASE Tail(sbuf) # <<>>
    BY <1>1, <2>1
  <2>2. CASE Tail(sbuf) = <<>>
    <3>1. sbuf' = <<>> /\ Len(sbuf') = 0
      BY <1>1, <2>2, EmptySeq
    <3>2. 1 .. Len(sbuf') = {}
      BY <3>1
    <3>3. QED
      BY <3>2 DEF FirstFull
  <2>3. QED
    BY <2>1, <2>2
<1>4. c \in Quotes /\ c = sbuf[1] /\ k \in Keys
  BY <1>1, <1>2, HeadTailProperties, KeyOf
<1>5. "p" \in Fields /\ "q" \in Fields
  BY DEF Fields
<1> HIDE DEF c, k
<1>6. ASSUME NEW kk \in Keys
      PROVE  /\ kk = k /\ c.sub = 0 => /\ PricesQueued(kk) # <<>>
                                       /\ Head(PricesQueued(kk)) = c.p
                                       /\ PricesQueued(kk)' = Tail(PricesQueued(kk))
             /\ ~(kk = k /\ c.sub = 0) => PricesQueued(kk)' = PricesQueued(kk)
  <2>1. /\ PricesQueued(kk) = column(sbuf, PriceCells(kk), "p")
        /\ PricesQueued(kk)' = column(Tail(sbuf), PriceCells(kk), "p")
    BY <1>1 DEF PricesQueued, PriceCells
  <2>2. c \in PriceCells(kk) <=> kk = k /\ c.sub = 0
    BY <1>4 DEF PriceCells, k
  <2>3. /\ c \in PriceCells(kk) =>
              /\ column(sbuf, PriceCells(kk), "p") # <<>>
              /\ Head(column(sbuf, PriceCells(kk), "p")) = c["p"]
              /\ column(Tail(sbuf), PriceCells(kk), "p") =
                     Tail(column(sbuf, PriceCells(kk), "p"))
        /\ c \notin PriceCells(kk) =>
              column(Tail(sbuf), PriceCells(kk), "p") = column(sbuf, PriceCells(kk), "p")
    BY <1>1, <1>2, <1>4, <1>5, ColumnTail
  <2>4. QED
    BY <2>1, <2>2, <2>3
<1>7. ASSUME NEW kk \in Keys
      PROVE  /\ kk = k /\ c.q # 0 => /\ SizesQueued(kk) # <<>>
                                     /\ Head(SizesQueued(kk)) = c.q
                                     /\ SizesQueued(kk)' = Tail(SizesQueued(kk))
             /\ ~(kk = k /\ c.q # 0) => SizesQueued(kk)' = SizesQueued(kk)
  <2>1. /\ SizesQueued(kk) = column(sbuf, SizeCells(kk), "q")
        /\ SizesQueued(kk)' = column(Tail(sbuf), SizeCells(kk), "q")
    BY <1>1 DEF SizesQueued, SizeCells
  <2>2. c \in SizeCells(kk) <=> kk = k /\ c.q # 0
    BY <1>4 DEF SizeCells, k
  <2>3. /\ c \in SizeCells(kk) =>
              /\ column(sbuf, SizeCells(kk), "q") # <<>>
              /\ Head(column(sbuf, SizeCells(kk), "q")) = c["q"]
              /\ column(Tail(sbuf), SizeCells(kk), "q") =
                     Tail(column(sbuf, SizeCells(kk), "q"))
        /\ c \notin SizeCells(kk) =>
              column(Tail(sbuf), SizeCells(kk), "q") = column(sbuf, SizeCells(kk), "q")
    BY <1>1, <1>2, <1>4, <1>5, ColumnTail
  <2>4. QED
    BY <2>1, <2>2, <2>3
<1>8. [kk \in Keys |-> PricesQueued(kk)]' =
          IF c.sub = 0
          THEN [[kk \in Keys |-> PricesQueued(kk)] EXCEPT ![k] = Tail(@)]
          ELSE [kk \in Keys |-> PricesQueued(kk)]
  BY <1>4, <1>6
<1>9. [kk \in Keys |-> SizesQueued(kk)]' =
          IF c.q # 0
          THEN [[kk \in Keys |-> SizesQueued(kk)] EXCEPT ![k] = Tail(@)]
          ELSE [kk \in Keys |-> SizesQueued(kk)]
  BY <1>4, <1>7
<1>10. out' # NoQuote /\ <<out'.idx, out'.sup>> = k
  BY <1>1, <1>4, QuoAssumption DEF k, key
<1>11. Feed!Emit(k)
  <2>1. c.sub = 0 => PricesQueued(k) # <<>> /\ c.p = Head(PricesQueued(k))
    BY <1>4, <1>6
  <2>2. c.q # 0 => SizesQueued(k) # <<>> /\ c.q = Head(SizesQueued(k))
    BY <1>4, <1>7
  <2>3. out' = c
    BY <1>1
  <2>4. QED
    BY <1>4, <1>8, <1>9, <1>10, <2>1, <2>2, <2>3 DEF Feed!Emit
<1>12. QED
  BY <1>2, <1>3, <1>4, <1>11 DEF RInv

\* Whatever is merged on the way, every price and every size that is not 0
\* comes out once, with its key, in the order in which they came in: quoq_add
\* and quoq_flush_cb implement QuoteFeed.
THEOREM KeepsPromise == Spec => FeedSpec
<1>1. Init => RInv /\ Feed!Init
  <2> SUFFICES ASSUME Init
               PROVE  RInv /\ Feed!Init
    OBVIOUS
  <2>1. /\ sbuf = <<>> /\ pbuf = <<>> /\ held = 0 /\ flushing = FALSE /\ out = NoQuote
        /\ Len(sbuf) = 0 /\ Len(pbuf) = 0 /\ 1 .. Len(sbuf) = {} /\ 1 .. Len(pbuf) = {}
    BY EmptySeq DEF Init
  <2>2. sbuf \in Seq(Genuine) /\ sbuf \in Seq(Quotes) /\ pbuf \in Seq(Genuine)
    BY <2>1, EmptySeq
  <2>3. RInv
    BY <2>1, InitHolds DEF RInv, FirstFull
  <2>4. "p" \in Fields /\ "q" \in Fields
    BY DEF Fields
  <2>5. \A C : column(sbuf, C, "p") = <<>> /\ column(sbuf, C, "q") = <<>>
    BY <2>1, <2>2, <2>4, ColumnNone
  <2>6. \A k \in Keys : PricesQueued(k) = <<>> /\ SizesQueued(k) = <<>>
    BY <2>5 DEF PricesQueued, SizesQueued
  <2>7. QED
    BY <2>1, <2>3, <2>6 DEF Feed!Init
<1>2. RInv /\ [Next]_vars => RInv' /\ [Feed!Next]_Feed!feedVars
  <2> SUFFICES ASSUME RInv, [Next]_vars
               PROVE  RInv' /\ [Feed!Next]_Feed!feedVars
    OBVIOUS
  <2>1. CASE UNCHANGED vars
    <3>1. UNCHANGED Feed!feedVars
      BY <2>1 DEF vars, Feed!feedVars, PricesQueued, SizesQueued
    <3>2. RInv'
      BY <2>1 DEF vars, RInv, IInv, FirstFull
    <3>3. QED
      BY <3>1, <3>2
  <2>2. ASSUME NEW k \in Keys, NEW p \in Price[k], AddPrice(k, p)
        PROVE  RInv' /\ Feed!Next
    BY <2>2, AddPriceIn DEF Feed!Next
  <2>3. ASSUME NEW k \in Keys, NEW q \in Size[k], MergeSize(k, q) \/ PushSize(k, q)
        PROVE  RInv' /\ Feed!Next
    BY <2>3, MergeSizeIn, PushSizeIn DEF Feed!Next
  <2>4. CASE FlushOne
    BY <2>4, FlushOneOut DEF Feed!Next
  <2>5. QED
    BY <2>1, <2>2, <2>3, <2>4 DEF Next
<1>3. QED
  BY <1>1, <1>2, PTL DEF Spec, FeedSpec, Feed!Spec

=============================================================================
