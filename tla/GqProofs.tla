------------------------------ MODULE GqProofs ------------------------------
(***************************************************************************)
(* The lists of gq.c never lose, share or repeat a cell, and the book      *)
(* keepers account for all the memory, for any lists, any nnew_members and *)
(* however often the pool grows.                                           *)
(***************************************************************************)
EXTENDS Gq, SequenceTheorems, TLAPS

Distinct(s) == \A j, k \in DOMAIN s : s[j] = s[k] => j = k

Members(s) == {s[k] : k \in DOMAIN s}

-----------------------------------------------------------------------------
(* One list, s, on the pointers n of the cells 1 .. T.                      *)

\* What happens to the pointers of other cells does not concern a list.
LEMMA LinkedElsewhere ==
    ASSUME NEW T \in Nat, NEW s \in Seq(1 .. T), NEW f, NEW t, NEW n, NEW m,
           Linked(s, f, t, n), \A i \in Members(s) : m[i] = n[i]
    PROVE  Linked(s, f, t, m)
<1>1. \A k \in 1 .. Len(s) : s[k] \in Members(s)
  BY DEF Members
<1>2. s # <<>> => Len(s) \in 1 .. Len(s)
  BY EmptySeq, LenProperties
<1>3. Len(s) \in Nat /\ \A k \in 1 .. Len(s) : m[s[k]] = n[s[k]]
  BY <1>1, LenProperties
<1>4. CASE s = <<>>
  BY <1>3, <1>4 DEF Linked
<1>5. CASE s # <<>>
  <2>1. \A k \in 1 .. (Len(s) - 1) : m[s[k]] = s[k + 1]
    BY <1>3 DEF Linked
  <2>2. f = s[1] /\ t = s[Len(s)] /\ m[t] = NULL
    BY <1>2, <1>3, <1>5 DEF Linked
  <2>3. QED
    BY <1>5, <2>1, <2>2 DEF Linked
<1>6. QED
  BY <1>4, <1>5

\* gq_pop_head.
LEMMA LinkedPop ==
    ASSUME NEW T \in Nat, NEW s \in Seq(1 .. T), NEW f, NEW t,
           NEW n \in [1 .. T -> 0 .. T],
           Linked(s, f, t, n), Distinct(s), f # NULL
    PROVE  /\ s # <<>> /\ f = Head(s) /\ f \in 1 .. T /\ Tail(s) \in Seq(1 .. T)
           /\ Distinct(Tail(s))
           /\ Members(Tail(s)) = Members(s) \ {f}
           /\ Linked(Tail(s), n[f], IF n[f] = NULL THEN NULL ELSE t, gq_rinse(n, f))
<1>1. s # <<>> /\ f = s[1] /\ t = s[Len(s)] /\ n[t] = NULL
  BY DEF Linked
<1>2. Len(s) \in Nat /\ Len(s) >= 1 /\ DOMAIN s = 1 .. Len(s)
  BY <1>1, EmptySeq, LenProperties
<1>3. /\ Tail(s) \in Seq(1 .. T) /\ Head(s) = s[1]
      /\ Len(Tail(s)) = Len(s) - 1
      /\ \A k \in 1 .. Len(Tail(s)) : Tail(s)[k] = s[k + 1]
      /\ DOMAIN Tail(s) = 1 .. (Len(s) - 1)
  BY <1>1, <1>2, HeadTailProperties, LenProperties
<1> DEFINE r == Tail(s)
<1> HIDE DEF r
<1>4. /\ r \in Seq(1 .. T) /\ Len(r) = Len(s) - 1 /\ DOMAIN r = 1 .. (Len(s) - 1)
      /\ \A k \in 1 .. (Len(s) - 1) : r[k] = s[k + 1]
  BY <1>3 DEF r
<1>5. f \in 1 .. T
  BY <1>1, <1>2
<1>d. \A j, k \in 1 .. Len(s) : s[j] = s[k] => j = k
  BY <1>2 DEF Distinct
<1>6. Distinct(r)
  <2>1. SUFFICES ASSUME NEW j \in 1 .. (Len(s) - 1), NEW k \in 1 .. (Len(s) - 1),
                        r[j] = r[k]
                 PROVE  j = k
    BY <1>4 DEF Distinct
  <2>2. j + 1 \in 1 .. Len(s) /\ k + 1 \in 1 .. Len(s) /\ s[j + 1] = s[k + 1]
    BY <1>2, <1>4, <2>1
  <2>3. j + 1 = k + 1
    BY <1>d, <2>2
  <2>4. QED
    BY <2>3
<1>7. Members(r) = Members(s) \ {f}
  <2>1. ASSUME NEW k \in 2 .. Len(s)
        PROVE  s[k] # s[1] /\ k - 1 \in 1 .. (Len(s) - 1) /\ r[k - 1] = s[k]
    <3>1. k \in 1 .. Len(s) /\ 1 \in 1 .. Len(s) /\ k # 1 /\ k - 1 \in 1 .. (Len(s) - 1)
          /\ (k - 1) + 1 = k
      BY <1>2
    <3>2. QED
      BY <1>d, <1>4, <3>1
  <2>2. ASSUME NEW x \in Members(s) \ {f}
        PROVE  x \in Members(r)
    <3>1. PICK k \in 1 .. Len(s) : x = s[k]
      BY <1>2 DEF Members
    <3>2. k \in 2 .. Len(s)
      BY <1>1, <1>2, <3>1
    <3>3. k - 1 \in DOMAIN r /\ r[k - 1] = x
      BY <1>4, <2>1, <3>1, <3>2
    <3>4. QED
      BY <3>3 DEF Members
  <2>3. ASSUME NEW x \in Members(r)
        PROVE  x \in Members(s) \ {f}
    <3>1. PICK k \in 1 .. (Len(s) - 1) : x = r[k]
      BY <1>4 DEF Members
    <3>2. k + 1 \in 2 .. Len(s) /\ x = s[k + 1]
      BY <1>2, <1>4, <3>1
    <3>3. k + 1 \in DOMAIN s /\ x # f
      BY <1>1, <1>2, <2>1, <3>2
    <3>4. QED
      BY <3>2, <3>3 DEF Members
  <2>4. QED
    BY <2>2, <2>3
<1> DEFINE m == gq_rinse(n, f)
<1>8. \A i \in 1 .. T : i # f => m[i] = n[i]
  BY DEF gq_rinse
<1> HIDE DEF m
<1>9. \A k \in 1 .. Len(r) : r[k] \in 1 .. T /\ r[k] # f
  <2>1. SUFFICES ASSUME NEW k \in 1 .. Len(r)
                 PROVE  r[k] \in Members(r) /\ r[k] \in 1 .. T
    BY <1>7
  <2>2. k \in DOMAIN r
    BY <1>4
  <2>3. QED
    BY <1>4, <2>2, ElementOfSeq DEF Members
<1>10. Linked(r, n[f], IF n[f] = NULL THEN NULL ELSE t, m)
  <2>1. CASE Len(s) = 1
    <3>1. r = <<>> /\ n[f] = NULL /\ Len(r) = 0
      BY <1>1, <1>4, <2>1, EmptySeq
    <3>2. QED
      BY <3>1 DEF Linked
  <2>2. CASE Len(s) > 1
    <3>0. /\ 1 \in 1 .. (Len(s) - 1) /\ 1 + 1 = 2 /\ (Len(s) - 1) + 1 = Len(s)
          /\ Len(s) - 1 \in 1 .. (Len(s) - 1)
          /\ Len(r) \in 1 .. Len(r)
      BY <1>2, <1>4, <2>2
    <3>1. n[f] = s[2] /\ s[2] \in 1 .. T
      BY <1>1, <1>2, <2>2 DEF Linked
    <3>2. r # <<>>
      BY <1>4, <3>0, EmptySeq
    <3>3. r[1] = s[2] /\ r[Len(r)] = s[Len(s)]
      BY <1>4, <3>0
    <3>4. n[f] # NULL /\ n[f] = r[1] /\ t = r[Len(r)]
      BY <1>1, <3>1, <3>3 DEF NULL
    <3>5. m[t] = NULL
      <4>1. t \in 1 .. T /\ t # f
        BY <1>9, <3>0, <3>4
      <4>2. QED
        BY <1>1, <1>8, <4>1
    <3>6. \A k \in 1 .. (Len(r) - 1) : m[r[k]] = r[k + 1]
      <4>1. SUFFICES ASSUME NEW k \in 1 .. (Len(r) - 1)
                     PROVE  m[r[k]] = r[k + 1]
        OBVIOUS
      <4>2. /\ k \in 1 .. Len(r) /\ k \in 1 .. (Len(s) - 1) /\ k + 1 \in 1 .. (Len(s) - 1)
            /\ (k + 1) + 1 = k + 2
        BY <1>2, <1>4
      <4>3. r[k] = s[k + 1] /\ r[k + 1] = s[k + 2] /\ r[k] # f /\ r[k] \in 1 .. T
        BY <1>4, <1>9, <4>2
      <4>4. n[s[k + 1]] = s[(k + 1) + 1]
        BY <4>2 DEF Linked
      <4>5. QED
        BY <1>8, <4>2, <4>3, <4>4
    <3>7. QED
      BY <3>2, <3>4, <3>5, <3>6 DEF Linked
  <2>3. QED
    BY <1>2, <2>1, <2>2
<1>11. QED
  BY <1>1, <1>3, <1>4, <1>5, <1>6, <1>7, <1>10 DEF r, m

\* A number up to L is L or below it.
LEMMA Below == \A L \in Nat : \A k \in 1 .. L : (k < L) = (k # L)
OBVIOUS

\* gq_push_tail of a cell that is on no list.
LEMMA LinkedPushTail ==
    ASSUME NEW T \in Nat, NEW s \in Seq(1 .. T), NEW f, NEW t,
           NEW n \in [1 .. T -> 0 .. T], NEW i \in 1 .. T,
           Linked(s, f, t, n), Distinct(s), i \notin Members(s)
    PROVE  /\ Append(s, i) \in Seq(1 .. T)
           /\ Distinct(Append(s, i))
           /\ Members(Append(s, i)) = Members(s) \cup {i}
           /\ t = NULL \/ t \in Members(s)
           /\ Linked(Append(s, i), IF t # NULL THEN f ELSE i, i,
                     IF t # NULL THEN [gq_rinse(n, i) EXCEPT ![t] = i]
                                 ELSE gq_rinse(n, i))
<1> DEFINE r == Append(s, i)
           m == IF t # NULL THEN [gq_rinse(n, i) EXCEPT ![t] = i] ELSE gq_rinse(n, i)
<1>1. /\ r \in Seq(1 .. T) /\ Len(r) = Len(s) + 1 /\ DOMAIN r = 1 .. (Len(s) + 1)
      /\ \A k \in 1 .. Len(s) : r[k] = s[k]
      /\ r[Len(s) + 1] = i
  BY AppendProperties, LenProperties
<1>2. Len(s) \in Nat /\ DOMAIN s = 1 .. Len(s)
  BY LenProperties
<1> HIDE DEF r, m
<1>3. \A k \in 1 .. Len(s) : s[k] \in Members(s) /\ s[k] \in 1 .. T /\ s[k] # i
  <2>1. SUFFICES ASSUME NEW k \in 1 .. Len(s)
                 PROVE  s[k] \in Members(s) /\ s[k] \in 1 .. T
    OBVIOUS
  <2>2. k \in DOMAIN s
    BY <1>2
  <2>3. QED
    BY <1>2, <2>2, ElementOfSeq DEF Members
<1>4. Distinct(r)
  <2>1. SUFFICES ASSUME NEW j \in 1 .. (Len(s) + 1), NEW k \in 1 .. (Len(s) + 1),
                        r[j] = r[k]
                 PROVE  j = k
    BY <1>1 DEF Distinct
  <2>2. CASE j \in 1 .. Len(s) /\ k \in 1 .. Len(s)
    BY <1>1, <1>2, <2>1, <2>2 DEF Distinct
  <2>3. \A x \in 1 .. (Len(s) + 1) : x \in 1 .. Len(s) \/ x = Len(s) + 1
    BY <1>2
  <2>4. CASE j = Len(s) + 1 \/ k = Len(s) + 1
    <3>1. \A x \in 1 .. Len(s) : r[x] # i
      BY <1>1, <1>3
    <3>2. QED
      BY <1>1, <2>1, <2>3, <2>4, <3>1
  <2>5. QED
    BY <2>2, <2>3, <2>4
<1>5. Members(r) = Members(s) \cup {i}
  <2>1. ASSUME NEW x \in Members(r)
        PROVE  x \in Members(s) \cup {i}
    <3>1. PICK k \in 1 .. (Len(s) + 1) : x = r[k]
      BY <1>1 DEF Members
    <3>2. k \in 1 .. Len(s) \/ k = Len(s) + 1
      BY <1>2, <3>1
    <3>3. QED
      BY <1>1, <1>3, <3>1, <3>2
  <2>2. ASSUME NEW x \in Members(s)
        PROVE  x \in Members(r)
    <3>1. PICK k \in 1 .. Len(s) : x = s[k]
      BY <1>2 DEF Members
    <3>2. k \in DOMAIN r /\ r[k] = x
      BY <1>1, <1>2, <3>1
    <3>3. QED
      BY <3>2 DEF Members
  <2>3. i \in Members(r)
    <3>1. Len(s) + 1 \in DOMAIN r
      BY <1>1, <1>2
    <3>2. QED
      BY <1>1, <3>1 DEF Members
  <2>4. QED
    BY <2>1, <2>2, <2>3
<1>6. CASE s = <<>>
  <2>0. Len(s) = 0
    BY <1>6
  <2>1. t = NULL /\ r # <<>> /\ Len(r) = 1 /\ r[1] = i
    <3>1. t = NULL
      BY <1>6 DEF Linked
    <3>2. Len(r) = 1 /\ r[1] = i
      BY <1>1, <2>0
    <3>3. r # <<>>
      <4>1. Len(r) # 0
        BY <3>2
      <4>2. QED
        BY <4>1
    <3>4. QED
      BY <3>1, <3>2, <3>3
  <2>2. m = gq_rinse(n, i) /\ m[i] = NULL
    BY <2>1 DEF gq_rinse, m
  <2>3. Linked(r, i, i, m)
    BY <2>1, <2>2 DEF Linked
  <2>4. QED
    BY <1>1, <1>4, <1>5, <2>1, <2>2, <2>3 DEF r
<1>7. CASE s # <<>>
  <2>1. Len(s) \in 1 .. Len(s) /\ f = s[1] /\ t = s[Len(s)] /\ 1 \in 1 .. Len(s)
    BY <1>2, <1>7, EmptySeq DEF Linked
  <2>2. t \in 1 .. T /\ t # i /\ t # NULL /\ t \in Members(s)
    BY <1>3, <2>1 DEF NULL
  <2>3. m[t] = i /\ m[i] = NULL /\ \A j \in 1 .. T : j # i /\ j # t => m[j] = n[j]
    BY <2>2 DEF gq_rinse, m
  <2>4. r # <<>> /\ r[1] = f /\ r[Len(r)] = i
    BY <1>1, <1>2, <2>1, EmptySeq
  <2>5. ASSUME NEW k \in 1 .. (Len(r) - 1)
        PROVE  m[r[k]] = r[k + 1]
    <3>1. k \in 1 .. Len(s)
      BY <1>1, <1>2
    <3>2. CASE k < Len(s)
      <4>1. k \in 1 .. (Len(s) - 1) /\ k + 1 \in 1 .. Len(s)
        BY <1>2, <3>1, <3>2
      <4>2. s[k] # t
        <5>1. k \in DOMAIN s /\ Len(s) \in DOMAIN s
          BY <1>2, <2>1, <3>1
        <5>2. k # Len(s)
          BY <1>2, <3>1, <3>2, Below
        <5>3. QED
          BY <2>1, <5>1, <5>2 DEF Distinct
      <4>3. n[s[k]] = s[k + 1]
        BY <4>1 DEF Linked
      <4>4. QED
        BY <1>1, <1>3, <2>3, <3>1, <4>1, <4>2, <4>3
    <3>3. CASE ~(k < Len(s))
      <4>1. k = Len(s)
        BY <1>2, <3>1, <3>3, Below
      <4>2. QED
        BY <1>1, <2>1, <2>3, <4>1
    <3>4. QED
      BY <3>2, <3>3
  <2>6. Linked(r, f, i, m)
    BY <2>3, <2>4, <2>5 DEF Linked
  <2>7. QED
    BY <1>1, <1>4, <1>5, <2>2, <2>6 DEF r, m
<1>8. QED
  BY <1>6, <1>7

\* A sequence with one element more in front.
LEMMA Cons ==
    ASSUME NEW S, NEW s \in Seq(S), NEW i \in S
    PROVE  /\ <<i>> \o s \in Seq(S)
           /\ Len(<<i>> \o s) = Len(s) + 1
           /\ (<<i>> \o s)[1] = i
           /\ \A k \in 1 .. Len(s) : (<<i>> \o s)[k + 1] = s[k]
<1> DEFINE r == <<i>> \o s
<1>1. Len(s) \in Nat
  BY LenProperties
<1>2. <<i>> \in Seq(S) /\ Len(<<i>>) = 1 /\ <<i>>[1] = i
  OBVIOUS
<1>3. /\ r \in Seq(S) /\ Len(r) = 1 + Len(s)
      /\ \A k \in 1 .. Len(r) : r[k] = IF k <= 1 THEN <<i>>[k] ELSE s[k - 1]
  BY <1>2, ConcatProperties
<1> HIDE DEF r
<1>4. 1 \in 1 .. Len(r)
  BY <1>1, <1>3
<1>5. r[1] = i
  BY <1>2, <1>3, <1>4
<1>6. ASSUME NEW k \in 1 .. Len(s)
      PROVE  r[k + 1] = s[k]
  <2>1. k + 1 \in 1 .. Len(r) /\ ~(k + 1 <= 1) /\ (k + 1) - 1 = k
    BY <1>1, <1>3
  <2>2. QED
    BY <1>3, <2>1
<1>7. Len(r) = Len(s) + 1
  BY <1>1, <1>3
<1>8. QED
  BY <1>3, <1>5, <1>6, <1>7 DEF r

IsCons(r, i, s) == /\ Len(r) = Len(s) + 1
                   /\ r[1] = i
                   /\ \A k \in 1 .. Len(s) : r[k + 1] = s[k]

\* The pointers m are n but for the one of i, which is f.
Rewired(m, n, i, f, T) == m[i] = f /\ \A j \in 1 .. T : j # i => m[j] = n[j]

\* gq_push_head of a cell that is on no list; r is the list, u its last
\* pointer and m the pointers of the cells afterwards.
LEMMA LinkedPushHead ==
    ASSUME NEW T \in Nat, NEW s \in Seq(1 .. T), NEW f, NEW t,
           NEW n \in [1 .. T -> 0 .. T], NEW i \in 1 .. T,
           Linked(s, f, t, n), Distinct(s), i \notin Members(s),
           NEW r \in Seq(1 .. T), IsCons(r, i, s),
           NEW m, Rewired(m, n, i, f, T),
           NEW u, u = t \/ f = NULL, u = i \/ f # NULL
    PROVE  Distinct(r) /\ Members(r) = Members(s) \cup {i} /\ Linked(r, i, u, m)
<1>1. Len(s) \in Nat /\ DOMAIN s = 1 .. Len(s)
  BY LenProperties
<1>3. Len(r) = Len(s) + 1
  BY DEF IsCons
<1>4. /\ DOMAIN r = 1 .. (Len(s) + 1) /\ r[1] = i
      /\ \A k \in 1 .. Len(s) : r[k + 1] = s[k]
  BY <1>3, LenProperties DEF IsCons
<1>5. \A k \in 1 .. Len(s) : s[k] \in Members(s) /\ s[k] \in 1 .. T /\ s[k] # i
  <2>1. SUFFICES ASSUME NEW k \in 1 .. Len(s)
                 PROVE  s[k] \in Members(s) /\ s[k] \in 1 .. T
    OBVIOUS
  <2>2. k \in DOMAIN s
    BY <1>1
  <2>3. QED
    BY <1>1, <2>2, ElementOfSeq DEF Members
<1>6. \A k \in 2 .. (Len(s) + 1) : k - 1 \in 1 .. Len(s) /\ r[k] = s[k - 1]
  <2>1. SUFFICES ASSUME NEW k \in 2 .. (Len(s) + 1)
                 PROVE  k - 1 \in 1 .. Len(s) /\ r[k] = s[k - 1]
    OBVIOUS
  <2>2. k - 1 \in 1 .. Len(s) /\ (k - 1) + 1 = k
    BY <1>1
  <2>3. r[(k - 1) + 1] = s[k - 1]
    BY <1>4, <2>2
  <2>4. QED
    BY <2>2, <2>3
<1>7. Distinct(r)
  <2>1. SUFFICES ASSUME NEW j \in 1 .. (Len(s) + 1), NEW k \in 1 .. (Len(s) + 1),
                        r[j] = r[k]
                 PROVE  j = k
    BY <1>4 DEF Distinct
  <2>2. CASE j \in 2 .. (Len(s) + 1) /\ k \in 2 .. (Len(s) + 1)
    <3>1. s[j - 1] = s[k - 1] /\ j - 1 \in DOMAIN s /\ k - 1 \in DOMAIN s
      BY <1>1, <1>6, <2>1, <2>2
    <3>2. j - 1 = k - 1
      BY <3>1 DEF Distinct
    <3>3. QED
      BY <1>1, <3>2
  <2>3. CASE j = 1 \/ k = 1
    <3>1. (j = 1 \/ j \in 2 .. (Len(s) + 1)) /\ (k = 1 \/ k \in 2 .. (Len(s) + 1))
      BY <1>1
    <3>2. \A x \in 2 .. (Len(s) + 1) : r[x] # i
      BY <1>5, <1>6
    <3>3. QED
      BY <1>4, <2>1, <2>3, <3>1, <3>2
  <2>4. QED
    BY <1>1, <2>2, <2>3
<1>8. Members(r) = Members(s) \cup {i}
  <2>1. ASSUME NEW x \in Members(r)
        PROVE  x \in Members(s) \cup {i}
    <3>1. PICK k \in 1 .. (Len(s) + 1) : x = r[k]
      BY <1>4 DEF Members
    <3>2. k \in 2 .. (Len(s) + 1) \/ k = 1
      BY <1>1, <3>1
    <3>3. QED
      BY <1>4, <1>5, <1>6, <3>1, <3>2
  <2>2. ASSUME NEW x \in Members(s)
        PROVE  x \in Members(r)
    <3>1. PICK k \in 1 .. Len(s) : x = s[k]
      BY <1>1 DEF Members
    <3>2. k + 1 \in DOMAIN r /\ r[k + 1] = x
      BY <1>1, <1>4, <3>1
    <3>3. QED
      BY <3>2 DEF Members
  <2>3. i \in Members(r)
    <3>1. 1 \in DOMAIN r
      BY <1>1, <1>4
    <3>2. QED
      BY <1>4, <3>1 DEF Members
  <2>4. QED
    BY <2>1, <2>2, <2>3
<1>9. m[i] = f /\ \A j \in 1 .. T : j # i => m[j] = n[j]
  BY DEF Rewired
<1>10. r # <<>>
  BY <1>1, <1>3, EmptySeq
<1>11. CASE s = <<>>
  <2>1. f = NULL /\ Len(s) = 0 /\ Len(r) = 1
    BY <1>3, <1>11, EmptySeq DEF Linked
  <2>2. m[i] = NULL /\ u = i
    BY <1>9, <2>1
  <2>3. Linked(r, i, u, m)
    BY <1>4, <1>10, <2>1, <2>2 DEF Linked
  <2>4. QED
    BY <1>7, <1>8, <2>3
<1>12. CASE s # <<>>
  <2>1. /\ Len(s) \in 1 .. Len(s) /\ 1 \in 1 .. Len(s)
        /\ f = s[1] /\ t = s[Len(s)] /\ n[t] = NULL
    BY <1>1, <1>12, EmptySeq DEF Linked
  <2>2. f # NULL /\ t \in 1 .. T /\ t # i /\ r[Len(r)] = t
    <3>1. f # NULL /\ t \in 1 .. T /\ t # i
      <4>1. s[1] \in 1 .. T /\ s[Len(s)] \in 1 .. T /\ s[Len(s)] # i
        BY <1>5, <2>1
      <4>2. s[1] # NULL
        BY <4>1 DEF NULL
      <4>3. QED
        BY <2>1, <4>1, <4>2
    <3>2. Len(r) = Len(s) + 1
      BY <1>1, <1>3
    <3>3. QED
      BY <1>4, <2>1, <3>1, <3>2
  <2>3. ASSUME NEW k \in 1 .. (Len(r) - 1)
        PROVE  m[r[k]] = r[k + 1]
    <3>1. k \in 1 .. Len(s) /\ r[k + 1] = s[k]
      BY <1>1, <1>3, <1>4
    <3>2. CASE k = 1
      BY <1>4, <1>9, <2>1, <3>1, <3>2
    <3>3. CASE k \in 2 .. Len(s)
      <4>1. /\ k \in 2 .. (Len(s) + 1) /\ k - 1 \in 1 .. (Len(s) - 1)
            /\ k - 1 \in 1 .. Len(s) /\ (k - 1) + 1 = k
        BY <1>1, <3>3
      <4>2. n[s[k - 1]] = s[(k - 1) + 1] /\ r[k] = s[k - 1]
        BY <1>6, <4>1 DEF Linked
      <4>3. QED
        BY <1>5, <1>9, <3>1, <4>1, <4>2
    <3>4. QED
      BY <1>1, <3>1, <3>2, <3>3
  <2>4. Linked(r, i, t, m)
    BY <1>4, <1>9, <1>10, <2>1, <2>2, <2>3 DEF Linked
  <2>5. QED
    BY <1>7, <1>8, <2>2, <2>4
<1>13. QED
  BY <1>11, <1>12

-----------------------------------------------------------------------------
(* The inductive invariant.                                                 *)

\* A cell is in one place: on one list, once, or with the owner.
OnePlace ==
    /\ \A l \in Names : Distinct(chain[l])
    /\ \A l, m \in Names : l # m => Members(chain[l]) \cap Members(chain[m]) = {}
    /\ \A l \in Names : Members(chain[l]) \cap hand = {}

\* The maps of two book keepers do not overlap and none reaches beyond ep.
BooksApart ==
    LET B == Members(chain["book"]) IN
    /\ \A b \in B : b + z[b] <= ep
    /\ \A b, c \in B : b # c => b + z[b] <= c \/ c + z[c] <= b

\* The bound on the addresses.
Within == ep <= MaxTop + 1

IInv == TypeOK /\ ChainOK /\ OnePlace /\ BooksApart /\ BooksCover /\ Within

\* The cells of a list have been reached by init_gq's loop.
LEMMA MembersBelow ==
    ASSUME TypeOK, NEW l \in Names
    PROVE  /\ chain[l] \in Seq(1 .. (sp - 1)) /\ chain[l] \in Seq(1 .. top)
           /\ Members(chain[l]) \subseteq 1 .. (sp - 1)
           /\ top \in Nat /\ 1 .. (sp - 1) \subseteq 1 .. top
<1>1. sp \in Nat \ {0} /\ ep \in Nat \ {0} /\ sp <= ep /\ chain[l] \in Seq(1 .. (sp - 1))
  BY DEF TypeOK
<1>2. top \in Nat /\ 1 .. (sp - 1) \subseteq 1 .. top
  BY <1>1 DEF top
<1>3. chain[l] \in Seq(1 .. top)
  BY <1>1, <1>2, SeqMonotonic
<1>4. Members(chain[l]) \subseteq 1 .. (sp - 1)
  <2>1. \A k \in DOMAIN chain[l] : chain[l][k] \in 1 .. (sp - 1)
    BY <1>1, ElementOfSeq, LenProperties
  <2>2. QED
    BY <2>1 DEF Members
<1>5. QED
  BY <1>1, <1>2, <1>3, <1>4

\* gq_pop_head on a list of the pool (PopHead and FiniMap).
LEMMA PopStep ==
    ASSUME TypeOK, ChainOK, OnePlace, NEW l \in Names,
           sp = ep, UNCHANGED <<sp, ep>>, i1st[l] # NULL,
           gq_pop_head(l), chain' = [chain EXCEPT ![l] = Tail(@)]
    PROVE  /\ chain[l] # <<>> /\ i1st[l] = Head(chain[l])
           /\ i1st[l] \in Members(chain[l]) /\ i1st[l] \in 1 .. (sp - 1)
           /\ i1st' \in [Names -> 0 .. top'] /\ ilst' \in [Names -> 0 .. top']
           /\ nxt' \in [1 .. top' -> 0 .. top']
           /\ chain' \in [Names -> Seq(1 .. (sp' - 1))]
           /\ ChainOK'
           /\ \A m \in Names : Distinct(chain'[m])
           /\ Members(chain'[l]) = Members(chain[l]) \ {i1st[l]}
           /\ \A m \in Names : m # l => chain'[m] = chain[m]
<1> DEFINE f == i1st[l]
           s == chain[l]
<1>1. /\ top \in Nat /\ top' = top /\ s \in Seq(1 .. top) /\ 1 .. (sp - 1) = 1 .. top
      /\ sp' = sp /\ i1st \in [Names -> 0 .. top] /\ ilst \in [Names -> 0 .. top]
      /\ nxt \in [1 .. top -> 0 .. top] /\ chain \in [Names -> Seq(1 .. top)]
  BY MembersBelow DEF TypeOK, top
<1>2. Linked(s, f, ilst[l], nxt) /\ Distinct(s)
  BY DEF ChainOK, OnePlace
<1>3. /\ s # <<>> /\ f = Head(s) /\ f \in 1 .. top /\ Tail(s) \in Seq(1 .. top)
      /\ Distinct(Tail(s))
      /\ Members(Tail(s)) = Members(s) \ {f}
      /\ Linked(Tail(s), nxt[f], IF nxt[f] = NULL THEN NULL ELSE ilst[l],
                gq_rinse(nxt, f))
  <2> HIDE DEF f, s
  <2>1. f # NULL
    BY DEF f
  <2>2. QED
    BY <1>1, <1>2, <2>1, LinkedPop
<1>4. f \in Members(s)
  <2>1. Head(s) = s[1] /\ 1 \in DOMAIN s
    BY <1>1, <1>3, EmptySeq, LenProperties, HeadTailProperties
  <2>2. QED
    BY <1>3, <2>1 DEF Members
<1>5. /\ i1st' = [i1st EXCEPT ![l] = nxt[f]]
      /\ ilst' = IF nxt[f] = NULL THEN [ilst EXCEPT ![l] = NULL] ELSE ilst
      /\ nxt' = gq_rinse(nxt, f)
  BY DEF gq_pop_head
<1>6. /\ i1st' \in [Names -> 0 .. top] /\ ilst' \in [Names -> 0 .. top]
      /\ nxt' \in [1 .. top -> 0 .. top]
  BY <1>1, <1>3, <1>5 DEF gq_rinse, NULL
<1>7. /\ i1st'[l] = nxt[f] /\ chain'[l] = Tail(s)
      /\ ilst'[l] = (IF nxt[f] = NULL THEN NULL ELSE ilst[l])
      /\ \A m \in Names : m # l => /\ i1st'[m] = i1st[m] /\ ilst'[m] = ilst[m]
                                   /\ chain'[m] = chain[m]
  BY <1>1, <1>5
<1>8. chain' \in [Names -> Seq(1 .. top)]
  BY <1>1, <1>3
<1>9. ASSUME NEW m \in Names
      PROVE  Linked(chain'[m], i1st'[m], ilst'[m], nxt') /\ Distinct(chain'[m])
  <2>1. CASE m = l
    <3> HIDE DEF f, s
    <3>1. QED
      BY <1>3, <1>5, <1>7, <2>1
  <2>2. CASE m # l
    <3>1. Linked(chain[m], i1st[m], ilst[m], nxt) /\ Distinct(chain[m])
      BY DEF ChainOK, OnePlace
    <3>2. f \notin Members(chain[m]) /\ Members(chain[m]) \subseteq 1 .. top
      BY <1>1, <1>4, <2>2, MembersBelow DEF OnePlace
    <3>3. \A i \in Members(chain[m]) : nxt'[i] = nxt[i]
      BY <1>1, <1>5, <3>2 DEF gq_rinse
    <3>4. chain[m] \in Seq(1 .. top)
      BY MembersBelow
    <3>5. Linked(chain[m], i1st[m], ilst[m], nxt')
      BY <1>1, <3>1, <3>3, <3>4, LinkedElsewhere
    <3>6. QED
      BY <1>7, <2>2, <3>1, <3>5
  <2>3. QED
    BY <2>1, <2>2
<1>10. ChainOK'
  BY <1>9 DEF ChainOK
<1>11. Members(chain'[l]) = Members(chain[l]) \ {i1st[l]}
  BY <1>3, <1>7
<1>12. QED
  BY <1>1, <1>3, <1>4, <1>6, <1>7, <1>8, <1>9, <1>10, <1>11

\* gq_push_tail on a list of the pool (FillFree and PushTail).
LEMMA PushStep ==
    ASSUME TypeOK, ChainOK, OnePlace, NEW l \in Names, NEW i \in 1 .. top,
           \A m \in Names : i \notin Members(chain[m]), UNCHANGED ep,
           gq_push_tail(l, i), chain' = [chain EXCEPT ![l] = Append(@, i)]
    PROVE  /\ i1st' \in [Names -> 0 .. top'] /\ ilst' \in [Names -> 0 .. top']
           /\ nxt' \in [1 .. top' -> 0 .. top']
           /\ ChainOK'
           /\ \A m \in Names : Distinct(chain'[m])
           /\ Members(chain'[l]) = Members(chain[l]) \cup {i}
           /\ \A m \in Names : m # l => chain'[m] = chain[m]
<1> DEFINE t == ilst[l]
           s == chain[l]
<1>1. /\ top \in Nat /\ top' = top /\ s \in Seq(1 .. top)
      /\ i1st \in [Names -> 0 .. top] /\ ilst \in [Names -> 0 .. top]
      /\ nxt \in [1 .. top -> 0 .. top]
      /\ chain \in [Names -> Seq(1 .. (sp - 1))]
  BY MembersBelow DEF TypeOK, top
<1>2. Linked(s, i1st[l], t, nxt) /\ Distinct(s) /\ i \notin Members(s)
  BY DEF ChainOK, OnePlace
<1> DEFINE n == IF t # NULL THEN [gq_rinse(nxt, i) EXCEPT ![t] = i] ELSE gq_rinse(nxt, i)
<1>3. /\ Distinct(Append(s, i))
      /\ Members(Append(s, i)) = Members(s) \cup {i}
      /\ t = NULL \/ t \in Members(s)
      /\ Linked(Append(s, i), IF t # NULL THEN i1st[l] ELSE i, i, n)
  <2> HIDE DEF t, s
  <2>1. QED
    BY <1>1, <1>2, LinkedPushTail
<1>4. /\ nxt' = n
      /\ i1st' = IF t # NULL THEN i1st ELSE [i1st EXCEPT ![l] = i]
      /\ ilst' = [ilst EXCEPT ![l] = i]
  BY DEF gq_push_tail
<1>5. t = NULL \/ t \in 1 .. top
  BY <1>1, <1>3, MembersBelow
<1>6. /\ i1st' \in [Names -> 0 .. top] /\ ilst' \in [Names -> 0 .. top]
      /\ nxt' \in [1 .. top -> 0 .. top]
  <2>0. i \in 0 .. top /\ NULL \in 0 .. top /\ 1 .. top \subseteq 0 .. top
    BY <1>1 DEF NULL
  <2>1. i1st' \in [Names -> 0 .. top] /\ ilst' \in [Names -> 0 .. top]
    BY <1>1, <1>4, <2>0
  <2>2. gq_rinse(nxt, i) \in [1 .. top -> 0 .. top]
    BY <1>1, <2>0 DEF gq_rinse
  <2>3. [gq_rinse(nxt, i) EXCEPT ![t] = i] \in [1 .. top -> 0 .. top]
    BY <2>0, <2>2
  <2>4. QED
    BY <1>4, <2>1, <2>2, <2>3
<1>7. /\ i1st'[l] = (IF t # NULL THEN i1st[l] ELSE i) /\ ilst'[l] = i
      /\ chain'[l] = Append(s, i)
      /\ \A m \in Names : m # l => /\ i1st'[m] = i1st[m] /\ ilst'[m] = ilst[m]
                                   /\ chain'[m] = chain[m]
  BY <1>1, <1>4
<1>8. \A j \in 1 .. top : j # i /\ j # t => nxt'[j] = nxt[j]
  BY <1>1, <1>4, <1>5 DEF gq_rinse
<1> HIDE DEF n
<1>9. ASSUME NEW m \in Names
      PROVE  Linked(chain'[m], i1st'[m], ilst'[m], nxt') /\ Distinct(chain'[m])
  <2>1. CASE m = l
    <3> HIDE DEF t, s
    <3>1. QED
      BY <1>3, <1>4, <1>7, <2>1
  <2>2. CASE m # l
    <3>1. Linked(chain[m], i1st[m], ilst[m], nxt) /\ Distinct(chain[m])
      BY DEF ChainOK, OnePlace
    <3>2. Members(chain[m]) \subseteq 1 .. top /\ chain[m] \in Seq(1 .. top)
      BY MembersBelow
    <3>3. t \notin Members(chain[m]) /\ i \notin Members(chain[m])
      <4>1. NULL \notin Members(chain[m])
        BY <3>2 DEF NULL
      <4>2. QED
        BY <1>3, <2>2, <4>1 DEF OnePlace
    <3>4. \A j \in Members(chain[m]) : nxt'[j] = nxt[j]
      BY <1>8, <3>2, <3>3
    <3>5. Linked(chain[m], i1st[m], ilst[m], nxt')
      BY <1>1, <3>1, <3>2, <3>4, LinkedElsewhere
    <3>6. QED
      BY <1>7, <2>2, <3>1, <3>5
  <2>3. QED
    BY <2>1, <2>2
<1>10. ChainOK'
  BY <1>9 DEF ChainOK
<1>11. Members(chain'[l]) = Members(chain[l]) \cup {i}
  BY <1>3, <1>7
<1>12. QED
  BY <1>1, <1>6, <1>7, <1>9, <1>10, <1>11

-----------------------------------------------------------------------------
(* The actions.                                                             *)

LEMMA NamesDiffer == "free" # "book" /\ {"free", "book"} \subseteq Names
                     /\ \A l \in Users \cup {"free"} : l \in Names /\ l # "book"
BY GqAssumption DEF Names

\* Popping leaves every cell in one place, with the owner or, when a map goes,
\* nowhere.
LEMMA PopOnePlace ==
    ASSUME OnePlace, NEW l \in Names, NEW f \in Members(chain[l]),
           \A m \in Names : Distinct(chain'[m]),
           Members(chain'[l]) = Members(chain[l]) \ {f},
           \A m \in Names : m # l => chain'[m] = chain[m],
           hand' \subseteq hand \cup {f}
    PROVE  OnePlace'
<1>1. ASSUME NEW m \in Names
      PROVE  Members(chain'[m]) \cap hand' = {}
  <2>1. CASE m = l
    BY <2>1 DEF OnePlace
  <2>2. CASE m # l
    <3>1. f \notin Members(chain[m]) /\ chain'[m] = chain[m]
      BY <2>2 DEF OnePlace
    <3>2. QED
      BY <3>1 DEF OnePlace
  <2>3. QED
    BY <2>1, <2>2
<1>2. ASSUME NEW m \in Names, NEW k \in Names, m # k
      PROVE  Members(chain'[m]) \cap Members(chain'[k]) = {}
  <2>1. /\ Members(chain'[m]) \subseteq Members(chain[m])
        /\ Members(chain'[k]) \subseteq Members(chain[k])
    OBVIOUS
  <2>2. QED
    BY <1>2, <2>1 DEF OnePlace
<1>3. QED
  BY <1>1, <1>2 DEF OnePlace

\* Pushing does, too.
LEMMA PushOnePlace ==
    ASSUME OnePlace, NEW l \in Names, NEW i,
           \A m \in Names : i \notin Members(chain[m]),
           \A m \in Names : Distinct(chain'[m]),
           Members(chain'[l]) = Members(chain[l]) \cup {i},
           \A m \in Names : m # l => chain'[m] = chain[m],
           hand' \subseteq hand, i \notin hand'
    PROVE  OnePlace'
<1>1. ASSUME NEW m \in Names
      PROVE  /\ Members(chain'[m]) \subseteq Members(chain[m]) \cup {i}
             /\ m # l => Members(chain'[m]) = Members(chain[m])
  OBVIOUS
<1>2. ASSUME NEW m \in Names
      PROVE  Members(chain'[m]) \cap hand' = {}
  BY <1>1 DEF OnePlace
<1>3. ASSUME NEW m \in Names, NEW k \in Names, m # k
      PROVE  Members(chain'[m]) \cap Members(chain'[k]) = {}
  BY <1>1, <1>3 DEF OnePlace
<1>4. QED
  BY <1>2, <1>3 DEF OnePlace

LEMMA InitHolds == Init => IInv
<1> SUFFICES ASSUME Init
             PROVE  IInv
  OBVIOUS
<1>1. \A l \in Names : chain[l] = <<>> /\ Members(chain[l]) = {}
  BY DEF Init, Members
<1>2. TypeOK
  <2>1. top = 0 /\ 1 .. top = {} /\ 0 .. top = {0}
    BY DEF Init, top
  <2>2. nxt \in [1 .. top -> 0 .. top] /\ z \in [1 .. top -> Nat]
    BY <2>1 DEF Init
  <2>3. /\ sp \in Nat \ {0} /\ ep \in Nat \ {0} /\ sp <= ep /\ nitems \in Nat
        /\ hand \subseteq 1 .. (sp - 1) /\ mapped \subseteq 1 .. top /\ fini \in BOOLEAN
    <3>1. sp = 1 /\ ep = 1 /\ nitems = 0 /\ hand = {} /\ mapped = {} /\ fini = FALSE
      BY DEF Init
    <3>2. sp \in Nat \ {0} /\ ep \in Nat \ {0} /\ sp <= ep /\ nitems \in Nat
      BY <3>1
    <3>3. hand \subseteq 1 .. (sp - 1) /\ mapped \subseteq 1 .. top
      BY <3>1
    <3>4. QED
      BY <3>1, <3>2, <3>3
  <2>4. i1st \in [Names -> 0 .. top] /\ ilst \in [Names -> 0 .. top]
    BY <2>1 DEF Init, NULL
  <2>5. chain \in [Names -> Seq(1 .. (sp - 1))]
    BY EmptySeq DEF Init
  <2>6. QED
    BY <2>2, <2>3, <2>4, <2>5 DEF TypeOK
<1>3. ChainOK
  BY <1>1 DEF Init, ChainOK, Linked
<1>4. OnePlace
  BY <1>1 DEF Init, OnePlace, Distinct
<1>5. BooksApart /\ BooksCover
  <2>1. Members(chain["book"]) = {} /\ ListOf("book") = {}
    BY <1>1, NamesDiffer DEF Members, ListOf
  <2>2. QED
    BY <2>1 DEF Init, BooksApart, BooksCover
<1>6. Within
  BY GqAssumption DEF Init, Within
<1>7. QED
  BY <1>2, <1>3, <1>4, <1>5, <1>6 DEF IInv

\* What does not touch the book keepers keeps their accounts.
LEMMA BooksKept ==
    ASSUME BooksApart, BooksCover, chain'["book"] = chain["book"],
           UNCHANGED <<z, mapped, ep>>
    PROVE  BooksApart' /\ BooksCover'
BY DEF BooksApart, BooksCover, ListOf

LEMMA FillFreeHolds == IInv /\ FillFree => IInv'
<1> SUFFICES ASSUME IInv, FillFree
             PROVE  IInv'
  OBVIOUS
<1> USE DEF IInv
<1>1. /\ sp < ep /\ gq_push_tail("free", sp) /\ sp' = sp + 1
      /\ chain' = [chain EXCEPT !["free"] = Append(@, sp)]
      /\ UNCHANGED <<z, nitems, hand, ep, mapped, fini>>
  BY DEF FillFree
<1>2. sp \in 1 .. top /\ sp \in Nat \ {0} /\ top \in Nat /\ top' = top
  BY <1>1 DEF TypeOK, top
<1>3. \A m \in Names : sp \notin Members(chain[m])
  <2>1. sp \notin 1 .. (sp - 1)
    BY <1>2
  <2>2. QED
    BY <2>1, MembersBelow
<1>4. /\ i1st' \in [Names -> 0 .. top'] /\ ilst' \in [Names -> 0 .. top']
      /\ nxt' \in [1 .. top' -> 0 .. top']
      /\ ChainOK'
      /\ \A m \in Names : Distinct(chain'[m])
      /\ Members(chain'["free"]) = Members(chain["free"]) \cup {sp}
      /\ \A m \in Names : m # "free" => chain'[m] = chain[m]
  BY <1>1, <1>2, <1>3, NamesDiffer, PushStep
<1>5. chain' \in [Names -> Seq(1 .. (sp' - 1))]
  <2>1. 1 .. (sp - 1) \subseteq 1 .. sp /\ sp' - 1 = sp /\ sp \in 1 .. sp
    BY <1>1, <1>2
  <2>2. \A m \in Names : chain[m] \in Seq(1 .. sp)
    BY <2>1, MembersBelow, SeqMonotonic
  <2>3. Append(chain["free"], sp) \in Seq(1 .. sp)
    BY <2>1, <2>2, NamesDiffer, AppendProperties
  <2>4. QED
    BY <1>1, <2>1, <2>2, <2>3 DEF TypeOK
<1>6. TypeOK'
  <2>1. hand' \subseteq 1 .. (sp' - 1)
    BY <1>1, <1>2 DEF TypeOK
  <2>2. sp' \in Nat \ {0} /\ ep' \in Nat \ {0} /\ sp' <= ep'
    BY <1>1 DEF TypeOK
  <2>3. /\ nitems' \in Nat /\ z' \in [1 .. top' -> Nat] /\ mapped' \subseteq 1 .. top'
        /\ fini' \in BOOLEAN
    BY <1>1, <1>2 DEF TypeOK
  <2>4. QED
    BY <1>4, <1>5, <2>1, <2>2, <2>3 DEF TypeOK
<1>7. OnePlace'
  <2>1. sp \notin hand
    BY <1>2 DEF TypeOK
  <2>2. QED
    BY <1>1, <1>3, <1>4, <2>1, NamesDiffer, PushOnePlace
<1>8. BooksApart' /\ BooksCover'
  BY <1>1, <1>4, NamesDiffer, BooksKept
<1>9. Within'
  BY <1>1 DEF Within
<1>10. QED
  BY <1>4, <1>6, <1>7, <1>8, <1>9

LEMMA PushTailHolds ==
    ASSUME IInv, NEW l \in Users \cup {"free"}, NEW i \in hand, PushTail(l, i)
    PROVE  IInv'
<1> USE DEF IInv
<1>1. /\ sp = ep /\ gq_push_tail(l, i) /\ hand' = hand \ {i}
      /\ chain' = [chain EXCEPT ![l] = Append(@, i)]
      /\ UNCHANGED <<z, nitems, sp, ep, mapped, fini>>
  BY DEF PushTail, Idle
<1>2. i \in 1 .. top /\ i \in 1 .. (sp - 1) /\ top' = top /\ l \in Names /\ l # "book"
  BY <1>1, NamesDiffer DEF TypeOK, top
<1>3. \A m \in Names : i \notin Members(chain[m])
  BY DEF OnePlace
<1>4. /\ i1st' \in [Names -> 0 .. top'] /\ ilst' \in [Names -> 0 .. top']
      /\ nxt' \in [1 .. top' -> 0 .. top']
      /\ ChainOK'
      /\ \A m \in Names : Distinct(chain'[m])
      /\ Members(chain'[l]) = Members(chain[l]) \cup {i}
      /\ \A m \in Names : m # l => chain'[m] = chain[m]
  BY <1>1, <1>2, <1>3, PushStep
<1>5. chain' \in [Names -> Seq(1 .. (sp' - 1))]
  <2>1. Append(chain[l], i) \in Seq(1 .. (sp - 1))
    BY <1>2, MembersBelow, AppendProperties
  <2>2. QED
    BY <1>1, <2>1 DEF TypeOK
<1>6. TypeOK'
  BY <1>1, <1>2, <1>4, <1>5 DEF TypeOK
<1>7. OnePlace'
  BY <1>1, <1>2, <1>3, <1>4, PushOnePlace
<1>8. BooksApart' /\ BooksCover'
  BY <1>1, <1>2, <1>4, NamesDiffer, BooksKept
<1>9. Within'
  BY <1>1 DEF Within
<1>10. QED
  BY <1>4, <1>6, <1>7, <1>8, <1>9

LEMMA PopHeadHolds ==
    ASSUME IInv, NEW l \in Users \cup {"free"}, PopHead(l)
    PROVE  IInv'
<1> USE DEF IInv
<1>1. /\ sp = ep /\ i1st[l] # NULL /\ gq_pop_head(l) /\ hand' = hand \cup {i1st[l]}
      /\ chain' = [chain EXCEPT ![l] = Tail(@)]
      /\ UNCHANGED <<z, nitems, sp, ep, mapped, fini>>
  BY DEF PopHead, Idle
<1>2. l \in Names /\ l # "book" /\ top' = top
  BY <1>1, NamesDiffer DEF top
<1>3. /\ i1st[l] \in Members(chain[l]) /\ i1st[l] \in 1 .. (sp - 1)
      /\ i1st' \in [Names -> 0 .. top'] /\ ilst' \in [Names -> 0 .. top']
      /\ nxt' \in [1 .. top' -> 0 .. top']
      /\ chain' \in [Names -> Seq(1 .. (sp' - 1))]
      /\ ChainOK'
      /\ \A m \in Names : Distinct(chain'[m])
      /\ Members(chain'[l]) = Members(chain[l]) \ {i1st[l]}
      /\ \A m \in Names : m # l => chain'[m] = chain[m]
  BY <1>1, <1>2, PopStep
<1>4. TypeOK'
  BY <1>1, <1>2, <1>3 DEF TypeOK
<1>5. OnePlace'
  BY <1>1, <1>2, <1>3, PopOnePlace
<1>6. BooksApart' /\ BooksCover'
  BY <1>1, <1>2, <1>3, NamesDiffer, BooksKept
<1>7. Within'
  BY <1>1 DEF Within
<1>8. QED
  BY <1>3, <1>4, <1>5, <1>6, <1>7

\* fini_gq unmaps the map of the first book keeper and nothing else, since no
\* other map overlaps it.
LEMMA FiniMapHolds == IInv /\ FiniMap => IInv'
<1> SUFFICES ASSUME IInv, FiniMap
             PROVE  IInv'
  OBVIOUS
<1> USE DEF IInv
<1> DEFINE bk == i1st["book"]
<1>1. /\ sp = ep /\ i1st["book"] # NULL /\ gq_pop_head("book")
      /\ mapped' = mapped \ (bk .. (bk + z[bk] - 1)) /\ fini' = TRUE
      /\ chain' = [chain EXCEPT !["book"] = Tail(@)]
      /\ UNCHANGED <<z, nitems, hand, sp, ep>>
  BY DEF FiniMap
<1>2. "book" \in Names /\ top' = top
  BY <1>1, NamesDiffer DEF top
<1>3. /\ bk \in Members(chain["book"]) /\ bk \in 1 .. (sp - 1)
      /\ i1st' \in [Names -> 0 .. top'] /\ ilst' \in [Names -> 0 .. top']
      /\ nxt' \in [1 .. top' -> 0 .. top']
      /\ chain' \in [Names -> Seq(1 .. (sp' - 1))]
      /\ ChainOK'
      /\ \A m \in Names : Distinct(chain'[m])
      /\ Members(chain'["book"]) = Members(chain["book"]) \ {bk}
      /\ \A m \in Names : m # "book" => chain'[m] = chain[m]
  BY <1>1, <1>2, PopStep
<1>4. TypeOK'
  BY <1>1, <1>2, <1>3 DEF TypeOK
<1>5. OnePlace'
  BY <1>1, <1>2, <1>3, PopOnePlace
<1>6. BooksApart'
  BY <1>1, <1>3 DEF BooksApart
<1>7. BooksCover'
  <2> DEFINE B == Members(chain["book"])
             M(b) == b .. (b + z[b] - 1)
  <2>1. \A b \in B : b \in Nat /\ z[b] \in Nat
    <3>1. B \subseteq 1 .. (sp - 1) /\ 1 .. (sp - 1) \subseteq 1 .. top /\ top \in Nat
      BY <1>2, MembersBelow
    <3>2. \A b \in B : b \in 1 .. top
      BY <3>1
    <3>3. QED
      BY <3>1, <3>2 DEF TypeOK
  <2>2. mapped = UNION {M(b) : b \in B}
    BY DEF BooksCover, ListOf, Members
  <2>3. \A b \in B \ {bk} : M(b) \cap M(bk) = {}
    <3>1. SUFFICES ASSUME NEW b \in B \ {bk}, NEW x \in M(b), x \in M(bk)
                   PROVE  FALSE
      OBVIOUS
    <3>2. b + z[b] <= bk \/ bk + z[bk] <= b
      BY <1>3 DEF BooksApart
    <3>3. QED
      BY <1>3, <2>1, <3>1, <3>2
  <2>4. mapped' = UNION {M(b) : b \in B \ {bk}}
    <3> HIDE DEF M, B, bk
    <3>1. mapped' = mapped \ M(bk) /\ bk \in B
      BY <1>1, <1>3 DEF M, B, bk
    <3>2. QED
      BY <2>2, <2>3, <3>1
  <2>5. ListOf("book")' = B \ {bk} /\ z' = z
    BY <1>1, <1>3 DEF ListOf, Members
  <2>6. QED
    BY <2>4, <2>5 DEF BooksCover
<1>8. Within'
  BY <1>1 DEF Within
<1>9. QED
  BY <1>3, <1>4, <1>5, <1>6, <1>7, <1>8

\* init_gq puts its book keeper on top, behind all memory there was before.
LEMMA InitGqHolds == IInv /\ InitGq => IInv'
<1> SUFFICES ASSUME IInv, InitGq
             PROVE  IInv'
  OBVIOUS
<1> USE DEF IInv
<1> DEFINE nusz == nitems + NNew
           bk == ep
           T == bk + nusz - 1
           n == [i \in 1 .. T |-> IF i < bk THEN nxt[i] ELSE NULL]
<1>1. /\ sp = ep /\ nitems' = nusz /\ gq_push_head("book", bk, n)
      /\ z' = [i \in 1 .. T |-> IF i < bk THEN z[i] ELSE IF i = bk THEN nusz ELSE 0]
      /\ mapped' = mapped \cup (bk .. T)
      /\ sp' = bk + 1 /\ ep' = bk + nusz
      /\ chain' = [chain EXCEPT !["book"] = <<bk>> \o @]
      /\ UNCHANGED <<hand, fini>>
  BY DEF InitGq, Idle
<1>2. /\ nusz \in Nat \ {0} /\ bk \in Nat \ {0} /\ T \in Nat /\ bk \in 1 .. T
      /\ top = bk - 1 /\ top \in Nat /\ top' = T /\ 1 .. top \subseteq 1 .. T
      /\ 0 .. top \subseteq 0 .. T /\ bk \notin 1 .. top /\ 1 .. (sp' - 1) = 1 .. bk
      /\ 1 .. top \subseteq 1 .. bk /\ 1 .. (sp - 1) = 1 .. top
  <2>1. nitems \in Nat /\ NNew \in Nat \ {0} /\ ep \in Nat \ {0} /\ sp = ep
    BY <1>1, GqAssumption DEF TypeOK
  <2>2. ep' = ep + nusz /\ sp' = ep + 1
    BY <1>1
  <2>3. QED
    BY <2>1, <2>2 DEF top
<1> HIDE DEF nusz, T
<1>3. /\ n \in [1 .. T -> 0 .. T] /\ \A i \in 1 .. top : n[i] = nxt[i]
  <2>1. \A i \in 1 .. T : i < bk => i \in 1 .. top
    BY <1>2
  <2>2. \A i \in 1 .. top : nxt[i] \in 0 .. T
    BY <1>2 DEF TypeOK
  <2>3. NULL \in 0 .. T
    BY <1>2 DEF NULL
  <2>4. \A i \in 1 .. top : i < bk /\ i \in 1 .. T
    BY <1>2
  <2>5. QED
    BY <2>1, <2>2, <2>3, <2>4
<1>4. \A m \in Names : /\ chain[m] \in Seq(1 .. T) /\ chain[m] \in Seq(1 .. bk)
                       /\ Members(chain[m]) \subseteq 1 .. top
                       /\ bk \notin Members(chain[m])
                       /\ Linked(chain[m], i1st[m], ilst[m], n)
                       /\ Distinct(chain[m])
  <2>1. SUFFICES ASSUME NEW m \in Names
                 PROVE  /\ chain[m] \in Seq(1 .. T) /\ chain[m] \in Seq(1 .. bk)
                        /\ Members(chain[m]) \subseteq 1 .. top
                        /\ bk \notin Members(chain[m])
                        /\ Linked(chain[m], i1st[m], ilst[m], n)
                        /\ Distinct(chain[m])
    OBVIOUS
  <2> HIDE DEF n
  <2>2. chain[m] \in Seq(1 .. top) /\ Members(chain[m]) \subseteq 1 .. top
    BY <1>2, MembersBelow
  <2>3. chain[m] \in Seq(1 .. T) /\ chain[m] \in Seq(1 .. bk)
    BY <1>2, <2>2, SeqMonotonic
  <2>4. Linked(chain[m], i1st[m], ilst[m], nxt) /\ Distinct(chain[m])
    BY DEF ChainOK, OnePlace
  <2>5. \A i \in Members(chain[m]) : n[i] = nxt[i]
    BY <1>3, <2>2
  <2>6. Linked(chain[m], i1st[m], ilst[m], n)
    BY <1>2, <2>2, <2>4, <2>5, LinkedElsewhere
  <2>7. QED
    BY <1>2, <2>2, <2>3, <2>4, <2>6
<1> HIDE DEF n
<1> DEFINE s == chain["book"]
           f == i1st["book"]
           c == <<bk>> \o s
           w == [n EXCEPT ![bk] = f]
           u == IF f # NULL THEN ilst["book"] ELSE bk
<1>5. Distinct(c) /\ Members(c) = Members(s) \cup {bk} /\ Linked(c, bk, u, w)
  <2> DEFINE t == ilst["book"]
  <2>1. /\ s \in Seq(1 .. T) /\ Linked(s, f, t, n) /\ Distinct(s) /\ bk \notin Members(s)
        /\ T \in Nat /\ bk \in 1 .. T /\ n \in [1 .. T -> 0 .. T]
    BY <1>2, <1>3, <1>4, NamesDiffer
  <2>2. Rewired(w, n, bk, f, T)
    BY <2>1 DEF Rewired
  <2>3. (u = t \/ f = NULL) /\ (u = bk \/ f # NULL)
    OBVIOUS
  <2> HIDE DEF bk, s, f, t, w, u
  <2>4. c \in Seq(1 .. T) /\ IsCons(c, bk, s)
    BY <2>1, Cons DEF IsCons
  <2> HIDE DEF c
  <2>5. QED
    BY <2>1, <2>2, <2>3, <2>4, LinkedPushHead
<1>6. c \in Seq(1 .. bk)
  <2>1. s \in Seq(1 .. bk) /\ bk \in 1 .. bk
    BY <1>2, <1>4, NamesDiffer
  <2>2. QED
    BY <2>1, Cons
<1> HIDE DEF c
<1>7. /\ nxt' = [n EXCEPT ![bk] = f]
      /\ i1st' = [i1st EXCEPT !["book"] = bk]
      /\ ilst' = IF f # NULL THEN ilst ELSE [ilst EXCEPT !["book"] = bk]
      /\ chain' = [chain EXCEPT !["book"] = c]
  BY <1>1 DEF gq_push_head, c
<1>8. /\ i1st' \in [Names -> 0 .. T] /\ ilst' \in [Names -> 0 .. T]
      /\ nxt' \in [1 .. T -> 0 .. T]
  <2>1. i1st \in [Names -> 0 .. T] /\ ilst \in [Names -> 0 .. T] /\ bk \in 0 .. T
    BY <1>2 DEF TypeOK
  <2>2. f \in 0 .. T
    BY <2>1, NamesDiffer
  <2>3. QED
    BY <1>3, <1>7, <2>1, <2>2
<1>9. /\ i1st'["book"] = bk /\ chain'["book"] = c
      /\ ilst'["book"] = (IF f # NULL THEN ilst["book"] ELSE bk)
      /\ \A m \in Names : m # "book" => /\ i1st'[m] = i1st[m] /\ ilst'[m] = ilst[m]
                                        /\ chain'[m] = chain[m]
  BY <1>7, NamesDiffer DEF TypeOK
<1>10. chain' \in [Names -> Seq(1 .. (sp' - 1))]
  <2>1. chain \in [Names -> Seq(1 .. bk)]
    BY <1>4 DEF TypeOK
  <2>2. Seq(1 .. (sp' - 1)) = Seq(1 .. bk)
    BY <1>2
  <2>3. QED
    BY <1>6, <1>7, <2>1, <2>2
<1>11. TypeOK'
  <2>1. z' \in [1 .. T -> Nat]
    <3>1. \A i \in 1 .. T : i < bk => i \in 1 .. top
      BY <1>2
    <3>2. z \in [1 .. top -> Nat] /\ nusz \in Nat
      BY <1>2 DEF TypeOK
    <3>3. QED
      BY <1>1, <3>1, <3>2
  <2>2. hand' \subseteq 1 .. (sp' - 1)
    BY <1>1, <1>2 DEF TypeOK
  <2>3. mapped' \subseteq 1 .. T
    BY <1>1, <1>2 DEF TypeOK
  <2>4. /\ sp' \in Nat \ {0} /\ ep' \in Nat \ {0} /\ sp' <= ep' /\ nitems' \in Nat
        /\ fini' \in BOOLEAN
    BY <1>1, <1>2 DEF TypeOK
  <2>5. QED
    BY <1>2, <1>8, <1>10, <2>1, <2>2, <2>3, <2>4 DEF TypeOK
<1>12. ASSUME NEW m \in Names
       PROVE  Linked(chain'[m], i1st'[m], ilst'[m], nxt') /\ Distinct(chain'[m])
  <2>1. CASE m = "book"
    <3> HIDE DEF f
    <3>1. QED
      BY <1>5, <1>7, <1>9, <2>1
  <2>2. CASE m # "book"
    <3>1. \A i \in Members(chain[m]) : nxt'[i] = n[i]
      BY <1>2, <1>3, <1>4, <1>7
    <3>2. Linked(chain[m], i1st[m], ilst[m], nxt')
      BY <1>2, <1>4, <3>1, LinkedElsewhere
    <3>3. QED
      BY <1>4, <1>9, <2>2, <3>2
  <2>3. QED
    BY <2>1, <2>2
<1>13. OnePlace'
  <2>1. bk \notin hand /\ hand' = hand
    BY <1>1, <1>2 DEF TypeOK
  <2>2. /\ \A m \in Names : bk \notin Members(chain[m])
        /\ \A m \in Names : Distinct(chain'[m])
        /\ Members(chain'["book"]) = Members(chain["book"]) \cup {bk}
        /\ \A m \in Names : m # "book" => chain'[m] = chain[m]
    BY <1>4, <1>5, <1>9, <1>12
  <2> HIDE DEF bk
  <2>3. QED
    BY <2>1, <2>2, NamesDiffer, PushOnePlace
<1>14. /\ Members(chain'["book"]) = Members(s) \cup {bk}
       /\ z'[bk] = nusz /\ \A b \in Members(s) : /\ z'[b] = z[b] /\ b \in Nat
                                                 /\ z[b] \in Nat
  <2>1. Members(s) \subseteq 1 .. top
    BY <1>4, NamesDiffer
  <2>2. \A b \in 1 .. top : b \in 1 .. T /\ b < bk /\ b \in Nat
    BY <1>2
  <2>3. z \in [1 .. top -> Nat]
    BY DEF TypeOK
  <2>4. z'[bk] = nusz
    BY <1>1, <1>2
  <2>5. ASSUME NEW b \in Members(s)
        PROVE  z'[b] = z[b] /\ b \in Nat /\ z[b] \in Nat
    <3>1. b \in 1 .. top
      BY <2>1
    <3>2. b \in 1 .. T /\ b < bk /\ b \in Nat
      BY <2>2, <3>1
    <3>3. QED
      BY <1>1, <2>3, <3>1, <3>2
  <2>6. QED
    BY <1>5, <1>9, <2>4, <2>5
<1>15. BooksApart'
  <2>1. \A b \in Members(s) : b + z[b] <= bk
    BY DEF BooksApart
  <2>2. \A b, d \in Members(s) : b # d => b + z[b] <= d \/ d + z[d] <= b
    BY DEF BooksApart
  <2>3. \A b \in Members(chain'["book"]) : b + z'[b] <= ep'
    BY <1>1, <1>2, <1>14, <2>1
  <2>4. \A b, d \in Members(chain'["book"]) : b # d => b + z'[b] <= d \/ d + z'[d] <= b
    BY <1>14, <2>1, <2>2
  <2>5. QED
    BY <2>3, <2>4 DEF BooksApart
<1>16. BooksCover'
  <2>1. mapped = UNION {b .. (b + z[b] - 1) : b \in Members(s)}
    BY DEF BooksCover, ListOf, Members
  <2>2. mapped' = mapped \cup (bk .. (bk + nusz - 1))
    BY <1>1 DEF T
  <2>3. mapped' = UNION {b .. (b + z'[b] - 1) : b \in Members(s) \cup {bk}}
    <3>1. UNION {b .. (b + z'[b] - 1) : b \in Members(s)} = mapped
      BY <1>14, <2>1
    <3>2. QED
      BY <1>14, <2>2, <3>1
  <2>4. ListOf("book")' = Members(s) \cup {bk}
    BY <1>14 DEF ListOf, Members
  <2>5. QED
    BY <2>3, <2>4 DEF BooksCover
<1>17. Within'
  <2>1. T <= MaxTop /\ ep' = T + 1
    BY <1>1, <1>2 DEF InitGq, T, nusz
  <2>2. QED
    BY <1>2, <2>1, GqAssumption DEF Within
<1>18. QED
  BY <1>11, <1>12, <1>13, <1>15, <1>16, <1>17 DEF ChainOK

-----------------------------------------------------------------------------
(* The theorems.                                                            *)

LEMMA NextHolds == IInv /\ [Next]_vars => IInv'
<1> SUFFICES ASSUME IInv, [Next]_vars
             PROVE  IInv'
  OBVIOUS
<1>1. CASE FiniGq
  <2>1. UNCHANGED <<i1st, ilst, nxt, z, hand, sp, ep, mapped, chain>>
        /\ nitems' \in Nat /\ fini' \in BOOLEAN
    BY <1>1 DEF FiniGq
  <2>2. TypeOK' /\ ChainOK' /\ BooksCover'
    BY <2>1 DEF IInv, TypeOK, ChainOK, BooksCover, ListOf, top
  <2>3. OnePlace' /\ BooksApart' /\ Within'
    BY <2>1 DEF IInv, OnePlace, BooksApart, Within
  <2>4. QED
    BY <2>2, <2>3 DEF IInv
<1>2. CASE UNCHANGED vars
  <2>1. TypeOK' /\ ChainOK' /\ BooksCover'
    BY <1>2 DEF vars, IInv, TypeOK, ChainOK, BooksCover, ListOf, top
  <2>2. OnePlace' /\ BooksApart' /\ Within'
    BY <1>2 DEF vars, IInv, OnePlace, BooksApart, Within
  <2>3. QED
    BY <2>1, <2>2 DEF IInv
<1>3. QED
  BY <1>1, <1>2, InitGqHolds, FillFreeHolds, PopHeadHolds, PushTailHolds, FiniMapHolds
  DEF Next

LEMMA Invariance == Spec => []IInv
BY InitHolds, NextHolds, PTL DEF Spec

\* The types of gq_s, gq_ll_s, gq_item_s and bk_item_s hold for good.
THEOREM Typing == Spec => []TypeOK
<1>1. IInv => TypeOK
  BY DEF IInv
<1>2. QED
  BY <1>1, Invariance, PTL

\* Every list, followed through the pointers, is the sequence of cells put on
\* it, whatever was popped, pushed and grown in between.
THEOREM Chained == Spec => []ChainOK
<1>1. IInv => ChainOK
  BY DEF IInv
<1>2. QED
  BY <1>1, Invariance, PTL

\* The book keepers account for exactly the memory that is mapped.
THEOREM BooksRight == Spec => []BooksCover
<1>1. IInv => BooksCover
  BY DEF IInv
<1>2. QED
  BY <1>1, Invariance, PTL

\* Cells on a list or with the owner are known to the abstract pool and the
\* cells init_gq has not reached yet are not.
LEMMA KnownBelow ==
    ASSUME IInv, NEW i
    PROVE  Pool!Known(i) => i \in 1 .. (sp - 1)
<1>1. hand \subseteq 1 .. (sp - 1)
  BY DEF IInv, TypeOK
<1>2. \A l \in Names : \A k \in DOMAIN chain[l] : chain[l][k] \in 1 .. (sp - 1)
  BY MembersBelow DEF IInv, Members
<1>3. QED
  BY <1>1, <1>2 DEF Pool!Known, Pool!Names, Names

LEMMA StepRefines ==
    ASSUME IInv, [Next]_vars
    PROVE  [Pool!Next]_(Pool!poolVars)
<1> USE DEF IInv
<1>1. CASE InitGq
  <2>1. /\ sp = ep /\ ep + (nitems + NNew) - 1 <= MaxTop
        /\ chain' = [chain EXCEPT !["book"] = <<ep>> \o @] /\ UNCHANGED hand
    BY <1>1 DEF InitGq, Idle
  <2>2. ep \in Nat \ {0} /\ nitems \in Nat /\ NNew \in Nat \ {0}
    BY GqAssumption DEF TypeOK
  <2>3. ep \in 1 .. MaxTop /\ ep \notin 1 .. (sp - 1)
    BY <2>1, <2>2, GqAssumption
  <2>4. Pool!Keep(ep)
    BY <2>1, <2>3, KnownBelow DEF Pool!Keep
  <2>5. QED
    BY <2>3, <2>4 DEF Pool!Next
<1>2. CASE FillFree
  <2>1. /\ sp < ep /\ chain' = [chain EXCEPT !["free"] = Append(@, sp)] /\ UNCHANGED hand
    BY <1>2 DEF FillFree
  <2>2. sp \in Nat \ {0} /\ sp \notin 1 .. (sp - 1)
    BY DEF TypeOK
  <2>3. Pool!Supply(sp)
    BY <2>1, <2>2, KnownBelow DEF Pool!Supply
  <2>4. sp \in 1 .. MaxTop
    BY <2>1, <2>2, GqAssumption DEF TypeOK, Within
  <2>5. QED
    BY <2>3, <2>4 DEF Pool!Next
<1>3. ASSUME NEW l \in Users \cup {"free"}, PopHead(l)
      PROVE  Pool!Next
  <2>1. /\ l \in Names /\ sp = ep /\ UNCHANGED <<sp, ep>> /\ i1st[l] # NULL
        /\ gq_pop_head(l) /\ hand' = hand \cup {i1st[l]}
        /\ chain' = [chain EXCEPT ![l] = Tail(@)]
    BY <1>3, NamesDiffer DEF PopHead, Idle
  <2>2. chain[l] # <<>> /\ i1st[l] = Head(chain[l])
    BY <2>1, PopStep
  <2>3. Pool!Take(l)
    BY <2>1, <2>2 DEF Pool!Take
  <2>4. QED
    BY <2>3 DEF Pool!Next
<1>4. ASSUME NEW l \in Users \cup {"free"}, NEW i \in hand, PushTail(l, i)
      PROVE  Pool!Next
  <2>1. Pool!Give(l, i)
    BY <1>4 DEF PushTail, Pool!Give
  <2>2. QED
    BY <2>1 DEF Pool!Next
<1>5. CASE FiniMap
  <2>1. /\ "book" \in Names /\ sp = ep /\ UNCHANGED <<sp, ep>> /\ i1st["book"] # NULL
        /\ gq_pop_head("book") /\ UNCHANGED hand
        /\ chain' = [chain EXCEPT !["book"] = Tail(@)]
    BY <1>5, NamesDiffer DEF FiniMap
  <2>2. chain["book"] # <<>>
    BY <2>1, PopStep
  <2>3. Pool!Drop
    BY <2>1, <2>2 DEF Pool!Drop
  <2>4. QED
    BY <2>3 DEF Pool!Next
<1>6. CASE FiniGq \/ UNCHANGED vars
  BY <1>6 DEF FiniGq, vars, Pool!poolVars
<1>7. QED
  BY <1>1, <1>2, <1>3, <1>4, <1>5, <1>6 DEF Next

\* gq.c implements the lists of cells its users count on: first in, first out,
\* no cell twice, new cells from init_gq only.
THEOREM Refines == Spec => PoolSpec
<1>1. Init => Pool!Init
  BY DEF Init, Pool!Init, Pool!Names, Names
<1>2. IInv /\ [Next]_vars => [Pool!Next]_(Pool!poolVars)
  BY StepRefines
<1>3. QED
  BY <1>1, <1>2, Invariance, PTL DEF Spec, PoolSpec, Pool!Spec

=============================================================================
