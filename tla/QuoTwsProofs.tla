----------------------------- MODULE QuoTwsProofs -----------------------------
(***************************************************************************)
(* The registry of sub.c gives every nick that is added one uidx for good, *)
(* for any number of nicks, sessions and subscriptions.                    *)
(*                                                                         *)
(* The quote daemon uses that queue by the operations of sub.c only, with  *)
(* subscriptions that are well formed, whatever the broker, the loop and   *)
(* the faults do.  What holds of the queue alone then holds in the daemon; *)
(* and with it, that a session asks for a request once, that an index is   *)
(* announced as what it was made for, and, where nicks differ, that a tick *)
(* goes out under the index of its instrument, not before consumers have   *)
(* been told what the index stands for, and that this is not taken back.   *)
(***************************************************************************)
EXTENDS QuoTws, LeastIndex, SequenceTheorems

-----------------------------------------------------------------------------
(* The queue alone.                                                         *)

Norms == [nick : Nick, uidx : Nat]

\* What find returns: the first place with the value, or 0 if there is none.
LEMMA FindFirst ==
    ASSUME NEW S, NEW lst \in Seq(S), NEW f, NEW v
    PROVE  /\ find(lst, f, v) \in 0 .. Len(lst)
           /\ find(lst, f, v) # 0 =>
                  /\ lst[find(lst, f, v)][f] = v
                  /\ \A j \in 1 .. (find(lst, f, v) - 1) : lst[j][f] # v
           /\ find(lst, f, v) = 0 => \A j \in 1 .. Len(lst) : lst[j][f] # v
<1> DEFINE I == {i \in DOMAIN lst : lst[i][f] = v}
<1>1. DOMAIN lst = 1 .. Len(lst) /\ Len(lst) \in Nat
  OBVIOUS
<1>2. CASE I = {}
  BY <1>1, <1>2 DEF find
<1>3. CASE I # {}
  <2>1. I \subseteq Nat
    BY <1>1
  <2>2. \E i \in I : \A j \in I : i <= j
    <3> HIDE DEF I
    <3>1. QED
      BY <1>3, <2>1, Least
  <2>3. find(lst, f, v) = CHOOSE i \in I : \A j \in I : i <= j
    BY <1>3 DEF find
  <2>4. find(lst, f, v) \in I /\ \A j \in I : find(lst, f, v) <= j
    <3> HIDE DEF I
    <3>1. QED
      BY <2>2, <2>3
  <2>5. \A j \in 1 .. (find(lst, f, v) - 1) : lst[j][f] # v
    BY <1>1, <2>4
  <2>6. QED
    BY <1>1, <2>4, <2>5
<1>4. QED
  BY <1>2, <1>3

-----------------------------------------------------------------------------
(* Types.                                                                   *)

\* Adding keeps the types, whether the nick is known or not.
LEMMA AddTypes ==
    ASSUME SubTypeOK, NEW s \in Subs, subq_add(s)
    PROVE  SubTypeOK'
<1> DEFINE n == find(norm, "nick", s.nick)
<1>1. s.nick \in Nick /\ uidx \in Nat /\ sbuf \in Seq(Subs) /\ norm \in Seq(Norms)
  BY DEF Subs, SubTypeOK, Norms
<1>2. n \in 0 .. Len(norm)
  BY <1>1, FindFirst
<1>3. /\ n # 0 => /\ sbuf' = Append(sbuf, [s EXCEPT !.uidx = norm[n].uidx])
                  /\ UNCHANGED <<norm, uidx>>
      /\ n = 0 => /\ uidx' = uidx + 1
                  /\ norm' = Append(norm, [nick |-> s.nick, uidx |-> uidx + 1])
                  /\ sbuf' = Append(sbuf, [s EXCEPT !.uidx = uidx + 1])
  BY DEF subq_add
<1> HIDE DEF n
<1>4. \A u \in Nat : [s EXCEPT !.uidx = u] \in Subs
  BY DEF Subs
<1>5. CASE n # 0
  <2>1. norm[n] \in Norms
    BY <1>1, <1>2, <1>5
  <2>2. norm[n].uidx \in Nat
    BY <2>1 DEF Norms
  <2>3. [s EXCEPT !.uidx = norm[n].uidx] \in Subs
    BY <1>4, <2>2
  <2> DEFINE c == [s EXCEPT !.uidx = norm[n].uidx]
  <2>4. sbuf' = Append(sbuf, c) /\ c \in Subs /\ UNCHANGED <<norm, uidx>>
    BY <1>3, <1>5, <2>3
  <2> HIDE DEF c
  <2>5. sbuf' \in Seq(Subs)
    BY <1>1, <2>4, AppendProperties
  <2>6. QED
    BY <2>4, <2>5 DEF SubTypeOK
<1>6. CASE n = 0
  <2>0. uidx + 1 \in Nat
    BY <1>1
  <2>1. [s EXCEPT !.uidx = uidx + 1] \in Subs
    BY <1>4, <2>0
  <2>2. [nick |-> s.nick, uidx |-> uidx + 1] \in Norms
    BY <1>1, <2>0 DEF Norms
  <2> DEFINE c == [s EXCEPT !.uidx = uidx + 1]
             m == [nick |-> s.nick, uidx |-> uidx + 1]
  <2>3. /\ sbuf' = Append(sbuf, c) /\ c \in Subs
        /\ norm' = Append(norm, m) /\ m \in Norms
        /\ uidx' \in Nat
    BY <1>1, <1>3, <1>6, <2>1, <2>2
  <2> HIDE DEF c, m
  <2>4. sbuf' \in Seq(Subs)
    BY <1>1, <2>3, AppendProperties
  <2>5. norm' \in Seq(Norms)
    BY <1>1, <2>3, AppendProperties
  <2>6. QED
    BY <2>3, <2>4, <2>5 DEF SubTypeOK, Norms
<1>7. QED
  BY <1>5, <1>6

\* So do the other operations of the owner.
LEMMA NextTypes == SubTypeOK /\ [SubNext]_subVars => SubTypeOK'
<1> SUFFICES ASSUME SubTypeOK, [SubNext]_subVars
             PROVE  SubTypeOK'
  OBVIOUS
<1>1. CASE Add
  BY <1>1, AddTypes DEF Add
<1>2. CASE subq_flush
  BY <1>2 DEF subq_flush, SubTypeOK
<1>3. ASSUME NEW i \in DOMAIN sbuf, FillIn(i)
      PROVE  SubTypeOK'
  <2> DEFINE s == sbuf'[i]
  <2>1. sbuf' = [sbuf EXCEPT ![i].idx = s.idx, ![i].sdef = s.sdef, ![i].nick = s.nick]
    BY <1>3 DEF FillIn, Resolve
  <2>2. s \in Subs /\ UNCHANGED <<norm, uidx>>
    BY <1>3 DEF FillIn, Resolve
  <2>3. sbuf' \in Seq(Subs)
    <3>1. sbuf' = [sbuf EXCEPT ![i] = s]
      <4>1. DOMAIN sbuf' = DOMAIN sbuf /\ \A j \in DOMAIN sbuf : j # i => sbuf'[j] = sbuf[j]
        BY <2>1
      <4>2. sbuf' = [j \in DOMAIN sbuf |-> sbuf'[j]]
        BY <2>1
      <4>3. QED
        BY <4>1, <4>2
    <3> HIDE DEF s
    <3>2. QED
      BY <2>2, <3>1 DEF SubTypeOK
  <2>4. QED
    BY <2>2, <2>3 DEF SubTypeOK
<1>4. ASSUME NEW i \in DOMAIN sbuf, Stamp(i)
      PROVE  SubTypeOK'
  <2>0. sbuf[i] \in Subs
    BY DEF SubTypeOK
  <2>1. [sbuf[i] EXCEPT !.last_dsm = "bragged"] \in Subs
    BY <2>0 DEF Subs, Dsm
  <2>2. QED
    BY <1>4, <2>1 DEF Stamp, SubTypeOK
<1>5. CASE UNCHANGED subVars
  BY <1>5 DEF subVars, SubTypeOK
<1>6. QED
  BY <1>1, <1>2, <1>3, <1>4, <1>5 DEF SubNext

\* The types of sub_s and subq_s hold for good.
THEOREM Typing == SubSpec => []SubTypeOK
<1>1. subInit => SubTypeOK
  BY DEF subInit, SubTypeOK
<1>2. QED
  BY <1>1, NextTypes, PTL DEF SubSpec

-----------------------------------------------------------------------------
(* The registry.                                                            *)

\* The counter is the number of entries and the i-th entry has uidx i: this
\* is why the next one is new, and what OneUidxPerNick needs to be inductive.
Registry ==
    /\ Len(norm) = uidx
    /\ \A i \in 1 .. Len(norm) : norm[i].uidx = i
    /\ \A i, j \in 1 .. Len(norm) : norm[i].nick = norm[j].nick => i = j
    /\ \A i \in 1 .. Len(sbuf) : sbuf[i].uidx \in 1 .. uidx

IInv == SubTypeOK /\ Registry

\* subq_add, taken apart: either the nick has an entry and its uidx is used,
\* or it has none and is entered behind all others.
LEMMA AddCases ==
    ASSUME SubTypeOK, NEW s \in Subs, subq_add(s)
    PROVE  \/ \E n \in 1 .. Len(norm), c \in Subs :
                 /\ c.uidx = norm[n].uidx
                 /\ sbuf' = Append(sbuf, c)
                 /\ UNCHANGED <<norm, uidx>>
           \/ \E c \in Subs, m \in Norms :
                 /\ c.uidx = uidx + 1
                 /\ sbuf' = Append(sbuf, c)
                 /\ m.uidx = uidx + 1
                 /\ \A j \in 1 .. Len(norm) : norm[j].nick # m.nick
                 /\ norm' = Append(norm, m)
                 /\ uidx' = uidx + 1
<1> DEFINE n == find(norm, "nick", s.nick)
<1>1. s.nick \in Nick /\ uidx \in Nat /\ sbuf \in Seq(Subs) /\ norm \in Seq(Norms)
  BY DEF Subs, SubTypeOK, Norms
<1>2. /\ n \in 0 .. Len(norm)
      /\ n = 0 => \A j \in 1 .. Len(norm) : norm[j].nick # s.nick
  BY <1>1, FindFirst
<1>3. /\ n # 0 => /\ sbuf' = Append(sbuf, [s EXCEPT !.uidx = norm[n].uidx])
                  /\ UNCHANGED <<norm, uidx>>
      /\ n = 0 => /\ uidx' = uidx + 1
                  /\ norm' = Append(norm, [nick |-> s.nick, uidx |-> uidx + 1])
                  /\ sbuf' = Append(sbuf, [s EXCEPT !.uidx = uidx + 1])
  BY DEF subq_add
<1> HIDE DEF n
<1>4. ASSUME NEW u \in Nat
      PROVE  [s EXCEPT !.uidx = u] \in Subs /\ [s EXCEPT !.uidx = u].uidx = u
  BY DEF Subs
<1>5. CASE n # 0
  <2>1. n \in 1 .. Len(norm) /\ norm[n] \in Norms
    BY <1>1, <1>2, <1>5
  <2>2. norm[n].uidx \in Nat
    BY <2>1 DEF Norms
  <2> DEFINE c == [s EXCEPT !.uidx = norm[n].uidx]
  <2>3. c \in Subs /\ c.uidx = norm[n].uidx /\ sbuf' = Append(sbuf, c)
    BY <1>3, <1>4, <1>5, <2>2
  <2> HIDE DEF c
  <2>4. QED
    BY <1>3, <1>5, <2>1, <2>3
<1>6. CASE n = 0
  <2> DEFINE c == [s EXCEPT !.uidx = uidx + 1]
             m == [nick |-> s.nick, uidx |-> uidx + 1]
  <2>0. uidx + 1 \in Nat
    BY <1>1
  <2>1. c \in Subs /\ c.uidx = uidx + 1 /\ sbuf' = Append(sbuf, c)
    <3>1. c \in Subs /\ c.uidx = uidx + 1
      BY <1>4, <2>0
    <3>2. sbuf' = Append(sbuf, c)
      BY <1>3, <1>6
    <3> HIDE DEF c
    <3>3. QED
      BY <3>1, <3>2
  <2>2. /\ m \in Norms /\ m.uidx = uidx + 1 /\ m.nick = s.nick
        /\ norm' = Append(norm, m) /\ uidx' = uidx + 1
    BY <1>1, <1>3, <1>6 DEF Norms
  <2>3. \A j \in 1 .. Len(norm) : norm[j].nick # m.nick
    BY <1>2, <1>6, <2>2
  <2> HIDE DEF c, m
  <2>4. QED
    BY <2>1, <2>2, <2>3
<1>7. QED
  BY <1>5, <1>6

LEMMA AddKeeps ==
    ASSUME IInv, NEW s \in Subs, subq_add(s)
    PROVE  Registry'
<1> USE DEF IInv
<1>1. uidx \in Nat /\ sbuf \in Seq(Subs) /\ norm \in Seq(Norms)
  BY DEF SubTypeOK, Norms
<1>2. CASE \E n \in 1 .. Len(norm), c \in Subs :
              /\ c.uidx = norm[n].uidx
              /\ sbuf' = Append(sbuf, c)
              /\ UNCHANGED <<norm, uidx>>
  <2>1. PICK n \in 1 .. Len(norm), c \in Subs :
              /\ c.uidx = norm[n].uidx
              /\ sbuf' = Append(sbuf, c)
              /\ UNCHANGED <<norm, uidx>>
    BY <1>2
  <2>2. c.uidx \in 1 .. uidx
    BY <2>1 DEF Registry
  <2>3. /\ Len(sbuf') = Len(sbuf) + 1
        /\ \A i \in 1 .. Len(sbuf) : sbuf'[i] = sbuf[i]
        /\ sbuf'[Len(sbuf) + 1] = c
    BY <1>1, <2>1, AppendProperties
  <2>4. QED
    BY <1>1, <2>1, <2>2, <2>3 DEF Registry
<1>3. CASE \E c \in Subs, m \in Norms :
              /\ c.uidx = uidx + 1
              /\ sbuf' = Append(sbuf, c)
              /\ m.uidx = uidx + 1
              /\ \A j \in 1 .. Len(norm) : norm[j].nick # m.nick
              /\ norm' = Append(norm, m)
              /\ uidx' = uidx + 1
  <2>1. PICK c \in Subs, m \in Norms :
              /\ c.uidx = uidx + 1
              /\ sbuf' = Append(sbuf, c)
              /\ m.uidx = uidx + 1
              /\ \A j \in 1 .. Len(norm) : norm[j].nick # m.nick
              /\ norm' = Append(norm, m)
              /\ uidx' = uidx + 1
    BY <1>3
  <2>2. /\ Len(sbuf') = Len(sbuf) + 1
        /\ \A i \in 1 .. Len(sbuf) : sbuf'[i] = sbuf[i]
        /\ sbuf'[Len(sbuf) + 1] = c
    BY <1>1, <2>1, AppendProperties
  <2>3. /\ Len(norm') = Len(norm) + 1
        /\ \A i \in 1 .. Len(norm) : norm'[i] = norm[i]
        /\ norm'[Len(norm) + 1] = m
    BY <1>1, <2>1, AppendProperties
  <2>4. \A i \in 1 .. Len(norm') : norm'[i].uidx = i
    BY <1>1, <2>1, <2>3 DEF Registry
  <2>5. \A i, j \in 1 .. Len(norm') : norm'[i].nick = norm'[j].nick => i = j
    BY <1>1, <2>1, <2>3 DEF Registry
  <2>6. \A i \in 1 .. Len(sbuf') : sbuf'[i].uidx \in 1 .. uidx'
    BY <1>1, <2>1, <2>2 DEF Registry
  <2>7. QED
    BY <1>1, <2>1, <2>3, <2>4, <2>5, <2>6 DEF Registry
<1>4. QED
  BY <1>2, <1>3, AddCases

\* The operations that do not add leave norm and every uidx alone.
LEMMA OthersKeep ==
    ASSUME IInv, \/ subq_flush
                 \/ \E i \in DOMAIN sbuf : FillIn(i) \/ Stamp(i)
                 \/ UNCHANGED subVars
    PROVE  Registry' /\ UNCHANGED <<norm, uidx>>
<1> USE DEF IInv
<1>1. CASE subq_flush
  BY <1>1 DEF subq_flush, Registry
<1>2. ASSUME NEW i \in DOMAIN sbuf, FillIn(i) \/ Stamp(i)
      PROVE  Registry' /\ UNCHANGED <<norm, uidx>>
  <2>1. sbuf \in Seq(Subs) /\ \A j \in DOMAIN sbuf : sbuf[j] \in Subs
    BY DEF SubTypeOK
  <2>2. /\ Len(sbuf') = Len(sbuf)
        /\ \A j \in 1 .. Len(sbuf) : sbuf'[j].uidx = sbuf[j].uidx
        /\ UNCHANGED <<norm, uidx>>
    <3>1. CASE FillIn(i)
      <4> DEFINE t == sbuf'[i]
      <4>1. /\ sbuf' = [sbuf EXCEPT ![i].idx = t.idx, ![i].sdef = t.sdef,
                                   ![i].nick = t.nick]
            /\ Len(sbuf') = Len(sbuf)
            /\ UNCHANGED <<norm, uidx>>
        BY <3>1 DEF FillIn, Resolve
      <4>2. ASSUME NEW j \in DOMAIN sbuf, j # i
            PROVE  sbuf'[j] = sbuf[j]
        BY <4>1, <4>2
      <4>3. sbuf'[i] = [sbuf[i] EXCEPT !.idx = t.idx, !.sdef = t.sdef, !.nick = t.nick]
        BY <4>1
      <4> HIDE DEF t
      <4>4. sbuf'[i].uidx = sbuf[i].uidx
        BY <2>1, <4>3 DEF Subs
      <4>5. QED
        BY <2>1, <4>1, <4>2, <4>4
    <3>2. CASE Stamp(i)
      BY <2>1, <3>2 DEF Stamp, Subs
    <3>3. QED
      BY <1>2, <3>1, <3>2
  <2>3. QED
    BY <2>2 DEF Registry
<1>3. CASE UNCHANGED subVars
  BY <1>3 DEF subVars, Registry
<1>4. QED
  BY <1>1, <1>2, <1>3

\* The registry is as described in every state ...
LEMMA RegistryHolds == SubSpec => []IInv
<1>1. subInit => IInv
  BY DEF subInit, IInv, SubTypeOK, Registry
<1>2. IInv /\ [SubNext]_subVars => IInv'
  <2> SUFFICES ASSUME IInv, [SubNext]_subVars
               PROVE  Registry'
    BY NextTypes DEF IInv
  <2>1. CASE Add
    BY <2>1, AddKeeps DEF Add
  <2>2. CASE ~Add
    BY <2>2, OthersKeep DEF SubNext
  <2>3. QED
    BY <2>1, <2>2
<1>3. QED
  BY <1>1, <1>2, PTL DEF SubSpec

\* ... so a uidx was given to one nick and a nick got one uidx ...
THEOREM UidxUnique == SubSpec => []OneUidxPerNick
<1>1. IInv => OneUidxPerNick
  <2>1. SubTypeOK => DOMAIN norm = 1 .. Len(norm)
    BY DEF SubTypeOK
  <2>2. QED
    BY <2>1 DEF IInv, Registry, OneUidxPerNick
<1>2. QED
  BY <1>1, RegistryHolds, PTL

\* ... and everything on the queue is published under one that was given out
\* (subq_add sets it before the subscription is pushed).
THEOREM QueueKnown == SubSpec => []UidxKnown
<1>1. IInv => UidxKnown
  <2> SUFFICES ASSUME IInv, NEW i \in DOMAIN sbuf
               PROVE  \E n \in DOMAIN norm : sbuf[i].uidx = norm[n].uidx
    BY DEF UidxKnown
  <2>1. DOMAIN norm = 1 .. Len(norm) /\ DOMAIN sbuf = 1 .. Len(sbuf)
    BY DEF IInv, SubTypeOK
  <2>2. sbuf[i].uidx \in 1 .. Len(norm)
    BY <2>1 DEF IInv, Registry
  <2>3. norm[sbuf[i].uidx].uidx = sbuf[i].uidx
    BY <2>2 DEF IInv, Registry
  <2>4. QED
    BY <2>1, <2>2, <2>3
<1>2. QED
  BY <1>1, RegistryHolds, PTL

\* A step keeps all entries of norm.
LEMMA StepKeepsEntries ==
    ASSUME IInv, [SubNext]_subVars
    PROVE  \A i \in DOMAIN norm : i \in DOMAIN norm' /\ norm'[i] = norm[i]
<1>1. uidx \in Nat /\ sbuf \in Seq(Subs) /\ norm \in Seq(Norms)
  BY DEF IInv, SubTypeOK, Norms
<1>2. CASE Add
  <2>1. UNCHANGED norm \/ \E m \in Norms : norm' = Append(norm, m)
    BY <1>2, AddCases DEF Add, IInv
  <2>2. QED
    BY <1>1, <2>1, AppendProperties
<1>3. CASE ~Add
  BY <1>3, OthersKeep DEF SubNext
<1>4. QED
  BY <1>2, <1>3

\* A nick that is added never gets another uidx, nor a uidx another such nick.
THEOREM UidxKept == SubSpec => NeverReassigned
<1>1. IInv /\ [SubNext]_subVars =>
        [\A i \in DOMAIN norm : i \in DOMAIN norm' /\ norm'[i] = norm[i]]_subVars
  BY StepKeepsEntries
<1>2. QED
  BY <1>1, RegistryHolds, PTL DEF SubSpec, NeverReassigned

-----------------------------------------------------------------------------
(* The queue in the daemon.                                                 *)

\* What the writes need of the rest of the state: ids are numbers, answers
\* are of instruments, and init_subs is within its list.
QInv == /\ SubTypeOK
        /\ next_oid \in Nat
        /\ asked \subseteq Nat \X Sdef
        /\ loop = "subs" => todo \in 1 .. Len(Reqs)

-----------------------------------------------------------------------------
(* The writes, as operations of the queue.                                  *)

\* A subscription that is added is seen to be added in the new state.
LEMMA AddSeen ==
    ASSUME SubTypeOK, NEW s \in Subs, subq_add(s)
    PROVE  Add
<1> DEFINE n == find(norm, "nick", s.nick)
           u == IF n # 0 THEN norm[n].uidx ELSE uidx + 1
           c == [s EXCEPT !.uidx = u]
<1>1. s.nick \in Nick /\ uidx \in Nat /\ sbuf \in Seq(Subs) /\ norm \in Seq(Norms)
  BY DEF Subs, SubTypeOK, Norms
<1>2. n \in 0 .. Len(norm)
  BY <1>1, FindFirst
<1>3. u \in Nat
  <2> HIDE DEF n
  <2>1. CASE n # 0
    <3>1. n \in 1 .. Len(norm)
      BY <1>2, <2>1
    <3>2. norm[n] \in Norms
      BY <1>1, <3>1
    <3>3. QED
      BY <2>1, <3>2 DEF Norms
  <2>2. CASE n = 0
    BY <1>1, <2>2
  <2>3. QED
    BY <2>1, <2>2
<1>4. c \in Subs /\ c.nick = s.nick /\ \A v \in Nat : [c EXCEPT !.uidx = v] = [s EXCEPT !.uidx = v]
  <2> HIDE DEF u
  <2>1. QED
    BY <1>3 DEF Subs
<1>5. sbuf' = Append(sbuf, c)
  BY DEF subq_add
<1>6. Len(sbuf') = Len(sbuf) + 1 /\ sbuf'[Len(sbuf')] = c
  <2> HIDE DEF c
  <2>1. QED
    BY <1>1, <1>4, <1>5, AppendProperties
<1>7. subq_add(c)
  <2>1. find(norm, "nick", c.nick) = n
    BY <1>4
  <2>2. n # 0 => [c EXCEPT !.uidx = norm[n].uidx] = c
    <3> HIDE DEF n
    <3>1. ASSUME n # 0
          PROVE  u = norm[n].uidx
      BY <3>1
    <3> HIDE DEF u
    <3>2. QED
      BY <1>3, <3>1 DEF Subs
  <2>3. n = 0 => [c EXCEPT !.uidx = uidx + 1] = c
    <3> HIDE DEF n
    <3>1. ASSUME n = 0
          PROVE  u = uidx + 1
      BY <3>1
    <3> HIDE DEF u
    <3>2. QED
      BY <1>3, <3>1 DEF Subs
  <2>4. /\ n # 0 => UNCHANGED <<norm, uidx>>
        /\ n = 0 => /\ uidx' = uidx + 1
                    /\ norm' = Append(norm, [nick |-> s.nick, uidx |-> uidx + 1])
    BY DEF subq_add
  <2> HIDE DEF n, c
  <2>5. QED
    BY <1>4, <1>5, <2>1, <2>2, <2>3, <2>4 DEF subq_add
<1>8. QED
  BY <1>4, <1>6, <1>7 DEF Add

LEMMA FillSeen ==
    ASSUME SubTypeOK, NEW i \in DOMAIN sbuf, NEW idx \in Nat, NEW x \in Sdef,
           NEW nick \in Nick, Resolve(i, idx, x, nick)
    PROVE  FillIn(i)
<1> DEFINE s == [sbuf[i] EXCEPT !.idx = idx, !.sdef = x, !.nick = nick]
<1>1. sbuf \in Seq(Subs) /\ sbuf[i] \in Subs
  BY DEF SubTypeOK
<1>2. s \in Subs /\ s.idx = idx /\ s.sdef = x /\ s.nick = nick
  BY <1>1 DEF Subs
<1>3. sbuf' = [sbuf EXCEPT ![i].idx = idx, ![i].sdef = x, ![i].nick = nick]
      /\ UNCHANGED <<norm, uidx>>
  BY DEF Resolve
<1>4. sbuf' = [sbuf EXCEPT ![i] = s]
  BY <1>1, <1>3
<1>5. Len(sbuf') = Len(sbuf) /\ sbuf'[i] = s
  <2> HIDE DEF s
  <2>1. QED
    BY <1>1, <1>2, <1>4
<1>6. Resolve(i, s.idx, s.sdef, s.nick)
  BY <1>2
<1> HIDE DEF s
<1>7. QED
  BY <1>2, <1>5, <1>6 DEF FillIn

-----------------------------------------------------------------------------
(* The steps of the daemon.                                                 *)

\* The constants, as the steps use them.
LEMMA Constants ==
    /\ Reqs \in Seq(DOMAIN Matches) /\ Len(Reqs) \in Nat \ {0}
    /\ \A k \in 1 .. Len(Reqs) : ReqNick[Reqs[k]] \in Nick /\ Matches[Reqs[k]] \subseteq Sdef
    /\ \A x \in Sdef : InstNick[x] \in Nick
    /\ Junk \subseteq Nat /\ FirstOid \in Nat
<1>1. Reqs \in Seq(DOMAIN Matches) /\ Len(Reqs) > 0
  BY QuoTwsAssumption
<1>2. DOMAIN Reqs = 1 .. Len(Reqs) /\ Len(Reqs) \in Nat
  BY <1>1, LenProperties
<1>3. QED
  BY <1>1, <1>2, QuoTwsAssumption

LEMMA SubSdefStep ==
    ASSUME QInv, SubSdef
    PROVE  QInv' /\ Add
<1> DEFINE r == Reqs[todo]
<1>1. /\ next_oid \in Nat /\ next_oid' = next_oid + 1 /\ todo \in 1 .. Len(Reqs)
      /\ SubTypeOK /\ asked \subseteq Nat \X Sdef
      /\ asked' = asked \cup {<<next_oid, x>> : x \in Matches[r]}
      /\ todo' = todo + 1
      /\ loop' = IF todo = Len(Reqs) THEN "send" ELSE "subs"
  BY DEF QInv, SubSdef, DrawOid
<1>2. ReqNick[r] \in Nick /\ Matches[r] \subseteq Sdef
  BY <1>1, Constants
<1>3. PICK j \in Junk :
          subq_add([idx |-> j, uidx |-> 0, sreq |-> next_oid,
                    last_dsm |-> IF UserNick[r] THEN "user" ELSE "auto",
                    sdef |-> NoSdef, nick |-> ReqNick[r]])
  BY DEF SubSdef
<1> DEFINE s == [idx |-> j, uidx |-> 0, sreq |-> next_oid,
                 last_dsm |-> IF UserNick[r] THEN "user" ELSE "auto",
                 sdef |-> NoSdef, nick |-> ReqNick[r]]
<1>4. j \in Nat
  BY Constants
<1>5. s \in Subs
  BY <1>1, <1>2, <1>4 DEF Subs, Dsm
<1>6. subq_add(s)
  BY <1>3
<1> HIDE DEF s
<1>7. Add /\ SubTypeOK'
  BY <1>1, <1>5, <1>6, AddSeen, AddTypes
<1>8. asked' \subseteq Nat \X Sdef
  BY <1>1, <1>2
<1>9. loop' = "subs" => todo' \in 1 .. Len(Reqs)
  BY <1>1, Constants
<1>10. QED
  BY <1>1, <1>7, <1>8, <1>9 DEF QInv

LEMMA ContDtlStep ==
    ASSUME QInv, NEW a \in asked, RecvContDtl(a[1], a[2])
    PROVE  QInv' /\ (Add \/ \E i \in DOMAIN sbuf : FillIn(i))
<1> DEFINE x == a[2]
           i == find(sbuf, "sreq", a[1])
<1>1. /\ next_oid \in Nat /\ next_oid' = next_oid + 1 /\ loop' = "recv"
      /\ SubTypeOK /\ asked \subseteq Nat \X Sdef /\ asked' \subseteq asked
      /\ a[1] \in Nat /\ x \in Sdef
  BY DEF QInv, RecvContDtl, DrawOid
<1>2. InstNick[x] \in Nick
  BY <1>1, Constants
<1>3. sbuf \in Seq(Subs)
  BY <1>1 DEF SubTypeOK
<1>4. i \in 0 .. Len(sbuf)
  BY <1>3, FindFirst
<1>5. CASE i = 0 \/ (i # 0 /\ sbuf[i].sdef # NoSdef)
  <2> DEFINE s == [idx |-> next_oid, uidx |-> 0, sreq |-> a[1], last_dsm |-> "auto",
                   sdef |-> x, nick |-> InstNick[x]]
  <2>1. s \in Subs
    BY <1>1, <1>2 DEF Subs, Dsm
  <2>2. subq_add(s)
    BY <1>5 DEF RecvContDtl
  <2> HIDE DEF s
  <2>3. Add /\ SubTypeOK'
    BY <1>1, <2>1, <2>2, AddSeen, AddTypes
  <2>4. QED
    BY <1>1, <2>3 DEF QInv
<1>6. CASE ~(i = 0 \/ (i # 0 /\ sbuf[i].sdef # NoSdef))
  <2> DEFINE nick == IF sbuf[i].last_dsm = "auto" THEN InstNick[x] ELSE sbuf[i].nick
  <2>1. i \in DOMAIN sbuf
    <3> HIDE DEF i
    <3>1. QED
      BY <1>3, <1>4, <1>6
  <2>2. Resolve(i, next_oid, x, nick)
    BY <1>6 DEF RecvContDtl
  <2>3. sbuf[i] \in Subs
    BY <1>3, <2>1
  <2>4. nick \in Nick
    BY <1>2, <2>3 DEF Subs
  <2> HIDE DEF i, nick, x
  <2>5. FillIn(i)
    BY <1>1, <2>1, <2>2, <2>4, FillSeen
  <2>6. SubTypeOK'
    BY <1>1, <2>1, <2>5, NextTypes DEF SubNext
  <2>7. QED
    BY <1>1, <2>1, <2>5, <2>6 DEF QInv
<1>7. QED
  BY <1>5, <1>6

\* twsc_conn_clos flushes the queue or leaves it alone.
LEMMA CloseStep ==
    ASSUME QInv, Close
    PROVE  /\ subq_flush \/ UNCHANGED subVars
           /\ SubTypeOK' /\ next_oid' \in Nat /\ asked' \subseteq Nat \X Sdef
<1>1. /\ subq_flush \/ UNCHANGED subVars
      /\ next_oid' \in {0, next_oid} /\ asked' = {}
  BY DEF Close, fini_tws, twsVars
<1>2. SubTypeOK'
  BY <1>1, NextTypes DEF QInv, SubNext
<1>3. QED
  BY <1>1, <1>2 DEF QInv

LEMMA StampStep ==
    ASSUME QInv, FlushPublish
    PROVE  QInv' /\ [SubNext]_subVars
<1> DEFINE i == find(sbuf, "idx", Head(qq)[1])
<1>1. sbuf \in Seq(Subs)
  BY DEF QInv, SubTypeOK
<1>2. i \in 0 .. Len(sbuf) /\ i # 0
  BY <1>1, FindFirst DEF FlushPublish
<1>3. i \in DOMAIN sbuf
  <2> HIDE DEF i
  <2>1. QED
    BY <1>1, <1>2
<1>4. Stamp(i) \/ UNCHANGED subVars
  BY DEF FlushPublish
<1>5. [SubNext]_subVars
  <2> HIDE DEF i
  <2>1. QED
    BY <1>3, <1>4 DEF SubNext
<1>6. UNCHANGED <<next_oid, asked>> /\ loop' = "flush"
  BY DEF FlushPublish, twsVars, broker
<1>7. SubTypeOK'
  BY <1>5, NextTypes DEF QInv
<1>8. QED
  BY <1>5, <1>6, <1>7 DEF QInv

LEMMA StepIsOperation ==
    ASSUME QInv, [Next]_vars
    PROVE  QInv' /\ [SubNext]_subVars
<1>1. ASSUME UNCHANGED subVars, next_oid' \in Nat, asked' \subseteq Nat \X Sdef,
             loop' = "subs" => todo' \in 1 .. Len(Reqs)
      PROVE  QInv' /\ [SubNext]_subVars
  BY <1>1, NextTypes DEF QInv
<1>2. next_oid \in Nat /\ asked \subseteq Nat \X Sdef
  BY DEF QInv
<1>3. CASE UNCHANGED vars
  BY <1>1, <1>2, <1>3 DEF QInv, vars, subVars
<1>4. CASE PrepCb
  <2>1. UNCHANGED <<twsVars, subVars, broker>> /\ todo' = 1
    BY <1>4 DEF PrepCb
  <2>2. QED
    BY <1>1, <1>2, <2>1, Constants DEF twsVars, broker
<1>5. CASE InitSubsFail
  BY <1>1, <1>2, <1>5 DEF InitSubsFail, twsVars, broker
<1>6. CASE SubSdef
  BY <1>6, SubSdefStep DEF SubNext
<1>7. CASE TwsSend
  BY <1>1, <1>2, <1>7 DEF TwsSend, SockBreaks, twsVars, broker
<1>8. CASE FlushDrop \/ FlushDone
  <2>1. UNCHANGED <<twsVars, subVars, broker>> /\ loop' # "subs"
    BY <1>8 DEF FlushDrop, FlushDone
  <2>2. QED
    BY <1>1, <1>2, <2>1 DEF twsVars, broker
<1>9. CASE FlushPublish
  BY <1>9, StampStep
<1>10. CASE RoundDone \/ OtherCb \/ RecoIdle \/ TwscData
            \/ \E evs \in SUBSET Possible \ {{}} : Poll(evs)
  <2>1. UNCHANGED <<twsVars, subVars, broker>> /\ loop' # "subs"
    BY <1>10 DEF RoundDone, OtherCb, RecoIdle, TwscData, Poll, Serve
  <2>2. QED
    BY <1>1, <1>2, <2>1 DEF twsVars, broker
<1>11. CASE TwscHangup \/ SighupCb
  <2>1. Close /\ loop' # "subs"
    BY <1>11 DEF TwscHangup, SighupCb, Serve
  <2>2. QED
    BY <2>1, CloseStep DEF QInv, SubNext
<1>12. CASE RecoConnect
  <2>1. UNCHANGED subVars /\ next_oid' = 0 /\ asked' = {} /\ loop' # "subs"
    BY <1>12 DEF RecoConnect, Serve, init_tws
  <2>2. QED
    BY <1>1, <2>1
<1>13. CASE RecvDone
  BY <1>1, <1>2, <1>13 DEF RecvDone, SockBreaks, twsVars, broker
<1>14. CASE RecvValidId
  <2>1. UNCHANGED <<subVars, broker>> /\ next_oid' = FirstOid /\ loop' # "subs"
    BY <1>14 DEF RecvValidId, nextValidId
  <2>2. QED
    BY <1>1, <1>2, <2>1, Constants DEF broker
<1>15. CASE \E i \in DOMAIN tick : RecvTick(i)
  <2>1. UNCHANGED <<twsVars, subVars, broker>> /\ loop' # "subs"
    BY <1>15 DEF RecvTick
  <2>2. QED
    BY <1>1, <1>2, <2>1 DEF twsVars, broker
<1>16. CASE \E a \in asked : RecvContDtl(a[1], a[2])
  BY <1>16, ContDtlStep DEF SubNext
<1>17. QED
  BY <1>3, <1>4, <1>5, <1>6, <1>7, <1>8, <1>9, <1>10, <1>11, <1>12, <1>13, <1>14, <1>15,
     <1>16 DEF Next

-----------------------------------------------------------------------------
(* Types.                                                                   *)

LEMMA TypesStep ==
    ASSUME TypeOK, QInv, [Next]_vars
    PROVE  TypeOK'
<1>1. SubTypeOK' /\ next_oid' \in Nat /\ asked' \subseteq Nat \X Sdef
  BY StepIsOperation DEF QInv
<1> USE DEF TypeOK
<1>2. 0 \in 0 .. Sessions /\ (sess % Sessions) + 1 \in 0 .. Sessions
  <2>1. sess \in Nat /\ Sessions \in Nat \ {0, 1}
    BY QuoTwsAssumption
  <2> HIDE DEF TypeOK
  <2>2. sess % Sessions \in 0 .. (Sessions - 1)
    BY <2>1
  <2>3. QED
    BY <2>1, <2>2
<1>3. Len(Reqs) \in Nat \ {0} /\ 1 \in 0 .. (Len(Reqs) + 1)
  BY Constants
<1>4. CASE UNCHANGED vars
  BY <1>1, <1>4 DEF vars
<1>5. CASE PrepCb
  <2>1. /\ loop' \in {"wait", "subs", "send"} /\ old_st' \in {"UNK", "SUP", "RDY", "DWN"}
        /\ timer' \in BOOLEAN /\ todo' \in 0 .. (Len(Reqs) + 1)
    BY <1>3, <1>5 DEF PrepCb, st, tws_state
  <2>2. QED
    BY <1>1, <1>5, <2>1 DEF PrepCb, twsVars, broker
<1>6. CASE InitSubsFail \/ TwsSend \/ RecvDone
  <2>1. /\ UNCHANGED <<subVars, qq, todo, ready, polled, old_st, timer, twsc, adv, broker>>
        /\ loop' \in {"send", "flush", "wait", "poll"}
    BY <1>6 DEF InitSubsFail, TwsSend, RecvDone
  <2>2. UNCHANGED twsVars \/ SockBreaks
    BY <1>6 DEF InitSubsFail, TwsSend, RecvDone
  <2>3. UNCHANGED <<priv, sess>> /\ sockok' \in BOOLEAN
    BY <2>2 DEF SockBreaks, twsVars
  <2>4. QED
    BY <1>1, <2>1, <2>3 DEF broker
<1>7. CASE SubSdef
  <2>1. todo \in 1 .. Len(Reqs)
    BY <1>7 DEF QInv, SubSdef
  <2>2. todo' \in 0 .. (Len(Reqs) + 1) /\ loop' \in {"send", "subs"}
    BY <1>3, <1>7, <2>1 DEF SubSdef
  <2>3. QED
    BY <1>1, <1>7, <2>2 DEF SubSdef, DrawOid
<1> DEFINE Quotes == Nat \X Sdef \X (0 .. Sessions)
<1>tail. qq # <<>> => Tail(qq) \in Seq(Quotes)
  <2>1. qq \in Seq(Quotes)
    OBVIOUS
  <2> HIDE DEF TypeOK, Quotes
  <2>2. QED
    BY <2>1
<1>8. CASE FlushDrop \/ FlushDone
  <2>1. qq' \in Seq(Quotes)
    BY <1>tail, <1>8 DEF FlushDrop, FlushDone
  <2>2. QED
    BY <1>1, <1>8, <2>1 DEF FlushDrop, FlushDone, twsVars, broker
<1>9. CASE FlushPublish
  <2> DEFINE i == find(sbuf, "idx", Head(qq)[1])
  <2>1. qq' \in Seq(Quotes)
    BY <1>tail, <1>9 DEF FlushPublish
  <2>2. sbuf[i] \in Subs
    <3>1. sbuf \in Seq(Subs)
      BY DEF SubTypeOK
    <3>2. i \in 0 .. Len(sbuf) /\ i # 0
      BY <1>9, <3>1, FindFirst DEF FlushPublish
    <3> HIDE DEF i
    <3>3. QED
      BY <3>1, <3>2
  <2>3. adv' = adv \/ Announce(sbuf[i])
    BY <1>9 DEF FlushPublish
  <2> HIDE DEF i
  <2>4. \A u \in DOMAIN adv' : u \in Nat /\ adv'[u] \in Nick
    BY <2>2, <2>3 DEF Announce, Subs
  <2>5. QED
    BY <1>1, <1>9, <2>1, <2>4 DEF FlushPublish, twsVars, broker
<1>10. CASE RoundDone \/ OtherCb \/ RecoIdle \/ TwscData
  BY <1>1, <1>10 DEF RoundDone, OtherCb, RecoIdle, TwscData, Serve, twsVars, broker
<1>11. ASSUME NEW evs \in SUBSET Possible, Poll(evs)
       PROVE  TypeOK'
  BY <1>1, <1>11 DEF Poll, Possible, twsVars, broker
<1>12. CASE TwscHangup \/ SighupCb
  <2>1. Close /\ UNCHANGED <<qq, loop, todo, polled, old_st, timer, adv>> /\ ready' \subseteq ready
    BY <1>12 DEF TwscHangup, SighupCb, Serve
  <2>2. /\ priv' \in {0, priv} /\ sess' = sess /\ sockok' \in BOOLEAN /\ twsc' = FALSE
        /\ DOMAIN tick' = {}
    BY <2>1 DEF Close, fini_tws, twsVars
  <2>3. QED
    BY <1>1, <1>2, <2>1, <2>2
<1>13. CASE RecoConnect
  <2>1. DOMAIN tick' = {}
    BY <1>13 DEF RecoConnect
  <2>2. QED
    BY <1>1, <1>2, <1>13, <2>1 DEF RecoConnect, init_tws, Serve
<1>14. CASE RecvValidId
  BY <1>1, <1>14 DEF RecvValidId, nextValidId, broker
<1>15. ASSUME NEW i \in DOMAIN tick, RecvTick(i)
       PROVE  TypeOK'
  <2>1. <<i, tick[i], priv>> \in Nat \X Sdef \X (0 .. Sessions)
    OBVIOUS
  <2>2. qq' \in Seq(Nat \X Sdef \X (0 .. Sessions))
    BY <1>15, <2>1 DEF RecvTick
  <2>3. QED
    BY <1>1, <1>15, <2>2 DEF RecvTick, twsVars, broker
<1>16. ASSUME NEW a \in asked, RecvContDtl(a[1], a[2])
       PROVE  TypeOK'
  <2>1. \A j \in DOMAIN tick' : j \in Nat /\ tick'[j] \in Sdef
    BY <1>16 DEF RecvContDtl
  <2>2. QED
    BY <1>1, <1>16, <2>1 DEF RecvContDtl, DrawOid
<1>17. QED
  BY <1>4, <1>5, <1>6, <1>7, <1>8, <1>9, <1>10, <1>11, <1>12, <1>13, <1>14, <1>15, <1>16
  DEF Next

-----------------------------------------------------------------------------
(* What a session asks for, and under which nick it is announced.           *)

\* Requests get the session's first ids, in order.
Turns ==
    /\ loop = "subs" => next_oid = FirstOid + todo - 1 /\ old_st = "RDY"
    /\ st = "RDY" /\ old_st # "RDY" => next_oid = FirstOid /\ asked = {}
    /\ st = "SUP" => asked = {}

\* An answer that is due is one to a request of the files.
Due == \A a \in asked : \E k \in DOMAIN Reqs :
           a[1] = FirstOid + k - 1 /\ a[2] \in Matches[Reqs[k]]

\* A subscription is of the request that its place in the registry was made
\* for; the n are the entries of the registry.
Kin(s, n) ==
    /\ s.sreq < FirstOid + Len(Reqs)
    /\ s.uidx \in DOMAIN n
    /\ s.nick \in NicksOf(n[s.uidx].nick)
    /\ s.sdef = NoSdef => \E k \in DOMAIN Reqs : /\ s.sreq = FirstOid + k - 1
                                                 /\ n[s.uidx].nick = ReqNick[Reqs[k]]

\* What was announced of an index is a nick of the request it was made for.
Brags == \A u \in DOMAIN adv : u \in DOMAIN norm /\ adv[u] \in NicksOf(norm[u].nick)

KInv == /\ TypeOK /\ QInv /\ Registry
        /\ Turns /\ Due
        /\ \A i \in DOMAIN sbuf : Kin(sbuf[i], norm)
        /\ Brags

\* The registry through a step of the daemon.
LEMMA RegistryStep ==
    ASSUME SubTypeOK, Registry, [SubNext]_subVars
    PROVE  /\ Registry'
           /\ \A i \in DOMAIN norm : i \in DOMAIN norm' /\ norm'[i] = norm[i]
<1>1. IInv
  BY DEF IInv
<1>2. CASE Add
  BY <1>1, <1>2, AddKeeps, StepKeepsEntries DEF Add
<1>3. CASE ~Add
  BY <1>1, <1>3, OthersKeep, StepKeepsEntries DEF SubNext
<1>4. QED
  BY <1>2, <1>3

\* A subscription that is added is of the entry of its own nick.
LEMMA AddOfNick ==
    ASSUME SubTypeOK, Registry, NEW s \in Subs, subq_add(s)
    PROVE  \E c \in Subs :
              /\ sbuf' = Append(sbuf, c)
              /\ c.nick = s.nick /\ c.sreq = s.sreq /\ c.sdef = s.sdef
              /\ c.idx = s.idx /\ c.last_dsm = s.last_dsm
              /\ c.uidx \in DOMAIN norm' /\ norm'[c.uidx].nick = s.nick
<1> DEFINE n == find(norm, "nick", s.nick)
           C(u) == [s EXCEPT !.uidx = u]
<1>1. s.nick \in Nick /\ uidx \in Nat /\ sbuf \in Seq(Subs) /\ norm \in Seq(Norms)
  BY DEF Subs, SubTypeOK, Norms
<1>2. n \in 0 .. Len(norm) /\ (n # 0 => norm[n].nick = s.nick)
  BY <1>1, FindFirst
<1>3. /\ n # 0 => /\ sbuf' = Append(sbuf, C(norm[n].uidx))
                  /\ UNCHANGED <<norm, uidx>>
      /\ n = 0 => /\ norm' = Append(norm, [nick |-> s.nick, uidx |-> uidx + 1])
                  /\ sbuf' = Append(sbuf, C(uidx + 1))
  BY DEF subq_add
<1>4. ASSUME NEW u \in Nat
      PROVE  /\ C(u) \in Subs /\ C(u).uidx = u
             /\ C(u).nick = s.nick /\ C(u).sreq = s.sreq /\ C(u).sdef = s.sdef
             /\ C(u).idx = s.idx /\ C(u).last_dsm = s.last_dsm
  BY DEF Subs
<1>5. DOMAIN norm = 1 .. Len(norm) /\ Len(norm) = uidx
  BY <1>1 DEF Registry
<1> HIDE DEF n, C
<1>6. CASE n # 0
  <2>1. n \in DOMAIN norm /\ norm[n].uidx = n /\ n \in Nat
    BY <1>2, <1>5, <1>6 DEF Registry
  <2>2. QED
    BY <1>2, <1>3, <1>4, <1>6, <2>1
<1>7. CASE n = 0
  <2> DEFINE m == [nick |-> s.nick, uidx |-> uidx + 1]
  <2>1. m \in Norms /\ m.nick = s.nick /\ norm' = Append(norm, m)
    BY <1>1, <1>3, <1>7 DEF Norms
  <2> HIDE DEF m
  <2>2. uidx + 1 \in DOMAIN norm' /\ norm'[uidx + 1] = m
    BY <1>1, <1>5, <2>1, AppendProperties
  <2>3. uidx + 1 \in Nat
    BY <1>1
  <2>4. QED
    BY <1>3, <1>4, <1>7, <2>1, <2>2, <2>3
<1>8. QED
  BY <1>6, <1>7

\* What is announced for a request is the nick it came with, or one of those
\* of the instruments it matches.
LEMMA NicksOfRequest ==
    /\ \A n : n \in NicksOf(n)
    /\ \A k \in DOMAIN Reqs : \A x \in Matches[Reqs[k]] :
           InstNick[x] \in NicksOf(ReqNick[Reqs[k]])
BY DEF NicksOf

\* Kin stays where the registry only grows.
LEMMA KinGrows ==
    ASSUME NEW s, NEW n, NEW m, Kin(s, n),
           \A i \in DOMAIN n : i \in DOMAIN m /\ m[i] = n[i]
    PROVE  Kin(s, m)
BY DEF Kin

\* prep_cb subscribes in the round that finds the session ready, and until
\* then nothing has been asked.
LEMMA TurnsStep ==
    ASSUME KInv, [Next]_vars
    PROVE  Turns'
<1> USE DEF Turns, KInv, st, tws_state
<1>1. next_oid \in Nat /\ FirstOid \in Nat \ {0} /\ Len(Reqs) \in Nat \ {0}
  BY QuoTwsAssumption, Constants DEF QInv
<1>2. ASSUME UNCHANGED <<twsVars, old_st>>, asked' \subseteq asked, loop' # "subs"
      PROVE  Turns'
  BY <1>2 DEF twsVars
<1>3. CASE UNCHANGED vars
  BY <1>3 DEF vars
<1>4. CASE PrepCb
  BY <1>1, <1>4 DEF PrepCb, JustReady, twsVars, broker
<1>5. CASE InitSubsFail
  BY <1>2, <1>5 DEF InitSubsFail, broker
<1>6. CASE SubSdef
  <2>1. /\ next_oid = FirstOid + todo - 1 /\ old_st = "RDY" /\ todo \in 1 .. Len(Reqs)
        /\ next_oid' = next_oid + 1 /\ todo' = todo + 1 /\ old_st' = old_st
    BY <1>6 DEF SubSdef, DrawOid, QInv
  <2>2. QED
    BY <1>1, <2>1
<1>7. CASE TwsSend \/ RecvDone
  <2>1. UNCHANGED <<old_st, asked>> /\ loop' # "subs"
    BY <1>7 DEF TwsSend, RecvDone, broker
  <2>2. UNCHANGED twsVars \/ SockBreaks
    BY <1>7 DEF TwsSend, RecvDone
  <2>3. CASE UNCHANGED twsVars
    BY <1>2, <2>1, <2>3
  <2>4. CASE SockBreaks
    BY <2>1, <2>4 DEF SockBreaks
  <2>5. QED
    BY <2>2, <2>3, <2>4
<1>8. CASE FlushDrop \/ FlushPublish \/ FlushDone
  <2>1. UNCHANGED <<twsVars, old_st, asked>> /\ loop' # "subs"
    BY <1>8 DEF FlushDrop, FlushPublish, FlushDone, broker
  <2>2. QED
    BY <1>2, <2>1
<1>9. CASE RoundDone \/ OtherCb \/ RecoIdle \/ TwscData
           \/ \E evs \in SUBSET Possible \ {{}} : Poll(evs)
  <2>1. UNCHANGED <<twsVars, old_st, asked>> /\ loop' # "subs"
    BY <1>9 DEF RoundDone, OtherCb, RecoIdle, TwscData, Poll, Serve, broker
  <2>2. QED
    BY <1>2, <2>1
<1>10. CASE TwscHangup \/ SighupCb
  <2>1. Close /\ loop' # "subs" /\ UNCHANGED old_st
    BY <1>10 DEF TwscHangup, SighupCb, Serve
  <2>2. asked' = {} /\ (fini_tws \/ UNCHANGED twsVars)
    BY <2>1 DEF Close
  <2>3. CASE fini_tws
    BY <2>1, <2>2, <2>3 DEF fini_tws
  <2>4. CASE UNCHANGED twsVars
    BY <1>2, <2>1, <2>2, <2>4
  <2>5. QED
    BY <2>2, <2>3, <2>4
<1>11. CASE RecoConnect
  <2>1. next_oid' = 0 /\ asked' = {} /\ loop' # "subs"
    BY <1>11 DEF RecoConnect, init_tws, Serve
  <2>2. QED
    BY <2>1
<1>12. CASE RecvValidId
  <2>1. /\ next_oid = 0 /\ next_oid' = FirstOid /\ loop' # "subs"
        /\ UNCHANGED <<priv, sockok, old_st, asked>>
    BY <1>12 DEF RecvValidId, nextValidId, broker
  <2>2. QED
    BY <1>1, <2>1
<1>13. CASE \E i \in DOMAIN tick : RecvTick(i)
  <2>1. UNCHANGED <<twsVars, old_st, asked>> /\ loop' # "subs"
    BY <1>13 DEF RecvTick, broker
  <2>2. QED
    BY <1>2, <2>1
<1>14. ASSUME NEW a \in asked, RecvContDtl(a[1], a[2])
       PROVE  Turns'
  <2>1. /\ next_oid > 0 /\ next_oid' = next_oid + 1 /\ loop' # "subs"
        /\ UNCHANGED <<priv, sockok, old_st>>
    BY <1>14 DEF RecvContDtl, DrawOid, tws_ready_p
  <2>2. QED
    BY <1>1, <2>1
<1>15. QED
  BY <1>3, <1>4, <1>5, <1>6, <1>7, <1>8, <1>9, <1>10, <1>11, <1>12, <1>13, <1>14 DEF Next

\* No step makes an answer due but __sub_sdef's request, or moves an
\* announcement but the flush.
LEMMA AskedAdv ==
    ASSUME [Next]_vars
    PROVE  /\ SubSdef \/ asked' \subseteq asked
           /\ FlushPublish \/ UNCHANGED adv
<1>1. CASE UNCHANGED vars
  BY <1>1 DEF vars
<1>2. CASE PrepCb \/ InitSubsFail \/ TwsSend \/ FlushDrop \/ FlushDone \/ RoundDone
           \/ OtherCb \/ RecoIdle \/ TwscData \/ RecvDone
  BY <1>2 DEF PrepCb, InitSubsFail, TwsSend, FlushDrop, FlushDone, RoundDone, OtherCb,
              RecoIdle, TwscData, RecvDone, broker
<1>3. CASE RecvValidId
  BY <1>3 DEF RecvValidId, broker
<1>4. CASE SubSdef
  BY <1>4 DEF SubSdef
<1>5. CASE FlushPublish
  BY <1>5 DEF FlushPublish, broker
<1>6. CASE TwscHangup \/ SighupCb
  BY <1>6 DEF TwscHangup, SighupCb, Close
<1>7. CASE RecoConnect
  BY <1>7 DEF RecoConnect
<1>8. CASE \E evs \in SUBSET Possible \ {{}} : Poll(evs)
  BY <1>8 DEF Poll, broker
<1>9. CASE \E i \in DOMAIN tick : RecvTick(i)
  BY <1>9 DEF RecvTick, broker
<1>10. CASE \E a \in asked : RecvContDtl(a[1], a[2])
  BY <1>10 DEF RecvContDtl
<1>11. QED
  BY <1>1, <1>2, <1>3, <1>4, <1>5, <1>6, <1>7, <1>8, <1>9, <1>10 DEF Next

\* The id of a request says which one of the files it is.
LEMMA DueStep ==
    ASSUME KInv, [Next]_vars
    PROVE  Due'
<1> USE DEF KInv
<1>1. CASE asked' \subseteq asked
  BY <1>1 DEF Due
<1>2. CASE SubSdef
  <2>1. /\ next_oid = FirstOid + todo - 1 /\ todo \in 1 .. Len(Reqs)
        /\ asked' = asked \cup {<<next_oid, x>> : x \in Matches[Reqs[todo]]}
    BY <1>2 DEF SubSdef, Turns, QInv
  <2>2. todo \in DOMAIN Reqs
    BY <2>1, Constants
  <2>3. QED
    BY <2>1, <2>2 DEF Due
<1>3. QED
  BY <1>1, <1>2, AskedAdv

\* A subscription added to the queue, or one filled in, is of its request.
LEMMA KinAdded ==
    ASSUME KInv, [SubNext]_subVars, NEW s \in Subs, subq_add(s),
           s.sreq < FirstOid + Len(Reqs),
           s.sdef = NoSdef => \E k \in DOMAIN Reqs : /\ s.sreq = FirstOid + k - 1
                                                     /\ s.nick = ReqNick[Reqs[k]]
    PROVE  \A j \in DOMAIN sbuf' : Kin(sbuf'[j], norm')
<1> USE DEF KInv
<1>1. \A j \in DOMAIN norm : j \in DOMAIN norm' /\ norm'[j] = norm[j]
  BY RegistryStep DEF QInv
<1>2. PICK c \in Subs :
         /\ sbuf' = Append(sbuf, c)
         /\ c.nick = s.nick /\ c.sreq = s.sreq /\ c.sdef = s.sdef
         /\ c.uidx \in DOMAIN norm' /\ norm'[c.uidx].nick = s.nick
  BY AddOfNick DEF QInv
<1>3. Kin(c, norm')
  BY <1>2, NicksOfRequest DEF Kin
<1>4. /\ sbuf \in Seq(Subs) /\ Len(sbuf) \in Nat
      /\ DOMAIN sbuf = 1 .. Len(sbuf) /\ DOMAIN sbuf' = 1 .. (Len(sbuf) + 1)
      /\ \A j \in 1 .. Len(sbuf) : sbuf'[j] = sbuf[j]
      /\ sbuf'[Len(sbuf) + 1] = c
  BY <1>2, AppendProperties DEF QInv, SubTypeOK
<1>5. ASSUME NEW j \in 1 .. (Len(sbuf) + 1)
      PROVE  Kin(sbuf'[j], norm')
  <2>1. CASE j = Len(sbuf) + 1
    BY <1>3, <1>4, <2>1
  <2>2. CASE j # Len(sbuf) + 1
    <3>1. j \in 1 .. Len(sbuf)
      BY <1>4, <2>2
    <3>2. Kin(sbuf[j], norm)
      BY <1>4, <3>1
    <3>3. Kin(sbuf[j], norm')
      BY <1>1, <3>2, KinGrows
    <3>4. QED
      BY <1>4, <3>1, <3>3
  <2>3. QED
    BY <2>1, <2>2
<1>6. QED
  BY <1>4, <1>5

LEMMA KinFilled ==
    ASSUME KInv, NEW a \in asked, NEW i \in DOMAIN sbuf, a[1] = sbuf[i].sreq,
           sbuf[i].sdef = NoSdef, NEW idx \in Nat,
           Resolve(i, idx, a[2], IF sbuf[i].last_dsm = "auto" THEN InstNick[a[2]]
                                                             ELSE sbuf[i].nick)
    PROVE  \A j \in DOMAIN sbuf' : Kin(sbuf'[j], norm')
<1> USE DEF KInv
<1> DEFINE nick == IF sbuf[i].last_dsm = "auto" THEN InstNick[a[2]] ELSE sbuf[i].nick
<1>1. Kin(sbuf[i], norm) /\ sbuf \in Seq(Subs) /\ sbuf[i] \in Subs
  BY DEF QInv, SubTypeOK
<1>2. PICK k \in DOMAIN Reqs : /\ sbuf[i].sreq = FirstOid + k - 1
                              /\ norm[sbuf[i].uidx].nick = ReqNick[Reqs[k]]
  BY <1>1 DEF Kin
<1>3. a[2] \in Matches[Reqs[k]]
  <2>1. PICK m \in DOMAIN Reqs : a[1] = FirstOid + m - 1 /\ a[2] \in Matches[Reqs[m]]
    BY DEF Due
  <2>2. k \in Nat /\ m \in Nat /\ FirstOid \in Nat
    BY Constants
  <2>3. k = m
    BY <1>2, <2>1, <2>2
  <2>4. QED
    BY <2>1, <2>3
<1>4. nick \in NicksOf(norm[sbuf[i].uidx].nick)
  <2>1. CASE sbuf[i].last_dsm = "auto"
    BY <1>2, <1>3, <2>1, NicksOfRequest
  <2>2. CASE sbuf[i].last_dsm # "auto"
    BY <1>1, <2>2 DEF Kin
  <2>3. QED
    BY <2>1, <2>2
<1>5. /\ sbuf' = [sbuf EXCEPT ![i].idx = idx, ![i].sdef = a[2], ![i].nick = nick]
      /\ norm' = norm
  BY DEF Resolve
<1>6. a[2] # NoSdef
  BY QuoTwsAssumption DEF QInv
<1> HIDE DEF nick
<1>7. /\ DOMAIN sbuf' = DOMAIN sbuf
      /\ \A j \in DOMAIN sbuf : j # i => sbuf'[j] = sbuf[j]
      /\ sbuf'[i] = [sbuf[i] EXCEPT !.idx = idx, !.sdef = a[2], !.nick = nick]
  BY <1>5
<1>8. /\ sbuf'[i].sreq = sbuf[i].sreq /\ sbuf'[i].uidx = sbuf[i].uidx
      /\ sbuf'[i].nick = nick /\ sbuf'[i].sdef = a[2]
  BY <1>1, <1>7 DEF Subs
<1>9. Kin(sbuf'[i], norm)
  BY <1>1, <1>4, <1>6, <1>8 DEF Kin
<1>10. QED
  BY <1>5, <1>7, <1>9

\* The steps that leave the queue alone, flush it, or stamp one of it.
LEMMA KinQuiet ==
    ASSUME KInv, \/ UNCHANGED subVars
                 \/ subq_flush
                 \/ \E i \in DOMAIN sbuf : Stamp(i)
    PROVE  \A j \in DOMAIN sbuf' : Kin(sbuf'[j], norm')
<1> USE DEF KInv
<1>1. CASE UNCHANGED subVars
  BY <1>1 DEF subVars
<1>2. CASE subq_flush
  BY <1>2 DEF subq_flush
<1>3. ASSUME NEW i \in DOMAIN sbuf, Stamp(i)
      PROVE  \A j \in DOMAIN sbuf' : Kin(sbuf'[j], norm')
  <2>1. sbuf[i] \in Subs /\ Kin(sbuf[i], norm)
    BY DEF QInv, SubTypeOK
  <2>2. /\ DOMAIN sbuf' = DOMAIN sbuf
        /\ \A j \in DOMAIN sbuf : j # i => sbuf'[j] = sbuf[j]
        /\ sbuf'[i] = [sbuf[i] EXCEPT !.last_dsm = "bragged"]
        /\ norm' = norm
    BY <1>3 DEF Stamp
  <2>3. /\ sbuf'[i].sreq = sbuf[i].sreq /\ sbuf'[i].uidx = sbuf[i].uidx
        /\ sbuf'[i].nick = sbuf[i].nick /\ sbuf'[i].sdef = sbuf[i].sdef
    BY <2>1, <2>2 DEF Subs
  <2>4. Kin(sbuf'[i], norm)
    BY <2>1, <2>3 DEF Kin
  <2>5. QED
    BY <2>2, <2>4
<1>4. QED
  BY <1>1, <1>2, <1>3

LEMMA KinStep ==
    ASSUME KInv, [Next]_vars
    PROVE  \A j \in DOMAIN sbuf' : Kin(sbuf'[j], norm')
<1>0. QInv /\ TypeOK /\ SubTypeOK /\ [SubNext]_subVars /\ next_oid \in Nat
  BY StepIsOperation DEF KInv, QInv
<1>1. CASE SubSdef
  <2> DEFINE r == Reqs[todo]
  <2>1. /\ next_oid = FirstOid + todo - 1 /\ todo \in 1 .. Len(Reqs) /\ todo \in DOMAIN Reqs
        /\ ReqNick[r] \in Nick
    <3>1. next_oid = FirstOid + todo - 1 /\ todo \in 1 .. Len(Reqs)
      BY <1>1 DEF SubSdef, KInv, Turns, QInv
    <3>2. todo \in DOMAIN Reqs
      BY <3>1, Constants
    <3>3. QED
      BY <3>1, <3>2, Constants
  <2>2. PICK j \in Junk :
            subq_add([idx |-> j, uidx |-> 0, sreq |-> next_oid,
                      last_dsm |-> IF UserNick[r] THEN "user" ELSE "auto",
                      sdef |-> NoSdef, nick |-> ReqNick[r]])
    BY <1>1 DEF SubSdef
  <2> DEFINE s == [idx |-> j, uidx |-> 0, sreq |-> next_oid,
                   last_dsm |-> IF UserNick[r] THEN "user" ELSE "auto",
                   sdef |-> NoSdef, nick |-> ReqNick[r]]
  <2>3. j \in Nat
    BY Constants
  <2>4. s \in Subs /\ subq_add(s) /\ s.sreq = next_oid /\ s.nick = ReqNick[r]
    BY <1>0, <2>1, <2>2, <2>3 DEF Subs, Dsm
  <2>5. s.sreq < FirstOid + Len(Reqs)
    <3> HIDE DEF s
    <3>1. QED
      BY <2>1, <2>4, Constants
  <2> HIDE DEF s
  <2>6. QED
    BY <1>0, <2>1, <2>4, <2>5, KinAdded
<1>2. ASSUME NEW a \in asked, RecvContDtl(a[1], a[2])
      PROVE  \A j \in DOMAIN sbuf' : Kin(sbuf'[j], norm')
  <2> DEFINE x == a[2]
             i == find(sbuf, "sreq", a[1])
  <2>1. /\ x \in Sdef /\ InstNick[x] \in Nick /\ x # NoSdef
        /\ a[1] \in Nat /\ a[1] < FirstOid + Len(Reqs)
    <3>1. PICK k \in DOMAIN Reqs : a[1] = FirstOid + k - 1
      BY DEF KInv, Due
    <3>2. k \in 1 .. Len(Reqs)
      BY Constants
    <3>3. a[1] < FirstOid + Len(Reqs)
      BY <3>1, <3>2, Constants
    <3>4. a[1] \in Nat /\ x \in Sdef
      BY <1>0 DEF QInv
    <3>5. QED
      BY <3>3, <3>4, Constants, QuoTwsAssumption
  <2>2. sbuf \in Seq(Subs)
    BY <1>0 DEF SubTypeOK
  <2>3. i \in 0 .. Len(sbuf) /\ (i # 0 => sbuf[i]["sreq"] = a[1])
    BY <2>2, FindFirst
  <2>4. CASE i = 0 \/ (i # 0 /\ sbuf[i].sdef # NoSdef)
    <3> DEFINE s == [idx |-> next_oid, uidx |-> 0, sreq |-> a[1], last_dsm |-> "auto",
                     sdef |-> x, nick |-> InstNick[x]]
    <3>1. s \in Subs /\ s.sreq = a[1] /\ s.sdef = x
      BY <1>0, <2>1 DEF Subs, Dsm
    <3>2. subq_add(s)
      BY <1>2, <2>4 DEF RecvContDtl
    <3> HIDE DEF s
    <3>3. QED
      BY <1>0, <2>1, <3>1, <3>2, KinAdded
  <2>5. CASE ~(i = 0 \/ (i # 0 /\ sbuf[i].sdef # NoSdef))
    <3>1. Resolve(i, next_oid, a[2],
                  IF sbuf[i].last_dsm = "auto" THEN InstNick[a[2]] ELSE sbuf[i].nick)
      BY <1>2, <2>5 DEF RecvContDtl
    <3>2. i \in DOMAIN sbuf
      <4> HIDE DEF i
      <4>1. QED
        BY <2>2, <2>3, <2>5
    <3>3. a[1] = sbuf[i].sreq /\ sbuf[i].sdef = NoSdef
      BY <2>3, <2>5
    <3> HIDE DEF i
    <3>4. QED
      BY <1>0, <3>1, <3>2, <3>3, KinFilled
  <2>6. QED
    BY <2>4, <2>5
<1>3. CASE \E i \in DOMAIN tick : RecvTick(i)
  BY <1>3, KinQuiet DEF RecvTick
<1>4. CASE FlushPublish
  <2> DEFINE i == find(sbuf, "idx", Head(qq)[1])
  <2>1. sbuf \in Seq(Subs)
    BY <1>0 DEF SubTypeOK
  <2>2. i \in 0 .. Len(sbuf) /\ i # 0
    BY <1>4, <2>1, FindFirst DEF FlushPublish
  <2>3. Stamp(i) \/ UNCHANGED subVars
    BY <1>4 DEF FlushPublish
  <2> HIDE DEF i
  <2>4. i \in DOMAIN sbuf
    BY <2>1, <2>2
  <2>5. QED
    BY <2>3, <2>4, KinQuiet
<1>5. CASE TwscHangup \/ SighupCb
  <2>1. Close
    BY <1>5 DEF TwscHangup, SighupCb
  <2>2. QED
    BY <1>0, <2>1, CloseStep, KinQuiet
<1>6. CASE UNCHANGED vars
  <2>1. UNCHANGED subVars
    BY <1>6 DEF vars, subVars
  <2>2. QED
    BY <2>1, KinQuiet
<1>7. CASE PrepCb \/ InitSubsFail \/ TwsSend \/ FlushDrop \/ FlushDone \/ RoundDone
           \/ OtherCb \/ RecoIdle \/ RecoConnect \/ TwscData \/ RecvDone \/ RecvValidId
           \/ \E evs \in SUBSET Possible \ {{}} : Poll(evs)
  <2>1. UNCHANGED subVars
    BY <1>7 DEF PrepCb, InitSubsFail, TwsSend, FlushDrop, FlushDone, RoundDone, OtherCb,
                RecoIdle, RecoConnect, TwscData, RecvDone, RecvValidId, Poll
  <2>2. QED
    BY <2>1, KinQuiet
<1>8. QED
  BY <1>1, <1>2, <1>3, <1>4, <1>5, <1>6, <1>7 DEF Next

\* An announcement repeats the nick of a subscription.
LEMMA ToldStep ==
    ASSUME KInv, [Next]_vars
    PROVE  Brags'
<1> USE DEF KInv
<1>1. \A u \in DOMAIN norm : u \in DOMAIN norm' /\ norm'[u] = norm[u]
  BY StepIsOperation, RegistryStep DEF QInv
<1>2. CASE UNCHANGED adv
  BY <1>1, <1>2 DEF Brags
<1>3. CASE FlushPublish
  <2> DEFINE i == find(sbuf, "idx", Head(qq)[1])
             s == sbuf[i]
  <2>1. sbuf \in Seq(Subs)
    BY DEF QInv, SubTypeOK
  <2>2. i \in 0 .. Len(sbuf) /\ i # 0
    BY <1>3, <2>1, FindFirst DEF FlushPublish
  <2>3. Announce(s) \/ UNCHANGED adv
    BY <1>3 DEF FlushPublish
  <2>4. Kin(s, norm)
    <3> HIDE DEF i
    <3>1. i \in DOMAIN sbuf
      BY <2>1, <2>2
    <3>2. QED
      BY <3>1
  <2> HIDE DEF i, s
  <2>5. CASE Announce(s)
    <3>1. s.uidx \in DOMAIN norm /\ s.nick \in NicksOf(norm[s.uidx].nick)
      BY <2>4 DEF Kin
    <3>2. \A u \in DOMAIN adv' :
              \/ u = s.uidx /\ adv'[u] = s.nick
              \/ u \in DOMAIN adv /\ adv'[u] = adv[u]
      BY <2>5 DEF Announce
    <3>3. QED
      BY <1>1, <3>1, <3>2 DEF Brags
  <2>6. QED
    BY <1>2, <2>3, <2>5
<1>4. QED
  BY <1>2, <1>3, AskedAdv

-----------------------------------------------------------------------------
(* The theorems.                                                            *)

LEMMA QInvariance == Spec => []QInv
<1>1. Init => QInv
  BY DEF Init, twsInit, subInit, QInv, SubTypeOK
<1>2. QED
  BY <1>1, StepIsOperation, PTL DEF Spec

\* The daemon implements the specification of its subscription queue: no
\* handler does anything to sbuf, norm or uidx but add, flush, fill in what
\* was found, or stamp (quo-tws.c, with any of the faults).
THEOREM UsesOperations == Spec => SubSpec
<1>1. Init => subInit
  BY DEF Init
<1>2. QInv /\ [Next]_vars => [SubNext]_subVars
  BY StepIsOperation
<1>3. QED
  BY <1>1, <1>2, QInvariance, PTL DEF Spec, SubSpec

\* So in the daemon, whatever sessions come and go, an entry of the registry
\* stays (subq_add).
THEOREM DaemonUidxKept == Spec => NeverReassigned
  BY UsesOperations, UidxKept, PTL

LEMMA KInvariance == Spec => []KInv
<1>1. Init => KInv
  <2> SUFFICES ASSUME Init
               PROVE  KInv
    OBVIOUS
  <2>1. QInv
    BY DEF Init, twsInit, subInit, QInv, SubTypeOK
  <2>2. qq \in Seq(Nat \X Sdef \X (0 .. Sessions))
    BY DEF Init
  <2>3. TypeOK
    <3>1. 0 \in 0 .. Sessions /\ 0 \in 0 .. (Len(Reqs) + 1)
      BY Constants, QuoTwsAssumption
    <3>2. SubTypeOK /\ next_oid \in Nat /\ asked \subseteq Nat \X Sdef
      BY <2>1 DEF QInv
    <3>3. QED
      BY <2>2, <3>1, <3>2 DEF Init, twsInit, TypeOK
  <2>4. Registry /\ Brags /\ \A i \in DOMAIN sbuf : Kin(sbuf[i], norm)
    BY DEF Init, subInit, Registry, Brags
  <2>5. Turns /\ Due
    BY DEF Init, twsInit, Turns, Due, st, tws_state
  <2>6. QED
    BY <2>1, <2>3, <2>4, <2>5 DEF KInv
<1>2. KInv /\ [Next]_vars => KInv'
  <2> SUFFICES ASSUME KInv, [Next]_vars
               PROVE  KInv'
    OBVIOUS
  <2>1. QInv' /\ TypeOK'
    BY StepIsOperation, TypesStep DEF KInv
  <2>2. Registry'
    BY StepIsOperation, RegistryStep DEF KInv, QInv
  <2>3. QED
    BY <2>1, <2>2, TurnsStep, DueStep, KinStep, ToldStep DEF KInv
<1>3. QED
  BY <1>1, <1>2, PTL DEF Spec

\* However often the session is lost and found again, and whichever files fail
\* to be read, a session asks for each request of the files at most once
\* (prep_cb and init_subs), and all state of the daemon keeps its types.
THEOREM AskedOnce == Spec => []SubscribedOnce
<1>1. KInv => SubscribedOnce
  BY DEF KInv, Kin, SubscribedOnce
<1>2. QED
  BY <1>1, KInvariance, PTL

\* Consumers are only ever told, of an index, the nick of the request it was
\* made for or of an instrument the broker found for that request, in all the
\* sessions of the process (qq_flush_cb, pre_cb, subq_add).
THEOREM IndexOfRequest == Spec => []IndexKeepsRequest
<1>1. KInv => IndexKeepsRequest
  <2> SUFFICES ASSUME KInv, NEW u \in DOMAIN adv
               PROVE  \E i \in DOMAIN norm :
                          norm[i].uidx = u /\ adv[u] \in NicksOf(norm[i].nick)
    BY DEF IndexKeepsRequest
  <2>1. u \in DOMAIN norm /\ adv[u] \in NicksOf(norm[u].nick)
    BY DEF KInv, Brags
  <2>2. DOMAIN norm = 1 .. Len(norm)
    BY DEF KInv, QInv, SubTypeOK
  <2>3. norm[u].uidx = u
    BY <2>1, <2>2 DEF KInv, Registry
  <2>4. QED
    BY <2>1, <2>3
<1>2. QED
  BY <1>1, KInvariance, PTL

-----------------------------------------------------------------------------
(* Which session a poll and a flush are of.                                 *)

\* A session that is set up is another than the one before.
LEMMA NewSession ==
    ASSUME sess \in 0 .. Sessions
    PROVE  /\ (sess % Sessions) + 1 \in 1 .. Sessions
           /\ (sess % Sessions) + 1 # sess
<1>1. Sessions \in Nat \ {0, 1}
  BY QuoTwsAssumption
<1>2. CASE sess = Sessions
  <2>1. sess % Sessions = 0
    BY <1>1, <1>2
  <2>2. QED
    BY <1>1, <1>2, <2>1
<1>3. CASE sess < Sessions
  <2>1. sess % Sessions = sess
    BY <1>1, <1>3
  <2>2. QED
    BY <1>1, <1>3, <2>1
<1>4. QED
  BY <1>1, <1>2, <1>3

\* There is a session while the watcher has its socket, and wherever one is
\* sent to or read from; a timer still to be served was found in the poll with
\* the session that is running, or none.
Running ==
    /\ priv \in {0, sess}
    /\ twsc <=> priv # 0
    /\ sockok => priv # 0
    /\ loop \in {"subs", "send", "flush", "recv"} => priv # 0
    /\ loop \in {"poll", "recv"} /\ "reco" \in ready => polled \in {0, sess}
    /\ loop = "flush" => Beef

LEMMA RunningStep ==
    ASSUME TypeOK, Running, [Next]_vars
    PROVE  Running'
<1> USE DEF Running, TypeOK
<1>1. ASSUME UNCHANGED <<priv, sess, twsc, polled>>, sockok' => sockok,
             loop' \in {"subs", "send", "flush", "recv"} => priv # 0,
             loop' \in {"poll", "recv"} => loop \in {"poll", "recv"} /\ ready' \subseteq ready,
             loop' = "flush" => loop = "flush" \/ Beef
      PROVE  Running'
  BY <1>1
<1>2. CASE UNCHANGED vars
  BY <1>1, <1>2 DEF vars
<1>3. CASE PrepCb
  <2>1. loop' \in {"wait", "subs", "send"} /\ (loop' \in {"subs", "send"} => priv # 0)
    BY <1>3 DEF PrepCb, st, tws_state
  <2>2. UNCHANGED <<priv, sess, sockok, twsc, polled>>
    BY <1>3 DEF PrepCb, twsVars
  <2>3. QED
    BY <1>1, <2>1, <2>2
<1>4. CASE InitSubsFail \/ SubSdef
  <2>1. loop = "subs" /\ loop' \in {"subs", "send"}
        /\ UNCHANGED <<priv, sess, sockok, twsc, polled>>
    BY <1>4 DEF InitSubsFail, SubSdef, DrawOid, twsVars
  <2>2. QED
    BY <1>1, <2>1
<1>5. CASE TwsSend \/ RecvDone
  <2>1. /\ UNCHANGED <<priv, sess, twsc, polled, ready>> /\ sockok' \in {sockok, FALSE}
        /\ \/ loop = "send" /\ loop' \in {"flush", "wait"} /\ (loop' = "flush" => Beef)
           \/ loop = "recv" /\ loop' = "poll"
    BY <1>5 DEF TwsSend, RecvDone, SockBreaks, twsVars
  <2>2. QED
    BY <1>1, <2>1
<1>6. CASE FlushDrop \/ FlushPublish \/ FlushDone
  <2>1. UNCHANGED <<priv, sess, sockok, twsc, polled>> /\ loop = "flush" /\ loop' \in {"flush", "wait"}
    BY <1>6 DEF FlushDrop, FlushPublish, FlushDone, twsVars
  <2>2. QED
    BY <1>1, <2>1
<1>7. CASE \E evs \in SUBSET Possible \ {{}} : Poll(evs)
  <2>1. UNCHANGED <<priv, sess, sockok, twsc>> /\ loop' = "poll" /\ polled' = priv
    BY <1>7 DEF Poll, twsVars
  <2>2. QED
    BY <2>1
<1>8. CASE RoundDone \/ OtherCb \/ RecoIdle \/ TwscData
  <2>1. UNCHANGED <<priv, sess, sockok, twsc, polled>> /\ loop = "poll" /\ ready' \subseteq ready
    BY <1>8 DEF RoundDone, OtherCb, RecoIdle, TwscData, Serve, twsVars
  <2>2. loop' \in {"prep", "poll", "recv"} /\ (loop' = "recv" => sockok)
    BY <1>8, <2>1 DEF RoundDone, OtherCb, RecoIdle, TwscData
  <2>3. QED
    BY <1>1, <2>1, <2>2
<1>9. CASE TwscHangup \/ SighupCb
  <2>1. Close /\ loop = "poll" /\ loop' = loop /\ ready' \subseteq ready /\ polled' = polled
    BY <1>9 DEF TwscHangup, SighupCb, Serve
  <2>2. /\ twsc' = FALSE /\ sess' = sess
        /\ IF twsc THEN priv' = 0 /\ sockok' = FALSE ELSE UNCHANGED <<priv, sockok>>
    BY <2>1 DEF Close, fini_tws, twsVars
  <2>3. QED
    BY <2>1, <2>2
<1>10. CASE RecoConnect
  <2>1. /\ "reco" \notin ready' /\ loop' = "poll" /\ twsc' = TRUE /\ priv' = sess'
        /\ priv' = (sess % Sessions) + 1
    BY <1>10 DEF RecoConnect, Serve, init_tws
  <2>2. priv' # 0
    BY <2>1, NewSession
  <2>3. QED
    BY <2>1, <2>2
<1>11. CASE RecvValidId \/ (\E i \in DOMAIN tick : RecvTick(i))
            \/ (\E a \in asked : RecvContDtl(a[1], a[2]))
  <2>1. UNCHANGED <<priv, sess, sockok, twsc, polled, ready>> /\ loop = "recv" /\ loop' = "recv"
    BY <1>11 DEF RecvValidId, RecvTick, RecvContDtl, DrawOid, nextValidId, twsVars
  <2>2. QED
    BY <1>1, <2>1
<1>12. QED
  BY <1>2, <1>3, <1>4, <1>5, <1>6, <1>7, <1>8, <1>9, <1>10, <1>11 DEF Next

-----------------------------------------------------------------------------
(* What a step does to the queue of subscriptions.                          *)

\* A subscription but for the second it was announced.
SameSub(s, t) == /\ s.idx = t.idx /\ s.uidx = t.uidx /\ s.sreq = t.sreq
                 /\ s.sdef = t.sdef /\ s.nick = t.nick

SameQueue == DOMAIN sbuf' = DOMAIN sbuf /\ \A j \in DOMAIN sbuf : SameSub(sbuf'[j], sbuf[j])

\* A subscription put at the end of the queue is of the entry of its nick.
Joins(c) ==
    /\ c \in Subs
    /\ DOMAIN sbuf = 1 .. Len(sbuf) /\ DOMAIN sbuf' = 1 .. (Len(sbuf) + 1)
    /\ Len(sbuf) \in Nat /\ Len(sbuf') = Len(sbuf) + 1
    /\ \A j \in DOMAIN sbuf : sbuf'[j] = sbuf[j]
    /\ sbuf'[Len(sbuf) + 1] = c
    /\ c.uidx \in DOMAIN norm' /\ norm'[c.uidx].nick = c.nick

LEMMA SubscriptionJoins ==
    ASSUME KInv, NEW s \in Subs, subq_add(s)
    PROVE  \E c \in Subs : /\ Joins(c)
                           /\ c.nick = s.nick /\ c.sreq = s.sreq /\ c.sdef = s.sdef
                           /\ c.idx = s.idx /\ c.last_dsm = s.last_dsm
<1>1. SubTypeOK /\ Registry /\ sbuf \in Seq(Subs) /\ Len(sbuf) \in Nat /\ DOMAIN sbuf = 1 .. Len(sbuf)
  BY DEF KInv, QInv, SubTypeOK
<1>2. PICK c \in Subs :
         /\ sbuf' = Append(sbuf, c)
         /\ c.nick = s.nick /\ c.sreq = s.sreq /\ c.sdef = s.sdef
         /\ c.idx = s.idx /\ c.last_dsm = s.last_dsm
         /\ c.uidx \in DOMAIN norm' /\ norm'[c.uidx].nick = s.nick
  BY <1>1, AddOfNick
<1>3. /\ DOMAIN sbuf' = 1 .. (Len(sbuf) + 1) /\ Len(sbuf') = Len(sbuf) + 1
      /\ \A j \in 1 .. Len(sbuf) : sbuf'[j] = sbuf[j]
      /\ sbuf'[Len(sbuf) + 1] = c
  BY <1>1, <1>2, AppendProperties
<1>4. QED
  BY <1>1, <1>2, <1>3 DEF Joins

\* __sub_sdef puts the subscription of the next request on the queue.
LEMMA RequestJoins ==
    ASSUME KInv, SubSdef
    PROVE  /\ todo \in 1 .. Len(Reqs) /\ next_oid = FirstOid + todo - 1
           /\ \E c \in Subs : /\ Joins(c)
                              /\ c.idx \in Junk /\ c.sreq = next_oid /\ c.sdef = NoSdef
                              /\ c.nick = ReqNick[Reqs[todo]] /\ c.last_dsm # "bragged"
                              /\ c.last_dsm = IF UserNick[Reqs[todo]] THEN "user" ELSE "auto"
<1> DEFINE r == Reqs[todo]
<1>1. todo \in 1 .. Len(Reqs) /\ next_oid = FirstOid + todo - 1
  BY DEF SubSdef, KInv, Turns, QInv
<1>2. ReqNick[r] \in Nick /\ next_oid \in Nat
  BY <1>1, Constants DEF KInv, QInv
<1>3. PICK j \in Junk :
          subq_add([idx |-> j, uidx |-> 0, sreq |-> next_oid,
                    last_dsm |-> IF UserNick[r] THEN "user" ELSE "auto",
                    sdef |-> NoSdef, nick |-> ReqNick[r]])
  BY DEF SubSdef
<1> DEFINE s == [idx |-> j, uidx |-> 0, sreq |-> next_oid,
                 last_dsm |-> IF UserNick[r] THEN "user" ELSE "auto",
                 sdef |-> NoSdef, nick |-> ReqNick[r]]
<1>4. j \in Nat
  BY Constants
<1>5. /\ s \in Subs /\ subq_add(s) /\ s.idx = j /\ s.sreq = next_oid /\ s.sdef = NoSdef
      /\ s.nick = ReqNick[r] /\ s.last_dsm # "bragged"
      /\ s.last_dsm = IF UserNick[r] THEN "user" ELSE "auto"
  BY <1>2, <1>3, <1>4 DEF Subs, Dsm
<1> HIDE DEF s
<1>6. QED
  BY <1>1, <1>3, <1>5, SubscriptionJoins

\* The definition that has arrived is put on the first subscription that asked
\* for it ...
Fills(i, a) ==
    /\ i \in DOMAIN sbuf
    /\ sbuf[i].sreq = a[1] /\ sbuf[i].sdef = NoSdef
    /\ \A j \in 1 .. (i - 1) : sbuf[j].sreq # a[1]
    /\ DOMAIN sbuf' = DOMAIN sbuf /\ norm' = norm
    /\ \A j \in DOMAIN sbuf : j # i => sbuf'[j] = sbuf[j]
    /\ sbuf'[i].idx = next_oid /\ sbuf'[i].sdef = a[2]
    /\ sbuf'[i].sreq = sbuf[i].sreq /\ sbuf'[i].uidx = sbuf[i].uidx
    /\ sbuf'[i].last_dsm = sbuf[i].last_dsm
    /\ sbuf'[i].nick = IF sbuf[i].last_dsm = "auto" THEN InstNick[a[2]] ELSE sbuf[i].nick

\* ... or gets one of its own, if that one has a definition or there is none.
FindsTaken(a) == \/ \A j \in DOMAIN sbuf : sbuf[j].sreq # a[1]
                 \/ \E i \in DOMAIN sbuf : /\ sbuf[i].sreq = a[1] /\ sbuf[i].sdef # NoSdef
                                           /\ \A j \in 1 .. (i - 1) : sbuf[j].sreq # a[1]

LEMMA AnswerTaken ==
    ASSUME KInv, NEW a \in asked, RecvContDtl(a[1], a[2])
    PROVE  /\ a[2] \in Sdef
           /\ \E k \in DOMAIN Reqs : a[1] = FirstOid + k - 1 /\ a[2] \in Matches[Reqs[k]]
           /\ \/ \E i \in DOMAIN sbuf : Fills(i, a)
              \/ \E c \in Subs : /\ Joins(c) /\ FindsTaken(a)
                                 /\ c.idx = next_oid /\ c.sreq = a[1] /\ c.sdef = a[2]
                                 /\ c.nick = InstNick[a[2]] /\ c.last_dsm = "auto"
<1> DEFINE x == a[2]
           i == find(sbuf, "sreq", a[1])
<1>1. /\ x \in Sdef /\ a[1] \in Nat /\ next_oid \in Nat /\ InstNick[x] \in Nick
      /\ sbuf \in Seq(Subs)
  BY Constants DEF KInv, QInv, SubTypeOK
<1>2. \E k \in DOMAIN Reqs : a[1] = FirstOid + k - 1 /\ x \in Matches[Reqs[k]]
  BY DEF KInv, Due
<1>3. /\ i \in 0 .. Len(sbuf)
      /\ i # 0 => /\ sbuf[i]["sreq"] = a[1]
                  /\ \A j \in 1 .. (i - 1) : sbuf[j]["sreq"] # a[1]
      /\ i = 0 => \A j \in 1 .. Len(sbuf) : sbuf[j]["sreq"] # a[1]
  BY <1>1, FindFirst
<1>4. CASE i = 0 \/ (i # 0 /\ sbuf[i].sdef # NoSdef)
  <2> DEFINE s == [idx |-> next_oid, uidx |-> 0, sreq |-> a[1], last_dsm |-> "auto",
                   sdef |-> x, nick |-> InstNick[x]]
  <2>1. /\ s \in Subs /\ s.idx = next_oid /\ s.sreq = a[1] /\ s.sdef = x
        /\ s.nick = InstNick[x] /\ s.last_dsm = "auto"
    BY <1>1 DEF Subs, Dsm
  <2>2. subq_add(s)
    BY <1>4 DEF RecvContDtl
  <2>3. FindsTaken(a)
    <3> HIDE DEF i
    <3>1. DOMAIN sbuf = 1 .. Len(sbuf) /\ Len(sbuf) \in Nat
      BY <1>1
    <3>2. CASE i = 0
      BY <1>3, <3>1, <3>2 DEF FindsTaken
    <3>3. CASE i # 0
      <4>1. i \in DOMAIN sbuf
        BY <1>3, <3>1, <3>3
      <4>2. QED
        BY <1>3, <1>4, <3>3, <4>1 DEF FindsTaken
    <3>4. QED
      BY <3>2, <3>3
  <2> HIDE DEF s
  <2>4. QED
    BY <1>1, <1>2, <2>1, <2>2, <2>3, SubscriptionJoins
<1>5. CASE ~(i = 0 \/ (i # 0 /\ sbuf[i].sdef # NoSdef))
  <2>1. Resolve(i, next_oid, x, IF sbuf[i].last_dsm = "auto" THEN InstNick[x] ELSE sbuf[i].nick)
    BY <1>5 DEF RecvContDtl
  <2> DEFINE nick == IF sbuf[i].last_dsm = "auto" THEN InstNick[x] ELSE sbuf[i].nick
  <2>2. /\ sbuf' = [sbuf EXCEPT ![i].idx = next_oid, ![i].sdef = x, ![i].nick = nick]
        /\ norm' = norm
    BY <2>1 DEF Resolve
  <2>3. i \in DOMAIN sbuf /\ sbuf[i] \in Subs
    <3> HIDE DEF i
    <3>1. QED
      BY <1>1, <1>3, <1>5
  <2> HIDE DEF i
  <2> DEFINE n == nick
  <2>4. n = nick
    OBVIOUS
  <2> HIDE DEF n
  <2>5. /\ DOMAIN sbuf' = DOMAIN sbuf
        /\ \A j \in DOMAIN sbuf : j # i => sbuf'[j] = sbuf[j]
        /\ sbuf'[i] = [sbuf[i] EXCEPT !.idx = next_oid, !.sdef = x, !.nick = n]
    BY <2>2, <2>3, <2>4
  <2>6. /\ sbuf'[i].idx = next_oid /\ sbuf'[i].sdef = x /\ sbuf'[i].nick = n
        /\ sbuf'[i].sreq = sbuf[i].sreq /\ sbuf'[i].uidx = sbuf[i].uidx
        /\ sbuf'[i].last_dsm = sbuf[i].last_dsm
    BY <2>3, <2>5 DEF Subs
  <2>7. Fills(i, a)
    BY <1>3, <1>5, <2>2, <2>3, <2>4, <2>5, <2>6 DEF Fills
  <2>8. QED
    BY <1>1, <1>2, <2>3, <2>7
<1>6. QED
  BY <1>4, <1>5

\* Every other step but the announcement in the flush empties the queue or
\* leaves it, and the registry, as they are.
LEMMA OthersLeave ==
    ASSUME [Next]_vars, ~SubSdef, ~FlushPublish, ~(\E a \in asked : RecvContDtl(a[1], a[2]))
    PROVE  norm' = norm /\ (sbuf' = <<>> \/ sbuf' = sbuf)
<1>1. CASE UNCHANGED vars
  BY <1>1 DEF vars
<1>2. CASE TwscHangup \/ SighupCb
  <2>1. Close
    BY <1>2 DEF TwscHangup, SighupCb
  <2>2. (sbuf' = <<>> /\ norm' = norm) \/ UNCHANGED subVars
    BY <2>1 DEF Close, subq_flush
  <2>3. QED
    BY <2>2 DEF subVars
<1>3. CASE PrepCb \/ InitSubsFail \/ TwsSend \/ FlushDrop \/ FlushDone \/ RoundDone
           \/ OtherCb \/ RecoIdle \/ RecoConnect \/ TwscData \/ RecvDone \/ RecvValidId
           \/ (\E evs \in SUBSET Possible \ {{}} : Poll(evs))
           \/ (\E i \in DOMAIN tick : RecvTick(i))
  <2>1. UNCHANGED subVars
    BY <1>3 DEF PrepCb, InitSubsFail, TwsSend, FlushDrop, FlushDone, RoundDone, OtherCb,
                RecoIdle, RecoConnect, TwscData, RecvDone, RecvValidId, Poll, RecvTick
  <2>2. QED
    BY <2>1 DEF subVars
<1>4. QED
  BY <1>1, <1>2, <1>3 DEF Next

\* qq_flush_cb publishes for the first subscription with the ticker id.  It
\* is announced with the tick or has been announced before.
Announces(i) ==
    /\ DOMAIN sbuf' = DOMAIN sbuf
    /\ \A j \in DOMAIN sbuf : j # i => sbuf'[j] = sbuf[j]
    /\ sbuf'[i].last_dsm = "bragged"
    /\ adv' = [u \in DOMAIN adv \cup {sbuf[i].uidx} |->
                   IF u = sbuf[i].uidx THEN sbuf[i].nick ELSE adv[u]]
    /\ out'.told = sbuf[i].nick

Publishes(i) ==
    /\ i \in DOMAIN sbuf
    /\ sbuf[i].idx = Head(qq)[1] /\ qq # <<>>
    /\ norm' = norm /\ SameQueue
    /\ out'.nick = sbuf[i].nick /\ out'.uidx = sbuf[i].uidx
    /\ out'.idx = Head(qq)[1] /\ out'.inst = Head(qq)[2] /\ out'.sess = Head(qq)[3]
    /\ \/ Announces(i)
       \/ /\ sbuf[i].last_dsm = "bragged" /\ sbuf' = sbuf /\ adv' = adv
          /\ out'.told = Told(sbuf[i].uidx)

LEMMA FlushPublishes ==
    ASSUME KInv, FlushPublish
    PROVE  Publishes(find(sbuf, "idx", Head(qq)[1]))
<1> DEFINE i == find(sbuf, "idx", Head(qq)[1])
<1>1. sbuf \in Seq(Subs)
  BY DEF KInv, QInv, SubTypeOK
<1>2. i \in 0 .. Len(sbuf) /\ i # 0 /\ sbuf[i]["idx"] = Head(qq)[1] /\ qq # <<>>
  BY <1>1, FindFirst DEF FlushPublish
<1>3. PICK due \in BragDue(sbuf[i]) :
         /\ IF due THEN Stamp(i) /\ Announce(sbuf[i]) ELSE UNCHANGED <<subVars, adv>>
         /\ out' = [uidx |-> sbuf[i].uidx, nick |-> sbuf[i].nick,
                    told |-> IF due THEN sbuf[i].nick ELSE Told(sbuf[i].uidx),
                    idx |-> Head(qq)[1], inst |-> Head(qq)[2], sess |-> Head(qq)[3]]
  BY DEF FlushPublish
<1> HIDE DEF i
<1>4. i \in DOMAIN sbuf /\ sbuf[i] \in Subs
  BY <1>1, <1>2
<1>5. /\ out'.nick = sbuf[i].nick /\ out'.uidx = sbuf[i].uidx
      /\ out'.idx = Head(qq)[1] /\ out'.inst = Head(qq)[2] /\ out'.sess = Head(qq)[3]
  BY <1>3
<1>6. ASSUME due = TRUE
      PROVE  Publishes(i)
  <2>1. Stamp(i) /\ Announce(sbuf[i]) /\ out'.told = sbuf[i].nick
    BY <1>3, <1>6
  <2>2. /\ DOMAIN sbuf' = DOMAIN sbuf /\ norm' = norm
        /\ \A j \in DOMAIN sbuf : j # i => sbuf'[j] = sbuf[j]
        /\ sbuf'[i] = [sbuf[i] EXCEPT !.last_dsm = "bragged"]
    BY <1>4, <2>1 DEF Stamp
  <2>3. SameSub(sbuf'[i], sbuf[i]) /\ sbuf'[i].last_dsm = "bragged"
    BY <1>4, <2>2 DEF Subs, SameSub
  <2>4. SameQueue
    BY <2>2, <2>3 DEF SameQueue, SameSub
  <2>5. Announces(i)
    BY <2>1, <2>2, <2>3 DEF Announces, Announce
  <2>6. QED
    BY <1>2, <1>4, <1>5, <2>2, <2>4, <2>5 DEF Publishes
<1>7. ASSUME due = FALSE
      PROVE  Publishes(i)
  <2>1. sbuf[i].last_dsm = "bragged"
    BY <1>3, <1>7 DEF BragDue
  <2>2. sbuf' = sbuf /\ norm' = norm /\ adv' = adv /\ out'.told = Told(sbuf[i].uidx)
    BY <1>3, <1>7 DEF subVars
  <2>3. SameQueue
    BY <2>2 DEF SameQueue, SameSub
  <2>4. QED
    BY <1>2, <1>4, <1>5, <2>1, <2>2, <2>3 DEF Publishes
<1>8. due = TRUE \/ due = FALSE
  BY <1>3 DEF BragDue
<1>9. Publishes(i)
  BY <1>6, <1>7, <1>8
<1>10. QED
  BY <1>9 DEF i

\* So unless something joins or is filled in, the queue keeps its
\* subscriptions or is emptied.
LEMMA QueueStays ==
    ASSUME KInv, [Next]_vars, ~SubSdef, ~(\E a \in asked : RecvContDtl(a[1], a[2]))
    PROVE  norm' = norm /\ (sbuf' = <<>> \/ SameQueue)
<1>1. sbuf' = sbuf => SameQueue
  BY DEF SameQueue, SameSub
<1>2. QED
  BY <1>1, OthersLeave, FlushPublishes DEF Publishes

-----------------------------------------------------------------------------
(* How far the queue is filled.                                             *)

\* In a session that did not inherit subscriptions the queue is empty until
\* init_subs, which puts one on it for each request before any answer comes.
Filling ==
    /\ mixed \in BOOLEAN
    /\ loop = "subs" /\ todo = 1 => asked = {}
    /\ priv = 0 => sbuf = <<>>
    /\ ~mixed =>
           /\ loop = "subs" => Len(sbuf) = todo - 1
           /\ asked # {} /\ loop # "subs" => Len(sbuf) >= Len(Reqs)
           /\ sockok /\ (next_oid = 0 \/ old_st # "RDY") => sbuf = <<>>

LEMMA FillingStep ==
    ASSUME KInv, Running, Filling, [Next]_vars
    PROVE  Filling'
<1> DEFINE n == Len(sbuf)
<1>1. /\ sbuf \in Seq(Subs) /\ sbuf' \in Seq(Subs) /\ next_oid \in Nat
      /\ n \in Nat /\ Len(Reqs) \in Nat \ {0} /\ FirstOid \in Nat \ {0}
  BY StepIsOperation, Constants, QuoTwsAssumption DEF KInv, QInv, SubTypeOK
<1>2. SameQueue => Len(sbuf') = n /\ (sbuf = <<>> => sbuf' = <<>>)
  BY <1>1 DEF SameQueue
<1>3. ASSUME Len(sbuf') = n, sbuf = <<>> => sbuf' = <<>>,
             UNCHANGED <<priv, next_oid, old_st, mixed>>, sockok' => sockok,
             asked' \subseteq asked, loop' # "subs", loop = "subs" => asked = {}
      PROVE  Filling'
  BY <1>1, <1>3 DEF Filling
<1>4. CASE UNCHANGED vars
  BY <1>4 DEF vars, Filling
<1>5. CASE PrepCb
  <2>1. UNCHANGED <<priv, sockok, next_oid, sbuf, asked, mixed>> /\ loop = "prep" /\ todo' = 1
    BY <1>5 DEF PrepCb, twsVars, subVars, broker
  <2>2. /\ old_st' = st
        /\ loop' = "subs" => st = "RDY" /\ old_st # "RDY"
    BY <1>5 DEF PrepCb, JustReady
  <2>3. st = "RDY" => priv # 0 /\ sockok /\ next_oid # 0
    BY DEF st, tws_state
  <2>4. sockok => st \in {"SUP", "RDY"} /\ (st = "SUP" => next_oid = 0)
    BY DEF st, tws_state, Running
  <2>5. loop' = "subs" => asked = {}
    BY <2>2 DEF KInv, Turns
  <2>6. loop' = "subs" /\ ~mixed => Len(sbuf) = 0
    BY <2>2, <2>3, <1>1 DEF Filling
  <2>7. QED
    BY <1>1, <2>1, <2>2, <2>3, <2>4, <2>5, <2>6 DEF Filling
<1>6. CASE InitSubsFail
  <2>1. /\ UNCHANGED <<priv, sockok, next_oid, old_st, sbuf, asked, mixed>>
        /\ loop = "subs" /\ todo = 1 /\ loop' # "subs"
    BY <1>6 DEF InitSubsFail, twsVars, subVars, broker
  <2>2. QED
    BY <1>3, <2>1 DEF Filling
<1>7. CASE SubSdef
  <2>1. /\ todo \in 1 .. Len(Reqs) /\ Len(sbuf') = n + 1
        /\ next_oid = FirstOid + todo - 1
    BY <1>7, RequestJoins DEF Joins
  <2>2. /\ loop = "subs" /\ loop' = (IF todo = Len(Reqs) THEN "send" ELSE "subs")
        /\ todo' = todo + 1 /\ next_oid' = next_oid + 1
        /\ UNCHANGED <<priv, sockok, old_st, mixed>>
    BY <1>7 DEF SubSdef, DrawOid
  <2>3. old_st = "RDY" /\ priv # 0
    BY <2>2 DEF KInv, Turns, Running
  <2>4. todo' # 1 /\ next_oid' # 0
    BY <1>1, <2>1, <2>2
  <2>5. ~mixed => n = todo - 1
    BY <2>2 DEF Filling
  <2>6. ~mixed /\ loop' = "subs" => Len(sbuf') = todo' - 1
    BY <1>1, <2>1, <2>2, <2>5
  <2>7. ~mixed /\ loop' # "subs" => Len(sbuf') >= Len(Reqs)
    BY <1>1, <2>1, <2>2, <2>5
  <2>8. QED
    BY <2>2, <2>3, <2>4, <2>6, <2>7 DEF Filling
<1>8. CASE TwsSend \/ RecvDone
  <2>1. UNCHANGED <<sbuf, old_st, asked, mixed>> /\ loop # "subs" /\ loop' # "subs"
    BY <1>8 DEF TwsSend, RecvDone, subVars, broker
  <2>2. UNCHANGED <<priv, next_oid>> /\ (sockok' => sockok)
    BY <1>8 DEF TwsSend, RecvDone, SockBreaks, twsVars
  <2>3. QED
    BY <1>3, <2>1, <2>2
<1>9. CASE FlushPublish
  <2>1. /\ UNCHANGED <<priv, sockok, next_oid, old_st, asked, mixed>>
        /\ loop = "flush" /\ loop' = "flush"
    BY <1>9 DEF FlushPublish, twsVars, broker
  <2>2. SameQueue
    BY <1>9, FlushPublishes DEF Publishes
  <2>3. QED
    BY <1>2, <1>3, <2>1, <2>2
<1>10. CASE FlushDrop \/ FlushDone \/ RoundDone \/ OtherCb \/ RecoIdle \/ TwscData
            \/ (\E evs \in SUBSET Possible \ {{}} : Poll(evs))
            \/ (\E i \in DOMAIN tick : RecvTick(i))
  <2>1. /\ UNCHANGED <<twsVars, sbuf, old_st, asked, mixed>>
        /\ loop # "subs" /\ loop' # "subs"
    BY <1>10 DEF FlushDrop, FlushDone, RoundDone, OtherCb, RecoIdle, TwscData, Poll, RecvTick,
                 Serve, subVars, broker
  <2>2. QED
    BY <1>3, <2>1 DEF twsVars
<1>11. CASE TwscHangup \/ SighupCb
  <2>1. Close /\ loop = "poll" /\ loop' = loop /\ old_st' = old_st
    BY <1>11 DEF TwscHangup, SighupCb, Serve
  <2>2. /\ asked' = {} /\ mixed' = (mixed /\ ~twsc)
        /\ twsc => priv' = 0 /\ sbuf' = <<>>
        /\ ~twsc => UNCHANGED <<priv, sockok, next_oid, sbuf>>
    BY <2>1 DEF Close, fini_tws, subq_flush, twsVars, subVars
  <2>3. CASE twsc
    BY <1>1, <2>1, <2>2, <2>3 DEF Filling
  <2>4. CASE ~twsc
    <3>1. mixed' = mixed
      BY <2>2, <2>4 DEF Filling
    <3>2. QED
      BY <1>3, <2>1, <2>2, <2>4, <3>1
  <2>5. QED
    BY <2>3, <2>4
<1>12. CASE RecoConnect
  <2>1. /\ asked' = {} /\ mixed' = (st = "DWN" /\ sbuf # <<>>) /\ sbuf' = sbuf
        /\ loop' = "poll" /\ st \in {"UNK", "DWN"} /\ priv' = (sess % Sessions) + 1
    BY <1>12 DEF RecoConnect, init_tws, Serve, subVars
  <2>2. st = "UNK" => priv = 0
    BY DEF st, tws_state
  <2>3. priv' # 0
    BY <2>1, NewSession DEF KInv, TypeOK
  <2>4. ~mixed' => sbuf' = <<>>
    BY <2>1, <2>2 DEF Filling
  <2>5. QED
    BY <2>1, <2>3, <2>4 DEF Filling
<1>13. CASE RecvValidId
  <2>1. /\ UNCHANGED <<priv, sockok, old_st, sbuf, asked, mixed>>
        /\ next_oid = 0 /\ next_oid' = FirstOid /\ loop = "recv" /\ loop' = "recv"
    BY <1>13 DEF RecvValidId, nextValidId, subVars, broker
  <2>2. QED
    BY <1>1, <2>1 DEF Filling
<1>14. ASSUME NEW a \in asked, RecvContDtl(a[1], a[2])
       PROVE  Filling'
  <2>1. /\ UNCHANGED <<priv, sockok, old_st, mixed>> /\ next_oid > 0 /\ next_oid' = next_oid + 1
        /\ loop = "recv" /\ loop' = "recv"
    BY <1>14 DEF RecvContDtl, DrawOid, tws_ready_p
  <2>2. Len(sbuf') >= n
    <3>1. CASE \E i \in DOMAIN sbuf : Fills(i, a)
      <4>1. Len(sbuf') = n
        BY <1>1, <3>1 DEF Fills
      <4>2. QED
        BY <1>1, <4>1
    <3>2. CASE \E c \in Subs : Joins(c)
      BY <1>1, <3>2 DEF Joins
    <3>3. QED
      BY <1>14, <3>1, <3>2, AnswerTaken
  <2>3. priv # 0
    BY <2>1 DEF Running
  <2>4. sockok => old_st = "RDY"
    <3>1. sockok => st = "RDY"
      BY <1>1, <2>1, <2>3 DEF st, tws_state
    <3>2. QED
      BY <3>1 DEF KInv, Turns
  <2>5. ~mixed => n >= Len(Reqs)
    BY <2>1 DEF Filling
  <2>6. ~mixed => Len(sbuf') >= Len(Reqs)
    BY <1>1, <2>2, <2>5
  <2>7. next_oid' # 0
    BY <1>1, <2>1
  <2>8. QED
    BY <2>1, <2>3, <2>4, <2>6, <2>7 DEF Filling
<1>15. QED
  BY <1>4, <1>5, <1>6, <1>7, <1>8, <1>9, <1>10, <1>11, <1>12, <1>13, <1>14 DEF Next

\* Subscriptions are inherited by RecoConnect, and no longer once the queue is
\* empty; until then the ticker ids stay, and only an answer adds to them.
LEMMA MixedEnds ==
    ASSUME Running, Filling, [Next]_vars, ~mixed'
    PROVE  \/ sbuf' = <<>>
           \/ ~mixed /\ (tick' = tick \/ \E a \in asked : RecvContDtl(a[1], a[2]))
<1>1. CASE UNCHANGED <<mixed, tick>>
  BY <1>1 DEF Filling
<1>2. CASE TwscHangup \/ SighupCb
  <2>1. Close
    BY <1>2 DEF TwscHangup, SighupCb
  <2>2. IF twsc THEN sbuf' = <<>> ELSE sbuf' = sbuf
    BY <2>1 DEF Close, subq_flush, subVars
  <2>3. ~twsc => sbuf = <<>>
    BY DEF Running, Filling
  <2>4. QED
    BY <2>2, <2>3
<1>3. CASE RecoConnect
  <2>1. mixed' = (st = "DWN" /\ sbuf # <<>>) /\ sbuf' = sbuf /\ st \in {"UNK", "DWN"}
    BY <1>3 DEF RecoConnect, subVars
  <2>2. st = "UNK" => priv = 0
    BY DEF st, tws_state
  <2>3. QED
    BY <2>1, <2>2 DEF Filling
<1>4. CASE \E a \in asked : RecvContDtl(a[1], a[2])
  BY <1>4 DEF RecvContDtl, Filling
<1>5. \/ TwscHangup \/ SighupCb \/ RecoConnect \/ UNCHANGED <<mixed, tick>>
      \/ \E a \in asked : RecvContDtl(a[1], a[2])
  BY DEF Next, vars, PrepCb, InitSubsFail, SubSdef, TwsSend, FlushDrop, FlushPublish, FlushDone,
         Poll, RoundDone, OtherCb, RecoIdle, TwscData, RecvDone, RecvValidId, RecvTick, broker
<1>6. QED
  BY <1>1, <1>2, <1>3, <1>4, <1>5

-----------------------------------------------------------------------------
(* Where the subscriptions on a queue come from; b is the queue, n the      *)
(* registry, and each subscription has the uidx of a nick registered.       *)

\* The i-th is that of a request, which only the first with its id can have
\* been answered; until then its idx is what the memory held.
OfRequest(b, n, i) ==
    \E k \in DOMAIN Reqs :
        /\ b[i].sreq = FirstOid + k - 1
        /\ n[b[i].uidx].nick = ReqNick[Reqs[k]]
        /\ \/ b[i].sdef = NoSdef /\ b[i].idx \in Junk /\ b[i].nick = ReqNick[Reqs[k]]
           \/ /\ b[i].sdef \in Matches[Reqs[k]]
              /\ b[i].nick \in {ReqNick[Reqs[k]], InstNick[b[i].sdef]}
              /\ \A j \in 1 .. (i - 1) : b[j].sreq # b[i].sreq

\* The i-th was made for an instrument found besides the first.
OfInstrument(b, n, i) ==
    /\ b[i].sdef \in Sdef
    /\ b[i].nick = InstNick[b[i].sdef]
    /\ n[b[i].uidx].nick = InstNick[b[i].sdef]

Origins == \A i \in DOMAIN sbuf : OfRequest(sbuf, norm, i) \/ OfInstrument(sbuf, norm, i)

\* An origin is kept while nothing is said of the subscription and of the ids
\* before it, and the registry only grows.
LEMMA OriginKept ==
    ASSUME NEW b, NEW c, NEW n, NEW m, NEW i \in Nat,
           SameSub(c[i], b[i]),
           \A j \in 1 .. (i - 1) : c[j].sreq = b[j].sreq,
           m[b[i].uidx] = n[b[i].uidx]
    PROVE  /\ OfRequest(b, n, i) => OfRequest(c, m, i)
           /\ OfInstrument(b, n, i) => OfInstrument(c, m, i)
<1> USE DEF SameSub
<1>1. ASSUME OfRequest(b, n, i)
      PROVE  OfRequest(c, m, i)
  <2>1. PICK k \in DOMAIN Reqs :
            /\ b[i].sreq = FirstOid + k - 1
            /\ n[b[i].uidx].nick = ReqNick[Reqs[k]]
            /\ \/ b[i].sdef = NoSdef /\ b[i].idx \in Junk /\ b[i].nick = ReqNick[Reqs[k]]
               \/ /\ b[i].sdef \in Matches[Reqs[k]]
                  /\ b[i].nick \in {ReqNick[Reqs[k]], InstNick[b[i].sdef]}
                  /\ \A j \in 1 .. (i - 1) : b[j].sreq # b[i].sreq
    BY <1>1 DEF OfRequest
  <2>2. c[i].sreq = FirstOid + k - 1 /\ m[c[i].uidx].nick = ReqNick[Reqs[k]]
    BY <2>1
  <2>3. \/ c[i].sdef = NoSdef /\ c[i].idx \in Junk /\ c[i].nick = ReqNick[Reqs[k]]
        \/ /\ c[i].sdef \in Matches[Reqs[k]]
           /\ c[i].nick \in {ReqNick[Reqs[k]], InstNick[c[i].sdef]}
           /\ \A j \in 1 .. (i - 1) : c[j].sreq # c[i].sreq
    BY <2>1
  <2>4. QED
    BY <2>2, <2>3 DEF OfRequest
<1>2. QED
  BY <1>1 DEF OfInstrument

\* Each subscription after a step: one there was, with its id and origin, or
\* the one that has joined.
Stayed(i) ==
    /\ i \in DOMAIN sbuf
    /\ sbuf'[i].sreq = sbuf[i].sreq
    /\ OfRequest(sbuf, norm, i) => OfRequest(sbuf', norm', i)
    /\ OfInstrument(sbuf, norm, i) => OfInstrument(sbuf', norm', i)

Joined(i) ==
    /\ i = Len(sbuf) + 1
    /\ \/ SubSdef /\ sbuf'[i].sreq = FirstOid + todo - 1 /\ OfRequest(sbuf', norm', i)
       \/ \E a \in asked : RecvContDtl(a[1], a[2]) /\ FindsTaken(a) /\ OfInstrument(sbuf', norm', i)

LEMMA OriginsStep ==
    ASSUME KInv, Origins, [Next]_vars
    PROVE  /\ \A i \in DOMAIN sbuf' : Stayed(i) \/ Joined(i)
           /\ Origins'
<1>1. /\ sbuf \in Seq(Subs) /\ DOMAIN sbuf = 1 .. Len(sbuf) /\ Len(sbuf) \in Nat
      /\ \A i \in DOMAIN sbuf : sbuf[i].uidx \in DOMAIN norm
  BY DEF KInv, QInv, SubTypeOK, Kin
<1>2. \A u \in DOMAIN norm : u \in DOMAIN norm' /\ norm'[u] = norm[u]
  BY StepIsOperation, RegistryStep DEF KInv, QInv
<1>3. ASSUME NEW c \in Subs, Joins(c), NEW i \in DOMAIN sbuf
      PROVE  Stayed(i)
  <2>1. SameSub(sbuf'[i], sbuf[i]) /\ sbuf'[i].sreq = sbuf[i].sreq
    BY <1>3 DEF Joins, SameSub
  <2>2. \A j \in 1 .. (i - 1) : sbuf'[j].sreq = sbuf[j].sreq
    BY <1>1, <1>3 DEF Joins
  <2>3. norm'[sbuf[i].uidx] = norm[sbuf[i].uidx] /\ i \in Nat
    BY <1>1, <1>2
  <2>4. QED
    BY <2>1, <2>2, <2>3, OriginKept DEF Stayed
<1>4. ASSUME NEW i \in DOMAIN sbuf', SubSdef
      PROVE  Stayed(i) \/ Joined(i)
  <2>1. PICK c \in Subs : /\ Joins(c) /\ c.idx \in Junk /\ c.sreq = next_oid
                          /\ c.sdef = NoSdef /\ c.nick = ReqNick[Reqs[todo]]
    BY <1>4, RequestJoins
  <2>2. CASE i \in DOMAIN sbuf
    BY <1>3, <2>1, <2>2
  <2>3. CASE i \notin DOMAIN sbuf
    <3>1. i = Len(sbuf) + 1 /\ sbuf'[i] = c
      BY <1>1, <2>1, <2>3 DEF Joins
    <3>2. todo \in DOMAIN Reqs /\ next_oid = FirstOid + todo - 1
      BY <1>4, RequestJoins, Constants
    <3>3. norm'[c.uidx].nick = ReqNick[Reqs[todo]]
      BY <2>1 DEF Joins
    <3>4. OfRequest(sbuf', norm', i)
      BY <2>1, <3>1, <3>2, <3>3 DEF OfRequest
    <3>5. QED
      BY <1>4, <2>1, <3>1, <3>2, <3>4 DEF Joined
  <2>4. QED
    BY <2>2, <2>3
<1>5. ASSUME NEW i \in DOMAIN sbuf', NEW a \in asked, RecvContDtl(a[1], a[2])
      PROVE  Stayed(i) \/ Joined(i)
  <2>1. a[2] \in Sdef /\ a[2] # NoSdef
    BY <1>5, AnswerTaken, QuoTwsAssumption
  <2>2. ASSUME NEW c \in Subs, Joins(c), FindsTaken(a), c.sdef = a[2], c.nick = InstNick[a[2]]
        PROVE  Stayed(i) \/ Joined(i)
    <3>1. CASE i \in DOMAIN sbuf
      BY <1>3, <2>2, <3>1
    <3>2. CASE i \notin DOMAIN sbuf
      <4>1. i = Len(sbuf) + 1 /\ sbuf'[i] = c
        BY <1>1, <2>2, <3>2 DEF Joins
      <4>2. OfInstrument(sbuf', norm', i)
        BY <2>1, <2>2, <4>1 DEF OfInstrument, Joins
      <4>3. QED
        BY <1>5, <2>2, <4>1, <4>2 DEF Joined
    <3>3. QED
      BY <3>1, <3>2
  <2>3. ASSUME NEW f \in DOMAIN sbuf, Fills(f, a)
        PROVE  Stayed(i)
    <3>1. i \in DOMAIN sbuf /\ i \in Nat /\ norm' = norm
      BY <1>1, <2>3 DEF Fills
    <3>2. \A j \in DOMAIN sbuf : sbuf'[j].sreq = sbuf[j].sreq
      BY <2>3 DEF Fills
    <3>3. CASE i # f
      <4>1. SameSub(sbuf'[i], sbuf[i])
        BY <2>3, <3>1, <3>3 DEF Fills, SameSub
      <4>2. \A j \in 1 .. (i - 1) : sbuf'[j].sreq = sbuf[j].sreq
        BY <1>1, <3>1, <3>2
      <4>3. QED
        BY <3>1, <3>2, <4>1, <4>2, OriginKept DEF Stayed
    <3>4. CASE i = f
      <4>1. ~OfInstrument(sbuf, norm, i)
        BY <2>3, <3>4, QuoTwsAssumption DEF OfInstrument, Fills
      <4>2. ASSUME OfRequest(sbuf, norm, i)
            PROVE  OfRequest(sbuf', norm', i)
        <5>1. sbuf[i].sdef = NoSdef /\ sbuf[i].sreq = a[1] /\ NoSdef \notin Sdef
          BY <2>3, <3>4, QuoTwsAssumption DEF Fills
        <5>2. PICK k \in DOMAIN Reqs :
                  /\ sbuf[i].sreq = FirstOid + k - 1
                  /\ norm[sbuf[i].uidx].nick = ReqNick[Reqs[k]]
                  /\ sbuf[i].nick = ReqNick[Reqs[k]]
          <6>1. \A k \in DOMAIN Reqs : NoSdef \notin Matches[Reqs[k]]
            BY <5>1, QuoTwsAssumption
          <6>2. QED
            BY <4>2, <5>1, <6>1 DEF OfRequest
        <5>3. a[2] \in Matches[Reqs[k]]
          <6>1. PICK m \in DOMAIN Reqs : a[1] = FirstOid + m - 1 /\ a[2] \in Matches[Reqs[m]]
            BY <1>5, AnswerTaken
          <6>2. k \in Nat /\ m \in Nat /\ FirstOid \in Nat
            BY Constants
          <6>3. FirstOid + k - 1 = FirstOid + m - 1
            BY <5>1, <5>2, <6>1
          <6>4. k = m
            BY <6>2, <6>3
          <6>5. QED
            BY <6>1, <6>4
        <5>4. sbuf'[i].sreq = FirstOid + k - 1 /\ norm'[sbuf'[i].uidx].nick = ReqNick[Reqs[k]]
          BY <2>3, <3>1, <3>2, <3>4, <5>2 DEF Fills
        <5>5. sbuf'[i].sdef \in Matches[Reqs[k]]
          BY <2>3, <3>4, <5>3 DEF Fills
        <5>6. sbuf'[i].nick \in {ReqNick[Reqs[k]], InstNick[sbuf'[i].sdef]}
          BY <2>3, <3>4, <5>2 DEF Fills
        <5>7. \A j \in 1 .. (i - 1) : sbuf'[j].sreq # sbuf'[i].sreq
          <6>1. \A j \in 1 .. (i - 1) : j \in DOMAIN sbuf
            BY <1>1, <3>1
          <6>2. \A j \in 1 .. (i - 1) : sbuf[j].sreq # sbuf[i].sreq
            BY <2>3, <3>4 DEF Fills
          <6>3. QED
            BY <3>1, <3>2, <6>1, <6>2
        <5>8. QED
          BY <5>4, <5>5, <5>6, <5>7 DEF OfRequest
      <4>3. QED
        BY <3>1, <3>2, <4>1, <4>2 DEF Stayed
    <3>5. QED
      BY <3>3, <3>4
  <2>4. QED
    BY <1>5, <2>2, <2>3, AnswerTaken
<1>6. ASSUME NEW i \in DOMAIN sbuf', ~SubSdef, ~(\E a \in asked : RecvContDtl(a[1], a[2]))
      PROVE  Stayed(i)
  <2>1. norm' = norm /\ (sbuf' = <<>> \/ SameQueue)
    BY <1>6, QueueStays
  <2>2. SameQueue
    BY <2>1
  <2>3. i \in DOMAIN sbuf /\ i \in Nat /\ \A j \in DOMAIN sbuf : SameSub(sbuf'[j], sbuf[j])
    BY <1>1, <2>2 DEF SameQueue
  <2>4. \A j \in 1 .. (i - 1) : sbuf'[j].sreq = sbuf[j].sreq
    BY <1>1, <2>3 DEF SameSub
  <2>5. QED
    BY <2>1, <2>3, <2>4, OriginKept DEF Stayed, SameSub
<1>7. \A i \in DOMAIN sbuf' : Stayed(i) \/ Joined(i)
  BY <1>4, <1>5, <1>6
<1>8. Origins'
  BY <1>7 DEF Origins, Stayed, Joined
<1>9. QED
  BY <1>7, <1>8

-----------------------------------------------------------------------------
(* Quotes go where their instrument is.                                     *)

\* A session that did not inherit subscriptions has those of its requests
\* first, in order, and after them those of the instruments found besides.
Order ==
    ~mixed => \A i \in DOMAIN sbuf :
        IF i <= Len(Reqs) THEN sbuf[i].sreq = FirstOid + i - 1 /\ OfRequest(sbuf, norm, i)
                          ELSE OfInstrument(sbuf, norm, i)

\* The idx of a subscription that has been answered is the ticker id under
\* which the broker sends quotes of its instrument.
Found ==
    /\ \A i \in DOMAIN tick : i < next_oid
    /\ ~mixed => \A i \in DOMAIN sbuf : sbuf[i].sdef # NoSdef =>
           sbuf[i].idx \in DOMAIN tick /\ tick[sbuf[i].idx] = sbuf[i].sdef

LEMMA OrderStep ==
    ASSUME KInv, Running, Filling, Origins, Order, [Next]_vars
    PROVE  Order'
<1> SUFFICES ASSUME ~mixed', NEW i \in DOMAIN sbuf'
             PROVE  IF i <= Len(Reqs)
                    THEN sbuf'[i].sreq = FirstOid + i - 1 /\ OfRequest(sbuf', norm', i)
                    ELSE OfInstrument(sbuf', norm', i)
  BY DEF Order
<1>1. ~mixed
  BY MixedEnds
<1>2. /\ Len(sbuf) \in Nat /\ Len(Reqs) \in Nat /\ FirstOid \in Nat
  BY Constants DEF KInv, QInv, SubTypeOK
<1>3. CASE Stayed(i)
  BY <1>1, <1>3 DEF Order, Stayed
<1>4. CASE Joined(i)
  <2>1. CASE SubSdef /\ sbuf'[i].sreq = FirstOid + todo - 1 /\ OfRequest(sbuf', norm', i)
    <3>1. Len(sbuf) = todo - 1 /\ todo \in 1 .. Len(Reqs)
      BY <1>1, <2>1, RequestJoins DEF SubSdef, Filling
    <3>2. i = todo /\ i <= Len(Reqs)
      BY <1>2, <1>4, <3>1 DEF Joined
    <3>3. QED
      BY <2>1, <3>2
  <2>2. ASSUME NEW a \in asked, RecvContDtl(a[1], a[2]), OfInstrument(sbuf', norm', i)
        PROVE  ~(i <= Len(Reqs))
    <3>1. Len(sbuf) >= Len(Reqs)
      BY <1>1, <2>2 DEF RecvContDtl, Filling
    <3>2. QED
      BY <1>2, <1>4, <3>1 DEF Joined
  <2>3. QED
    BY <1>4, <2>1, <2>2 DEF Joined
<1>5. QED
  BY <1>3, <1>4, OriginsStep

LEMMA FoundStep ==
    ASSUME KInv, Running, Filling, Found, [Next]_vars
    PROVE  Found'
<1>1. /\ next_oid \in Nat /\ sbuf \in Seq(Subs) /\ NoSdef \notin Sdef
      /\ \A i \in DOMAIN tick : i \in Nat
  BY QuoTwsAssumption DEF KInv, QInv, SubTypeOK, TypeOK
<1>2. \A i \in DOMAIN tick' : i < next_oid'
  <2>1. CASE UNCHANGED <<tick, next_oid>>
    BY <2>1 DEF Found
  <2>2. CASE tick' = tick /\ next_oid' = next_oid + 1
    BY <1>1, <2>2 DEF Found
  <2>3. CASE DOMAIN tick' = {}
    BY <2>3
  <2>4. CASE next_oid = 0 /\ tick' = tick
    BY <1>1, <2>4 DEF Found
  <2>5. CASE next_oid' = next_oid + 1 /\ DOMAIN tick' = DOMAIN tick \cup {next_oid}
    BY <1>1, <2>5 DEF Found
  <2>6. CASE SubSdef
    BY <2>2, <2>6 DEF SubSdef, DrawOid
  <2>7. CASE RecoConnect
    BY <2>3, <2>7 DEF RecoConnect
  <2>8. CASE TwscHangup \/ SighupCb
    BY <2>3, <2>8 DEF TwscHangup, SighupCb, Close
  <2>9. CASE RecvValidId
    BY <2>4, <2>9 DEF RecvValidId, broker
  <2>10. CASE \E a \in asked : RecvContDtl(a[1], a[2])
    BY <2>5, <2>10 DEF RecvContDtl, DrawOid
  <2>11. CASE TwsSend \/ RecvDone
    BY <2>1, <2>11 DEF TwsSend, RecvDone, SockBreaks, twsVars, broker
  <2>12. CASE PrepCb \/ InitSubsFail \/ FlushDrop \/ FlushPublish \/ FlushDone \/ RoundDone
              \/ OtherCb \/ RecoIdle \/ TwscData
              \/ (\E evs \in SUBSET Possible \ {{}} : Poll(evs))
              \/ (\E i \in DOMAIN tick : RecvTick(i)) \/ UNCHANGED vars
    BY <2>1, <2>12 DEF PrepCb, InitSubsFail, FlushDrop, FlushPublish, FlushDone, RoundDone,
                OtherCb, RecoIdle, TwscData, Poll, RecvTick, vars, twsVars, broker
  <2>13. QED
    BY <2>6, <2>7, <2>8, <2>9, <2>10, <2>11, <2>12 DEF Next
<1>3. ASSUME ~mixed', NEW i \in DOMAIN sbuf', sbuf'[i].sdef # NoSdef
      PROVE  sbuf'[i].idx \in DOMAIN tick' /\ tick'[sbuf'[i].idx] = sbuf'[i].sdef
  <2>1. ~mixed /\ (tick' = tick \/ \E a \in asked : RecvContDtl(a[1], a[2]))
    BY <1>3, MixedEnds
  <2>2. ASSUME i \in DOMAIN sbuf, sbuf[i].sdef # NoSdef
        PROVE  sbuf[i].idx \in DOMAIN tick' /\ tick'[sbuf[i].idx] = sbuf[i].sdef
    <3>1. sbuf[i].idx \in DOMAIN tick /\ tick[sbuf[i].idx] = sbuf[i].sdef
      BY <2>1, <2>2 DEF Found
    <3>2. sbuf[i].idx # next_oid
      BY <1>1, <3>1 DEF Found
    <3>3. QED
      BY <2>1, <3>1, <3>2 DEF RecvContDtl
  <2>3. CASE SubSdef
    <3>1. PICK c \in Subs : Joins(c) /\ c.sdef = NoSdef
      BY <2>3, RequestJoins
    <3>2. i \in DOMAIN sbuf /\ sbuf'[i] = sbuf[i]
      BY <1>3, <3>1 DEF Joins
    <3>3. QED
      BY <1>3, <2>2, <3>2
  <2>4. ASSUME NEW a \in asked, RecvContDtl(a[1], a[2])
        PROVE  sbuf'[i].idx \in DOMAIN tick' /\ tick'[sbuf'[i].idx] = sbuf'[i].sdef
    <3>1. next_oid \in DOMAIN tick' /\ tick'[next_oid] = a[2]
      BY <2>4 DEF RecvContDtl
    <3>2. CASE \E c \in Subs : Joins(c) /\ c.idx = next_oid /\ c.sdef = a[2]
      BY <1>3, <2>2, <3>1, <3>2 DEF Joins
    <3>3. CASE \E f \in DOMAIN sbuf : Fills(f, a)
      BY <1>3, <2>2, <3>1, <3>3 DEF Fills
    <3>4. QED
      BY <2>4, <3>2, <3>3, AnswerTaken
  <2>5. CASE ~SubSdef /\ ~(\E a \in asked : RecvContDtl(a[1], a[2]))
    <3>1. SameQueue
      BY <1>3, <2>5, QueueStays
    <3>2. i \in DOMAIN sbuf /\ SameSub(sbuf'[i], sbuf[i])
      BY <1>3, <3>1 DEF SameQueue
    <3>3. QED
      BY <1>3, <2>2, <3>2 DEF SameSub
  <2>6. QED
    BY <2>3, <2>4, <2>5
<1>4. QED
  BY <1>2, <1>3 DEF Found

-----------------------------------------------------------------------------
\* A quote of this session, with a ticker id of its instrument.
Current(q) == q[1] \in DOMAIN tick /\ tick[q[1]] = q[2] /\ q[3] = priv

AllCurrent == \A k \in DOMAIN qq : Current(qq[k])

\* Quotes of an earlier session stay until the first flush of the new one,
\* which comes before anything is subscribed in it.
Drained ==
    Beef /\ ~AllCurrent =>
        /\ \/ priv = 0
           \/ loop = "poll" /\ polled # priv /\ st = "SUP"
           \/ loop \in {"prep", "send"} /\ st = "SUP"
           \/ loop = "flush"
        /\ ~mixed => sbuf = <<>>

LEMMA DrainedStep ==
    ASSUME KInv, Running, Filling, Found, Drained, [Next]_vars
    PROVE  Drained'
<1> SUFFICES ASSUME Beef, ~AllCurrent'
             PROVE  /\ \/ priv' = 0
                       \/ loop' = "poll" /\ polled' # priv' /\ st' = "SUP"
                       \/ loop' \in {"prep", "send"} /\ st' = "SUP"
                       \/ loop' = "flush"
                    /\ ~mixed' => sbuf' = <<>>
  BY DEF Drained
<1> DEFINE Goal == /\ \/ priv' = 0
                      \/ loop' = "poll" /\ polled' # priv' /\ st' = "SUP"
                      \/ loop' \in {"prep", "send"} /\ st' = "SUP"
                      \/ loop' = "flush"
                   /\ ~mixed' => sbuf' = <<>>
<1>1. ASSUME UNCHANGED <<tick, priv, qq>>
      PROVE  ~AllCurrent
  BY <1>1 DEF AllCurrent, Current
<1>2. qq \in Seq(Nat \X Sdef \X (0 .. Sessions))
  BY DEF KInv, TypeOK
<1>3. CASE UNCHANGED vars
  <2>1. ~AllCurrent /\ UNCHANGED <<priv, loop, polled, st, mixed, sbuf>>
    BY <1>1, <1>3 DEF vars, st, tws_state
  <2>2. QED
    BY <2>1 DEF Drained
<1>4. CASE PrepCb
  <2>1. /\ UNCHANGED <<tick, priv, qq, st, mixed, sbuf>> /\ loop = "prep"
        /\ st = "SUP" => loop' = "send"
    BY <1>4 DEF PrepCb, JustReady, twsVars, subVars, broker, st, tws_state
  <2>2. QED
    BY <1>1, <2>1 DEF Drained
<1>5. CASE InitSubsFail \/ SubSdef
  <2>1. UNCHANGED <<tick, priv, qq>> /\ loop = "subs"
    BY <1>5 DEF InitSubsFail, SubSdef, DrawOid, twsVars, broker
  <2>2. QED
    BY <1>1, <2>1 DEF Drained, Running
<1>6. CASE TwsSend
  <2>1. UNCHANGED <<tick, priv, qq, mixed, sbuf>> /\ loop' = "flush"
    BY <1>6 DEF TwsSend, SockBreaks, twsVars, subVars, broker
  <2>2. QED
    BY <1>1, <2>1 DEF Drained
<1>7. CASE FlushDone
  <2>1. qq' = <<>>
    BY <1>7 DEF FlushDone
  <2>2. QED
    BY <2>1 DEF AllCurrent
<1>8. CASE FlushDrop \/ FlushPublish
  <2>1. UNCHANGED <<tick, priv, mixed>> /\ loop = "flush" /\ loop' = "flush" /\ qq # <<>> /\ qq' = Tail(qq)
    BY <1>8 DEF FlushDrop, FlushPublish, twsVars, broker
  <2>2. ~AllCurrent
    <3>1. \A k \in DOMAIN qq' : k + 1 \in DOMAIN qq /\ qq'[k] = qq[k + 1]
      BY <1>2, <2>1
    <3>2. QED
      BY <2>1, <3>1 DEF AllCurrent, Current
  <2>3. sbuf = <<>> => sbuf' = <<>>
    <3>1. FlushPublish => sbuf # <<>>
      BY FlushPublishes DEF Publishes
    <3>2. FlushDrop => sbuf' = sbuf
      BY DEF FlushDrop, subVars
    <3>3. QED
      BY <1>8, <3>1, <3>2
  <2>4. QED
    BY <2>1, <2>2, <2>3 DEF Drained
<1>9. CASE \E evs \in SUBSET Possible \ {{}} : Poll(evs)
  <2>1. UNCHANGED <<tick, priv, qq, mixed, sbuf>> /\ loop = "wait"
    BY <1>9 DEF Poll, twsVars, subVars, broker
  <2>2. QED
    BY <1>1, <2>1 DEF Drained
<1>10. CASE RoundDone \/ OtherCb \/ RecoIdle
  <2>1. /\ UNCHANGED <<tick, priv, qq, st, mixed, sbuf, polled>> /\ loop = "poll"
        /\ loop' \in {"prep", "poll"}
    BY <1>10 DEF RoundDone, OtherCb, RecoIdle, Serve, twsVars, subVars, broker, st, tws_state
  <2>2. QED
    BY <1>1, <2>1 DEF Drained
<1>11. CASE TwscData
  <2>1. UNCHANGED <<tick, priv, qq>> /\ loop = "poll" /\ sockok /\ polled = priv
    BY <1>11 DEF TwscData, Serve, twsVars, broker
  <2>2. QED
    BY <1>1, <2>1 DEF Drained, Running
<1>12. CASE TwscHangup \/ SighupCb
  <2>1. Close
    BY <1>12 DEF TwscHangup, SighupCb
  <2>2. /\ twsc => priv' = 0 /\ sbuf' = <<>>
        /\ ~twsc => UNCHANGED <<priv, sbuf>>
    BY <2>1 DEF Close, fini_tws, subq_flush, twsVars, subVars
  <2>3. QED
    BY <2>2 DEF Running, Filling
<1>13. CASE RecoConnect
  <2>1. /\ "reco" \in ready /\ loop = "poll" /\ loop' = "poll" /\ polled' = polled
        /\ priv' = (sess % Sessions) + 1 /\ sockok' = TRUE /\ next_oid' = 0
        /\ mixed' = (st = "DWN" /\ sbuf # <<>>) /\ sbuf' = sbuf /\ st \in {"UNK", "DWN"}
    BY <1>13 DEF RecoConnect, init_tws, Serve, subVars
  <2>2. priv' # 0 /\ priv' # sess
    BY <2>1, NewSession DEF KInv, TypeOK
  <2>3. st' = "SUP"
    BY <2>1, <2>2 DEF st, tws_state
  <2>4. polled' # priv'
    BY <2>1, <2>2 DEF Running
  <2>5. st = "UNK" => priv = 0
    BY DEF st, tws_state
  <2>6. ~mixed' => sbuf' = <<>>
    BY <2>1, <2>5 DEF Filling
  <2>7. QED
    BY <2>1, <2>3, <2>4, <2>6
<1>14. CASE RecvDone \/ RecvValidId
  <2>1. UNCHANGED <<tick, priv, qq>> /\ loop = "recv"
    BY <1>14 DEF RecvDone, RecvValidId, SockBreaks, nextValidId, twsVars, broker
  <2>2. QED
    BY <1>1, <2>1 DEF Drained, Running
<1>15. ASSUME NEW i \in DOMAIN tick, RecvTick(i)
       PROVE  Goal
  <2>1. /\ UNCHANGED <<tick, priv>> /\ loop = "recv" /\ qq' = Append(qq, <<i, tick[i], priv>>)
    BY <1>15 DEF RecvTick, twsVars, broker
  <2>2. AllCurrent
    BY <2>1 DEF Drained, Running
  <2>3. AllCurrent'
    <3> DEFINE q == <<i, tick[i], priv>>
    <3>1. Current(q)
      BY DEF Current
    <3>2. q \in Nat \X Sdef \X (0 .. Sessions)
      BY DEF KInv, TypeOK
    <3>3. qq' = Append(qq, q)
      BY <2>1
    <3> DEFINE S == Nat \X Sdef \X (0 .. Sessions)
    <3>4. qq \in Seq(S) /\ q \in S
      BY <1>2, <3>2
    <3> HIDE DEF q, S
    <3>5. \A k \in DOMAIN qq' : qq'[k] = q \/ (k \in DOMAIN qq /\ qq'[k] = qq[k])
      BY <3>3, <3>4
    <3>6. QED
      BY <2>1, <2>2, <3>1, <3>5 DEF AllCurrent, Current
  <2>4. QED
    BY <2>3
<1>16. ASSUME NEW a \in asked, RecvContDtl(a[1], a[2])
       PROVE  Goal
  <2>1. /\ loop = "recv" /\ UNCHANGED <<priv, qq>>
        /\ \A j \in DOMAIN tick : j # next_oid => j \in DOMAIN tick' /\ tick'[j] = tick[j]
    BY <1>16 DEF RecvContDtl, DrawOid
  <2>2. AllCurrent
    BY <2>1 DEF Drained, Running
  <2>3. \A j \in DOMAIN tick : j # next_oid
    <3>1. next_oid \in Nat
      BY DEF KInv, QInv
    <3>2. QED
      BY <3>1 DEF Found
  <2>4. AllCurrent'
    BY <2>1, <2>2, <2>3 DEF AllCurrent, Current
  <2>5. QED
    BY <2>4
<1>17. QED
  BY <1>3, <1>4, <1>5, <1>6, <1>7, <1>8, <1>9, <1>10, <1>11, <1>12, <1>13, <1>14, <1>15, <1>16
  DEF Next

-----------------------------------------------------------------------------
\* In order, a request's subscription is that of its place.
LEMMA RequestAtPlace ==
    ASSUME NEW i \in 1 .. Len(Reqs), sbuf[i].sreq = FirstOid + i - 1, OfRequest(sbuf, norm, i)
    PROVE  /\ norm[sbuf[i].uidx].nick = ReqNick[Reqs[i]]
           /\ sbuf[i].sdef = NoSdef \/ sbuf[i].sdef \in Matches[Reqs[i]]
<1>1. PICK k \in DOMAIN Reqs :
          /\ sbuf[i].sreq = FirstOid + k - 1
          /\ norm[sbuf[i].uidx].nick = ReqNick[Reqs[k]]
          /\ sbuf[i].sdef = NoSdef \/ sbuf[i].sdef \in Matches[Reqs[k]]
  BY DEF OfRequest
<1>2. k \in Nat /\ i \in Nat /\ FirstOid \in Nat /\ FirstOid + k - 1 = FirstOid + i - 1
  BY <1>1, Constants
<1>3. k = i
  BY <1>2
<1>4. QED
  BY <1>1, <1>3

\* Two subscriptions with one uidx: if the first of them has a definition, the
\* other one, once it has one, has the same.
LEMMA OneInstrument ==
    ASSUME KInv, NicksApart, Order, ~mixed,
           NEW i \in DOMAIN sbuf, NEW p \in DOMAIN sbuf, p <= i, sbuf[i].uidx = sbuf[p].uidx
    PROVE  p = i \/ (sbuf[i].sdef # NoSdef /\ sbuf[p].sdef \in {NoSdef, sbuf[i].sdef})
<1>1. /\ DOMAIN sbuf = 1 .. Len(sbuf) /\ Len(sbuf) \in Nat /\ NoSdef \notin Sdef
      /\ Len(Reqs) \in Nat /\ DOMAIN Reqs = 1 .. Len(Reqs)
  BY Constants, QuoTwsAssumption DEF KInv, QInv, SubTypeOK
<1>2. ASSUME NEW j \in DOMAIN sbuf, j <= Len(Reqs)
      PROVE  /\ j \in DOMAIN Reqs
             /\ norm[sbuf[j].uidx].nick = ReqNick[Reqs[j]]
             /\ sbuf[j].sdef = NoSdef \/ sbuf[j].sdef \in Matches[Reqs[j]]
  <2>1. j \in 1 .. Len(Reqs)
    BY <1>1, <1>2
  <2>2. sbuf[j].sreq = FirstOid + j - 1 /\ OfRequest(sbuf, norm, j)
    BY <1>2 DEF Order
  <2>3. QED
    BY <1>1, <2>1, <2>2, RequestAtPlace
<1>3. ASSUME NEW j \in DOMAIN sbuf, ~(j <= Len(Reqs))
      PROVE  sbuf[j].sdef \in Sdef /\ norm[sbuf[j].uidx].nick = InstNick[sbuf[j].sdef]
  BY <1>3 DEF Order, OfInstrument
<1>4. CASE i <= Len(Reqs)
  <2>1. p <= Len(Reqs)
    BY <1>1, <1>4
  <2>2. QED
    BY <1>2, <1>4, <2>1 DEF NicksApart
<1>5. CASE ~(i <= Len(Reqs)) /\ p <= Len(Reqs)
  <2>1. ReqNick[Reqs[p]] = InstNick[sbuf[i].sdef] /\ sbuf[i].sdef \in Sdef
    BY <1>2, <1>3, <1>5
  <2>2. Matches[Reqs[p]] \subseteq {sbuf[i].sdef}
    BY <1>2, <1>5, <2>1 DEF NicksApart
  <2>3. QED
    BY <1>1, <1>2, <1>5, <2>1, <2>2
<1>6. CASE ~(i <= Len(Reqs)) /\ ~(p <= Len(Reqs))
  <2>1. sbuf[p].sdef = sbuf[i].sdef /\ sbuf[i].sdef \in Sdef
    BY <1>3, <1>6 DEF NicksApart
  <2>2. QED
    BY <1>1, <2>1
<1>7. QED
  BY <1>4, <1>5, <1>6

\* What qq_flush_cb publishes is of the instrument its index is served as.
LEMMA Routes ==
    ASSUME KInv, NicksApart, Running, Filling, Order, Found, Drained, FlushPublish, ~mixed,
           ~Leftover(out.idx)'
    PROVE  RightInstrument' /\ RightSession'
<1> DEFINE i == find(sbuf, "idx", Head(qq)[1])
           s == sbuf[i]
           u == s.uidx
           p == find(sbuf', "uidx", u)
<1>1. /\ sbuf \in Seq(Subs) /\ sbuf' \in Seq(Subs) /\ DOMAIN sbuf = 1 .. Len(sbuf)
      /\ [Next]_vars
  <2>1. [Next]_vars
    BY DEF Next
  <2>2. QED
    BY <2>1, StepIsOperation DEF KInv, QInv, SubTypeOK
<1>2. /\ i \in DOMAIN sbuf /\ s.idx = Head(qq)[1] /\ SameQueue /\ qq # <<>>
      /\ out'.uidx = u /\ out'.idx = Head(qq)[1] /\ out'.inst = Head(qq)[2]
      /\ out'.sess = Head(qq)[3]
  BY FlushPublishes DEF Publishes
<1>3. loop = "flush" /\ priv' = priv
  BY DEF FlushPublish, twsVars
<1>4. p = 0 \/ (p \in DOMAIN sbuf' /\ sbuf'[p]["uidx"] = u /\ \A j \in 1 .. (p - 1) : sbuf'[j]["uidx"] # u)
  <2> HIDE DEF i, s, u
  <2>1. p \in 0 .. Len(sbuf') /\ (p # 0 => /\ sbuf'[p]["uidx"] = u
                                           /\ \A j \in 1 .. (p - 1) : sbuf'[j]["uidx"] # u)
    BY <1>1, FindFirst
  <2> HIDE DEF p
  <2>2. QED
    BY <1>1, <2>1
<1>5. out'.uidx = u
  BY <1>2
<1>6. served(out.uidx)' = IF p = 0 THEN NoSdef ELSE sbuf'[p].sdef
  <2> HIDE DEF u
  <2>1. QED
    BY <1>5 DEF served
<1> HIDE DEF i, s, u, p
<1>7. i \in DOMAIN sbuf /\ s = sbuf[i] /\ u = s.uidx
  BY <1>2 DEF s, u
<1>8. Current(Head(qq))
  <2>1. loop = "flush" /\ sbuf # <<>>
    BY <1>1, <1>3, <1>7
  <2>2. AllCurrent
    BY <2>1 DEF Drained, Running
  <2>3. qq \in Seq(Nat \X Sdef \X (0 .. Sessions))
    BY DEF KInv, TypeOK
  <2>4. 1 \in DOMAIN qq /\ Head(qq) = qq[1]
    BY <1>2, <2>3
  <2>5. QED
    BY <2>2, <2>4 DEF AllCurrent
<1>9. RightSession'
  BY <1>2, <1>3, <1>8 DEF RightSession, Current
<1>10. s.sdef = out'.inst /\ \E j \in DOMAIN sbuf' : sbuf'[j].uidx = out'.uidx /\ sbuf'[j].sdef = out'.inst
  <2>1. i \in DOMAIN sbuf' /\ SameSub(sbuf'[i], sbuf[i])
    BY <1>2, <1>7 DEF SameQueue
  <2>2. s.sdef # NoSdef
    BY <1>2, <1>7, <2>1 DEF Leftover, SameSub
  <2>3. s.sdef = out'.inst
    BY <1>2, <1>7, <1>8, <2>2 DEF Found, Current
  <2>4. QED
    BY <1>2, <1>7, <2>1, <2>3 DEF SameSub
<1>11. ASSUME p # 0
       PROVE  sbuf'[p].sdef \in {NoSdef, out'.inst}
  <2>1. /\ p \in DOMAIN sbuf /\ SameSub(sbuf'[p], sbuf[p]) /\ sbuf[p].uidx = u
        /\ \A j \in 1 .. (p - 1) : j \in DOMAIN sbuf => sbuf[j].uidx # u
    BY <1>2, <1>4, <1>11 DEF SameQueue, SameSub
  <2>2. p <= i
    BY <1>1, <1>7, <2>1
  <2>3. p = i \/ (s.sdef # NoSdef /\ sbuf[p].sdef \in {NoSdef, s.sdef})
    BY <1>7, <2>1, <2>2, OneInstrument
  <2>4. sbuf[p].sdef \in {NoSdef, out'.inst}
    BY <1>7, <1>10, <2>3
  <2>5. QED
    BY <2>1, <2>4 DEF SameSub
<1>12. RightInstrument'
  <2>1. served(out.uidx)' \in {NoSdef, out'.inst}
    BY <1>6, <1>11
  <2>2. QED
    BY <1>10, <2>1 DEF RightInstrument
<1>13. QED
  BY <1>9, <1>12

\* A tick is held against the queue only during the flush that publishes it.
Routed == out # None => /\ loop = "flush"
                        /\ ~mixed /\ ~Leftover(out.idx) => RightInstrument /\ RightSession

LEMMA RoutedStep ==
    ASSUME KInv, NicksApart, Running, Filling, Order, Found, Drained, Routed, [Next]_vars
    PROVE  Routed'
<1>1. CASE FlushPublish
  <2>1. loop' = "flush" /\ mixed' = mixed
    BY <1>1 DEF FlushPublish, broker
  <2>2. QED
    BY <1>1, <2>1, Routes DEF Routed
<1>2. CASE FlushDrop \/ FlushDone
  BY <1>2 DEF FlushDrop, FlushDone, Routed
<1>3. CASE UNCHANGED vars
  BY <1>3 DEF vars, Routed, Leftover, RightInstrument, RightSession, served
<1>4. CASE out' = out /\ loop # "flush"
  BY <1>4 DEF Routed
<1>5. \/ FlushPublish \/ FlushDrop \/ FlushDone \/ UNCHANGED vars
      \/ out' = out /\ loop # "flush"
  BY DEF Next, PrepCb, InitSubsFail, SubSdef, TwsSend, Poll, RoundDone, OtherCb, TwscHangup,
         SighupCb, RecoIdle, RecoConnect, TwscData, RecvDone, RecvValidId, RecvTick, RecvContDtl,
         Serve
<1>6. QED
  BY <1>1, <1>2, <1>3, <1>4, <1>5

RInv == KInv /\ Running /\ Filling /\ Origins /\ Order /\ Found /\ Drained

LEMMA RInvariance == Spec => []RInv
<1>1. Init => Running /\ Filling /\ Origins /\ Order /\ Found /\ Drained
  <2> SUFFICES ASSUME Init
               PROVE  Running /\ Filling /\ Origins /\ Order /\ Found /\ Drained
    OBVIOUS
  <2>1. /\ priv = 0 /\ sess = 0 /\ sockok = FALSE /\ twsc = FALSE /\ mixed = FALSE
        /\ loop = "prep" /\ sbuf = <<>> /\ DOMAIN tick = {} /\ asked = {}
    BY DEF Init, twsInit, subInit
  <2>2. Running
    BY <2>1 DEF Running
  <2>3. Filling
    BY <2>1 DEF Filling
  <2>4. Origins /\ Order /\ Found
    BY <2>1 DEF Origins, Order, Found
  <2>5. Drained
    BY <2>1 DEF Drained
  <2>6. QED
    BY <2>2, <2>3, <2>4, <2>5
<1>2. KInv /\ Running /\ Filling /\ Origins /\ Order /\ Found /\ Drained /\ [Next]_vars
      => (Running /\ Filling /\ Origins /\ Order /\ Found /\ Drained)'
  BY RunningStep, FillingStep, OriginsStep, OrderStep, FoundStep, DrainedStep DEF KInv
<1>3. QED
  BY <1>1, <1>2, KInvariance, PTL DEF Spec, RInv

\* Where no two nicks are alike by chance, each tick goes out under the index
\* of its instrument and in the session it came in, through hang-ups, failing
\* files and reconnections, and whatever the uninitialised idx holds; but for
\* sessions that have inherited subscriptions, and for ticker ids that a
\* request without an answer has for its idx (qq_flush_cb, pre_cb, websvc_secdef).
THEOREM TicksRouted == NicksApart /\ Spec => []RoutedRight
<1> SUFFICES ASSUME NicksApart
             PROVE  Spec => []RoutedRight
  OBVIOUS
<1>1. Init => Routed
  BY DEF Init, Routed
<1>2. RInv /\ Routed /\ [Next]_vars => Routed'
  BY RoutedStep DEF RInv
<1>3. Routed => RoutedRight
  BY DEF Routed, RoutedRight
<1>4. QED
  BY <1>1, <1>2, <1>3, RInvariance, PTL DEF Spec

-----------------------------------------------------------------------------
(* Consumers know what an index stands for.                                 *)

\* No ticker id is what the memory held for the idx of an unanswered request.
NoHit == DOMAIN tick \cap Junk = {}

\* So what is published has been answered, ...
Sound == \A k \in DOMAIN qq : qq[k][1] \notin Junk

\* ... and what has been announced still has the nick it was announced with.
Agreed == \A i \in DOMAIN sbuf : sbuf[i].last_dsm = "bragged" =>
              /\ sbuf[i].sdef # NoSdef
              /\ sbuf[i].uidx \in DOMAIN adv /\ adv[sbuf[i].uidx] = sbuf[i].nick

\* Two answered subscriptions with one uidx have one nick, inherited or not.
LEMMA OneNick ==
    ASSUME KInv, NicksApart, Origins,
           NEW i \in DOMAIN sbuf, NEW j \in DOMAIN sbuf, sbuf[i].uidx = sbuf[j].uidx,
           sbuf[i].sdef # NoSdef, sbuf[j].sdef # NoSdef
    PROVE  sbuf[i].nick = sbuf[j].nick
<1> DEFINE Answered(p, k) ==
              /\ sbuf[p].sreq = FirstOid + k - 1
              /\ norm[sbuf[p].uidx].nick = ReqNick[Reqs[k]]
              /\ sbuf[p].sdef \in Matches[Reqs[k]] /\ sbuf[p].sdef \in Sdef
              /\ sbuf[p].nick \in {ReqNick[Reqs[k]], InstNick[sbuf[p].sdef]}
              /\ \A q \in 1 .. (p - 1) : sbuf[q].sreq # sbuf[p].sreq
<1>1. DOMAIN sbuf = 1 .. Len(sbuf) /\ Len(sbuf) \in Nat
  BY DEF KInv, QInv, SubTypeOK
<1>2. ASSUME NEW p \in DOMAIN sbuf, sbuf[p].sdef # NoSdef
      PROVE  (\E k \in DOMAIN Reqs : Answered(p, k)) \/ OfInstrument(sbuf, norm, p)
  <2>1. \A k \in DOMAIN Reqs : Matches[Reqs[k]] \subseteq Sdef
    BY QuoTwsAssumption
  <2>2. QED
    BY <1>2, <2>1 DEF Origins, OfRequest
<1>3. ASSUME NEW p \in DOMAIN sbuf, NEW q \in DOMAIN sbuf, NEW k \in DOMAIN Reqs,
             Answered(p, k), OfInstrument(sbuf, norm, q), sbuf[p].uidx = sbuf[q].uidx
      PROVE  sbuf[p].nick = sbuf[q].nick
  <2>1. ReqNick[Reqs[k]] = InstNick[sbuf[q].sdef] /\ sbuf[q].sdef \in Sdef
    BY <1>3 DEF OfInstrument
  <2>2. sbuf[p].sdef = sbuf[q].sdef
    BY <1>3, <2>1 DEF NicksApart
  <2>3. QED
    BY <1>3, <2>1, <2>2 DEF OfInstrument
<1>4. CASE (\E k \in DOMAIN Reqs : Answered(i, k)) /\ (\E m \in DOMAIN Reqs : Answered(j, m))
  <2>1. PICK k \in DOMAIN Reqs, m \in DOMAIN Reqs : Answered(i, k) /\ Answered(j, m)
    BY <1>4
  <2>2. ReqNick[Reqs[k]] = ReqNick[Reqs[m]]
    BY <2>1
  <2>3. k = m
    BY <2>2 DEF NicksApart
  <2>4. sbuf[i].sreq = sbuf[j].sreq
    BY <2>1, <2>3
  <2>5. ~(i \in 1 .. (j - 1)) /\ ~(j \in 1 .. (i - 1))
    BY <2>1, <2>4
  <2>6. i = j
    BY <1>1, <2>5
  <2>7. QED
    BY <2>6
<1>5. CASE OfInstrument(sbuf, norm, i) /\ OfInstrument(sbuf, norm, j)
  BY <1>5 DEF OfInstrument
<1> HIDE DEF Answered
<1>6. QED
  BY <1>2, <1>3, <1>4, <1>5

\* What is not answered has an idx from the memory.
LEMMA NotAnswered ==
    ASSUME Origins, NEW i \in DOMAIN sbuf, sbuf[i].sdef = NoSdef
    PROVE  sbuf[i].idx \in Junk
<1>1. \A k \in DOMAIN Reqs : NoSdef \notin Matches[Reqs[k]]
  BY QuoTwsAssumption
<1>2. QED
  BY <1>1, QuoTwsAssumption DEF Origins, OfRequest, OfInstrument

\* What is published has been answered.
LEMMA AnsweredFirst ==
    ASSUME KInv, Origins, Sound, NEW i, Publishes(i)
    PROVE  i \in DOMAIN sbuf /\ sbuf[i].sdef # NoSdef
<1>1. qq \in Seq(Nat \X Sdef \X (0 .. Sessions)) /\ qq # <<>>
  BY DEF KInv, TypeOK, Publishes
<1>2. 1 \in DOMAIN qq /\ Head(qq) = qq[1]
  BY <1>1
<1>3. sbuf[i].idx \notin Junk
  BY <1>2 DEF Publishes, Sound
<1>4. QED
  BY <1>3, NotAnswered DEF Publishes

LEMMA Publishing ==
    ASSUME KInv, NicksApart, Origins, Sound, Agreed, NEW i, Publishes(i)
    PROVE  Agreed' /\ out'.told = out'.nick
<1>2. i \in DOMAIN sbuf /\ sbuf[i].sdef # NoSdef
  BY AnsweredFirst
<1>3. DOMAIN sbuf' = DOMAIN sbuf /\ \A j \in DOMAIN sbuf : SameSub(sbuf'[j], sbuf[j])
  BY DEF Publishes, SameQueue
<1>4. ASSUME NEW j \in DOMAIN sbuf, sbuf'[j].last_dsm = "bragged"
      PROVE  /\ sbuf[j].sdef # NoSdef
             /\ sbuf[j].uidx \in DOMAIN adv' /\ adv'[sbuf[j].uidx] = sbuf[j].nick
  <2>1. CASE Announces(i) /\ sbuf[j].uidx = sbuf[i].uidx
    <3>1. sbuf[j].sdef # NoSdef
      BY <1>2, <1>4, <2>1 DEF Announces, Agreed
    <3>2. sbuf[j].nick = sbuf[i].nick
      BY <1>2, <2>1, <3>1, OneNick
    <3>3. QED
      BY <2>1, <3>1, <3>2 DEF Announces
  <2>2. CASE Announces(i) /\ sbuf[j].uidx # sbuf[i].uidx
    BY <1>4, <2>2 DEF Announces, Agreed
  <2>3. CASE sbuf' = sbuf /\ adv' = adv
    BY <1>4, <2>3 DEF Agreed
  <2>4. QED
    BY <2>1, <2>2, <2>3 DEF Publishes
<1>5. out'.told = out'.nick
  <2>1. CASE Announces(i)
    BY <2>1 DEF Announces, Publishes
  <2>2. CASE sbuf[i].last_dsm = "bragged" /\ out'.told = Told(sbuf[i].uidx)
    BY <1>2, <2>2 DEF Publishes, Agreed, Told
  <2>3. QED
    BY <2>1, <2>2 DEF Publishes
<1>6. Agreed'
  BY <1>3, <1>4 DEF Agreed, SameSub
<1>7. QED
  BY <1>5, <1>6

LEMMA AgreedStep ==
    ASSUME KInv, NicksApart, Origins, Sound, Agreed, [Next]_vars
    PROVE  Agreed'
<1>1. FlushPublish \/ UNCHANGED adv
  BY AskedAdv
<1>2. CASE FlushPublish
  BY <1>2, FlushPublishes, Publishing
<1>3. CASE SubSdef
  <2>1. PICK c \in Subs : Joins(c) /\ c.last_dsm # "bragged"
    BY <1>3, RequestJoins
  <2>2. adv' = adv
    BY <1>3 DEF SubSdef
  <2>3. QED
    BY <2>1, <2>2 DEF Agreed, Joins
<1>4. ASSUME NEW a \in asked, RecvContDtl(a[1], a[2])
      PROVE  Agreed'
  <2>1. adv' = adv
    BY <1>4 DEF RecvContDtl
  <2>2. CASE \E c \in Subs : Joins(c) /\ c.last_dsm = "auto"
    BY <2>1, <2>2 DEF Agreed, Joins
  <2>3. ASSUME NEW f \in DOMAIN sbuf, Fills(f, a)
        PROVE  Agreed'
    <3>1. sbuf'[f].last_dsm # "bragged"
      BY <2>3 DEF Agreed, Fills
    <3>2. QED
      BY <2>1, <2>3, <3>1 DEF Agreed, Fills
  <2>4. QED
    BY <1>4, <2>2, <2>3, AnswerTaken
<1>5. CASE ~SubSdef /\ ~FlushPublish /\ ~(\E a \in asked : RecvContDtl(a[1], a[2]))
  <2>1. sbuf' = <<>> \/ sbuf' = sbuf
    BY <1>5, OthersLeave
  <2>2. QED
    BY <1>1, <1>5, <2>1 DEF Agreed
<1>6. QED
  BY <1>2, <1>3, <1>4, <1>5

LEMMA SoundStep ==
    ASSUME TypeOK, Sound, NoHit, [Next]_vars
    PROVE  Sound'
<1> DEFINE S == Nat \X Sdef \X (0 .. Sessions)
<1>1. qq \in Seq(S)
  BY DEF TypeOK
<1>2. CASE qq' = qq
  BY <1>2 DEF Sound
<1>3. CASE FlushDrop \/ FlushPublish
  <2>1. qq # <<>> /\ qq' = Tail(qq)
    BY <1>3 DEF FlushDrop, FlushPublish
  <2> HIDE DEF S
  <2>2. \A k \in DOMAIN qq' : k + 1 \in DOMAIN qq /\ qq'[k] = qq[k + 1]
    BY <1>1, <2>1
  <2>3. QED
    BY <2>2 DEF Sound
<1>4. ASSUME NEW i \in DOMAIN tick, RecvTick(i)
      PROVE  Sound'
  <2> DEFINE q == <<i, tick[i], priv>>
  <2>1. q \in S /\ q[1] \notin Junk /\ qq' = Append(qq, q)
    BY <1>4 DEF TypeOK, NoHit, RecvTick
  <2> HIDE DEF S, q
  <2>2. \A k \in DOMAIN qq' : qq'[k] = q \/ (k \in DOMAIN qq /\ qq'[k] = qq[k])
    BY <1>1, <2>1
  <2>3. QED
    BY <2>1, <2>2 DEF Sound
<1>5. qq' = qq \/ FlushDrop \/ FlushPublish \/ \E i \in DOMAIN tick : RecvTick(i)
  BY DEF Next, vars, PrepCb, InitSubsFail, SubSdef, TwsSend, FlushDone, Poll, RoundDone, OtherCb,
         TwscHangup, SighupCb, RecoIdle, RecoConnect, TwscData, RecvDone, RecvValidId, RecvContDtl
<1>6. QED
  BY <1>2, <1>3, <1>4, <1>5

LEMMA AnnouncedStep ==
    ASSUME KInv, NicksApart, Origins, Sound, Agreed, Announced, [Next]_vars
    PROVE  Announced'
<1>1. CASE FlushPublish
  BY <1>1, FlushPublishes, Publishing DEF Announced
<1>2. CASE out' \in {None, out}
  BY <1>2 DEF Announced
<1>3. FlushPublish \/ out' \in {None, out}
  BY DEF Next, vars, PrepCb, InitSubsFail, SubSdef, TwsSend, FlushDrop, FlushDone, Poll, RoundDone,
         OtherCb, TwscHangup, SighupCb, RecoIdle, RecoConnect, TwscData, RecvDone, RecvValidId,
         RecvTick, RecvContDtl
<1>4. QED
  BY <1>1, <1>2, <1>3

\* Where no two nicks are alike by chance, and as long as no ticker id is what
\* the memory held for the idx of a request without an answer, no tick goes out
\* under an index before consumers have been told its nick, and the nick has
\* not changed since; in inherited subscriptions too (qq_flush_cb, pre_cb).
THEOREM ToldFirst == NicksApart /\ Spec /\ []NoHit => []Announced
<1> SUFFICES ASSUME NicksApart
             PROVE  Spec /\ []NoHit => []Announced
  OBVIOUS
<1>1. Init => Sound /\ Agreed /\ Announced
  BY DEF Init, subInit, Sound, Agreed, Announced
<1>2. RInv /\ NoHit /\ Sound /\ Agreed /\ Announced /\ [Next]_vars => (Sound /\ Agreed /\ Announced)'
  BY SoundStep, AgreedStep, AnnouncedStep DEF RInv, KInv
<1>3. QED
  BY <1>1, <1>2, RInvariance, PTL DEF Spec

-----------------------------------------------------------------------------
(* What consumers were told of an index is not taken back.                  *)

\* The nicks m that an index registered under nick n can be announced with,
\* once there is a definition: n, if a user has set it or it is that of an
\* instrument, or the nick of an instrument its request has found.
MeantFor(m, n) ==
    \/ \E k \in DOMAIN Reqs : n = ReqNick[Reqs[k]] /\ UserNick[Reqs[k]] /\ m = n
    \/ \E k \in DOMAIN Reqs : /\ n = ReqNick[Reqs[k]] /\ ~UserNick[Reqs[k]]
                              /\ \E x \in Matches[Reqs[k]] : m = InstNick[x]
    \/ \E x \in Sdef : n = InstNick[x] /\ m = n

\* The i-th subscription is that of a request and has its nick, until a
\* definition brings another one.
NickOfRequest(b, n, i) ==
    \E k \in DOMAIN Reqs :
        /\ b[i].sreq = FirstOid + k - 1
        /\ n[b[i].uidx].nick = ReqNick[Reqs[k]]
        /\ \/ /\ b[i].sdef = NoSdef /\ b[i].nick = ReqNick[Reqs[k]]
              /\ b[i].last_dsm \in {"bragged", IF UserNick[Reqs[k]] THEN "user" ELSE "auto"}
           \/ /\ b[i].sdef \in Matches[Reqs[k]]
              /\ b[i].nick = IF UserNick[Reqs[k]] THEN ReqNick[Reqs[k]] ELSE InstNick[b[i].sdef]

Chosen == \A i \in DOMAIN sbuf : NickOfRequest(sbuf, norm, i) \/ OfInstrument(sbuf, norm, i)

Standing == \A u \in DOMAIN adv : u \in DOMAIN norm /\ MeantFor(adv[u], norm[u].nick)

\* Announcing a subscription leaves its nick as it was chosen.
LEMMA ChosenKept ==
    ASSUME NEW b, NEW c, NEW n, NEW m, NEW i,
           SameSub(c[i], b[i]), c[i].last_dsm \in {b[i].last_dsm, "bragged"},
           m[b[i].uidx] = n[b[i].uidx],
           NickOfRequest(b, n, i) \/ OfInstrument(b, n, i)
    PROVE  NickOfRequest(c, m, i) \/ OfInstrument(c, m, i)
<1> USE DEF SameSub
<1>1. CASE NickOfRequest(b, n, i)
  <2>1. PICK k \in DOMAIN Reqs :
            /\ b[i].sreq = FirstOid + k - 1
            /\ n[b[i].uidx].nick = ReqNick[Reqs[k]]
            /\ \/ /\ b[i].sdef = NoSdef /\ b[i].nick = ReqNick[Reqs[k]]
                  /\ b[i].last_dsm \in {"bragged", IF UserNick[Reqs[k]] THEN "user" ELSE "auto"}
               \/ /\ b[i].sdef \in Matches[Reqs[k]]
                  /\ b[i].nick = IF UserNick[Reqs[k]] THEN ReqNick[Reqs[k]] ELSE InstNick[b[i].sdef]
    BY <1>1 DEF NickOfRequest
  <2>2. c[i].sreq = FirstOid + k - 1 /\ m[c[i].uidx].nick = ReqNick[Reqs[k]]
    BY <2>1
  <2>3. \/ /\ c[i].sdef = NoSdef /\ c[i].nick = ReqNick[Reqs[k]]
           /\ c[i].last_dsm \in {"bragged", IF UserNick[Reqs[k]] THEN "user" ELSE "auto"}
        \/ /\ c[i].sdef \in Matches[Reqs[k]]
           /\ c[i].nick = IF UserNick[Reqs[k]] THEN ReqNick[Reqs[k]] ELSE InstNick[c[i].sdef]
    BY <2>1
  <2>4. QED
    BY <2>2, <2>3 DEF NickOfRequest
<1>2. CASE OfInstrument(b, n, i)
  BY <1>2 DEF OfInstrument
<1>3. QED
  BY <1>1, <1>2

\* pre_cb gives a request the nick of what was found only if the user has set
\* none, which the mark tells until the request is announced.
LEMMA ChosenFilled ==
    ASSUME KInv, Agreed, Chosen, NEW a \in asked, RecvContDtl(a[1], a[2]),
           NEW f \in DOMAIN sbuf, Fills(f, a)
    PROVE  NickOfRequest(sbuf', norm', f)
<1>1. sbuf[f].sdef = NoSdef /\ sbuf[f].sreq = a[1] /\ NoSdef \notin Sdef /\ norm' = norm
  BY QuoTwsAssumption DEF Fills
<1>2. sbuf[f].last_dsm # "bragged"
  BY <1>1 DEF Agreed
<1>3. \A k \in DOMAIN Reqs : NoSdef \notin Matches[Reqs[k]]
  BY <1>1, QuoTwsAssumption
<1>4. NickOfRequest(sbuf, norm, f)
  BY <1>1 DEF Chosen, OfInstrument
<1>5. PICK k \in DOMAIN Reqs :
          /\ sbuf[f].sreq = FirstOid + k - 1
          /\ norm[sbuf[f].uidx].nick = ReqNick[Reqs[k]]
          /\ sbuf[f].nick = ReqNick[Reqs[k]]
          /\ sbuf[f].last_dsm = IF UserNick[Reqs[k]] THEN "user" ELSE "auto"
  BY <1>1, <1>2, <1>3, <1>4 DEF NickOfRequest
<1>6. a[2] \in Matches[Reqs[k]]
  <2>1. PICK m \in DOMAIN Reqs : a[1] = FirstOid + m - 1 /\ a[2] \in Matches[Reqs[m]]
    BY AnswerTaken
  <2>2. k \in Nat /\ m \in Nat /\ FirstOid \in Nat
    BY Constants
  <2>3. FirstOid + k - 1 = FirstOid + m - 1
    BY <1>1, <1>5, <2>1
  <2>4. k = m
    BY <2>2, <2>3
  <2>5. QED
    BY <2>1, <2>4
<1>7. /\ sbuf'[f].sreq = FirstOid + k - 1 /\ norm'[sbuf'[f].uidx].nick = ReqNick[Reqs[k]]
      /\ sbuf'[f].sdef = a[2]
  BY <1>1, <1>5 DEF Fills
<1>8. sbuf'[f].nick = IF UserNick[Reqs[k]] THEN ReqNick[Reqs[k]] ELSE InstNick[a[2]]
  BY <1>5 DEF Fills
<1>9. QED
  BY <1>6, <1>7, <1>8 DEF NickOfRequest

LEMMA ChosenStep ==
    ASSUME KInv, Agreed, Chosen, [Next]_vars
    PROVE  Chosen'
<1>1. /\ sbuf \in Seq(Subs) /\ DOMAIN sbuf = 1 .. Len(sbuf) /\ Len(sbuf) \in Nat
      /\ \A i \in DOMAIN sbuf : sbuf[i].uidx \in DOMAIN norm
  BY DEF KInv, QInv, SubTypeOK, Kin
<1>2. \A u \in DOMAIN norm : u \in DOMAIN norm' /\ norm'[u] = norm[u]
  BY StepIsOperation, RegistryStep DEF KInv, QInv
<1>3. ASSUME NEW i \in DOMAIN sbuf, SameSub(sbuf'[i], sbuf[i]),
             sbuf'[i].last_dsm \in {sbuf[i].last_dsm, "bragged"}
      PROVE  NickOfRequest(sbuf', norm', i) \/ OfInstrument(sbuf', norm', i)
  <2>1. norm'[sbuf[i].uidx] = norm[sbuf[i].uidx]
    BY <1>1, <1>2
  <2>2. QED
    BY <1>3, <2>1, ChosenKept DEF Chosen
<1>4. ASSUME NEW i \in DOMAIN sbuf, sbuf'[i] = sbuf[i]
      PROVE  NickOfRequest(sbuf', norm', i) \/ OfInstrument(sbuf', norm', i)
  BY <1>3, <1>4 DEF SameSub
<1>5. CASE SubSdef
  <2>1. PICK c \in Subs : /\ Joins(c) /\ c.sreq = next_oid
                          /\ c.sdef = NoSdef /\ c.nick = ReqNick[Reqs[todo]]
                          /\ c.last_dsm = IF UserNick[Reqs[todo]] THEN "user" ELSE "auto"
    BY <1>5, RequestJoins
  <2>2. ASSUME NEW i \in DOMAIN sbuf', i \notin DOMAIN sbuf
        PROVE  NickOfRequest(sbuf', norm', i)
    <3>1. sbuf'[i] = c
      BY <1>1, <2>1, <2>2 DEF Joins
    <3>2. todo \in DOMAIN Reqs /\ next_oid = FirstOid + todo - 1
      BY <1>5, RequestJoins, Constants
    <3>3. norm'[c.uidx].nick = ReqNick[Reqs[todo]]
      BY <2>1 DEF Joins
    <3>4. QED
      BY <2>1, <3>1, <3>2, <3>3 DEF NickOfRequest
  <2>3. \A i \in DOMAIN sbuf : sbuf'[i] = sbuf[i]
    BY <2>1 DEF Joins
  <2>4. QED
    BY <1>4, <2>2, <2>3 DEF Chosen
<1>6. ASSUME NEW a \in asked, RecvContDtl(a[1], a[2])
      PROVE  Chosen'
  <2>1. a[2] \in Sdef
    BY <1>6, AnswerTaken
  <2>2. ASSUME NEW c \in Subs, Joins(c), c.sdef = a[2], c.nick = InstNick[a[2]]
        PROVE  Chosen'
    <3>1. ASSUME NEW i \in DOMAIN sbuf', i \notin DOMAIN sbuf
          PROVE  OfInstrument(sbuf', norm', i)
      <4>1. sbuf'[i] = c
        BY <1>1, <2>2, <3>1 DEF Joins
      <4>2. QED
        BY <2>1, <2>2, <4>1 DEF OfInstrument, Joins
    <3>2. \A i \in DOMAIN sbuf : sbuf'[i] = sbuf[i]
      BY <2>2 DEF Joins
    <3>3. QED
      BY <1>4, <3>1, <3>2 DEF Chosen
  <2>3. ASSUME NEW f \in DOMAIN sbuf, Fills(f, a)
        PROVE  Chosen'
    <3>1. DOMAIN sbuf' = DOMAIN sbuf /\ \A i \in DOMAIN sbuf : i # f => sbuf'[i] = sbuf[i]
      BY <2>3 DEF Fills
    <3>2. NickOfRequest(sbuf', norm', f)
      BY <1>6, <2>3, ChosenFilled
    <3>3. QED
      BY <1>4, <3>1, <3>2 DEF Chosen
  <2>4. QED
    BY <1>6, <2>2, <2>3, AnswerTaken
<1>7. CASE FlushPublish
  <2>1. PICK i : Publishes(i)
    BY <1>7, FlushPublishes
  <2>2. DOMAIN sbuf' = DOMAIN sbuf /\ \A j \in DOMAIN sbuf : SameSub(sbuf'[j], sbuf[j])
    BY <2>1 DEF Publishes, SameQueue
  <2>3. \A j \in DOMAIN sbuf : sbuf'[j].last_dsm \in {sbuf[j].last_dsm, "bragged"}
    BY <2>1 DEF Publishes, Announces
  <2>4. QED
    BY <1>3, <2>2, <2>3 DEF Chosen
<1>8. CASE ~SubSdef /\ ~FlushPublish /\ ~(\E a \in asked : RecvContDtl(a[1], a[2]))
  <2>1. sbuf' = <<>> \/ sbuf' = sbuf
    BY <1>8, OthersLeave
  <2>2. QED
    BY <1>4, <2>1 DEF Chosen
<1>9. QED
  BY <1>5, <1>6, <1>7, <1>8

\* The nick of a subscription that was answered is one meant for its index.
LEMMA MeantNick ==
    ASSUME Chosen, NEW i \in DOMAIN sbuf, sbuf[i].sdef # NoSdef
    PROVE  MeantFor(sbuf[i].nick, norm[sbuf[i].uidx].nick)
<1>1. CASE OfInstrument(sbuf, norm, i)
  BY <1>1 DEF OfInstrument, MeantFor
<1>2. CASE NickOfRequest(sbuf, norm, i)
  <2>1. PICK k \in DOMAIN Reqs :
            /\ norm[sbuf[i].uidx].nick = ReqNick[Reqs[k]]
            /\ sbuf[i].sdef \in Matches[Reqs[k]]
            /\ sbuf[i].nick = IF UserNick[Reqs[k]] THEN ReqNick[Reqs[k]] ELSE InstNick[sbuf[i].sdef]
    BY <1>2 DEF NickOfRequest
  <2>2. QED
    BY <2>1 DEF MeantFor
<1>3. QED
  BY <1>1, <1>2 DEF Chosen

\* Two nicks meant for an index are one, unless its request has a choice.
LEMMA OneMeant ==
    ASSUME NicksApart, NEW n, NEW p, NEW q, MeantFor(p, n), MeantFor(q, n),
           \A k \in DOMAIN Reqs : n = ReqNick[Reqs[k]] /\ ~UserNick[Reqs[k]] =>
               \A x, y \in Matches[Reqs[k]] : x = y
    PROVE  p = q
<1> DEFINE Users(m) == \E k \in DOMAIN Reqs : n = ReqNick[Reqs[k]] /\ UserNick[Reqs[k]] /\ m = n
           Found1(m) == \E k \in DOMAIN Reqs : /\ n = ReqNick[Reqs[k]] /\ ~UserNick[Reqs[k]]
                                               /\ \E x \in Matches[Reqs[k]] : m = InstNick[x]
           Own(m) == \E x \in Sdef : n = InstNick[x] /\ m = n
<1>1. (Users(p) \/ Found1(p) \/ Own(p)) /\ (Users(q) \/ Found1(q) \/ Own(q))
  BY DEF MeantFor
<1>2. ASSUME NEW m, Found1(m), Own(n) \/ Users(n)
      PROVE  m = n
  <2>1. PICK k \in DOMAIN Reqs : /\ n = ReqNick[Reqs[k]] /\ ~UserNick[Reqs[k]]
                                 /\ \E x \in Matches[Reqs[k]] : m = InstNick[x]
    BY <1>2
  <2>2. PICK x \in Matches[Reqs[k]] : m = InstNick[x]
    BY <2>1
  <2>3. CASE Own(n)
    <3>1. PICK y \in Sdef : n = InstNick[y]
      BY <2>3
    <3>2. Matches[Reqs[k]] \subseteq {y}
      BY <2>1, <3>1 DEF NicksApart
    <3>3. QED
      BY <2>2, <2>1, <3>1, <3>2
  <2>4. CASE Users(n)
    <3>1. PICK l \in DOMAIN Reqs : n = ReqNick[Reqs[l]] /\ UserNick[Reqs[l]]
      BY <2>4
    <3>2. l = k
      BY <2>1, <3>1 DEF NicksApart
    <3>3. QED
      BY <2>2, <2>1, <3>1, <3>2
  <2>5. QED
    BY <1>2, <2>3, <2>4
<1>3. ASSUME Found1(p), Found1(q)
      PROVE  p = q
  <2>1. PICK k \in DOMAIN Reqs : /\ n = ReqNick[Reqs[k]] /\ ~UserNick[Reqs[k]]
                                 /\ \E x \in Matches[Reqs[k]] : p = InstNick[x]
    BY <1>3
  <2>2. PICK l \in DOMAIN Reqs : /\ n = ReqNick[Reqs[l]] /\ ~UserNick[Reqs[l]]
                                 /\ \E y \in Matches[Reqs[l]] : q = InstNick[y]
    BY <1>3
  <2>3. k = l
    BY <2>1, <2>2 DEF NicksApart
  <2>4. QED
    BY <2>1, <2>2, <2>3
<1>4. \A m : (Users(m) => m = n /\ Users(n)) /\ (Own(m) => m = n /\ Own(n))
  OBVIOUS
<1> HIDE DEF Users, Found1, Own
<1>5. QED
  BY <1>1, <1>2, <1>3, <1>4

LEMMA StandingStep ==
    ASSUME KInv, Origins, Sound, Chosen, Standing, [Next]_vars
    PROVE  Standing'
<1>1. \A u \in DOMAIN norm : u \in DOMAIN norm' /\ norm'[u] = norm[u]
  BY StepIsOperation, RegistryStep DEF KInv, QInv
<1>2. CASE adv' = adv
  BY <1>1, <1>2 DEF Standing
<1>3. CASE FlushPublish
  <2>1. PICK i : Publishes(i)
    BY <1>3, FlushPublishes
  <2>2. i \in DOMAIN sbuf /\ sbuf[i].sdef # NoSdef /\ sbuf[i].uidx \in DOMAIN norm
    BY <2>1, AnsweredFirst DEF KInv, Kin
  <2>3. MeantFor(sbuf[i].nick, norm[sbuf[i].uidx].nick)
    BY <2>2, MeantNick
  <2>4. CASE Announces(i)
    <3>1. \A u \in DOMAIN adv' : \/ u = sbuf[i].uidx /\ adv'[u] = sbuf[i].nick
                                 \/ u \in DOMAIN adv /\ adv'[u] = adv[u]
      BY <2>4 DEF Announces
    <3>2. QED
      BY <1>1, <2>2, <2>3, <3>1 DEF Standing
  <2>5. QED
    BY <1>2, <2>1, <2>4 DEF Publishes
<1>4. QED
  BY <1>2, <1>3, AskedAdv

\* The step at which an index is announced with another nick than before.
LEMMA NickMoves ==
    ASSUME KInv, NicksApart, Origins, Sound, Agreed, Chosen, Standing, [Next]_vars,
           NEW u \in DOMAIN adv, adv'[u] # adv[u]
    PROVE  Ambiguous(u) /\ ~Heard(u)
<1>1. PICK i : Publishes(i)
  <2>1. FlushPublish
    BY AskedAdv
  <2>2. QED
    BY <2>1, FlushPublishes
<1>2. i \in DOMAIN sbuf /\ sbuf[i].sdef # NoSdef
  BY <1>1, AnsweredFirst
<1>3. u = sbuf[i].uidx /\ adv'[u] = sbuf[i].nick
  BY <1>1 DEF Publishes, Announces
<1>4. u \in DOMAIN norm /\ norm[u].uidx = u
  <2>1. u \in DOMAIN norm
    BY DEF Standing
  <2>2. QED
    BY <2>1 DEF KInv, Registry
<1>5. ~Heard(u)
  <2> SUFFICES ASSUME NEW j \in DOMAIN sbuf, sbuf[j].uidx = u, sbuf[j].last_dsm = "bragged"
               PROVE  FALSE
    BY DEF Heard
  <2>1. sbuf[j].sdef # NoSdef /\ adv[u] = sbuf[j].nick
    BY DEF Agreed
  <2>2. sbuf[j].nick = sbuf[i].nick
    BY <1>2, <1>3, <2>1, OneNick
  <2>3. QED
    BY <1>3, <2>1, <2>2
<1>6. Ambiguous(u)
  <2> SUFFICES ASSUME ~Ambiguous(u)
               PROVE  FALSE
    OBVIOUS
  <2>1. \A k \in DOMAIN Reqs : norm[u].nick = ReqNick[Reqs[k]] /\ ~UserNick[Reqs[k]] =>
            \A x, y \in Matches[Reqs[k]] : x = y
    BY <1>4 DEF Ambiguous
  <2>2. MeantFor(adv[u], norm[u].nick) /\ MeantFor(adv'[u], norm[u].nick)
    BY <1>2, <1>3, MeantNick DEF Standing
  <2>3. QED
    BY <2>1, <2>2, OneMeant
<1>7. QED
  BY <1>5, <1>6

\* Where no two nicks are alike by chance, and as long as no ticker id is a
\* leftover, an index is announced with one nick for the life of the process,
\* over any sessions; only that of a made-up nick whose request finds several
\* instruments may have another one, after a hang-up (pre_cb, subq_add,
\* qq_flush_cb).
THEOREM NickKept == NicksApart /\ Spec /\ []NoHit => IndexKeepsNick
<1> SUFFICES ASSUME NicksApart
             PROVE  Spec /\ []NoHit => IndexKeepsNick
  OBVIOUS
<1>1. Init => Sound /\ Agreed /\ Chosen /\ Standing
  BY DEF Init, subInit, Sound, Agreed, Chosen, Standing
<1>2. RInv /\ NoHit /\ Sound /\ Agreed /\ Chosen /\ Standing /\ [Next]_vars
      => (Sound /\ Agreed /\ Chosen /\ Standing)'
  BY SoundStep, AgreedStep, ChosenStep, StandingStep DEF RInv, KInv
<1>3. RInv /\ Sound /\ Agreed /\ Chosen /\ Standing /\ [Next]_vars
      => [\A u \in DOMAIN adv : adv'[u] # adv[u] => Ambiguous(u) /\ ~Heard(u)]_vars
  BY NickMoves DEF RInv
<1>4. QED
  BY <1>1, <1>2, <1>3, RInvariance, PTL DEF Spec, IndexKeepsNick
=============================================================================
