----------------------------- MODULE PartsProofs -----------------------------
(***************************************************************************)
(* The server that gives out definitions, for any number of slots, any     *)
(* definitions and any order of events: no descriptor is lost or used      *)
(* twice, answers go to who asked, and the oldest connection makes way.    *)
(*                                                                         *)
(* The decimal numbers, for formats of any size, any texts and any order   *)
(* of operations: both encodings print the same, and what is printed is    *)
(* what was meant.                                                         *)
(*                                                                         *)
(* The reader of definitions, for any declarations and documents of any    *)
(* size, in both languages: the list of requests is what they say.         *)
(***************************************************************************)
EXTENDS Dccp, Sdef, Dfp754, LeastIndex, SequenceTheorems

-----------------------------------------------------------------------------
(* The server's invariant.                                                  *)

\* The books: SlotsOwnFds, with the types it needs, for the slots that are
\* active, and nothing left of a poll outside it.
Books(f, a, o) ==
    /\ f \in [SlotSet -> Int] /\ a \subseteq SlotSet
    /\ \A i \in SlotSet : i \in a <=> f[i] > 0
    /\ \A i, j \in a : f[i] = f[j] => i = j
    /\ DOMAIN o = {f[i] : i \in a}
    /\ IsFiniteSet(DOMAIN o)
    /\ \A i \in a : o[f[i]] = conn[i]

\* An event that is still to be served is of the connection its slot holds now.
Current(r, a) == \A e \in r : \/ e = <<-1, 0>>
                              \/ \E i \in a : e = <<i, conn[i]>>

\* Going round the slots from the next one, connections are ever younger;
\* slots that were not used yet have 0.
Older(i, j) == conn[i] <= conn[j]
Rotates == /\ \A i, j \in SlotSet : i < j /\ (j < next \/ next <= i) => Older(i, j)
           /\ \A i, j \in SlotSet : i < next /\ next <= j => Older(j, i)

IInv == /\ next \in SlotSet /\ nconn \in Nat /\ conn \in [SlotSet -> 0 .. nconn]
        /\ loop \in {"wait", "poll", "down"}
        /\ loop # "poll" => ready = {}
        /\ loop = "down" => active = {}
        /\ Books(fd, active, open)
        /\ Current(ready, active)
        /\ Rotates
        /\ AnswersAsked

-----------------------------------------------------------------------------
(* What the helpers do.                                                     *)

LEMMA SlotFacts == SlotSet \subseteq Nat /\ 0 \in SlotSet /\ -1 \notin SlotSet
  BY DccpAssumption DEF SlotSet

\* The system has a descriptor to give that is not in use.
LEMMA LowestIsFree ==
    ASSUME NEW used, IsFiniteSet(used)
    PROVE  Lowest(used) \in Nat \ {0} /\ Lowest(used) \notin used
<1> DEFINE n == Cardinality(used)
           free == {f \in 1 .. (n + 1) : f \notin used}
<1>1. n \in Nat
  BY FS_CardinalityType
<1>2. free # {}
  <2>1. SUFFICES ASSUME free = {}
                 PROVE  FALSE
    OBVIOUS
  <2>2. 1 .. (n + 1) \in SUBSET used
    BY <2>1
  <2>3. Cardinality(1 .. (n + 1)) <= n
    BY <2>2, FS_Subset
  <2>4. 1 \in Int /\ n + 1 \in Int
    BY <1>1
  <2>5. Cardinality(1 .. (n + 1)) = n + 1
    BY <1>1, <2>4, FS_Interval
  <2>6. QED
    BY <1>1, <2>3, <2>5
<1>3. free \subseteq Nat
  BY <1>1
<1>4. PICK f \in free : \A g \in free : f <= g
  <2> HIDE DEF free
  <2>1. QED
    BY <1>2, <1>3, Least
<1>5. f \in 1 .. (n + 1) /\ f \notin used
  OBVIOUS
<1>6. ASSUME NEW g \in 1 .. (f - 1)
      PROVE  g \in used
  <2>1. g \in 1 .. (n + 1) /\ g < f
    BY <1>1, <1>5
  <2>2. QED
    BY <1>1, <1>4, <1>5, <2>1
<1>7. \E h \in 1 .. (n + 1) : h \notin used /\ \A g \in 1 .. (h - 1) : g \in used
  BY <1>5, <1>6
<1>8. Lowest(used) \in 1 .. (n + 1) /\ Lowest(used) \notin used
  BY <1>7 DEF Lowest
<1>9. QED
  BY <1>1, <1>8

\* Closing the connection of a slot keeps the books, of the other slots.
LEMMA ShutRight ==
    ASSUME Books(fd, active, open), Current(ready, active), NEW i \in active
    PROVE  /\ Books(Shut(i).fd, Shut(i).active, Shut(i).open)
           /\ Current(Shut(i).ready, Shut(i).active)
           /\ Shut(i).active = active \ {i}
           /\ Shut(i).ready \subseteq ready
<1> DEFINE f == [fd EXCEPT ![i] = -1]
           a == active \ {i}
           o == Without(fd[i])
           r == {e \in ready : e[1] # i}
<1>1. Shut(i).fd = f /\ Shut(i).active = a /\ Shut(i).open = o /\ Shut(i).ready = r
  BY DEF Shut
<1>2. fd \in [SlotSet -> Int] /\ active \subseteq SlotSet /\ i \in SlotSet
  BY DEF Books
<1>3. \A j \in SlotSet : f[j] = IF j = i THEN -1 ELSE fd[j]
  BY <1>2
<1>4. f \in [SlotSet -> Int] /\ a \subseteq SlotSet
  BY <1>2
<1>5. \A j \in SlotSet : j \in a <=> f[j] > 0
  BY <1>3 DEF Books
<1>6. \A j, k \in a : f[j] = f[k] => j = k
  BY <1>2, <1>3 DEF Books
<1>7. DOMAIN o = DOMAIN open \ {fd[i]}
  BY DEF Without
<1>8. DOMAIN o = {f[j] : j \in a}
  <2>1. {f[j] : j \in a} = {fd[j] : j \in a}
    BY <1>2, <1>3
  <2>2. {fd[j] : j \in a} = {fd[j] : j \in active} \ {fd[i]}
    BY DEF Books
  <2>3. QED
    BY <1>7, <2>1, <2>2 DEF Books
<1>9. IsFiniteSet(DOMAIN o)
  BY <1>7, FS_RemoveElement DEF Books
<1>10. \A j \in a : o[f[j]] = conn[j]
  <2>1. SUFFICES ASSUME NEW j \in a
                 PROVE  o[f[j]] = conn[j]
    OBVIOUS
  <2>2. f[j] = fd[j] /\ open[fd[j]] = conn[j]
    BY <1>2, <1>3, <2>1 DEF Books
  <2>3. f[j] \in DOMAIN o
    BY <1>8, <2>1
  <2>4. o[f[j]] = open[f[j]]
    BY <1>7, <2>3 DEF Without
  <2>5. QED
    BY <2>2, <2>4
<1>11. Books(f, a, o)
  <2> HIDE DEF f, a, o
  <2>1. QED
    BY <1>4, <1>5, <1>6, <1>8, <1>9, <1>10 DEF Books
<1>12. Current(r, a)
  <2>1. SUFFICES ASSUME NEW e \in r, e # <<-1, 0>>
                 PROVE  \E j \in a : e = <<j, conn[j]>>
    BY DEF Current
  <2>2. PICK j \in active : e = <<j, conn[j]>>
    BY <2>1 DEF Current
  <2>3. e[1] = j /\ e[1] # i
    BY <2>1, <2>2
  <2>4. QED
    BY <2>2, <2>3
<1>13. QED
  BY <1>1, <1>11, <1>12

\* After making way, the next slot is free.
LEMMA ClearedRight ==
    ASSUME Books(fd, active, open), Current(ready, active), next \in SlotSet
    PROVE  /\ Books(Cleared.fd, Cleared.active, Cleared.open)
           /\ Current(Cleared.ready, Cleared.active)
           /\ Cleared.active = active \ {next}
           /\ Cleared.ready \subseteq ready
<1>1. CASE fd[next] > 0
  <2>1. next \in active /\ Cleared = Shut(next)
    BY <1>1 DEF Books, Cleared
  <2>2. QED
    BY <2>1, ShutRight
<1>2. CASE ~(fd[next] > 0)
  <2>1. next \notin active /\ Cleared = Same
    BY <1>2 DEF Books, Cleared
  <2>2. QED
    BY <2>1 DEF Same
<1>3. QED
  BY <1>1, <1>2

-----------------------------------------------------------------------------
(* The steps.                                                               *)

\* A new connection is younger than all there are, and its slot comes last.
LEMMA StillRotates ==
    ASSUME next \in SlotSet, nconn \in Nat, conn \in [SlotSet -> 0 .. nconn], Rotates,
           next' = After, conn' = [conn EXCEPT ![next] = nconn + 1]
    PROVE  Rotates'
<1>1. /\ SlotSet = 0 .. (Slots - 1) /\ Slots \in Nat /\ next \in Int
      /\ \A i \in SlotSet : i \in Int /\ conn[i] \in Int /\ conn[i] <= nconn
  BY DccpAssumption DEF SlotSet
<1>2. \A i \in SlotSet : conn'[i] = IF i = next THEN nconn + 1 ELSE conn[i]
  OBVIOUS
<1>3. CASE next + 1 < Slots
  <2>1. next' = next + 1
    BY <1>3 DEF After
  <2>2. ASSUME NEW i \in SlotSet, NEW j \in SlotSet, i < j, j < next' \/ next' <= i
        PROVE  conn'[i] <= conn'[j]
    <3>1. CASE j < next \/ next < i
      <4>1. conn[i] <= conn[j] /\ i # next /\ j # next
        BY <1>1, <2>2, <3>1 DEF Rotates, Older
      <4>2. QED
        BY <1>2, <4>1
    <3>2. CASE j = next
      <4>1. conn'[j] = nconn + 1 /\ conn'[i] = conn[i]
        BY <1>1, <1>2, <2>2, <3>2
      <4>2. QED
        BY <1>1, <4>1
    <3>3. QED
      BY <1>1, <2>1, <2>2, <3>1, <3>2
  <2>3. ASSUME NEW i \in SlotSet, NEW j \in SlotSet, i < next', next' <= j
        PROVE  conn'[j] <= conn'[i]
    <3>1. conn'[j] = conn[j]
      BY <1>1, <1>2, <2>1, <2>3
    <3>2. CASE i = next
      BY <1>1, <1>2, <3>1, <3>2
    <3>3. CASE i < next
      <4>1. conn[j] <= conn[i] /\ conn'[i] = conn[i]
        BY <1>1, <1>2, <2>1, <2>3, <3>3 DEF Rotates, Older
      <4>2. QED
        BY <3>1, <4>1
    <3>4. QED
      BY <1>1, <2>1, <2>3, <3>2, <3>3
  <2>4. QED
    BY <2>2, <2>3 DEF Rotates, Older
<1>4. CASE ~(next + 1 < Slots)
  <2>1. next' = 0 /\ \A i \in SlotSet : i <= next
    BY <1>1, <1>4 DEF After
  <2>2. ASSUME NEW i \in SlotSet, NEW j \in SlotSet, i < j
        PROVE  conn'[i] <= conn'[j]
    <3>1. i < next /\ conn'[i] = conn[i]
      BY <1>1, <1>2, <2>1, <2>2
    <3>2. CASE j = next
      BY <1>1, <1>2, <3>1, <3>2
    <3>3. CASE j # next
      <4>1. j < next /\ conn'[j] = conn[j]
        BY <1>1, <1>2, <2>1, <3>3
      <4>2. QED
        BY <2>2, <3>1, <4>1 DEF Rotates, Older
    <3>4. QED
      BY <3>2, <3>3
  <2>3. \A i \in SlotSet : ~(i < next')
    BY <1>1, <2>1
  <2>4. QED
    BY <2>2, <2>3 DEF Rotates, Older
<1>5. QED
  BY <1>3, <1>4

LEMMA AcceptKeeps ==
    ASSUME IInv, Accept
    PROVE  IInv'
<1> DEFINE c == Cleared
           s == Lowest(DOMAIN c.open)
           o == [f \in DOMAIN c.open \cup {s} |-> IF f = s THEN nconn + 1 ELSE c.open[f]]
           f == [c.fd EXCEPT ![next] = s]
           a == c.active \cup {next}
<1>1. /\ next \in SlotSet /\ nconn \in Nat /\ conn \in [SlotSet -> 0 .. nconn]
      /\ Books(fd, active, open) /\ Current(ready, active) /\ Rotates /\ loop = "poll"
  BY DEF IInv, Accept
<1>2. /\ fd' = f /\ active' = a /\ open' = o /\ nconn' = nconn + 1
      /\ conn' = [conn EXCEPT ![next] = nconn + 1] /\ next' = After
      /\ ready' = c.ready \ {<<-1, 0>>} /\ out' = None /\ loop' = loop
  BY DEF Accept
<1>3. /\ Books(c.fd, c.active, c.open) /\ Current(c.ready, c.active)
      /\ c.active = active \ {next}
  BY <1>1, ClearedRight
<1>4. s \in Nat \ {0} /\ s \notin DOMAIN c.open
  <2>1. IsFiniteSet(DOMAIN c.open)
    BY <1>3 DEF Books
  <2> HIDE DEF c
  <2>2. QED
    BY <2>1, LowestIsFree
<1> HIDE DEF s, c
<1>5. /\ c.fd \in [SlotSet -> Int] /\ c.active \subseteq SlotSet /\ next \notin c.active
      /\ \A i \in SlotSet : f[i] = IF i = next THEN s ELSE c.fd[i]
      /\ \A i \in SlotSet : conn'[i] = IF i = next THEN nconn + 1 ELSE conn[i]
  BY <1>1, <1>2, <1>3 DEF Books
<1>6. f \in [SlotSet -> Int] /\ a \subseteq SlotSet
  BY <1>1, <1>4, <1>5
<1>7. \A i \in SlotSet : i \in a <=> f[i] > 0
  BY <1>3, <1>4, <1>5 DEF Books
<1>8. \A i \in c.active : f[i] = c.fd[i] /\ f[i] \in DOMAIN c.open /\ f[i] # s /\ conn'[i] = conn[i]
  BY <1>3, <1>4, <1>5 DEF Books
<1>9. \A i, j \in a : f[i] = f[j] => i = j
  BY <1>1, <1>3, <1>5, <1>8 DEF Books
<1>10. DOMAIN o = DOMAIN c.open \cup {s}
  OBVIOUS
<1>11. DOMAIN o = {f[i] : i \in a}
  <2>1. {f[i] : i \in a} = {f[i] : i \in c.active} \cup {s}
    BY <1>1, <1>5
  <2>2. {f[i] : i \in c.active} = {c.fd[i] : i \in c.active}
    BY <1>8
  <2>3. QED
    BY <1>3, <1>10, <2>1, <2>2 DEF Books
<1>12. IsFiniteSet(DOMAIN o)
  BY <1>3, <1>10, FS_AddElement DEF Books
<1>13. \A i \in a : o[f[i]] = conn'[i]
  <2>1. o[f[next]] = conn'[next]
    BY <1>1, <1>5
  <2>2. ASSUME NEW i \in c.active
        PROVE  o[f[i]] = conn'[i]
    <3>1. o[f[i]] = c.open[c.fd[i]]
      BY <1>8
    <3>2. QED
      BY <1>3, <1>8, <3>1 DEF Books
  <2>3. QED
    BY <2>1, <2>2
<1>14. Books(fd, active, open)'
  <2> HIDE DEF f, a, o
  <2>1. QED
    BY <1>2, <1>6, <1>7, <1>9, <1>11, <1>12, <1>13 DEF Books
<1>15. Current(ready, active)'
  <2>1. SUFFICES ASSUME NEW e \in ready', e # <<-1, 0>>
                 PROVE  \E i \in active' : e = <<i, conn'[i]>>
    BY DEF Current
  <2>2. PICK i \in c.active : e = <<i, conn[i]>>
    BY <1>2, <1>3, <2>1 DEF Current
  <2>3. QED
    BY <1>2, <1>8, <2>2
<1>16. Rotates'
  BY <1>1, <1>2, StillRotates
<1>17. next' \in SlotSet
  BY <1>1, <1>2, DccpAssumption DEF After, SlotSet
<1>18. conn' \in [SlotSet -> 0 .. nconn'] /\ nconn' \in Nat
  BY <1>1, <1>2
<1>19. AnswersAsked'
  BY <1>2 DEF AnswersAsked
<1>20. QED
  BY <1>1, <1>2, <1>14, <1>15, <1>16, <1>17, <1>18, <1>19 DEF IInv

\* Where descriptors, slots and events are only taken away.
LEMMA ClosingKeeps ==
    ASSUME IInv, UNCHANGED <<next, conn, nconn>>, out' = None,
           Books(fd', active', open'), Current(ready', active'),
           loop' \in {"wait", "poll", "down"},
           loop' # "poll" => ready' = {},
           loop' = "down" => active' = {}
    PROVE  IInv'
<1>1. Books(fd, active, open)' /\ Current(ready, active)' /\ Rotates'
  BY DEF IInv, Books, Current, Rotates, Older, SlotSet
<1>2. AnswersAsked'
  BY DEF AnswersAsked
<1>3. QED
  BY <1>1, <1>2 DEF IInv, SlotSet

LEMMA AcceptFailsKeeps ==
    ASSUME IInv, AcceptFails
    PROVE  IInv'
<1>1. /\ Books(Cleared.fd, Cleared.active, Cleared.open)
      /\ Current(Cleared.ready, Cleared.active)
  BY ClearedRight DEF IInv
<1>2. Current(ready', active')
  BY <1>1 DEF AcceptFails, Current
<1>3. QED
  BY <1>1, <1>2, ClosingKeeps DEF AcceptFails, IInv

LEMMA DataCloseKeeps ==
    ASSUME IInv, NEW e \in ready, DataClose(e)
    PROVE  IInv'
<1>1. Books(fd, active, open) /\ Current(ready, active) /\ loop = "poll" /\ e[1] >= 0
  BY DEF IInv, DataClose, Serve
<1>2. PICK i \in active : e = <<i, conn[i]>>
  <2>1. e # <<-1, 0>>
    BY <1>1
  <2>2. QED
    BY <1>1, <2>1 DEF Current
<1>3. e[1] \in active
  BY <1>2
<1>4. /\ Books(Shut(e[1]).fd, Shut(e[1]).active, Shut(e[1]).open)
      /\ Current(Shut(e[1]).ready, Shut(e[1]).active)
  BY <1>1, <1>3, ShutRight
<1>5. Current(ready', active')
  BY <1>4 DEF DataClose, Current
<1>6. QED
  BY <1>1, <1>4, <1>5, ClosingKeeps DEF DataClose, IInv

LEMMA GoingDownKeeps ==
    ASSUME IInv, GoingDown
    PROVE  IInv'
<1>1. /\ Books(fd, active, open) /\ ready = {}
  BY DEF IInv, GoingDown
<1>2. active = {i \in SlotSet : fd[i] > 0} /\ active' = {}
  BY <1>1 DEF Books, GoingDown
<1>3. fd' \in [SlotSet -> Int] /\ \A i \in SlotSet : ~(fd'[i] > 0)
  BY <1>1, <1>2 DEF Books, GoingDown
<1>4. DOMAIN open' = {}
  BY <1>1, <1>2 DEF Books, GoingDown
<1>5. IsFiniteSet(DOMAIN open')
  BY <1>4, FS_EmptySet
<1>6. Books(fd', active', open')
  BY <1>2, <1>3, <1>4, <1>5 DEF Books
<1>7. Current(ready', active') /\ ready' = {}
  BY <1>1 DEF Current, GoingDown
<1>8. QED
  BY <1>2, <1>6, <1>7, ClosingKeeps DEF GoingDown

LEMMA PollKeeps ==
    ASSUME IInv, NEW evs \in SUBSET Events, Poll(evs)
    PROVE  IInv'
<1>1. Books(fd', active', open')
  BY DEF IInv, Poll
<1>2. Current(ready', active')
  BY DEF Poll, Current, Events
<1>3. QED
  BY <1>1, <1>2, ClosingKeeps DEF Poll, IInv

LEMMA RoundDoneKeeps ==
    ASSUME IInv, RoundDone
    PROVE  IInv'
<1>1. Books(fd', active', open') /\ Current(ready', active')
  BY DEF IInv, RoundDone, Current
<1>2. QED
  BY <1>1, ClosingKeeps DEF RoundDone, IInv

\* The answer: the slot of the event holds the connection it was for.
LEMMA DataAnswerKeeps ==
    ASSUME IInv, NEW e \in ready, NEW r \in Requests, DataAnswer(e, r)
    PROVE  IInv'
<1>1. /\ Books(fd, active, open) /\ Current(ready, active) /\ loop = "poll" /\ e[1] >= 0
      /\ UNCHANGED <<fd, active, next, open, conn, nconn, loop>> /\ ready' \subseteq ready
  BY DEF IInv, DataAnswer, Serve
<1>2. PICK v \in Parsed(r) :
          /\ v.ty = "SECDEF"
          /\ out' = [req |-> r, from |-> e[2], to |-> Behind(e[1]), sdef |-> websvc_secdef(v.idx)]
  BY DEF DataAnswer
<1>3. PICK i \in active : e = <<i, conn[i]>>
  <2>1. e # <<-1, 0>>
    BY <1>1
  <2>2. QED
    BY <1>1, <2>1 DEF Current
<1>4. out'.from = out'.to
  <2>1. fd[i] \in DOMAIN open /\ open[fd[i]] = conn[i]
    BY <1>1 DEF Books
  <2>2. Behind(i) = conn[i]
    BY <2>1 DEF Behind
  <2>3. QED
    BY <1>2, <1>3, <2>2
<1>5. ASSUME r.kind = "secdef", r.idx \in 0 .. (Width - 1)
      PROVE  out'.sdef = websvc_secdef(r.idx)
  <2>1. v = [ty |-> "SECDEF", idx |-> r.idx % Width]
    BY <1>5 DEF Parsed
  <2>2. r.idx % Width = r.idx
    BY <1>5, DccpAssumption
  <2>3. QED
    BY <1>2, <2>1, <2>2
<1>6. AnswersAsked'
  BY <1>2, <1>4, <1>5 DEF AnswersAsked, websvc_secdef
<1>7. Current(ready', active')
  BY <1>1 DEF Current
<1>8. Books(fd, active, open)' /\ Current(ready, active)' /\ Rotates'
  BY <1>1, <1>7 DEF IInv, Books, Current, Rotates, Older, SlotSet
<1>9. QED
  BY <1>1, <1>6, <1>8 DEF IInv, SlotSet

LEMMA InitRight == DccpInit => IInv
<1> SUFFICES ASSUME DccpInit
             PROVE  IInv
  OBVIOUS
<1>1. /\ fd \in [SlotSet -> Int] /\ active = {} /\ DOMAIN open = {}
      /\ \A i \in SlotSet : fd[i] = 0 /\ conn[i] = 0
      /\ conn \in [SlotSet -> 0 .. nconn]
  BY DEF DccpInit
<1>2. IsFiniteSet(DOMAIN open)
  BY <1>1, FS_EmptySet
<1>3. Books(fd, active, open)
  BY <1>1, <1>2 DEF Books
<1>4. Current(ready, active) /\ AnswersAsked
  BY DEF DccpInit, Current, AnswersAsked
<1>5. Rotates
  BY <1>1 DEF Rotates, Older
<1>6. QED
  BY <1>1, <1>3, <1>4, <1>5, SlotFacts DEF DccpInit, IInv

LEMMA Step == IInv /\ [DccpNext]_dccpVars => IInv'
<1> SUFFICES ASSUME IInv, [DccpNext]_dccpVars
             PROVE  IInv'
  OBVIOUS
<1>1. CASE \E evs \in SUBSET Events \ {{}} : Poll(evs)
  BY <1>1, PollKeeps
<1>2. CASE RoundDone
  BY <1>2, RoundDoneKeeps
<1>3. CASE Accept
  BY <1>3, AcceptKeeps
<1>4. CASE AcceptFails
  BY <1>4, AcceptFailsKeeps
<1>5. CASE GoingDown
  BY <1>5, GoingDownKeeps
<1>6. CASE \E e \in ready : \E r \in Requests : DataAnswer(e, r)
  BY <1>6, DataAnswerKeeps
<1>7. CASE \E e \in ready : DataClose(e)
  BY <1>7, DataCloseKeeps
<1>8. CASE UNCHANGED dccpVars
  BY <1>8 DEF dccpVars, IInv, Books, Current, Rotates, Older, SlotSet, AnswersAsked, websvc_secdef
<1>9. QED
  BY <1>1, <1>2, <1>3, <1>4, <1>5, <1>6, <1>7, <1>8 DEF DccpNext

-----------------------------------------------------------------------------

LEMMA Invariant == DccpSpec => []IInv
<1>1. QED
  BY InitRight, Step, PTL DEF DccpSpec

\* However connections come, go, fail to be accepted or make way: each open one
\* is in one slot, and no slot holds a descriptor that was closed.
THEOREM Owned == DccpSpec => []SlotsOwnFds
<1>1. IInv => SlotsOwnFds
  <2> SUFFICES ASSUME IInv
               PROVE  SlotsOwnFds
    OBVIOUS
  <2>1. active = {i \in SlotSet : fd[i] > 0}
    BY DEF IInv, Books
  <2>2. QED
    BY <2>1 DEF IInv, Books, SlotsOwnFds
<1>2. QED
  BY <1>1, Invariant, PTL

\* An answer goes to the connection that asked, with the definition it asked
\* for, though slots and descriptors change hands between poll and callback.
THEOREM Answered == DccpSpec => []AnswersAsked
<1>1. IInv => AnswersAsked
  BY DEF IInv
<1>2. QED
  BY <1>1, Invariant, PTL

\* The connection that makes way is the oldest of those in the slots.
THEOREM OldestGoes == DccpSpec => EvictsOldest
<1>1. IInv /\ (Accept \/ AcceptFails) =>
          \A i \in active : next \in active => conn[next] <= conn[i]
  <2> SUFFICES ASSUME IInv, NEW i \in active
               PROVE  conn[next] <= conn[i]
    OBVIOUS
  <2>1. i \in SlotSet /\ next \in SlotSet /\ Rotates /\ i \in Int /\ next \in Int
        /\ conn[next] \in Int
    BY SlotFacts DEF IInv, Books
  <2>2. CASE i < next
    BY <2>1, <2>2 DEF Rotates, Older
  <2>3. CASE i = next
    BY <2>1, <2>3
  <2>4. CASE i > next
    BY <2>1, <2>4 DEF Rotates, Older
  <2>5. QED
    BY <2>1, <2>2, <2>3, <2>4
<1>2. QED
  BY <1>1, Invariant, PTL DEF EvictsOldest, DccpSpec

-----------------------------------------------------------------------------
(* The digits of a number and the declets they are packed in.               *)

\* The last three digits of a number, one by one.
LEMMA ThreeDigits ==
    ASSUME NEW x \in Nat
    PROVE  x % 1000 = 100 * ((x \div 100) % 10) + 10 * ((x \div 10) % 10) + (x % 10)
<1>1. x \div 10 \in Nat
  BY DivMod
<1>2. x % 100 = (x % 10) + 10 * ((x \div 10) % 10)
  <2>1. InTwo(x, 10, 10)
    BY DivDiv
  <2>2. QED
    BY <2>1 DEF InTwo
<1>3. x % 1000 = (x % 100) + 100 * ((x \div 100) % 10)
  <2>1. InTwo(x, 100, 10)
    BY DivDiv
  <2>2. QED
    BY <2>1 DEF InTwo
<1>4. (x \div 100) % 10 \in 0 .. 9 /\ (x \div 10) % 10 \in 0 .. 9 /\ x % 10 \in 0 .. 9
  BY DivMod
<1>5. QED
  BY <1>2, <1>3, <1>4

Digit == 0 .. 9

Even == {0, 2, 4, 6}

\* A digit is its upper bits and its last, and the two can be taken apart.
LEMMA Bits ==
    /\ \A d \in Digit : /\ lo(d) \in {0, 1}
                        /\ d <= 7 => up(d) \in Even /\ d = up(d) + lo(d)
                        /\ d > 7 => d = 8 + lo(d)
    /\ \A u \in Even \cup {8, 10, 12, 14}, b \in {0, 1} :
          lo(u + b) = b /\ up(u + b) = u /\ (u + b) \div 2 = u \div 2
<1>1. ASSUME NEW d \in Digit
      PROVE  /\ lo(d) \in {0, 1}
             /\ d <= 7 => up(d) \in Even /\ d = up(d) + lo(d)
             /\ d > 7 => d = 8 + lo(d)
  BY DEF Digit, Even, up, lo
<1>2. ASSUME NEW u \in Even \cup {8, 10, 12, 14}, NEW b \in {0, 1}
      PROVE  lo(u + b) = b /\ up(u + b) = u /\ (u + b) \div 2 = u \div 2
  BY DEF Even, up, lo
<1>3. QED
  BY <1>1, <1>2

\* What unpack_declet makes of each form.
LEMMA Forms ==
    ASSUME NEW h \in Nat, NEW m \in Nat, NEW l \in Nat
    PROVE  LET u == unpack_declet(<<h, m, l>>) IN
           /\ l < 10 => u = <<h, m, l>>
           /\ l \in {10, 11} => u = <<h, 8 + lo(m), up(m) + lo(l)>>
           /\ l \in {12, 13} => u = <<8 + lo(h), m, up(h) + lo(l)>>
           /\ l \in {14, 15} =>
                 /\ m \div 2 = 2 => u = <<h, 8 + lo(m), 8 + lo(l)>>
                 /\ m \div 2 = 1 => u = <<8 + lo(h), up(h) + lo(m), 8 + lo(l)>>
                 /\ m \div 2 = 0 => u = <<8 + lo(h), 8 + lo(m), up(h) + lo(l)>>
                 /\ m \div 2 = 3 => u = <<8 + lo(h), 8 + lo(m), 8 + lo(l)>>
<1> DEFINE n == m \div 2
<1>1. <<h, m, l>>[1] = h /\ <<h, m, l>>[2] = m /\ <<h, m, l>>[3] = l
  OBVIOUS
<1>2. l < 10 => unpack_declet(<<h, m, l>>) = <<h, m, l>>
  BY <1>1 DEF unpack_declet
<1>3. l \in {10, 11} => unpack_declet(<<h, m, l>>) = <<h, 8 + lo(m), up(m) + lo(l)>>
  BY <1>1 DEF unpack_declet
<1>4. l \in {12, 13} => unpack_declet(<<h, m, l>>) = <<8 + lo(h), m, up(h) + lo(l)>>
  BY <1>1 DEF unpack_declet
<1> HIDE DEF n
<1>5. ASSUME l \in {14, 15}
      PROVE  /\ n = 2 => unpack_declet(<<h, m, l>>) = <<h, 8 + lo(m), 8 + lo(l)>>
             /\ n = 1 => unpack_declet(<<h, m, l>>) = <<8 + lo(h), up(h) + lo(m), 8 + lo(l)>>
             /\ n = 0 => unpack_declet(<<h, m, l>>) = <<8 + lo(h), 8 + lo(m), up(h) + lo(l)>>
             /\ n = 3 => unpack_declet(<<h, m, l>>) = <<8 + lo(h), 8 + lo(m), 8 + lo(l)>>
  <2>1. ~(l < 10) /\ l \notin {10, 11} /\ l \notin {12, 13}
    BY <1>5
  <2>2. n = 2 => unpack_declet(<<h, m, l>>) = <<h, 8 + lo(m), 8 + lo(l)>>
    BY <1>1, <1>5, <2>1 DEF unpack_declet, n
  <2>3. n = 1 => unpack_declet(<<h, m, l>>) = <<8 + lo(h), up(h) + lo(m), 8 + lo(l)>>
    BY <1>1, <1>5, <2>1 DEF unpack_declet, n
  <2>4. n = 0 => unpack_declet(<<h, m, l>>) = <<8 + lo(h), 8 + lo(m), up(h) + lo(l)>>
    BY <1>1, <1>5, <2>1 DEF unpack_declet, n
  <2>5. n = 3 => unpack_declet(<<h, m, l>>) = <<8 + lo(h), 8 + lo(m), 8 + lo(l)>>
    BY <1>1, <1>5, <2>1 DEF unpack_declet, n
  <2>6. QED
    BY <2>2, <2>3, <2>4, <2>5
<1>6. QED
  BY <1>2, <1>3, <1>4, <1>5 DEF n

\* What is packed is unpacked.
LEMMA Declet ==
    ASSUME NEW a \in Digit, NEW b \in Digit, NEW c \in Digit
    PROVE  unpack_declet(pack_declet(a, b, c)) = <<a, b, c>>
<1>0. \A d \in Digit : (d <= 7 => d \div 8 = 0) /\ (d > 7 => d \div 8 = 1)
  BY DEF Digit
<1>1. CASE a <= 7 /\ b <= 7 /\ c <= 7
  <2>1. a \div 8 = 0 /\ b \div 8 = 0 /\ c \div 8 = 0
    BY <1>0, <1>1
  <2>2. 4 * (a \div 8) + 2 * (b \div 8) + (c \div 8) = 0
    BY <2>1
  <2>3. pack_declet(a, b, c) = <<a, b, c>>
    BY <2>2 DEF pack_declet
  <2>4. /\ a \in Nat /\ b \in Nat
        /\ c \in Nat /\ c < 10
    BY <1>1, Bits DEF Even, Digit
  <2>6. QED
    BY <1>1, <2>3, <2>4, Forms, Bits
<1>2. CASE a <= 7 /\ b <= 7 /\ c > 7
  <2>1. a \div 8 = 0 /\ b \div 8 = 0 /\ c \div 8 = 1
    BY <1>0, <1>2
  <2>2. 4 * (a \div 8) + 2 * (b \div 8) + (c \div 8) = 1
    BY <2>1
  <2>3. pack_declet(a, b, c) = <<a, b, 8 + lo(c)>>
    BY <2>2 DEF pack_declet
  <2>4. /\ a \in Nat /\ b \in Nat
        /\ 8 + lo(c) \in Nat /\ 8 + lo(c) < 10
    BY <1>2, Bits DEF Even, Digit
  <2>6. QED
    BY <1>2, <2>3, <2>4, Forms, Bits
<1>3. CASE a <= 7 /\ b > 7 /\ c <= 7
  <2>1. a \div 8 = 0 /\ b \div 8 = 1 /\ c \div 8 = 0
    BY <1>0, <1>3
  <2>2. 4 * (a \div 8) + 2 * (b \div 8) + (c \div 8) = 2
    BY <2>1
  <2>3. pack_declet(a, b, c) = <<a, up(c) + lo(b), 10 + lo(c)>>
    BY <2>2 DEF pack_declet
  <2>4. /\ a \in Nat /\ up(c) + lo(b) \in Nat
        /\ 10 + lo(c) \in Nat /\ 10 + lo(c) \in {10, 11}
    BY <1>3, Bits DEF Even, Digit
  <2>5. /\ lo(up(c) + lo(b)) = lo(b) /\ up(up(c) + lo(b)) = up(c)
        /\ lo(10 + lo(c)) = lo(c)
    BY <1>3, Bits DEF Even
  <2>6. QED
    BY <1>3, <2>3, <2>4, <2>5, Forms, Bits
<1>4. CASE a <= 7 /\ b > 7 /\ c > 7
  <2>1. a \div 8 = 0 /\ b \div 8 = 1 /\ c \div 8 = 1
    BY <1>0, <1>4
  <2>2. 4 * (a \div 8) + 2 * (b \div 8) + (c \div 8) = 3
    BY <2>1
  <2>3. pack_declet(a, b, c) = <<a, 4 + lo(b), 14 + lo(c)>>
    BY <2>2 DEF pack_declet
  <2>4. /\ a \in Nat /\ 4 + lo(b) \in Nat
        /\ 14 + lo(c) \in Nat /\ 14 + lo(c) \in {14, 15} /\ (4 + lo(b)) \div 2 = 2
    BY <1>4, Bits DEF Even, Digit
  <2>5. lo(4 + lo(b)) = lo(b) /\ lo(14 + lo(c)) = lo(c)
    BY <1>4, Bits DEF Even
  <2>6. QED
    BY <1>4, <2>3, <2>4, <2>5, Forms, Bits
<1>5. CASE a > 7 /\ b <= 7 /\ c <= 7
  <2>1. a \div 8 = 1 /\ b \div 8 = 0 /\ c \div 8 = 0
    BY <1>0, <1>5
  <2>2. 4 * (a \div 8) + 2 * (b \div 8) + (c \div 8) = 4
    BY <2>1
  <2>3. pack_declet(a, b, c) = <<up(c) + lo(a), b, 12 + lo(c)>>
    BY <2>2 DEF pack_declet
  <2>4. /\ up(c) + lo(a) \in Nat /\ b \in Nat
        /\ 12 + lo(c) \in Nat /\ 12 + lo(c) \in {12, 13}
    BY <1>5, Bits DEF Even, Digit
  <2>5. /\ lo(up(c) + lo(a)) = lo(a) /\ up(up(c) + lo(a)) = up(c)
        /\ lo(12 + lo(c)) = lo(c)
    BY <1>5, Bits DEF Even
  <2>6. QED
    BY <1>5, <2>3, <2>4, <2>5, Forms, Bits
<1>6. CASE a > 7 /\ b <= 7 /\ c > 7
  <2>1. a \div 8 = 1 /\ b \div 8 = 0 /\ c \div 8 = 1
    BY <1>0, <1>6
  <2>2. 4 * (a \div 8) + 2 * (b \div 8) + (c \div 8) = 5
    BY <2>1
  <2>3. pack_declet(a, b, c) = <<up(b) + lo(a), 2 + lo(b), 14 + lo(c)>>
    BY <2>2 DEF pack_declet
  <2>4. /\ up(b) + lo(a) \in Nat /\ 2 + lo(b) \in Nat
        /\ 14 + lo(c) \in Nat /\ 14 + lo(c) \in {14, 15} /\ (2 + lo(b)) \div 2 = 1
    BY <1>6, Bits DEF Even, Digit
  <2>5. /\ lo(up(b) + lo(a)) = lo(a) /\ up(up(b) + lo(a)) = up(b)
        /\ lo(2 + lo(b)) = lo(b) /\ lo(14 + lo(c)) = lo(c)
    BY <1>6, Bits DEF Even
  <2>6. QED
    BY <1>6, <2>3, <2>4, <2>5, Forms, Bits
<1>7. CASE a > 7 /\ b > 7 /\ c <= 7
  <2>1. a \div 8 = 1 /\ b \div 8 = 1 /\ c \div 8 = 0
    BY <1>0, <1>7
  <2>2. 4 * (a \div 8) + 2 * (b \div 8) + (c \div 8) = 6
    BY <2>1
  <2>3. pack_declet(a, b, c) = <<up(c) + lo(a), lo(b), 14 + lo(c)>>
    BY <2>2 DEF pack_declet
  <2>4. /\ up(c) + lo(a) \in Nat /\ lo(b) \in Nat
        /\ 14 + lo(c) \in Nat /\ 14 + lo(c) \in {14, 15} /\ lo(b) \div 2 = 0
    BY <1>7, Bits DEF Even, Digit
  <2>5. /\ lo(up(c) + lo(a)) = lo(a) /\ up(up(c) + lo(a)) = up(c)
        /\ lo(lo(b)) = lo(b) /\ lo(14 + lo(c)) = lo(c)
    BY <1>7, Bits DEF Even
  <2>6. QED
    BY <1>7, <2>3, <2>4, <2>5, Forms, Bits
<1>8. CASE a > 7 /\ b > 7 /\ c > 7
  <2>1. a \div 8 = 1 /\ b \div 8 = 1 /\ c \div 8 = 1
    BY <1>0, <1>8
  <2>2. 4 * (a \div 8) + 2 * (b \div 8) + (c \div 8) = 7
    BY <2>1
  <2>3. pack_declet(a, b, c) = <<lo(a), 6 + lo(b), 14 + lo(c)>>
    BY <2>2 DEF pack_declet
  <2>4. /\ lo(a) \in Nat /\ 6 + lo(b) \in Nat
        /\ 14 + lo(c) \in Nat /\ 14 + lo(c) \in {14, 15} /\ (6 + lo(b)) \div 2 = 3
    BY <1>8, Bits DEF Even, Digit
  <2>5. /\ lo(lo(a)) = lo(a) /\ lo(6 + lo(b)) = lo(b)
        /\ lo(14 + lo(c)) = lo(c)
    BY <1>8, Bits DEF Even
  <2>6. QED
    BY <1>8, <2>3, <2>4, <2>5, Forms, Bits
<1>9. QED
  BY <1>1, <1>2, <1>3, <1>4, <1>5, <1>6, <1>7, <1>8 DEF Digit
-----------------------------------------------------------------------------
(* Powers of ten, and what is defined digit by digit.                       *)

\* Pow10 is what its definition says: there is such a function.
LEMMA Powers ==
    /\ Pow10 \in [Nat -> Nat]
    /\ Pow10[0] = 1 /\ \A n \in Nat : Pow10[n + 1] = 10 * Pow10[n]
    /\ \A n \in Nat : Pow10[n] > n /\ Pow10[n] \in Nat \ {0}
<1> DEFINE F == [x \in Nat \X Nat |-> 10 * x[2]]
<1>1. PICK g \in [Nat -> Nat] : Recurs(g, 1, F)
  <2>1. F \in [Nat \X Nat -> Nat]
    OBVIOUS
  <2> HIDE DEF F
  <2>2. QED
    BY <2>1, Recursion
<1>2. g[0] = 1 /\ \A n \in Nat : g[n + 1] = 10 * g[n]
  BY <1>1 DEF Recurs
<1>3. g = [k \in Nat |-> IF k = 0 THEN 1 ELSE 10 * g[k - 1]]
  <2>1. ASSUME NEW k \in Nat, k # 0
        PROVE  g[k] = 10 * g[k - 1]
    <3> DEFINE m == k - 1
    <3>1. m \in Nat /\ m + 1 = k
      BY <2>1
    <3>2. g[m + 1] = 10 * g[m]
      <4> HIDE DEF m
      <4>1. QED
        BY <1>2, <3>1
    <3>3. QED
      BY <3>1, <3>2
  <2>2. QED
    BY <1>2, <2>1
<1>4. Pow10 = [k \in Nat |-> IF k = 0 THEN 1 ELSE 10 * Pow10[k - 1]]
  <2> DEFINE P(f) == f = [k \in Nat |-> IF k = 0 THEN 1 ELSE 10 * f[k - 1]]
  <2>1. P(CHOOSE f : P(f))
    <3>1. \E f : P(f)
      BY <1>3
    <3> HIDE DEF P
    <3>2. QED
      BY <3>1
  <2>2. Pow10 = CHOOSE f : P(f)
    BY DEF Pow10
  <2>3. P(Pow10)
    <3> HIDE DEF P
    <3>1. QED
      BY <2>1, <2>2
  <2>4. QED
    BY <2>3
<1>5. Pow10[0] = 1 /\ \A n \in Nat : Pow10[n + 1] = 10 * Pow10[n]
  <2>1. \A k \in Nat : Pow10[k] = IF k = 0 THEN 1 ELSE 10 * Pow10[k - 1]
    BY <1>4
  <2>2. ASSUME NEW n \in Nat
        PROVE  Pow10[n + 1] = 10 * Pow10[n]
    <3>1. n + 1 \in Nat /\ n + 1 # 0 /\ (n + 1) - 1 = n
      OBVIOUS
    <3>2. QED
      BY <2>1, <3>1
  <2>3. QED
    BY <2>1, <2>2
<1> DEFINE B == {k \in Nat : Pow10[k] \in Nat /\ Pow10[k] > k}
<1>6. Nat \subseteq B
  <2>1. 0 \in B
    BY <1>5
  <2>2. ASSUME NEW n \in Nat, n \in B
        PROVE  n + 1 \in B
    <3>1. Pow10[n + 1] = 10 * Pow10[n] /\ Pow10[n] \in Nat /\ Pow10[n] > n
      BY <1>5, <2>2
    <3>2. ASSUME NEW p \in Nat, p > n
          PROVE  10 * p \in Nat /\ 10 * p > n + 1
      BY <3>2
    <3>3. Pow10[n + 1] \in Nat /\ Pow10[n + 1] > n + 1 /\ n + 1 \in Nat
      BY <3>1, <3>2
    <3>4. QED
      BY <3>3
  <2> HIDE DEF B
  <2>3. QED
    BY <2>1, <2>2, Induction
<1>7. ASSUME NEW n \in Nat
      PROVE  Pow10[n] > n /\ Pow10[n] \in Nat \ {0}
  <2>1. n \in B
    BY <1>6
  <2>2. QED
    BY <2>1
<1>8. Pow10 \in [Nat -> Nat]
  <2>1. \A n \in Nat : Pow10[n] \in Nat
    BY <1>7
  <2>2. Pow10 = [k \in Nat |-> Pow10[k]]
    BY <1>4
  <2>3. QED
    BY <2>1, <2>2
<1>9. QED
  BY <1>5, <1>7, <1>8

\* 10^(n + k) is 10^n times 10^k.
LEMMA PowerSum ==
    ASSUME NEW n \in Nat, NEW k \in Nat
    PROVE  Pow10[n + k] = Pow10[n] * Pow10[k]
<1> DEFINE B == {j \in Nat : Pow10[n + j] = Pow10[n] * Pow10[j]}
<1>1. 0 \in B
  BY Powers
<1>2. ASSUME NEW j \in Nat, j \in B
      PROVE  j + 1 \in B
  <2>1. Pow10[n + (j + 1)] = 10 * Pow10[n + j]
    <3>1. n + j \in Nat /\ n + (j + 1) = (n + j) + 1
      OBVIOUS
    <3>2. QED
      BY <3>1, Powers
  <2>2. Pow10[n + j] = Pow10[n] * Pow10[j] /\ Pow10[j + 1] = 10 * Pow10[j]
    BY <1>2, Powers
  <2>3. Pow10[n] \in Nat /\ Pow10[j] \in Nat
    BY Powers
  <2>4. Pow10[n] * (10 * Pow10[j]) = 10 * (Pow10[n] * Pow10[j])
    BY <2>3
  <2>5. QED
    BY <2>1, <2>2, <2>4
<1>3. Nat \subseteq B
  <2> HIDE DEF B
  <2>1. QED
    BY <1>1, <1>2, Induction
<1>4. QED
  BY <1>3

\* More zeros are more.
LEMMA PowersGrow ==
    ASSUME NEW n \in Nat, NEW k \in Nat, n <= k
    PROVE  Pow10[n] <= Pow10[k]
<1>1. k - n \in Nat /\ n + (k - n) = k
  OBVIOUS
<1>2. Pow10[k] = Pow10[n] * Pow10[k - n]
  BY <1>1, PowerSum
<1>3. Pow10[k - n] >= 1 /\ Pow10[k - n] \in Nat /\ Pow10[n] \in Nat
  BY <1>1, Powers
<1>4. Pow10[n] * 1 <= Pow10[n] * Pow10[k - n]
  BY <1>3, Times
<1>5. QED
  BY <1>2, <1>3, <1>4

\* What NumOf reads, digit by digit.
LEMMA Spelt ==
    ASSUME NEW ds \in Seq(Digit)
    PROVE  \E v : /\ v[0] = 0
                  /\ \A n \in 1 .. Len(ds) : v[n] = 10 * v[n - 1] + ds[n]
                  /\ NumOf(ds) = v[Len(ds)]
<1> DEFINE F == [x \in Nat \X Nat |-> IF x[1] < Len(ds) THEN 10 * x[2] + ds[x[1] + 1] ELSE 0]
           P(f) == f = [n \in 0 .. Len(ds) |-> IF n = 0 THEN 0 ELSE 10 * f[n - 1] + ds[n]]
<1>1. Len(ds) \in Nat /\ \A n \in 1 .. Len(ds) : ds[n] \in Nat
  BY LenProperties, ElementOfSeq DEF Digit
<1>2. F \in [Nat \X Nat -> Nat]
  <2> SUFFICES ASSUME NEW n \in Nat, NEW x \in Nat
               PROVE  (IF n < Len(ds) THEN 10 * x + ds[n + 1] ELSE 0) \in Nat
    OBVIOUS
  <2>1. n < Len(ds) => ds[n + 1] \in Nat
    BY <1>1
  <2>2. QED
    BY <2>1
<1>3. \A n \in 1 .. Len(ds), x \in Nat : F[<<n - 1, x>>] = 10 * x + ds[n]
  BY <1>1
<1> HIDE DEF F
<1>4. PICK g \in [0 .. Len(ds) -> Nat] :
          g[0] = 0 /\ \A n \in 1 .. Len(ds) : g[n] = F[<<n - 1, g[n - 1]>>]
  <2> DEFINE N == Len(ds)
  <2>1. N \in Nat
    BY <1>1
  <2> HIDE DEF N
  <2>2. \E g \in [0 .. N -> Nat] : g[0] = 0 /\ \A n \in 1 .. N : g[n] = F[<<n - 1, g[n - 1]>>]
    <3> DEFINE S == Nat
               a == 0
    <3>1. a \in S /\ F \in [Nat \X S -> S]
      BY <1>2
    <3> HIDE DEF S, a
    <3>2. \E g \in [0 .. N -> S] : RecursTo(g, a, F, N)
      BY <2>1, <3>1, RecursionTo
    <3>3. QED
      BY <3>2 DEF S, a, RecursTo
  <2>3. QED
    BY <2>2 DEF N
<1>5. \A n \in 1 .. Len(ds) : g[n] = 10 * g[n - 1] + ds[n]
  <2> SUFFICES ASSUME NEW n \in 1 .. Len(ds)
               PROVE  g[n] = 10 * g[n - 1] + ds[n]
    OBVIOUS
  <2>1. n - 1 \in 0 .. Len(ds)
    BY <1>1
  <2>2. g[n - 1] \in Nat
    BY <2>1
  <2>3. QED
    BY <1>3, <1>4, <2>2
<1>6. P(g)
  BY <1>1, <1>4, <1>5
<1>7. P(CHOOSE f : P(f))
  <2> HIDE DEF P
  <2>1. QED
    BY <1>6
<1> DEFINE v == CHOOSE f : P(f)
<1>8. NumOf(ds) = v[Len(ds)]
  BY DEF NumOf
<1> HIDE DEF v
<1>9. P(v)
  BY <1>7 DEF v
<1>10. v[0] = 0 /\ \A n \in 1 .. Len(ds) : v[n] = 10 * v[n - 1] + ds[n]
  BY <1>1, <1>9
<1>11. QED
  BY <1>8, <1>10

\* A number of n digits is below 10^n.
LEMMA NumBelow ==
    ASSUME NEW ds \in Seq(Digit)
    PROVE  NumOf(ds) \in Nat /\ NumOf(ds) < Pow10[Len(ds)]
<1>1. PICK v : /\ v[0] = 0
               /\ \A n \in 1 .. Len(ds) : v[n] = 10 * v[n - 1] + ds[n]
               /\ NumOf(ds) = v[Len(ds)]
  BY Spelt
<1>2. Len(ds) \in Nat /\ \A n \in 1 .. Len(ds) : ds[n] \in Digit
  BY LenProperties, ElementOfSeq
<1> DEFINE B == {n \in Nat : v[n] \in Nat /\ v[n] < Pow10[n]}
<1>3. 0 \in B
  BY <1>1, Powers
<1>4. ASSUME NEW n \in Nat, n < Len(ds), n \in B
      PROVE  n + 1 \in B
  <2>1. n + 1 \in 1 .. Len(ds) /\ (n + 1) - 1 = n
    BY <1>2, <1>4
  <2>2. v[n + 1] = 10 * v[n] + ds[n + 1] /\ ds[n + 1] \in 0 .. 9
    BY <1>1, <1>2, <2>1 DEF Digit
  <2>3. Pow10[n + 1] = 10 * Pow10[n] /\ Pow10[n] \in Nat
    BY Powers
  <2>4. v[n] \in Nat /\ v[n] < Pow10[n]
    BY <1>4
  <2>5. 10 * v[n] + ds[n + 1] \in Nat /\ 10 * v[n] + ds[n + 1] < 10 * Pow10[n]
    <3>1. ASSUME NEW x \in Nat, NEW p \in Nat, NEW d \in 0 .. 9, x < p
          PROVE  10 * x + d \in Nat /\ 10 * x + d < 10 * p
      BY <3>1
    <3>2. QED
      BY <2>2, <2>3, <2>4, <3>1
  <2>6. n + 1 \in Nat
    OBVIOUS
  <2>7. QED
    BY <2>2, <2>3, <2>5, <2>6
<1>5. 0 .. Len(ds) \subseteq B
  <2> HIDE DEF B
  <2>1. QED
    BY <1>2, <1>3, <1>4, InductionTo
<1>6. QED
  BY <1>1, <1>2, <1>5

\* What undeclet adds up, declet by declet.
LEMMA Summed ==
    ASSUME NEW ds, NEW n \in Nat, Len(ds) = n,
           \A i \in 1 .. n : three(unpack_declet(ds[i])) \in Nat
    PROVE  \E v : /\ v[0] = 0
                  /\ \A i \in 1 .. n :
                        v[i] = v[i - 1] + three(unpack_declet(ds[i])) * Pow10[3 * (i - 1)]
                  /\ undeclet(ds) = v[n]
<1> DEFINE w(i) == three(unpack_declet(ds[i])) * Pow10[3 * (i - 1)]
           F == [x \in Nat \X Nat |-> IF x[1] < n THEN x[2] + w(x[1] + 1) ELSE 0]
           P(f) == f = [i \in 0 .. Len(ds) |-> IF i = 0 THEN 0
                           ELSE f[i - 1] + three(unpack_declet(ds[i])) * Pow10[3 * (i - 1)]]
<1>1. \A i \in 1 .. n : w(i) \in Nat
  <2> SUFFICES ASSUME NEW i \in 1 .. n
               PROVE  w(i) \in Nat
    OBVIOUS
  <2>1. 3 * (i - 1) \in Nat
    OBVIOUS
  <2>2. three(unpack_declet(ds[i])) \in Nat /\ Pow10[3 * (i - 1)] \in Nat
    BY <2>1, Powers
  <2>3. QED
    BY <2>2, Times
<1> HIDE DEF w
<1>2. F \in [Nat \X Nat -> Nat]
  <2> SUFFICES ASSUME NEW i \in Nat, NEW x \in Nat
               PROVE  (IF i < n THEN x + w(i + 1) ELSE 0) \in Nat
    OBVIOUS
  <2>1. i < n => w(i + 1) \in Nat
    BY <1>1
  <2>2. QED
    BY <2>1
<1>3. \A i \in 1 .. n, x \in Nat : F[<<i - 1, x>>] = x + w(i)
  BY <1>1
<1> HIDE DEF F
<1>4. PICK g \in [0 .. n -> Nat] : g[0] = 0 /\ \A i \in 1 .. n : g[i] = F[<<i - 1, g[i - 1]>>]
  <2> DEFINE S == Nat
             a == 0
  <2>1. a \in S /\ F \in [Nat \X S -> S]
    BY <1>2
  <2> HIDE DEF S, a
  <2>2. \E g \in [0 .. n -> S] : RecursTo(g, a, F, n)
    BY <2>1, RecursionTo
  <2>3. QED
    BY <2>2 DEF S, a, RecursTo
<1>5. \A i \in 1 .. n : g[i] = g[i - 1] + w(i)
  <2> SUFFICES ASSUME NEW i \in 1 .. n
               PROVE  g[i] = g[i - 1] + w(i)
    OBVIOUS
  <2>1. g[i - 1] \in Nat
    OBVIOUS
  <2>2. QED
    BY <1>3, <1>4, <2>1
<1>6. P(g)
  BY <1>4, <1>5 DEF w
<1>7. P(CHOOSE f : P(f))
  <2> HIDE DEF P
  <2>1. QED
    BY <1>6
<1> DEFINE v == CHOOSE f : P(f)
<1>8. undeclet(ds) = v[n]
  BY DEF undeclet
<1> HIDE DEF v
<1>9. P(v)
  BY <1>7 DEF v
<1>10. v[0] = 0
  BY <1>9
<1>11. \A i \in 1 .. n :
          v[i] = v[i - 1] + three(unpack_declet(ds[i])) * Pow10[3 * (i - 1)]
  BY <1>9
<1>12. QED
  BY <1>8, <1>10, <1>11

\* The declet of a place holds the three digits there.
LEMMA ThreeOf ==
    ASSUME NEW m \in Nat, NEW n \in Nat, NEW i \in 1 .. n
    PROVE  three(unpack_declet(declets(m, n)[i])) = (m \div Pow10[3 * (i - 1)]) % 1000
<1> DEFINE k == 3 * (i - 1)
           x == m \div Pow10[k]
<1>1. k \in Nat /\ 3 * i - 3 = k /\ 3 * i - 2 = k + 1 /\ 3 * i - 1 = (k + 1) + 1
  OBVIOUS
<1>2. declets(m, n)[i] = pack_declet(digit(m, (k + 1) + 1), digit(m, k + 1), digit(m, k))
  BY <1>1 DEF declets
<1> HIDE DEF k
<1>3. Pow10[k] \in Nat \ {0} /\ Pow10[k + 1] = Pow10[k] * 10
      /\ Pow10[(k + 1) + 1] = Pow10[k] * 100
  <2>1. k + 1 \in Nat
    BY <1>1
  <2>2. Pow10[k] \in Nat \ {0} /\ Pow10[k + 1] = 10 * Pow10[k]
        /\ Pow10[(k + 1) + 1] = 10 * Pow10[k + 1]
    BY <1>1, <2>1, Powers
  <2>3. QED
    BY <2>2
<1>4. x \in Nat
  BY <1>3, DivMod
<1>5. digit(m, k) = x % 10
  BY DEF digit
<1>6. digit(m, k + 1) = (x \div 10) % 10
  <2>1. InTwo(m, Pow10[k], 10)
    BY <1>3, DivDiv
  <2>2. QED
    BY <1>3, <2>1 DEF InTwo, digit
<1>7. digit(m, (k + 1) + 1) = (x \div 100) % 10
  <2>1. InTwo(m, Pow10[k], 100)
    BY <1>3, DivDiv
  <2>2. QED
    BY <1>3, <2>1 DEF InTwo, digit
<1> HIDE DEF x
<1>8. x % 10 \in Digit /\ (x \div 10) % 10 \in Digit /\ (x \div 100) % 10 \in Digit
  <2>1. x \div 10 \in Nat /\ x \div 100 \in Nat
    BY <1>4, DivMod
  <2>2. QED
    BY <1>4, <2>1, DivMod DEF Digit
<1>9. unpack_declet(declets(m, n)[i]) = <<(x \div 100) % 10, (x \div 10) % 10, x % 10>>
  BY <1>2, <1>5, <1>6, <1>7, <1>8, Declet
<1>10. three(<<(x \div 100) % 10, (x \div 10) % 10, x % 10>>) = x % 1000
  BY <1>4, ThreeDigits DEF three
<1>11. QED
  BY <1>9, <1>10 DEF x, k

\* The digits packed in declets are the number's lowest.
LEMMA Unpacked ==
    ASSUME NEW m \in Nat, NEW n \in Nat
    PROVE  undeclet(declets(m, n)) = m % Pow10[3 * n]
<1> DEFINE ds == declets(m, n)
           T(i) == (m \div Pow10[3 * (i - 1)]) % 1000
<1>1. \A i \in 1 .. n : three(unpack_declet(ds[i])) = T(i)
  BY ThreeOf
<1>2. Len(ds) = n
  BY DEF declets
<1> HIDE DEF ds
<1>3. \A i \in 1 .. n : T(i) \in Nat
  <2> SUFFICES ASSUME NEW i \in 1 .. n
               PROVE  T(i) \in Nat
    OBVIOUS
  <2>1. 3 * (i - 1) \in Nat
    OBVIOUS
  <2>2. m \div Pow10[3 * (i - 1)] \in Nat
    BY <2>1, Powers, DivMod
  <2>3. QED
    BY <2>2, DivMod
<1> HIDE DEF T
<1>4. PICK v : /\ v[0] = 0
               /\ \A i \in 1 .. n :
                     v[i] = v[i - 1] + three(unpack_declet(ds[i])) * Pow10[3 * (i - 1)]
               /\ undeclet(ds) = v[n]
  <2>1. \A i \in 1 .. n : three(unpack_declet(ds[i])) \in Nat
    BY <1>1, <1>3
  <2>2. QED
    BY <1>2, <2>1, Summed
<1> DEFINE B == {i \in Nat : v[i] = m % Pow10[3 * i]}
<1>5. 0 \in B
  <2>1. m % 1 = 0 /\ 3 * 0 = 0
    OBVIOUS
  <2>2. QED
    BY <1>4, <2>1, Powers
<1>6. ASSUME NEW i \in Nat, i < n, i \in B
      PROVE  i + 1 \in B
  <2> DEFINE p == Pow10[3 * i]
  <2>1. i + 1 \in 1 .. n /\ (i + 1) - 1 = i /\ 3 * i \in Nat
    BY <1>6
  <2>2. p \in Nat \ {0} /\ Pow10[3 * (i + 1)] = p * 1000
    <3>1. 3 * i + 1 \in Nat /\ 3 * i + 2 \in Nat /\ 3 * (i + 1) = (3 * i + 2) + 1
          /\ 3 * i + 2 = (3 * i + 1) + 1
      OBVIOUS
    <3>2. Pow10[3 * i] \in Nat \ {0} /\ Pow10[3 * i + 1] = 10 * Pow10[3 * i]
      BY <2>1, Powers
    <3>3. Pow10[3 * i + 2] = 10 * Pow10[3 * i + 1] /\ Pow10[3 * (i + 1)] = 10 * Pow10[3 * i + 2]
      BY <3>1, Powers
    <3>4. QED
      BY <3>2, <3>3
  <2>3. v[i + 1] = v[i] + T(i + 1) * p
    BY <1>1, <1>4, <2>1
  <2>4. T(i + 1) = (m \div p) % 1000 /\ T(i + 1) \in Nat
    <3>1. T(i + 1) = (m \div p) % 1000
      BY <2>1 DEF T
    <3>2. QED
      BY <1>3, <2>1, <3>1
  <2>5. v[i] = m % p
    BY <1>6
  <2> HIDE DEF p
  <2>6. m % (p * 1000) = (m % p) + p * ((m \div p) % 1000)
    <3>1. InTwo(m, p, 1000)
      BY <2>2, DivDiv
    <3>2. QED
      BY <3>1 DEF InTwo
  <2>7. m % p \in Nat
    BY <2>2, DivMod
  <2>8. v[i + 1] = m % Pow10[3 * (i + 1)]
    <3>1. T(i + 1) * p = p * T(i + 1)
      BY <2>2, <2>4
    <3>2. QED
      BY <2>2, <2>3, <2>4, <2>5, <2>6, <3>1
  <2>9. QED
    BY <2>8
<1>7. 0 .. n \subseteq B
  <2> HIDE DEF B
  <2>1. QED
    BY <1>5, <1>6, InductionTo
<1>8. QED
  BY <1>4, <1>7 DEF ds

\* A number that is not 0 ends in some number of zeros.
LEMMA Zeros ==
    ASSUME NEW n \in Nat, n # 0
    PROVE  zeros(n) \in 0 .. n /\ n % Pow10[zeros(n)] = 0 /\ n % Pow10[zeros(n) + 1] # 0
<1> DEFINE I == {k \in Nat : n % Pow10[k + 1] # 0}
<1>1. n \in I
  <2>1. Pow10[n] \in Nat \ {0} /\ Pow10[n] > n /\ Pow10[n + 1] = 10 * Pow10[n]
    BY Powers
  <2> DEFINE p == Pow10[n + 1]
  <2>2. p \in Nat \ {0} /\ p > n
    BY <2>1
  <2> HIDE DEF p
  <2>3. n % p = n
    BY <2>2
  <2>4. QED
    BY <2>3 DEF p
<1>2. PICK k \in I : \A j \in I : k <= j
  <2>1. I \subseteq Nat /\ I # {}
    BY <1>1
  <2> HIDE DEF I
  <2>2. QED
    BY <2>1, Least
<1>3. k \in 0 .. n
  <2>1. k \in Nat /\ k <= n
    BY <1>1, <1>2
  <2>2. QED
    BY <2>1
<1>4. n % Pow10[k] = 0
  <2>1. CASE k = 0
    <3>1. n % 1 = 0
      OBVIOUS
    <3>2. QED
      BY <2>1, <3>1, Powers
  <2>2. CASE k # 0
    <3>1. k - 1 \in Nat /\ ~(k <= k - 1) /\ (k - 1) + 1 = k
      BY <1>3, <2>2
    <3>2. k - 1 \notin I
      <4> HIDE DEF I
      <4>1. QED
        BY <1>2, <3>1
    <3>3. n % Pow10[(k - 1) + 1] = 0
      BY <3>1, <3>2
    <3>4. QED
      BY <3>1, <3>3
  <2>3. QED
    BY <2>1, <2>2
<1>5. n % Pow10[k + 1] # 0
  BY <1>2
<1>6. QED
  BY <1>3, <1>4, <1>5 DEF zeros

\* Rounding up goes at most to the next number, and to that if the mask leaves
\* all digits that are not passed over.
LEMMA RoundUp ==
    ASSUME NEW m \in Nat, NEW kept \in Nat
    PROVE  /\ round_bcd(m, FALSE, kept) \in Nat /\ round_bcd(m, FALSE, kept) <= m + 1
           /\ m \div Pow10[zeros(m + 1)] < Pow10[kept] => round_bcd(m, FALSE, kept) = m + 1
<1> DEFINE k == zeros(m + 1)
           p == Pow10[k]
           c == (m + 1) \div p
           e == Pow10[kept]
<1>1. k \in Nat /\ (m + 1) % p = 0
  <2>1. m + 1 \in Nat /\ m + 1 # 0
    OBVIOUS
  <2>2. k \in 0 .. m + 1 /\ (m + 1) % p = 0
    BY <2>1, Zeros
  <2>3. QED
    BY <2>2
<1> HIDE DEF k
<1>2. p \in Nat \ {0} /\ e \in Nat \ {0}
  BY <1>1, Powers
<1>3. round_bcd(m, FALSE, kept) = (((m \div p) % e) + 1) * p
  BY DEF round_bcd, k
<1> HIDE DEF p, e
<1>4. c \in Nat /\ m + 1 = p * c
  <2>1. m + 1 \in Nat
    OBVIOUS
  <2>2. c \in Nat /\ m + 1 = p * c + ((m + 1) % p)
    BY <1>2, <2>1, DivMod
  <2> HIDE DEF c
  <2>3. p * c \in Nat
    BY <1>2, <2>2, Times
  <2>4. QED
    BY <1>1, <2>2, <2>3
<1> HIDE DEF c
<1>5. c - 1 \in Nat /\ m = p * (c - 1) + (p - 1) /\ p - 1 \in 0 .. p - 1
  <2>1. c # 0
    <3>1. p * 0 = 0
      BY <1>2
    <3>2. QED
      BY <1>4, <3>1
  <2>2. p * (c - 1) = p * c - p
    BY <1>2, <1>4
  <2>3. QED
    BY <1>2, <1>4, <2>1, <2>2
<1>6. m \div p = c - 1
  <2> DEFINE q == c - 1
             r == p - 1
  <2>1. q \in Nat /\ r \in 0 .. p - 1 /\ m = p * q + r
    BY <1>5
  <2> HIDE DEF q, r
  <2>2. m \div p = q
    BY <1>2, <2>1, Divides
  <2>3. QED
    BY <2>2 DEF q
<1> DEFINE x == (c - 1) % e
<1>7. x \in Nat /\ x <= c - 1 /\ (c - 1 < e => x = c - 1)
  <2> DEFINE q == c - 1
  <2>1. q \in Nat
    BY <1>5
  <2> HIDE DEF q
  <2>2. q \div e \in Nat /\ q % e \in 0 .. e - 1 /\ q = e * (q \div e) + (q % e)
    BY <1>2, <2>1, DivMod
  <2>3. e * (q \div e) \in Nat
    BY <1>2, <2>2, Times
  <2>4. q % e \in Nat /\ q % e <= q
    BY <2>1, <2>2, <2>3
  <2>5. q < e => q % e = q
    BY <1>2, <2>1, Small
  <2>6. QED
    BY <2>4, <2>5 DEF q
<1>8. round_bcd(m, FALSE, kept) = (x + 1) * p
  BY <1>3, <1>6
<1> HIDE DEF x
<1>9. p * (x + 1) \in Nat /\ p * (x + 1) <= p * c
  <2>1. x + 1 \in Nat /\ x + 1 <= c
    BY <1>4, <1>7
  <2>2. QED
    BY <1>2, <1>4, <2>1, Times
<1>10. (x + 1) * p = p * (x + 1)
  BY <1>2, <1>7
<1>11. round_bcd(m, FALSE, kept) \in Nat /\ round_bcd(m, FALSE, kept) <= m + 1
  BY <1>4, <1>8, <1>9, <1>10
<1>12. ASSUME m \div p < e
       PROVE  round_bcd(m, FALSE, kept) = m + 1
  <2>1. x = c - 1
    BY <1>6, <1>7, <1>12
  <2>2. x + 1 = c
    BY <1>4, <2>1
  <2>3. QED
    BY <1>4, <1>8, <1>10, <2>2
<1>13. QED
  BY <1>11, <1>12 DEF k, p, e

\* Rounding down from a number that is not 0 stays above 0.
LEMMA RoundDown ==
    ASSUME NEW m \in Nat, m # 0, NEW kept \in Nat \ {0}
    PROVE  round_bcd(m, TRUE, kept) \in Nat /\ round_bcd(m, TRUE, kept) <= m
<1> DEFINE k == zeros(m)
           p == Pow10[k]
           c == m \div p
           f == Pow10[kept - 1]
           e == Pow10[kept]
<1>1. k \in Nat /\ m % p = 0 /\ m % Pow10[k + 1] # 0
  <2>1. k \in 0 .. m /\ m % p = 0 /\ m % Pow10[k + 1] # 0
    BY Zeros
  <2>2. QED
    BY <2>1
<1> HIDE DEF k
<1>2. p \in Nat \ {0} /\ e \in Nat \ {0} /\ Pow10[k + 1] = p * 10
      /\ f \in Nat \ {0} /\ e = 10 * f
  <2>1. kept - 1 \in Nat /\ (kept - 1) + 1 = kept
    OBVIOUS
  <2>2. Pow10[kept - 1] \in Nat \ {0} /\ Pow10[(kept - 1) + 1] = 10 * Pow10[kept - 1]
    BY <2>1, Powers
  <2>3. p \in Nat \ {0} /\ Pow10[k + 1] = 10 * p
    BY <1>1, Powers
  <2>4. QED
    BY <2>1, <2>2, <2>3
<1>3. round_bcd(m, TRUE, kept) = ((c % e) - 1) * p
  BY DEF round_bcd, k
<1>4. m % (p * 10) # 0
  BY <1>1, <1>2
<1> HIDE DEF p, e, f
<1>5. c \in Nat /\ m = p * c
  <2>1. c \in Nat /\ m = p * c + (m % p)
    BY <1>2, DivMod
  <2> HIDE DEF c
  <2>2. p * c \in Nat
    BY <1>2, <2>1, Times
  <2>3. QED
    BY <1>1, <2>1, <2>2
<1>6. c % 10 # 0
  <2>1. InTwo(m, p, 10)
    BY <1>2, DivDiv
  <2>2. m % (p * 10) = (m % p) + p * (c % 10)
    BY <2>1 DEF InTwo
  <2>3. p * 0 = 0
    BY <1>2
  <2> HIDE DEF c
  <2>4. QED
    BY <1>1, <1>4, <2>2, <2>3
<1> HIDE DEF c
<1> DEFINE x == c % e
<1>7. x \in Nat /\ x <= c /\ x # 0
  <2>1. c \div e \in Nat /\ x \in 0 .. e - 1 /\ c = e * (c \div e) + x
    BY <1>2, <1>5, DivMod
  <2>2. e * (c \div e) \in Nat
    BY <1>2, <2>1, Times
  <2>3. c % e = (c % 10) + 10 * ((c \div 10) % f)
    <3>1. InTwo(c, 10, f)
      BY <1>2, <1>5, DivDiv
    <3>2. QED
      BY <1>2, <3>1 DEF InTwo
  <2>4. c % 10 \in Nat /\ (c \div 10) % f \in Nat
    <3>1. c % 10 \in 0 .. 9 /\ c \div 10 \in Nat
      BY <1>5, DivMod
    <3>2. (c \div 10) % f \in 0 .. f - 1
      BY <1>2, <3>1, DivMod
    <3>3. QED
      BY <1>2, <3>1, <3>2
  <2>5. x # 0
    BY <1>6, <2>3, <2>4
  <2> HIDE DEF x
  <2>6. QED
    BY <1>2, <1>5, <2>1, <2>2, <2>5
<1>8. round_bcd(m, TRUE, kept) = (x - 1) * p
  BY <1>3
<1> HIDE DEF x
<1>9. p * (x - 1) \in Nat /\ p * (x - 1) <= p * c
  <2>1. x - 1 \in Nat /\ x - 1 <= c
    BY <1>5, <1>7
  <2>2. QED
    BY <1>2, <1>5, <2>1, Times
<1>10. (x - 1) * p = p * (x - 1)
  BY <1>2, <1>7
<1>11. QED
  BY <1>5, <1>8, <1>9, <1>10

\* How many digits a number has.
LEMMA Places ==
    ASSUME NEW m \in Nat, m # 0
    PROVE  LET d == ndigits(m) IN d \in Nat \ {0} /\ Pow10[d - 1] <= m /\ m < Pow10[d]
<1> DEFINE I == {n \in Nat : m < Pow10[n]}
<1>1. m \in I
  BY Powers
<1>2. PICK n \in I : \A j \in I : n <= j
  <2>1. I \subseteq Nat /\ I # {}
    BY <1>1
  <2> HIDE DEF I
  <2>2. QED
    BY <2>1, Least
<1>3. n # 0
  BY <1>2, Powers
<1>4. n \in 1 .. m + 1 /\ n - 1 \in Nat
  <2>1. n \in Nat /\ n <= m
    BY <1>1, <1>2
  <2>2. QED
    BY <1>3, <2>1
<1>5. Pow10[n - 1] <= m
  <2>1. n - 1 \notin I
    <3>1. ~(n <= n - 1)
      BY <1>4
    <3> HIDE DEF I
    <3>2. QED
      BY <1>2, <3>1
  <2>2. Pow10[n - 1] \in Nat
    BY <1>4, Powers
  <2>3. QED
    BY <1>4, <2>1, <2>2
<1>6. m < Pow10[n]
  BY <1>2
<1>7. ndigits(m) \in 1 .. m + 1 /\ Pow10[ndigits(m) - 1] <= m /\ m < Pow10[ndigits(m)]
  BY <1>4, <1>5, <1>6 DEF ndigits
<1>8. QED
  BY <1>7

\* Expanding stays within the digits of the format.
LEMMA Room ==
    ASSUME NEW m \in Nat, NEW n \in Nat, NEW nd \in Nat, m < Pow10[nd]
    PROVE  LET r == room(m, n, nd) IN
           r \in Nat /\ m * Pow10[r] \in Nat /\ m * Pow10[r] < Pow10[nd]
<1> DEFINE r == room(m, n, nd)
<1>1. CASE m = 0
  <2>1. r = n
    BY <1>1 DEF room
  <2>2. Pow10[n] \in Nat /\ Pow10[nd] \in Nat \ {0}
    BY Powers
  <2>3. 0 * Pow10[n] = 0
    BY <2>2
  <2>4. QED
    BY <1>1, <2>1, <2>2, <2>3
<1>2. CASE m # 0
  <2> DEFINE d == ndigits(m)
  <2>1. d \in Nat /\ m < Pow10[d]
    BY <1>2, Places
  <2>2. r = IF nd - d < 0 THEN 0 ELSE IF nd - d < n THEN nd - d ELSE n
    BY <1>2 DEF room
  <2> HIDE DEF d, r
  <2>3. r \in Nat /\ (r = 0 \/ d + r <= nd)
    BY <2>1, <2>2
  <2>4. CASE r = 0
    <3>1. Pow10[r] = 1
      BY <2>4, Powers
    <3>2. QED
      BY <2>3, <3>1 DEF r
  <2>5. CASE d + r <= nd
    <3> DEFINE p == Pow10[r]
               a == Pow10[d]
    <3>1. p \in Nat \ {0} /\ a \in Nat /\ d + r \in Nat
      BY <2>1, <2>3, Powers
    <3>2. Pow10[d + r] = a * p /\ Pow10[d + r] <= Pow10[nd]
      BY <2>1, <2>3, <2>5, <3>1, PowerSum, PowersGrow
    <3>3. Pow10[nd] \in Nat
      BY Powers
    <3>4. m < a
      BY <2>1
    <3> HIDE DEF p, a
    <3>5. p * (m + 1) <= p * a /\ p * m \in Nat
      <4>1. m + 1 <= a /\ m + 1 \in Nat
        BY <3>1, <3>4
      <4>2. QED
        BY <3>1, <4>1, Times
    <3>6. m * p = p * m /\ a * p = p * a /\ p * (m + 1) = p * m + p /\ p * a \in Nat
      BY <3>1
    <3>7. m * p \in Nat /\ m * p < Pow10[nd]
      BY <3>1, <3>2, <3>3, <3>5, <3>6
    <3>8. QED
      BY <2>3, <3>7 DEF p, r
  <2>6. QED
    BY <2>3, <2>4, <2>5
<1>3. QED
  BY <1>1, <1>2

\* Cutting off a digit does not make a number larger.
LEMMA Shorter ==
    ASSUME NEW x \in Nat
    PROVE  shorter(x) \in Nat /\ shorter(x) <= x
<1>1. x \div 10 \in Nat /\ x % 10 \in 0 .. 9 /\ x = 10 * (x \div 10) + (x % 10)
  BY DivMod
<1>2. QED
  BY <1>1 DEF shorter

\* So does cutting off several, one by one.
LEMMA Cuts ==
    ASSUME NEW m \in Nat, NEW n \in Nat
    PROVE  cut(m, n) \in Nat /\ cut(m, n) <= m /\ (n = 1 => cut(m, n) = shorter(m))
<1> DEFINE S == 0 .. m
           F == [x \in Nat \X S |-> shorter(x[2])]
           P(f) == f = [k \in 0 .. n |-> IF k = 0 THEN m ELSE shorter(f[k - 1])]
<1>1. m \in S /\ F \in [Nat \X S -> S]
  <2>1. \A x \in S : shorter(x) \in S
    BY Shorter
  <2>2. QED
    BY <2>1
<1>2. \A k \in Nat, x \in S : F[<<k, x>>] = shorter(x)
  OBVIOUS
<1> HIDE DEF F, S
<1>3. PICK g \in [0 .. n -> S] : RecursTo(g, m, F, n)
  BY <1>1, RecursionTo
<1>4. \A k \in 1 .. n : g[k] = shorter(g[k - 1])
  <2> SUFFICES ASSUME NEW k \in 1 .. n
               PROVE  g[k] = shorter(g[k - 1])
    OBVIOUS
  <2>1. g[k - 1] \in S /\ k - 1 \in Nat
    OBVIOUS
  <2>2. QED
    BY <1>2, <1>3, <2>1 DEF RecursTo
<1>5. P(g)
  BY <1>3, <1>4 DEF RecursTo
<1>6. P(CHOOSE f : P(f))
  <2> HIDE DEF P
  <2>1. QED
    BY <1>5
<1> DEFINE v == CHOOSE f : P(f)
<1>7. cut(m, n) = v[n]
  BY DEF cut
<1> HIDE DEF v
<1>8. P(v)
  BY <1>6 DEF v
<1> DEFINE B == {k \in Nat : v[k] \in Nat /\ v[k] <= m}
<1>9. 0 \in B
  BY <1>8
<1>10. ASSUME NEW k \in Nat, k < n, k \in B
       PROVE  k + 1 \in B
  <2>1. v[k + 1] = shorter(v[k])
    <3>1. k + 1 \in 0 .. n /\ k + 1 # 0 /\ (k + 1) - 1 = k
      BY <1>10
    <3>2. QED
      BY <1>8, <3>1
  <2>2. v[k] \in Nat /\ v[k] <= m
    BY <1>10
  <2>3. shorter(v[k]) \in Nat /\ shorter(v[k]) <= v[k]
    BY <2>2, Shorter
  <2>4. v[k + 1] \in Nat /\ v[k + 1] <= m
    BY <2>1, <2>2, <2>3
  <2>5. QED
    BY <2>4
<1>11. 0 .. n \subseteq B
  <2> HIDE DEF B
  <2>1. QED
    BY <1>9, <1>10, InductionTo
<1>12. n = 1 => v[n] = shorter(m)
  BY <1>8
<1>13. QED
  BY <1>7, <1>11, <1>12

\* A significand that fits, brought to a quantum, fits.
LEMMA Fits ==
    ASSUME NEW m \in Nat, NEW ex \in Int, NEW er \in Int, NEW nd \in Nat, m < Pow10[nd]
    PROVE  LET q == quantize(m, ex, er, nd) IN
           q.m \in Nat /\ q.m < Pow10[nd] /\ q.ex \in Int
<1>1. Pow10[nd] \in Nat
  BY Powers
<1>2. CASE ex < er
  <2>1. er - ex \in Nat
    BY <1>2
  <2>2. cut(m, er - ex) \in Nat /\ cut(m, er - ex) <= m
    BY <2>1, Cuts
  <2>3. quantize(m, ex, er, nd) = [m |-> cut(m, er - ex), ex |-> er]
    BY <1>2 DEF quantize
  <2>4. QED
    BY <1>1, <2>2, <2>3
<1>3. CASE ~(ex < er)
  <2> DEFINE r == room(m, ex - er, nd)
  <2>1. ex - er \in Nat
    BY <1>3
  <2>2. r \in Nat /\ m * Pow10[r] \in Nat /\ m * Pow10[r] < Pow10[nd]
    BY <2>1, Room
  <2>3. quantize(m, ex, er, nd) = [m |-> m * Pow10[r], ex |-> ex - r]
    BY <1>3 DEF quantize
  <2> HIDE DEF r
  <2>4. QED
    BY <2>2, <2>3
<1>4. QED
  BY <1>2, <1>3

Text == [neg : BOOLEAN, int : Seq(0 .. 9), frac : Seq(0 .. 9)]

\* The digits that are left of a list.
LEMMA Parted ==
    ASSUME NEW ds \in Seq(Digit), NEW k \in Nat \ {0}, NEW n \in Nat, n <= Len(ds)
    PROVE  /\ SubSeq(ds, k, n) \in Seq(Digit)
           /\ Len(SubSeq(ds, k, n)) \in Nat /\ Len(SubSeq(ds, k, n)) <= n
<1>1. \A i \in k .. n : ds[i] \in Digit
  <2>1. Len(ds) \in Nat
    BY LenProperties
  <2> SUFFICES ASSUME NEW i \in k .. n
               PROVE  ds[i] \in Digit
    OBVIOUS
  <2>2. i \in 1 .. Len(ds)
    BY <2>1
  <2>3. QED
    BY <2>2, ElementOfSeq
<1>2. k \in Int /\ n \in Int
  OBVIOUS
<1>3. SubSeq(ds, k, n) \in Seq(Digit)
      /\ Len(SubSeq(ds, k, n)) = IF k <= n THEN n - k + 1 ELSE 0
  BY <1>1, <1>2, SubSeqProperties
<1>4. QED
  BY <1>3

\* What is read of a text are as many digits as the format has, at most.
LEMMA Readings ==
    ASSUME NEW t \in Text, NEW nd \in Nat
    PROVE  /\ unrounded(t, nd) \in Nat /\ unrounded(t, nd) < Pow10[nd]
           /\ Len(Beyond(Whole(t), nd)) - Len(Read2(t, nd)) \in Int
<1>1. t.int \in Seq(Digit) /\ t.frac \in Seq(Digit)
  BY DEF Text, Digit
<1>2. \A ds \in Seq(Digit), n \in Nat :
         First(ds, n) \in Seq(Digit) /\ Len(First(ds, n)) \in Nat /\ Len(First(ds, n)) <= n
  <2> SUFFICES ASSUME NEW ds \in Seq(Digit), NEW n \in Nat
               PROVE  First(ds, n) \in Seq(Digit) /\ Len(First(ds, n)) \in Nat
                      /\ Len(First(ds, n)) <= n
    OBVIOUS
  <2> DEFINE k == IF n < Len(ds) THEN n ELSE Len(ds)
  <2>1. k \in Nat /\ k <= n /\ k <= Len(ds)
    BY LenProperties
  <2>2. First(ds, n) = SubSeq(ds, 1, k)
    BY DEF First
  <2> HIDE DEF k
  <2>3. SubSeq(ds, 1, k) \in Seq(Digit) /\ Len(SubSeq(ds, 1, k)) \in Nat
        /\ Len(SubSeq(ds, 1, k)) <= k
    BY <2>1, Parted
  <2>4. QED
    BY <2>1, <2>2, <2>3
<1>3. Whole(t) \in Seq(Digit)
  <2> DEFINE ds == t.int
             sig == {k \in DOMAIN ds : ds[k] # 0}
             f == CHOOSE k \in sig : \A j \in sig : k <= j
  <2>1. CASE sig = {}
    BY <2>1, EmptySeq DEF Whole, NoZeros
  <2>2. CASE sig # {}
    <3>1. Whole(t) = SubSeq(ds, f, Len(ds))
      BY <2>2 DEF Whole, NoZeros
    <3>2. DOMAIN ds = 1 .. Len(ds) /\ Len(ds) \in Nat
      BY <1>1, LenProperties
    <3>3. sig \subseteq Nat \ {0}
      BY <3>2
    <3>4. f \in sig
      <4> HIDE DEF sig
      <4>1. \E k \in sig : \A j \in sig : k <= j
        BY <2>2, <3>3, Least
      <4>2. QED
        BY <4>1
    <3>5. f \in Nat \ {0}
      BY <3>3, <3>4
    <3> HIDE DEF f, sig
    <3>6. QED
      BY <1>1, <3>1, <3>2, <3>5, Parted
  <2>3. QED
    BY <2>1, <2>2
<1> DEFINE a == Read1(t, nd)
           b == Read2(t, nd)
<1>4. a \in Seq(Digit) /\ Len(a) \in Nat /\ Len(a) <= nd
  BY <1>2, <1>3 DEF Read1
<1>5. b \in Seq(Digit) /\ Len(b) \in Nat /\ Len(b) <= nd - Len(a)
  <2>1. nd - Len(a) \in Nat
    BY <1>4
  <2>2. QED
    BY <1>1, <1>2, <2>1 DEF Read2
<1>6. unrounded(t, nd) = NumOf(a \o b)
  BY DEF unrounded
<1> HIDE DEF a, b
<1>7. a \o b \in Seq(Digit) /\ Len(a \o b) = Len(a) + Len(b)
  BY <1>4, <1>5, ConcatProperties
<1>8. NumOf(a \o b) \in Nat /\ NumOf(a \o b) < Pow10[Len(a \o b)]
  BY <1>7, NumBelow
<1>9. Pow10[Len(a \o b)] <= Pow10[nd]
  <2>1. Len(a \o b) \in Nat /\ Len(a \o b) <= nd
    BY <1>4, <1>5, <1>7
  <2>2. QED
    BY <2>1, PowersGrow
<1>10. unrounded(t, nd) \in Nat /\ unrounded(t, nd) < Pow10[nd]
  <2>1. Pow10[nd] \in Nat /\ Pow10[Len(a \o b)] \in Nat
    <3>1. Len(a \o b) \in Nat
      BY <1>4, <1>5, <1>7
    <3>2. QED
      BY <3>1, Powers
  <2>2. QED
    BY <1>6, <1>8, <1>9, <2>1
<1>11. Len(Beyond(Whole(t), nd)) \in Nat
  <2> DEFINE ds == Whole(t)
  <2>1. Len(ds) \in Nat
    BY <1>3, LenProperties
  <2>2. nd + 1 \in Nat \ {0}
    OBVIOUS
  <2> HIDE DEF ds
  <2>3. Len(SubSeq(ds, nd + 1, Len(ds))) \in Nat
    BY <1>3, <2>1, <2>2, Parted DEF ds
  <2>4. QED
    BY <2>3 DEF Beyond, ds
<1>12. QED
  BY <1>5, <1>10, <1>11 DEF b

\* Rounding neither leaves the natural numbers nor, but for a carry, the
\* digits of the format.
LEMMA Rounded ==
    ASSUME NEW t \in Text, NEW nd \in Nat, NEW kept \in Nat \ {0}, ~strtoHangs(t, nd)
    PROVE  LET b == strtobcd(t, nd, kept)
               m == unrounded(t, nd) IN
           /\ b = [sign |-> b.sign, mant |-> b.mant, expo |-> b.expo]
           /\ b.sign \in BOOLEAN /\ b.mant \in Nat /\ b.expo \in Int
           /\ b.sign => b.mant < Pow10[nd]
           /\ ~(roff(t, nd) /\ ~t.neg /\ m + 1 = Pow10[nd]) => b.mant < Pow10[nd]
<1> DEFINE b == strtobcd(t, nd, kept)
           m == unrounded(t, nd)
           P == Pow10[nd]
           e == Len(Beyond(Whole(t), nd)) - Len(Read2(t, nd))
           x == IF roff(t, nd) THEN round_bcd(m, t.neg, kept) ELSE m
<1>1. m \in Nat /\ m < P /\ e \in Int /\ P \in Nat
  BY Readings, Powers
<1>2. t.neg \in BOOLEAN
  BY DEF Text
<1>3. b = [sign |-> t.neg, mant |-> x, expo |-> e]
  BY DEF strtobcd
<1>4. ~(roff(t, nd) /\ t.neg /\ m = 0)
  BY DEF strtoHangs, RoundHangs
<1> HIDE DEF b, m, P, e
<1>5. x \in Nat /\ (t.neg => x < P) /\ (~(roff(t, nd) /\ ~t.neg /\ m + 1 = P) => x < P)
  <2>1. CASE ~roff(t, nd)
    BY <1>1, <2>1
  <2>2. CASE roff(t, nd) /\ t.neg
    <3>1. m # 0 /\ t.neg = TRUE
      BY <1>2, <1>4, <2>2
    <3> DEFINE r == round_bcd(m, TRUE, kept)
    <3>2. r \in Nat /\ r <= m
      BY <1>1, <3>1, RoundDown
    <3>3. x = r
      BY <2>2, <3>1
    <3> HIDE DEF x, r
    <3>4. x \in Nat /\ x < P
      BY <1>1, <3>2, <3>3
    <3>5. QED
      BY <3>4
  <2>3. CASE roff(t, nd) /\ ~t.neg
    <3>1. t.neg = FALSE
      BY <1>2, <2>3
    <3> DEFINE r == round_bcd(m, FALSE, kept)
    <3>2. r \in Nat /\ r <= m + 1
      BY <1>1, RoundUp
    <3>3. x = r
      BY <2>3, <3>1
    <3> HIDE DEF x, r
    <3>4. x \in Nat /\ (m + 1 # P => x < P)
      BY <1>1, <3>2, <3>3
    <3>5. QED
      BY <2>3, <3>1, <3>4
  <2>4. QED
    BY <2>1, <2>2, <2>3
<1> HIDE DEF x
<1>6. QED
  BY <1>1, <1>2, <1>3, <1>5 DEF b, m, P

-----------------------------------------------------------------------------
(* What is read of a text, and what is written.                             *)

\* The number two lists of digits spell together.
LEMMA Joined ==
    ASSUME NEW a \in Seq(Digit), NEW b \in Seq(Digit)
    PROVE  NumOf(a \o b) = NumOf(a) * Pow10[Len(b)] + NumOf(b)
<1> DEFINE N == Len(a)
           K == Len(b)
           c == a \o b
<1>1. N \in Nat /\ K \in Nat /\ c \in Seq(Digit) /\ Len(c) = N + K
  BY LenProperties, ConcatProperties
<1>2. \A i \in 1 .. N : c[i] = a[i] /\ a[i] \in Nat
  <2> SUFFICES ASSUME NEW i \in 1 .. N
               PROVE  c[i] = a[i] /\ a[i] \in Nat
    OBVIOUS
  <2>1. i \in 1 .. N + K /\ i <= N
    BY <1>1
  <2>2. c[i] = a[i]
    BY <2>1, ConcatProperties
  <2>3. QED
    BY <2>2, ElementOfSeq DEF Digit
<1>3. \A i \in 1 .. K : c[N + i] = b[i] /\ b[i] \in Nat
  <2> SUFFICES ASSUME NEW i \in 1 .. K
               PROVE  c[N + i] = b[i] /\ b[i] \in Nat
    OBVIOUS
  <2>1. N + i \in 1 .. N + K /\ ~(N + i <= N) /\ (N + i) - N = i
    BY <1>1
  <2>2. c[N + i] = b[i]
    BY <2>1, ConcatProperties
  <2>3. QED
    BY <2>2, ElementOfSeq DEF Digit
<1>4. PICK u : u[0] = 0 /\ (\A n \in 1 .. N : u[n] = 10 * u[n - 1] + a[n]) /\ NumOf(a) = u[N]
  BY Spelt
<1>5. PICK v : v[0] = 0 /\ (\A n \in 1 .. K : v[n] = 10 * v[n - 1] + b[n]) /\ NumOf(b) = v[K]
  BY Spelt
<1> HIDE DEF c, N, K
<1>6. PICK w : w[0] = 0 /\ (\A n \in 1 .. N + K : w[n] = 10 * w[n - 1] + c[n])
               /\ NumOf(c) = w[N + K]
  BY <1>1, Spelt
<1> DEFINE B == {n \in Nat : w[n] = u[n]}
<1>7. N \in B
  <2>1. 0 \in B
    BY <1>4, <1>6
  <2>2. ASSUME NEW n \in Nat, n < N, n \in B
        PROVE  n + 1 \in B
    <3>1. n + 1 \in 1 .. N /\ n + 1 \in 1 .. N + K /\ (n + 1) - 1 = n
      BY <1>1, <2>2
    <3>2. w[n + 1] = 10 * w[n] + c[n + 1] /\ u[n + 1] = 10 * u[n] + a[n + 1]
      BY <1>4, <1>6, <3>1
    <3>3. c[n + 1] = a[n + 1] /\ w[n] = u[n]
      BY <1>2, <2>2, <3>1
    <3>4. QED
      BY <3>2, <3>3
  <2>3. 0 .. N \subseteq B
    <3> HIDE DEF B
    <3>1. QED
      BY <1>1, <2>1, <2>2, InductionTo
  <2>4. QED
    BY <1>1, <2>3
<1>8. u[N] \in Nat
  BY <1>4, NumBelow
<1> DEFINE x == u[N]
           C == {k \in Nat : v[k] \in Nat /\ w[N + k] = x * Pow10[k] + v[k]}
<1>9. K \in C
  <2> HIDE DEF x
  <2>1. 0 \in C
    <3>1. w[N + 0] = x /\ x \in Nat
      BY <1>1, <1>7, <1>8 DEF x
    <3>2. x * 1 + 0 = x
      BY <3>1
    <3>3. QED
      BY <1>5, <3>1, <3>2, Powers
  <2>2. ASSUME NEW k \in Nat, k < K, k \in C
        PROVE  k + 1 \in C
    <3> DEFINE p == Pow10[k]
               d == b[k + 1]
    <3>1. k + 1 \in 1 .. K /\ N + (k + 1) \in 1 .. N + K /\ (k + 1) - 1 = k
          /\ (N + (k + 1)) - 1 = N + k
      BY <1>1, <2>2
    <3>2. w[N + (k + 1)] = 10 * w[N + k] + d
      <4>1. w[N + (k + 1)] = 10 * w[N + k] + c[N + (k + 1)]
        BY <1>6, <3>1
      <4>2. QED
        BY <1>3, <3>1, <4>1
    <3>3. v[k + 1] = 10 * v[k] + d /\ d \in Nat
      BY <1>3, <1>5, <3>1
    <3>4. v[k] \in Nat /\ w[N + k] = x * p + v[k]
      BY <2>2
    <3>5. p \in Nat /\ Pow10[k + 1] = 10 * p /\ x \in Nat
      BY <1>8, Powers DEF x
    <3> HIDE DEF p, d
    <3>6. x * (10 * p) = 10 * (x * p) /\ x * p \in Nat
      BY <3>5
    <3>7. w[N + (k + 1)] = x * Pow10[k + 1] + v[k + 1] /\ v[k + 1] \in Nat
      BY <3>2, <3>3, <3>4, <3>5, <3>6
    <3>8. QED
      BY <3>7
  <2>3. 0 .. K \subseteq C
    <3> HIDE DEF C
    <3>1. QED
      BY <1>1, <2>1, <2>2, InductionTo
  <2>4. QED
    BY <1>1, <2>3
<1>10. NumOf(c) = x * Pow10[K] + v[K]
  BY <1>6, <1>9
<1>11. QED
  BY <1>4, <1>5, <1>10 DEF c, K

\* Zeros spell 0, and so does nothing.
LEMMA Noughts ==
    ASSUME NEW ds \in Seq(Digit), \A i \in 1 .. Len(ds) : ds[i] = 0
    PROVE  NumOf(ds) = 0
<1>1. PICK v : /\ v[0] = 0
               /\ \A n \in 1 .. Len(ds) : v[n] = 10 * v[n - 1] + ds[n]
               /\ NumOf(ds) = v[Len(ds)]
  BY Spelt
<1> DEFINE N == Len(ds)
           B == {n \in Nat : v[n] = 0}
<1>2. N \in Nat
  BY LenProperties
<1>3. 0 \in B
  BY <1>1
<1>4. ASSUME NEW n \in Nat, n < N, n \in B
      PROVE  n + 1 \in B
  <2>1. n + 1 \in 1 .. N /\ (n + 1) - 1 = n
    BY <1>2, <1>4
  <2>2. v[n + 1] = 10 * v[n] + ds[n + 1] /\ ds[n + 1] = 0 /\ v[n] = 0
    BY <1>1, <1>4, <2>1
  <2>3. QED
    BY <2>2
<1>5. 0 .. N \subseteq B
  <2> HIDE DEF B, N
  <2>1. QED
    BY <1>2, <1>3, <1>4, InductionTo
<1>6. QED
  BY <1>1, <1>2, <1>5

\* A digit spells itself.
LEMMA OneDigit ==
    ASSUME NEW d \in Digit
    PROVE  <<d>> \in Seq(Digit) /\ Len(<<d>>) = 1 /\ NumOf(<<d>>) = d
<1>1. <<d>> \in Seq(Digit) /\ Len(<<d>>) = 1 /\ <<d>>[1] = d
  OBVIOUS
<1>2. PICK v : /\ v[0] = 0
               /\ \A n \in 1 .. 1 : v[n] = 10 * v[n - 1] + <<d>>[n]
               /\ NumOf(<<d>>) = v[1]
  BY <1>1, Spelt
<1>3. 1 \in 1 .. 1 /\ 1 - 1 = 0 /\ 10 * 0 + d = d
  BY DEF Digit
<1>4. QED
  BY <1>1, <1>2, <1>3

\* Zeros in front do not count.
LEMMA Trimmed ==
    ASSUME NEW ds \in Seq(Digit)
    PROVE  NoZeros(ds) \in Seq(Digit) /\ NumOf(NoZeros(ds)) = NumOf(ds)
<1> DEFINE sig == {k \in DOMAIN ds : ds[k] # 0}
           f == CHOOSE k \in sig : \A j \in sig : k <= j
           N == Len(ds)
<1>1. DOMAIN ds = 1 .. N /\ N \in Nat
  BY LenProperties
<1>2. CASE sig = {}
  <2>1. NoZeros(ds) = <<>>
    BY <1>2 DEF NoZeros
  <2>2. NumOf(ds) = 0
    BY <1>1, <1>2, Noughts
  <2>3. <<>> \in Seq(Digit) /\ Len(<<>>) = 0
    BY EmptySeq
  <2>4. NumOf(<<>>) = 0
    <3> DEFINE e == <<>>
    <3>1. e \in Seq(Digit) /\ \A i \in 1 .. Len(e) : e[i] = 0
      BY <2>3
    <3> HIDE DEF e
    <3>2. NumOf(e) = 0
      BY <3>1, Noughts
    <3>3. QED
      BY <3>2 DEF e
  <2>5. QED
    BY <2>1, <2>2, <2>3, <2>4
<1>3. CASE sig # {}
  <2>1. NoZeros(ds) = SubSeq(ds, f, N)
    BY <1>3 DEF NoZeros
  <2>2. sig \subseteq 1 .. N
    BY <1>1
  <2>3. f \in sig /\ \A j \in sig : f <= j
    <3>1. sig \subseteq Nat
      BY <1>1, <2>2
    <3> HIDE DEF sig
    <3>2. \E k \in sig : \A j \in sig : k <= j
      BY <1>3, <3>1, Least
    <3>3. QED
      BY <3>2
  <2>4. f \in 1 .. N
    BY <2>2, <2>3
  <2> HIDE DEF f
  <2>5. \A i \in 1 .. f - 1 : ds[i] = 0
    <3> SUFFICES ASSUME NEW i \in 1 .. f - 1
                 PROVE  ds[i] = 0
      OBVIOUS
    <3>1. i \in DOMAIN ds /\ ~(f <= i)
      BY <1>1, <2>4
    <3>2. i \notin sig
      <4> HIDE DEF sig
      <4>1. QED
        BY <2>3, <3>1
    <3>3. QED
      BY <3>1, <3>2
  <2> DEFINE a == SubSeq(ds, 1, f - 1)
             b == SubSeq(ds, f, N)
  <2>6. b \in Seq(Digit) /\ a \in Seq(Digit) /\ \A i \in 1 .. Len(a) : a[i] = 0
    <3>1. f - 1 \in Nat /\ f - 1 <= N /\ f \in Nat \ {0} /\ N <= N
      BY <1>1, <2>4
    <3>2. b \in Seq(Digit) /\ a \in Seq(Digit)
      BY <1>1, <3>1, Parted
    <3>3. \A i \in 1 .. f - 1 : ds[i] \in {0}
      BY <2>5
    <3>4. 1 \in Int /\ f - 1 \in Int
      BY <3>1
    <3>5. a \in Seq({0})
      BY <3>3, <3>4, SubSeqProperties
    <3>6. \A i \in 1 .. Len(a) : a[i] \in {0}
      BY <3>5, ElementOfSeq
    <3>7. QED
      BY <3>2, <3>6
  <2>7. a \o b = ds
    <3>1. 1 \in 1 .. N + 1 /\ f - 1 \in 1 - 1 .. N /\ N \in f - 1 .. N /\ (f - 1) + 1 = f
      BY <1>1, <2>4
    <3>2. SubSeq(ds, 1, f - 1) \o SubSeq(ds, (f - 1) + 1, N) = SubSeq(ds, 1, N)
      BY <3>1, ConcatAdjacentSubSeq
    <3>3. SubSeq(ds, 1, N) = ds
      BY SubSeqFull
    <3>4. QED
      BY <3>1, <3>2, <3>3
  <2> HIDE DEF a, b
  <2>8. NumOf(ds) = NumOf(a) * Pow10[Len(b)] + NumOf(b)
    BY <2>6, <2>7, Joined
  <2>9. NumOf(a) = 0 /\ NumOf(b) \in Nat /\ Pow10[Len(b)] \in Nat
    <3>1. Len(b) \in Nat
      BY <2>6, LenProperties
    <3>2. QED
      BY <2>6, <3>1, Noughts, NumBelow, Powers
  <2>10. 0 * Pow10[Len(b)] + NumOf(b) = NumOf(b)
    BY <2>9
  <2>11. NumOf(ds) = NumOf(b)
    BY <2>8, <2>9, <2>10
  <2>12. QED
    BY <2>1, <2>6, <2>11 DEF b
<1>4. QED
  BY <1>2, <1>3

\* Adding one half and cutting off rounds up where the first digit cut off is
\* from 5 up.
LEMMA HalfUp ==
    ASSUME NEW x \in Nat, NEW ds \in Seq(Digit), ds # <<>>
    PROVE  LET L == Len(ds) IN
           (x * Pow10[L] + NumOf(ds) + 5 * Pow10[L - 1]) \div Pow10[L] =
               x + (IF StartsHigh(ds) THEN 1 ELSE 0)
<1> DEFINE L == Len(ds)
           d == Head(ds)
           t == Tail(ds)
           q == Pow10[L - 1]
           p == Pow10[L]
           n == NumOf(t)
<1>1. L \in Nat \ {0} /\ L - 1 \in Nat
  <2>1. L \in Nat \ {0}
    BY EmptySeq
  <2>2. QED
    BY <2>1
<1>2. d \in Digit /\ t \in Seq(Digit) /\ Len(t) = L - 1 /\ d = ds[1]
  BY HeadTailProperties
<1>3. ds = <<d>> \o t
  <2>1. <<d>> \in Seq(Digit) /\ Len(<<d>>) = 1
    BY <1>2, OneDigit
  <2>2. <<d>> \o t \in Seq(Digit) /\ Len(<<d>> \o t) = 1 + (L - 1)
        /\ \A i \in 1 .. 1 + (L - 1) :
              (<<d>> \o t)[i] = IF i <= 1 THEN <<d>>[i] ELSE t[i - 1]
    BY <1>2, <2>1, ConcatProperties
  <2>3. ASSUME NEW i \in 1 .. L
        PROVE  ds[i] = (<<d>> \o t)[i]
    <3>1. (<<d>> \o t)[i] = IF i <= 1 THEN <<d>>[i] ELSE t[i - 1]
      BY <1>1, <2>2
    <3>2. CASE i = 1
      BY <1>2, <3>1, <3>2
    <3>3. CASE i # 1
      <4>1. i - 1 \in 1 .. Len(t) /\ (i - 1) + 1 = i /\ ~(i <= 1)
        BY <1>1, <1>2, <3>3
      <4>2. \A j \in 1 .. Len(t) : t[j] = ds[j + 1]
        BY HeadTailProperties
      <4>3. t[i - 1] = ds[i]
        <5> HIDE DEF t
        <5>1. QED
          BY <4>1, <4>2
      <4>4. QED
        BY <3>1, <4>1, <4>3
    <3>4. QED
      BY <3>2, <3>3
  <2>4. Len(<<d>> \o t) = Len(ds)
    BY <1>1, <2>2
  <2> HIDE DEF d, t
  <2>5. QED
    BY <2>2, <2>3, <2>4, SeqEqual
<1> HIDE DEF d, t
<1>4. NumOf(ds) = d * q + n /\ n \in Nat /\ n < q
  <2>1. <<d>> \in Seq(Digit) /\ NumOf(<<d>>) = d
    BY <1>2, OneDigit
  <2>2. NumOf(<<d>> \o t) = NumOf(<<d>>) * Pow10[Len(t)] + NumOf(t)
    BY <1>2, <2>1, Joined
  <2>3. NumOf(t) \in Nat /\ NumOf(t) < Pow10[Len(t)]
    BY <1>2, NumBelow
  <2>4. QED
    BY <1>2, <1>3, <2>1, <2>2, <2>3
<1>5. q \in Nat \ {0} /\ p = 10 * q /\ p \in Nat \ {0}
  <2>1. (L - 1) + 1 = L
    BY <1>1
  <2>2. q \in Nat \ {0} /\ Pow10[(L - 1) + 1] = 10 * q
    BY <1>1, Powers
  <2> HIDE DEF q, L
  <2>3. QED
    BY <2>1, <2>2
<1>6. StartsHigh(ds) = (d >= 5)
  BY <1>2 DEF StartsHigh
<1> DEFINE s == x * p + NumOf(ds) + 5 * q
<1> HIDE DEF n, q, p, L
<1>7. d \in 0 .. 9
  BY <1>2 DEF Digit
<1>8. CASE d >= 5
  <2> DEFINE r == (d - 5) * q + n
  <2>1. (d - 5) \in 0 .. 4 /\ (d - 5) * q = d * q - 5 * q
    BY <1>5, <1>7, <1>8
  <2>2. q * (d - 5) \in Nat /\ q * (d - 5) <= q * 4
    BY <1>5, <2>1, Times
  <2>3. r \in 0 .. p - 1
    <3>1. (d - 5) * q = q * (d - 5)
      BY <1>5, <2>1
    <3>2. QED
      BY <1>4, <1>5, <2>2, <3>1
  <2>4. s = p * (x + 1) + r
    <3>1. p * (x + 1) = x * p + 10 * q
      BY <1>5
    <3>2. d * q \in Nat /\ x * p \in Nat
      BY <1>5, <1>7
    <3>3. QED
      BY <1>4, <1>5, <2>1, <3>1, <3>2
  <2> HIDE DEF s, r
  <2>5. x + 1 \in Nat
    OBVIOUS
  <2>6. s \div p = x + 1
    BY <1>5, <2>3, <2>4, <2>5, Divides
  <2>7. QED
    BY <1>6, <1>8, <2>6 DEF s, p, q, L
<1>9. CASE ~(d >= 5)
  <2> DEFINE r == (d + 5) * q + n
  <2>1. d + 5 \in 0 .. 9 /\ (d + 5) * q = d * q + 5 * q
    BY <1>5, <1>7, <1>9
  <2>2. q * (d + 5) \in Nat /\ q * (d + 5) <= q * 9
    BY <1>5, <2>1, Times
  <2>3. r \in 0 .. p - 1
    <3>1. (d + 5) * q = q * (d + 5)
      BY <1>5, <2>1
    <3>2. QED
      BY <1>4, <1>5, <2>2, <3>1
  <2>4. s = p * x + r
    <3>1. p * x = x * p
      BY <1>5
    <3>2. d * q \in Nat /\ x * p \in Nat
      BY <1>5, <1>7
    <3>3. QED
      BY <1>4, <1>5, <2>1, <3>1, <3>2
  <2> HIDE DEF s, r
  <2>5. s \div p = x
    BY <1>5, <2>3, <2>4, Divides
  <2>6. x + (IF StartsHigh(ds) THEN 1 ELSE 0) = x
    <3>1. ~StartsHigh(ds)
      BY <1>6, <1>9
    <3>2. x + 0 = x
      OBVIOUS
    <3>3. QED
      BY <3>1, <3>2
  <2>7. QED
    BY <2>5, <2>6 DEF s, p, q, L
<1>10. QED
  BY <1>8, <1>9

\* Lists of digits are put together in whatever order.
LEMMA Grouped ==
    ASSUME NEW a \in Seq(Digit), NEW b \in Seq(Digit), NEW c \in Seq(Digit)
    PROVE  (a \o b) \o c = a \o (b \o c)
  BY ConcatAssociative

\* A list is what is taken of it and what is left.
LEMMA Halves ==
    ASSUME NEW ds \in Seq(Digit), NEW n \in Nat
    PROVE  LET a == First(ds, n)  b == Beyond(ds, n) IN
           /\ a \in Seq(Digit) /\ b \in Seq(Digit) /\ a \o b = ds
           /\ Len(a) = (IF n < Len(ds) THEN n ELSE Len(ds))
           /\ Len(b) = (IF n < Len(ds) THEN Len(ds) - n ELSE 0)
           /\ Beyond(ds, Len(a)) = b
<1> DEFINE N == Len(ds)
           b == Beyond(ds, n)
<1>1. N \in Nat
  BY LenProperties
<1>2. CASE n < N
  <2>1. First(ds, n) = SubSeq(ds, 1, n)
    BY <1>2 DEF First
  <2>2. b = SubSeq(ds, n + 1, N)
    BY DEF Beyond
  <2>3. SubSeq(ds, 1, n) \in Seq(Digit) /\ SubSeq(ds, n + 1, N) \in Seq(Digit)
    <3>1. 1 \in Nat \ {0} /\ n + 1 \in Nat \ {0} /\ n <= N /\ N <= N
      BY <1>1, <1>2
    <3>2. QED
      BY <1>1, <3>1, Parted
  <2>4. SubSeq(ds, 1, n) \o SubSeq(ds, n + 1, N) = ds
    <3>1. 1 \in 1 .. N + 1 /\ n \in 1 - 1 .. N /\ N \in n .. N
      BY <1>1, <1>2
    <3>2. SubSeq(ds, 1, n) \o SubSeq(ds, n + 1, N) = SubSeq(ds, 1, N)
      BY <3>1, ConcatAdjacentSubSeq
    <3>3. SubSeq(ds, 1, N) = ds
      BY SubSeqFull
    <3>4. QED
      BY <3>2, <3>3
  <2>5. Len(SubSeq(ds, 1, n)) = n /\ Len(SubSeq(ds, n + 1, N)) = N - n
    BY <1>1, <1>2
  <2>6. QED
    BY <1>2, <2>1, <2>2, <2>3, <2>4, <2>5
<1>3. CASE ~(n < N)
  <2>1. First(ds, n) = ds
    <3>1. First(ds, n) = SubSeq(ds, 1, N)
      BY <1>3 DEF First
    <3>2. QED
      BY <3>1, SubSeqFull
  <2>2. \A k \in Nat : k >= N => Beyond(ds, k) = <<>>
    <3> SUFFICES ASSUME NEW k \in Nat, k >= N
                 PROVE  Beyond(ds, k) = <<>>
      OBVIOUS
    <3>1. k + 1 \in Int /\ N \in Int /\ N < k + 1
      BY <1>1
    <3>2. QED
      BY <3>1, SubSeqEmpty DEF Beyond
  <2>3. Beyond(ds, n) = <<>> /\ Beyond(ds, N) = <<>>
    BY <1>1, <1>3, <2>2
  <2>4. <<>> \in Seq(Digit) /\ Len(<<>>) = 0 /\ ds \o <<>> = ds
    BY EmptySeq, ConcatEmptySeq
  <2>5. QED
    BY <1>3, <2>1, <2>3, <2>4
<1>4. QED
  BY <1>2, <1>3

\* The digits of a text that are read, those that are left, and what the first
\* of these has to do with roff.
Taken(t, nd) == Read1(t, nd) \o Read2(t, nd)
Left(t, nd)  == Beyond(Whole(t), nd) \o Beyond(t.frac, Len(Read2(t, nd)))

LEMMA Splits ==
    ASSUME NEW t \in Text, NEW nd \in Nat
    PROVE  LET w == Len(Whole(t))  l == Len(t.frac) IN
           /\ w \in Nat /\ l \in Nat
           /\ Taken(t, nd) \in Seq(Digit) /\ Left(t, nd) \in Seq(Digit)
           /\ NumOf(t.int \o t.frac) =
                 unrounded(t, nd) * Pow10[Len(Left(t, nd))] + NumOf(Left(t, nd))
           /\ Len(Left(t, nd)) = (IF w + l > nd THEN w + l - nd ELSE 0)
           /\ Len(Beyond(Whole(t), nd)) - Len(Read2(t, nd)) =
                 (IF w + l > nd THEN w - nd ELSE 0 - l)
           /\ ~(w = nd /\ StartsHigh(t.frac)) => roff(t, nd) = StartsHigh(Left(t, nd))
<1> DEFINE W == Whole(t)
           F == t.frac
           w == Len(W)
           l == Len(F)
           a == Read1(t, nd)
           b == Read2(t, nd)
           X == Beyond(W, nd)
           Y == Beyond(F, Len(b))
<1>1. t.int \in Seq(Digit) /\ F \in Seq(Digit)
  BY DEF Text, Digit
<1>2. W \in Seq(Digit) /\ NumOf(W) = NumOf(t.int)
  BY <1>1, Trimmed DEF Whole
<1>3. w \in Nat /\ l \in Nat
  BY <1>1, <1>2, LenProperties
<1>4. NumOf(t.int \o F) = NumOf(W \o F)
  <2>1. NumOf(t.int \o F) = NumOf(t.int) * Pow10[l] + NumOf(F)
    BY <1>1, Joined
  <2>2. NumOf(W \o F) = NumOf(W) * Pow10[l] + NumOf(F)
    BY <1>1, <1>2, Joined
  <2>3. QED
    BY <1>2, <2>1, <2>2
<1>5. /\ a \in Seq(Digit) /\ X \in Seq(Digit) /\ a \o X = W
      /\ Len(a) = (IF nd < w THEN nd ELSE w)
      /\ Len(X) = (IF nd < w THEN w - nd ELSE 0)
  BY <1>2, Halves DEF Read1
<1> DEFINE n == nd - Len(a)
<1>6. n \in Nat /\ n = (IF nd < w THEN 0 ELSE nd - w)
  BY <1>3, <1>5
<1>7. /\ b \in Seq(Digit) /\ Y \in Seq(Digit) /\ b \o Y = F
      /\ Len(b) = (IF n < l THEN n ELSE l)
      /\ Len(Y) = (IF n < l THEN l - n ELSE 0)
  <2>1. b = First(F, n)
    BY DEF Read2
  <2> HIDE DEF b, n, F
  <2>2. /\ First(F, n) \in Seq(Digit) /\ Beyond(F, n) \in Seq(Digit)
        /\ First(F, n) \o Beyond(F, n) = F
        /\ Len(First(F, n)) = (IF n < Len(F) THEN n ELSE Len(F))
        /\ Len(Beyond(F, n)) = (IF n < Len(F) THEN Len(F) - n ELSE 0)
        /\ Beyond(F, Len(First(F, n))) = Beyond(F, n)
    BY <1>1, <1>6, Halves
  <2>3. Y = Beyond(F, n)
    BY <2>1, <2>2
  <2>4. l = Len(F)
    OBVIOUS
  <2> HIDE DEF Y, l
  <2>5. QED
    BY <2>1, <2>2, <2>3, <2>4
<1>8. Left(t, nd) = X \o Y /\ Taken(t, nd) = a \o b
  BY DEF Left, Taken
<1>9. roff(t, nd) = (StartsHigh(X) \/ (w < nd /\ StartsHigh(Y)))
  BY DEF roff
<1>10. unrounded(t, nd) = NumOf(a \o b)
  BY DEF unrounded
<1>11. \A ds \in Seq(Digit) : Len(ds) = 0 => ds = <<>>
  BY EmptySeq
<1> HIDE DEF W, F, w, l, a, b, X, Y, n
<1>12. a \o b \in Seq(Digit) /\ X \o Y \in Seq(Digit) /\ Len(X \o Y) = Len(X) + Len(Y)
  BY <1>5, <1>7, ConcatProperties
<1>13. W \o F = (a \o b) \o (X \o Y)
  <2>1. CASE nd < w
    <3>1. Len(b) = 0
      BY <1>3, <1>6, <1>7, <2>1
    <3>2. b = <<>>
      BY <1>7, <1>11, <3>1
    <3>3. Y = F /\ a \o b = a
      BY <1>5, <1>7, <3>2, ConcatEmptySeq
    <3>4. (a \o X) \o Y = a \o (X \o Y)
      <4>1. a \in Seq(Digit) /\ X \in Seq(Digit) /\ Y \in Seq(Digit)
        BY <1>5, <1>7
      <4>2. QED
        BY <4>1, Grouped
    <3>5. QED
      BY <1>5, <3>3, <3>4, Zenon
  <2>2. CASE ~(nd < w)
    <3>1. Len(X) = 0
      BY <1>5, <2>2
    <3>2. X = <<>>
      BY <1>5, <1>11, <3>1
    <3>3. W = a /\ X \o Y = Y
      BY <1>5, <1>7, <3>2, ConcatEmptySeq
    <3>4. (a \o b) \o Y = a \o (b \o Y)
      <4>1. a \in Seq(Digit) /\ b \in Seq(Digit) /\ Y \in Seq(Digit)
        BY <1>5, <1>7
      <4>2. QED
        BY <4>1, Grouped
    <3>5. QED
      BY <1>7, <3>3, <3>4, Zenon
  <2>3. QED
    BY <2>1, <2>2
<1>14. NumOf(t.int \o F) = NumOf(a \o b) * Pow10[Len(X \o Y)] + NumOf(X \o Y)
  BY <1>4, <1>12, <1>13, Joined
<1>15. Len(X \o Y) = (IF w + l > nd THEN w + l - nd ELSE 0)
       /\ Len(X) - Len(b) = (IF w + l > nd THEN w - nd ELSE 0 - l)
  BY <1>3, <1>5, <1>6, <1>7, <1>12
<1>16. ~(w = nd /\ StartsHigh(F)) => roff(t, nd) = StartsHigh(X \o Y)
  <2> SUFFICES ASSUME ~(w = nd /\ StartsHigh(F))
               PROVE  roff(t, nd) = StartsHigh(X \o Y)
    OBVIOUS
  <2>0. ~StartsHigh(<<>>)
    BY DEF StartsHigh
  <2>1. CASE nd < w
    <3>1. Len(X) \in Nat /\ Len(X) >= 1 /\ Len(Y) \in Nat
      BY <1>3, <1>5, <1>7, <2>1, LenProperties
    <3>2. X # <<>> /\ X \o Y # <<>>
      BY <1>5, <1>7, <1>12, <3>1, EmptySeq
    <3>3. (X \o Y)[1] = X[1]
      <4>1. 1 \in 1 .. Len(X) + Len(Y) /\ 1 <= Len(X)
        BY <3>1
      <4>2. QED
        BY <1>5, <1>7, <4>1, ConcatProperties
    <3>4. StartsHigh(X \o Y) = StartsHigh(X)
      BY <3>2, <3>3 DEF StartsHigh
    <3>5. ~(w < nd)
      BY <1>3, <2>1
    <3>6. QED
      BY <1>9, <3>4, <3>5 DEF StartsHigh
  <2>2. CASE ~(nd < w)
    <3>1. Len(X) = 0
      BY <1>5, <2>2
    <3>2. X = <<>>
      BY <1>5, <1>11, <3>1
    <3>3. X \o Y = Y
      BY <1>7, <3>2, ConcatEmptySeq
    <3>4. CASE w < nd
      BY <1>9, <2>0, <3>2, <3>3, <3>4 DEF StartsHigh
    <3>5. CASE ~(w < nd)
      <4>1. w = nd
        BY <1>3, <2>2, <3>5
      <4>2. Len(b) = 0
        BY <1>3, <1>6, <1>7, <4>1
      <4>3. b = <<>>
        BY <1>7, <1>11, <4>2
      <4>4. Y = F
        BY <1>7, <4>3, ConcatEmptySeq
      <4>5. ~StartsHigh(Y)
        BY <4>1, <4>4
      <4>6. QED
        BY <1>9, <2>0, <3>2, <3>3, <3>5, <4>5 DEF StartsHigh
    <3>6. QED
      BY <3>4, <3>5
  <2>3. QED
    BY <2>1, <2>2
<1>17. a \o b \in Seq(Digit)
  BY <1>12
<1>18. QED
  BY <1>3, <1>8, <1>10, <1>12, <1>14, <1>15, <1>16 DEF W, F, w, l, b, X

\* A decimal that a format holds.
Good(v, nd) == /\ v = [neg |-> v.neg, e |-> v.e, m |-> v.m]
               /\ v.neg \in BOOLEAN /\ v.e \in Int /\ v.m \in Nat /\ v.m < Pow10[nd]

\* A number as it comes from the text.
Bcd(m, e, s) == [sign |-> s, mant |-> m, expo |-> e]

\* Where none of the faults is met, what is read is what is meant.
LEMMA ReadsMeant ==
    ASSUME NEW t \in Text, NEW nd \in Nat, NEW kept \in Nat \ {0},
           ~strtoHangs(t, nd), Fault(t, nd, kept) = "right"
    PROVE  LET v == Meant(t, nd) IN
           Good(v, nd) /\ strtobcd(t, nd, kept) = Bcd(v.m, v.e, v.neg)
<1> DEFINE b == strtobcd(t, nd, kept)
           u == unrounded(t, nd)
           R == Left(t, nd)
           L == Len(R)
           P == Pow10[nd]
           w == Len(Whole(t))
           l == Len(t.frac)
           e == Len(Beyond(Whole(t), nd)) - Len(Read2(t, nd))
<1>1. /\ w \in Nat /\ l \in Nat /\ R \in Seq(Digit)
      /\ NumOf(t.int \o t.frac) = u * Pow10[L] + NumOf(R)
      /\ L = (IF w + l > nd THEN w + l - nd ELSE 0)
      /\ e = (IF w + l > nd THEN w - nd ELSE 0 - l)
      /\ ~(w = nd /\ StartsHigh(t.frac)) => roff(t, nd) = StartsHigh(R)
  BY Splits
<1>2. /\ ~(roff(t, nd) /\ ~t.neg /\ u + 1 = P)
      /\ ~(roff(t, nd) /\ t.neg)
      /\ ~(w = nd /\ StartsHigh(t.frac))
      /\ ~(roff(t, nd) /\ u \div Pow10[zeros(u + 1)] >= Pow10[kept])
  BY DEF Fault
<1>3. b = [sign |-> b.sign, mant |-> b.mant, expo |-> b.expo]
      /\ b.sign \in BOOLEAN /\ b.mant \in Nat /\ b.expo \in Int /\ b.mant < P
  BY <1>2, Rounded
<1>4. b.sign = t.neg /\ b.expo = e
      /\ b.mant = IF roff(t, nd) THEN round_bcd(u, t.neg, kept) ELSE u
  BY DEF strtobcd
<1>5. u \in Nat
  BY Readings
<1>6. b.mant = u + (IF roff(t, nd) THEN 1 ELSE 0)
  <2>1. CASE roff(t, nd)
    <3>1. t.neg = FALSE
      BY <1>2, <2>1 DEF Text
    <3>2. u \div Pow10[zeros(u + 1)] < Pow10[kept]
      <4>1. zeros(u + 1) \in Nat
        <5>1. u + 1 \in Nat /\ u + 1 # 0
          BY <1>5
        <5>2. zeros(u + 1) \in 0 .. u + 1
          BY <5>1, Zeros
        <5>3. QED
          BY <5>1, <5>2
      <4>2. Pow10[zeros(u + 1)] \in Nat \ {0} /\ Pow10[kept] \in Nat
        BY <4>1, Powers
      <4>3. u \div Pow10[zeros(u + 1)] \in Nat
        BY <1>5, <4>2, DivMod
      <4>4. QED
        BY <1>2, <2>1, <4>2, <4>3
    <3>3. round_bcd(u, FALSE, kept) = u + 1
      BY <1>5, <3>2, RoundUp
    <3>4. QED
      BY <1>4, <2>1, <3>1, <3>3
  <2>2. CASE ~roff(t, nd)
    <3>1. b.mant = u /\ u + 0 = u
      BY <1>4, <1>5, <2>2
    <3>2. QED
      BY <2>2, <3>1
  <2>3. QED
    BY <2>1, <2>2
<1> DEFINE all == NumOf(t.int \o t.frac)
           x == IF L = 0 THEN all ELSE (all + 5 * Pow10[L - 1]) \div Pow10[L]
<1>7. x = b.mant
  <2>1. CASE L = 0
    <3>1. R = <<>>
      BY <1>1, <2>1, EmptySeq
    <3>2. ~StartsHigh(R)
      BY <3>1 DEF StartsHigh
    <3>3. NumOf(R) = 0
      <4>1. \A i \in 1 .. Len(R) : R[i] = 0
        BY <2>1
      <4> HIDE DEF R
      <4>2. QED
        BY <1>1, <4>1, Noughts
    <3>4. u * 1 + 0 = u /\ u + 0 = u
      BY <1>5
    <3>5. all = u
      BY <1>1, <2>1, <3>3, <3>4, Powers
    <3>6. b.mant = u
      BY <1>1, <1>2, <1>6, <3>2, <3>4
    <3>7. QED
      BY <2>1, <3>5, <3>6
  <2>2. CASE L # 0
    <3>1. R # <<>>
      BY <2>2, EmptySeq
    <3>2. (u * Pow10[L] + NumOf(R) + 5 * Pow10[L - 1]) \div Pow10[L] =
             u + (IF StartsHigh(R) THEN 1 ELSE 0)
      BY <1>1, <1>5, <3>1, HalfUp
    <3>3. x = u + (IF StartsHigh(R) THEN 1 ELSE 0)
      BY <1>1, <2>2, <3>2
    <3>4. QED
      BY <1>1, <1>2, <1>6, <3>3
  <2>3. QED
    BY <2>1, <2>2
<1>8. Meant(t, nd) = [neg |-> t.neg, e |-> e, m |-> x]
  <2> DEFINE ww == Len(NoZeros(t.int))
             places == IF ww + l > nd THEN nd - ww ELSE l
             places1 == IF places > l THEN l ELSE places
  <2>1. ww = w
    BY DEF Whole
  <2>2. places1 = places /\ l - places = L /\ - places = e
    <3> HIDE DEF ww, e, L, w, l
    <3>1. QED
      BY <1>1, <2>1
  <2>3. Meant(t, nd) = [neg |-> t.neg, e |-> -places1,
                        m |-> IF l - places1 = 0 THEN all
                              ELSE (all + 5 * Pow10[l - places1 - 1]) \div Pow10[l - places1]]
    BY DEF Meant
  <2> HIDE DEF places1, places, e, L, all
  <2>4. QED
    BY <2>2, <2>3
<1> HIDE DEF b, x, e, P
<1>9. Bcd(x, e, t.neg) = b
  BY <1>3, <1>4, <1>7 DEF Bcd
<1>10. QED
  BY <1>3, <1>4, <1>7, <1>8, <1>9 DEF Good, b, P

\* The digits written of a number are its lowest.
LEMMA Spells ==
    ASSUME NEW m \in Nat, NEW n \in Nat
    PROVE  LET ds == digits(m, n) IN
           ds \in Seq(Digit) /\ Len(ds) = n /\ NumOf(ds) = m % Pow10[n]
<1> DEFINE ds == digits(m, n)
           Y(j) == m \div Pow10[n - j]
<1>1. \A j \in 0 .. n : Y(j) \in Nat
  <2> SUFFICES ASSUME NEW j \in 0 .. n
               PROVE  Y(j) \in Nat
    OBVIOUS
  <2>1. n - j \in Nat
    OBVIOUS
  <2>2. QED
    BY <2>1, Powers, DivMod
<1>2. ds = [i \in 1 .. n |-> Y(i) % 10]
  BY DEF digits, digit
<1> HIDE DEF Y, ds
<1>3. ds \in Seq(Digit) /\ Len(ds) = n
  <2>1. \A i \in 1 .. n : Y(i) % 10 \in Digit
    <3> SUFFICES ASSUME NEW i \in 1 .. n
                 PROVE  Y(i) % 10 \in Digit
      OBVIOUS
    <3>1. Y(i) \in Nat
      BY <1>1
    <3>2. \A x \in Nat : x % 10 \in Digit
      BY DivMod DEF Digit
    <3>3. QED
      BY <3>1, <3>2
  <2>2. ds \in [1 .. n -> Digit]
    BY <1>2, <2>1
  <2>3. QED
    BY <2>2
<1>4. PICK v : v[0] = 0 /\ (\A i \in 1 .. n : v[i] = 10 * v[i - 1] + ds[i]) /\ NumOf(ds) = v[n]
  BY <1>3, Spelt
<1> DEFINE B == {j \in Nat : v[j] = Y(j) % Pow10[j]}
<1>5. 0 \in B
  <2>1. Y(0) \in Nat
    BY <1>1
  <2>2. Y(0) % 1 = 0
    BY <2>1
  <2>3. QED
    BY <1>4, <2>2, Powers
<1>6. ASSUME NEW j \in Nat, j < n, j \in B
      PROVE  j + 1 \in B
  <2> DEFINE y == Y(j + 1)
             p == Pow10[j]
             k == n - (j + 1)
  <2>1. j + 1 \in 1 .. n /\ (j + 1) - 1 = j /\ k \in Nat /\ k + 1 = n - j
    BY <1>6
  <2>2. y \in Nat
    BY <1>1, <2>1
  <2>3. Y(j) = y \div 10
    <3>1. Pow10[k] \in Nat \ {0} /\ Pow10[n - j] = Pow10[k] * 10
      <4>1. Pow10[k] \in Nat \ {0} /\ Pow10[k + 1] = 10 * Pow10[k]
        BY <2>1, Powers
      <4> HIDE DEF k
      <4>2. QED
        BY <2>1, <4>1
    <3>2. InTwo(m, Pow10[k], 10)
      BY <3>1, DivDiv
    <3>3. QED
      BY <3>1, <3>2 DEF InTwo, Y
  <2>4. p \in Nat \ {0} /\ Pow10[j + 1] = 10 * p
    BY Powers
  <2>5. v[j + 1] = 10 * v[j] + (y % 10)
    BY <1>2, <1>4, <2>1
  <2>6. v[j] = (y \div 10) % p
    BY <1>6, <2>3
  <2> HIDE DEF y, p
  <2>7. y % (10 * p) = (y % 10) + 10 * ((y \div 10) % p)
    <3>1. InTwo(y, 10, p)
      BY <2>2, <2>4, DivDiv
    <3>2. QED
      BY <3>1 DEF InTwo
  <2>8. v[j + 1] = y % Pow10[j + 1]
    <3>1. y % 10 \in Nat /\ (y \div 10) % p \in Nat
      BY <2>2, <2>4, DivMod
    <3>2. QED
      BY <2>4, <2>5, <2>6, <2>7, <3>1
  <2>9. QED
    BY <2>8 DEF y
<1>7. 0 .. n \subseteq B
  <2> HIDE DEF B
  <2>1. QED
    BY <1>5, <1>6, InductionTo
<1>8. Y(n) = m
  <2>1. n - n = 0 /\ m \div 1 = m
    OBVIOUS
  <2>2. QED
    BY <2>1, Powers DEF Y
<1>9. QED
  BY <1>3, <1>4, <1>7, <1>8 DEF ds

\* Nothing is lost of a number when as many digits are written as it has.
LEMMA SpellsAll ==
    ASSUME NEW m \in Nat
    PROVE  LET ds == digits(m, ndigits(m)) IN ds \in Seq(Digit) /\ NumOf(ds) = m
<1> DEFINE n == ndigits(m)
<1>1. n \in Nat /\ m < Pow10[n]
  <2>1. CASE m = 0
    <3>1. n = 1
      BY <2>1 DEF ndigits
    <3>2. Pow10[1] > 1 /\ Pow10[1] \in Nat
      BY Powers
    <3>3. QED
      BY <2>1, <3>1, <3>2
  <2>2. CASE m # 0
    BY <2>2, Places
  <2>3. QED
    BY <2>1, <2>2
<1> HIDE DEF n
<1>2. digits(m, n) \in Seq(Digit) /\ NumOf(digits(m, n)) = m % Pow10[n]
  BY <1>1, Spells
<1>3. m % Pow10[n] = m
  BY <1>1, Powers, Small
<1>4. QED
  BY <1>2, <1>3 DEF n

\* A text written of a decimal spells it.
LEMMA Written ==
    ASSUME NEW m \in Nat, NEW e \in Int, NEW s
    PROVE  LET txt == bcdtostr(m, e, s) IN
           /\ Len(txt.frac) = (IF e < 0 THEN -e ELSE 0)
           /\ NumOf(txt.int \o txt.frac) = m * Pow10[IF e < 0 THEN 0 ELSE e]
           /\ txt.neg = s
<1>1. CASE e < 0
  <2> DEFINE p == Pow10[-e]
             q == m \div p
             r == m % p
             a == digits(q, ndigits(q))
             b == digits(r, -e)
  <2>1. -e \in Nat /\ p \in Nat \ {0}
    BY <1>1, Powers
  <2>2. q \in Nat /\ r \in 0 .. p - 1 /\ m = p * q + r
    BY <2>1, DivMod
  <2>3. bcdtostr(m, e, s) = [neg |-> s, int |-> a, frac |-> b]
    BY <1>1 DEF bcdtostr
  <2> HIDE DEF p, q, r
  <2>4. a \in Seq(Digit) /\ NumOf(a) = q
    BY <2>2, SpellsAll
  <2>5. b \in Seq(Digit) /\ Len(b) = -e /\ NumOf(b) = r
    <3>1. b \in Seq(Digit) /\ Len(b) = -e /\ NumOf(b) = r % p
      BY <2>1, <2>2, Spells DEF p
    <3>2. r % p = r
      BY <2>1, <2>2, Small
    <3>3. QED
      BY <3>1, <3>2
  <2> HIDE DEF a, b
  <2>6. NumOf(a \o b) = q * p + r
    BY <2>4, <2>5, Joined DEF p
  <2>7. NumOf(a \o b) = m * 1
    <3>1. q * p = p * q
      BY <2>1, <2>2
    <3>2. QED
      BY <2>2, <2>6, <3>1
  <2>8. QED
    BY <1>1, <2>3, <2>5, <2>7, Powers
<1>2. CASE ~(e < 0)
  <2> DEFINE a == digits(m, ndigits(m))
             b == repeat(0, e)
  <2>1. e \in Nat
    BY <1>2
  <2>2. bcdtostr(m, e, s) = [neg |-> s, int |-> a \o b, frac |-> <<>>]
    BY <1>2 DEF bcdtostr
  <2>3. a \in Seq(Digit) /\ NumOf(a) = m
    BY SpellsAll
  <2>4. b \in Seq(Digit) /\ Len(b) = e /\ \A i \in 1 .. Len(b) : b[i] = 0
    <3>1. b = [i \in 1 .. e |-> 0]
      BY DEF repeat
    <3> HIDE DEF b
    <3>2. b \in [1 .. e -> Digit]
      BY <3>1 DEF Digit
    <3>3. QED
      BY <2>1, <3>1, <3>2
  <2> HIDE DEF a, b
  <2>5. NumOf(b) = 0
    BY <2>4, Noughts
  <2>6. NumOf(a \o b) = m * Pow10[e]
    <3>1. NumOf(a \o b) = m * Pow10[e] + 0
      BY <2>3, <2>4, <2>5, Joined
    <3>2. m * Pow10[e] \in Nat
      BY <2>1, Powers
    <3>3. QED
      BY <3>1, <3>2
  <2>7. a \o b \in Seq(Digit)
    BY <2>3, <2>4, ConcatProperties
  <2>8. (a \o b) \o <<>> = a \o b
    BY <2>7, ConcatEmptySeq
  <2>9. QED
    BY <1>2, <2>2, <2>6, <2>8, EmptySeq
<1>3. QED
  BY <1>1, <1>2

\* Cutting one digit rounds half up.
LEMMA CutOne ==
    ASSUME NEW m \in Nat
    PROVE  cut(m, 1) = (m + 5) \div 10
<1>1. cut(m, 1) = shorter(m)
  BY Cuts
<1> DEFINE a == m \div 10
           b == m % 10
<1>2. a \in Nat /\ b \in 0 .. 9 /\ m = 10 * a + b
  BY DivMod
<1>3. shorter(m) = a + (IF b >= 5 THEN 1 ELSE 0)
  BY DEF shorter
<1> HIDE DEF a, b
<1>4. CASE b >= 5
  <2> DEFINE c == a + 1
             r == b - 5
  <2>1. c \in Nat /\ r \in 0 .. 10 - 1 /\ m + 5 = 10 * c + r
    BY <1>2, <1>4
  <2> HIDE DEF c, r
  <2>2. (10 * c + r) \div 10 = c
    BY <2>1, Divides
  <2>3. QED
    BY <1>1, <1>3, <1>4, <2>1, <2>2 DEF c
<1>5. CASE ~(b >= 5)
  <2>1. b + 5 \in 0 .. 10 - 1 /\ m + 5 = 10 * a + (b + 5)
    BY <1>2, <1>5
  <2>2. (10 * a + (b + 5)) \div 10 = a
    BY <1>2, <2>1, Divides
  <2>3. a + 0 = a
    BY <1>2
  <2>4. QED
    BY <1>1, <1>3, <1>5, <2>1, <2>2, <2>3
<1>6. QED
  BY <1>4, <1>5

\* The zeros there is room for are the ones that bring the number nearest to
\* the quantum.
LEMMA RoomRight ==
    ASSUME NEW m \in Nat, NEW n \in Nat, NEW nd \in Nat, m < Pow10[nd]
    PROVE  room(m, n, nd) = CHOOSE j \in 0 .. n : /\ m * Pow10[j] < Pow10[nd]
                                                  /\ j = n \/ m * Pow10[j + 1] >= Pow10[nd]
<1> DEFINE P == Pow10[nd]
           r == room(m, n, nd)
           G(j) == m * Pow10[j] < P /\ (j = n \/ m * Pow10[j + 1] >= P)
<1>1. P \in Nat \ {0} /\ r \in Nat /\ m * Pow10[r] < P
  BY Powers, Room
<1>2. r <= n /\ (r = n \/ m * Pow10[r + 1] >= P)
  <2>1. CASE m = 0
    BY <2>1 DEF room
  <2>2. CASE m # 0
    <3> DEFINE d == ndigits(m)
    <3>1. d \in Nat \ {0} /\ Pow10[d - 1] <= m /\ d - 1 \in Nat
      BY <2>2, Places
    <3>2. r = IF nd - d < 0 THEN 0 ELSE IF nd - d < n THEN nd - d ELSE n
      BY <2>2 DEF room
    <3> HIDE DEF d, r
    <3>3. d <= nd
      <4>1. SUFFICES ASSUME nd < d
                     PROVE  FALSE
        BY <3>1
      <4>2. nd <= d - 1
        BY <3>1, <4>1
      <4>3. P <= Pow10[d - 1] /\ Pow10[d - 1] \in Nat
        BY <3>1, <4>2, Powers, PowersGrow
      <4>4. QED
        BY <1>1, <3>1, <4>3
    <3>4. r <= n /\ (r = n \/ r = nd - d)
      BY <3>1, <3>2, <3>3
    <3>5. ASSUME r = nd - d
          PROVE  m * Pow10[r + 1] >= P
      <4> DEFINE a == Pow10[d - 1]
                 b == Pow10[r + 1]
      <4>1. (d - 1) + (r + 1) = nd /\ r + 1 \in Nat
        BY <1>1, <3>1, <3>5
      <4>2. P = a * b
        BY <3>1, <4>1, PowerSum
      <4>3. a \in Nat /\ b \in Nat /\ a <= m
        BY <3>1, <4>1, Powers
      <4> HIDE DEF a, b
      <4>4. b * a <= b * m /\ b * a = a * b /\ b * m = m * b
        BY <4>3, Times
      <4>5. m * b >= P
        BY <1>1, <4>2, <4>3, <4>4
      <4>6. QED
        BY <4>5 DEF b
    <3>6. QED
      BY <3>4, <3>5
  <2>3. QED
    BY <2>1, <2>2
<1> HIDE DEF r
<1>3. r \in 0 .. n /\ G(r)
  BY <1>1, <1>2
<1>4. ASSUME NEW j \in 0 .. n, NEW k \in 0 .. n, G(j), G(k), j < k
      PROVE  FALSE
  <2>1. m * Pow10[j + 1] >= P
    BY <1>4
  <2>2. Pow10[j + 1] <= Pow10[k] /\ Pow10[j + 1] \in Nat /\ Pow10[k] \in Nat
    <3>1. j + 1 \in Nat /\ k \in Nat /\ j + 1 <= k
      BY <1>4
    <3>2. QED
      BY <3>1, Powers, PowersGrow
  <2> DEFINE a == Pow10[j + 1]
             b == Pow10[k]
  <2>3. m * a <= m * b /\ m * a \in Nat /\ m * b \in Nat
    <3> HIDE DEF a, b
    <3>1. QED
      BY <2>2, Times DEF a, b
  <2>4. m * b < P
    BY <1>4
  <2> HIDE DEF a, b, P, G
  <2>5. QED
    BY <1>1, <2>1, <2>3, <2>4 DEF a
<1> HIDE DEF G
<1>5. \A j \in 0 .. n : G(j) => j = r
  <2> SUFFICES ASSUME NEW j \in 0 .. n, G(j)
               PROVE  j = r
    OBVIOUS
  <2>1. ~(j < r) /\ ~(r < j)
    BY <1>3, <1>4
  <2>2. QED
    BY <1>3, <2>1
<1>6. (CHOOSE j \in 0 .. n : G(j)) = r
  BY <1>3, <1>5
<1>7. QED
  BY <1>6 DEF G, r, P

\* Bringing a decimal to a quantum gives the nearest one, if no more than one
\* digit is cut.
LEMMA QuantumRight ==
    ASSUME NEW v, NEW nd \in Nat, Good(v, nd), NEW er \in Int, er - v.e <= 1
    PROVE  LET q == quantize(v.m, v.e, er, nd) IN
           Nearest(v, er, nd) = [neg |-> v.neg, e |-> q.ex, m |-> q.m]
<1> DEFINE m == v.m
           e == v.e
           n == e - er
           q == quantize(m, e, er, nd)
           y == Nearest(v, er, nd)
<1>1. v = [neg |-> v.neg, e |-> e, m |-> m] /\ e \in Int /\ m \in Nat /\ m < Pow10[nd]
  BY DEF Good
<1>2. CASE e < er
  <2>1. er - e = 1 /\ er - e > 0 /\ (er - e) - 1 = 0
    BY <1>1, <1>2
  <2>2. y = [v EXCEPT !.m = (@ + 5 * Pow10[(er - e) - 1]) \div Pow10[er - e], !.e = er]
    BY <2>1 DEF Nearest
  <2>3. Pow10[0] = 1 /\ Pow10[1] = 10
    <3>1. Pow10[0] = 1 /\ Pow10[0 + 1] = 10 * Pow10[0]
      BY Powers
    <3>2. QED
      BY <3>1
  <2>4. y = [neg |-> v.neg, e |-> er, m |-> (m + 5 * Pow10[(er - e) - 1]) \div Pow10[er - e]]
    BY <1>1, <2>2
  <2>5. y = [neg |-> v.neg, e |-> er, m |-> (m + 5) \div 10]
    <3>1. Pow10[(er - e) - 1] = 1 /\ Pow10[er - e] = 10
      BY <2>1, <2>3
    <3>2. 5 * 1 = 5
      OBVIOUS
    <3> HIDE DEF y, m, e
    <3>3. QED
      BY <2>4, <3>1, <3>2
  <2>6. q = [m |-> cut(m, 1), ex |-> er]
    BY <1>2, <2>1 DEF quantize
  <2>7. cut(m, 1) = (m + 5) \div 10
    BY <1>1, CutOne
  <2>8. QED
    BY <2>5, <2>6, <2>7
<1>3. CASE ~(e < er)
  <2> DEFINE r == room(m, n, nd)
             G(j) == m * Pow10[j] < Pow10[nd] /\ (j = n \/ m * Pow10[j + 1] >= Pow10[nd])
             c == CHOOSE j \in 0 .. n : G(j)
  <2>1. n \in Nat /\ ~(er - e > 0) /\ -(er - e) = n
    BY <1>1, <1>3
  <2>2. r = c
    BY <1>1, <2>1, RoomRight
  <2>3. y = LET j == CHOOSE j \in 0 .. -(er - e) :
                        /\ m * Pow10[j] < Pow10[nd]
                        /\ j = -(er - e) \/ m * Pow10[j + 1] >= Pow10[nd]
            IN  [v EXCEPT !.m = @ * Pow10[j], !.e = @ - j]
    BY <2>1 DEF Nearest
  <2>4. y = [v EXCEPT !.m = @ * Pow10[c], !.e = @ - c]
    BY <2>1, <2>3
  <2>5. q = [m |-> m * Pow10[r], ex |-> e - r]
    BY <1>3 DEF quantize
  <2> HIDE DEF c, r
  <2>6. y = [neg |-> v.neg, e |-> e - c, m |-> m * Pow10[c]]
    BY <1>1, <2>4
  <2>7. QED
    BY <2>2, <2>5, <2>6
<1>4. QED
  BY <1>2, <1>3

-----------------------------------------------------------------------------
(* The words of the formats.                                                *)

\* What the words of 64 bits are made of, and those of 32 bits where no carry
\* was lost.
Made64(x, y) == \E m \in Nat, e \in Int, s \in BOOLEAN :
                    /\ s => m < Pow10[ND64]
                    /\ x = bcd64tobid(Bcd(m, e, s)) /\ y = bcd64todpd(Bcd(m, e, s))
Made32(x, y) == \E m \in Nat, e \in Int, s \in BOOLEAN :
                    /\ m < Pow10[ND32]
                    /\ x = bcd32tobid(Bcd(m, e, s)) /\ y = bcd32todpd(Bcd(m, e, s))

\* The sizes of the formats.
LEMMA Formats64 ==
    ND64 = 3 * Dec64 /\ Dec64 \in Nat /\ ND64 \in Nat /\ Pow10[ND64] \in Nat \ {0}
<1>1. ND64 = 3 * Dec64 /\ Dec64 \in Nat /\ ND64 \in Nat
  BY Dfp754Assumption DEF ND64
<1>2. QED
  BY <1>1, Powers

LEMMA Formats32 ==
    /\ 3 * Dec32 \in Nat /\ Dec32 \in Nat /\ ND32 \in Nat \ {0}
    /\ Pow10[ND32] \in Nat \ {0} /\ Pow10[3 * Dec32] \in Nat \ {0}
    /\ Pow10[ND32] = Pow10[3 * Dec32] * 10
    /\ Hid32 \in Nat \ {0} /\ Pow10[ND32] <= Hid32 + Hid32
<1> DEFINE k == 3 * Dec32
<1>1. k \in Nat /\ Dec32 \in Nat /\ ND32 = k + 1 /\ k + 1 \in Nat
  BY Dfp754Assumption DEF ND32
<1>2. Hid32 \in Nat \ {0} /\ Pow10[ND32] <= 2 * Hid32
  BY Hid32Assumption
<1> HIDE DEF k
<1>3. Pow10[k + 1] = 10 * Pow10[k] /\ Pow10[k] \in Nat \ {0} /\ Pow10[k + 1] \in Nat \ {0}
  BY <1>1, Powers
<1>4. QED
  BY <1>1, <1>2, <1>3 DEF k

\* The significand of a 32 bit word, in either encoding, is the one it was
\* made of.
LEMMA Word32 ==
    ASSUME NEW m \in Nat, NEW e, NEW s, m < Pow10[ND32]
    PROVE  /\ mant_bid32(assemble_bid32(m, e, s)) = m
           /\ bcd_dpd32(bcd32todpd(Bcd(m, e, s))) = m
<1> DEFINE P == Pow10[ND32]
           Q == Pow10[3 * Dec32]
           H == Hid32
           top == m \div Q
           u == undeclet(declets(m, Dec32))
<1>1. /\ P \in Nat \ {0} /\ Q \in Nat \ {0} /\ P = Q * 10 /\ m < P
      /\ H \in Nat \ {0} /\ P <= H + H
  BY Formats32
<1>2. u = m % Q
  BY Formats32, Unpacked
<1>3. assemble_bid32(m, e, s).hid = (m >= H) /\ assemble_bid32(m, e, s).m = m % H
  BY DEF assemble_bid32
<1>4. mant_bid32(assemble_bid32(m, e, s)) = IF m >= H THEN H + (m % H) ELSE m % H
  BY <1>3 DEF mant_bid32
<1>5. bcd_dpd32(bcd32todpd(Bcd(m, e, s))) =
         (IF top >= 8 THEN 8 + lo(IF top >= 8 THEN lo(top) ELSE top)
                      ELSE IF top >= 8 THEN lo(top) ELSE top) * Q + u
  BY DEF bcd_dpd32, bcd32todpd, Bcd
<1> HIDE DEF P, Q, H, u
<1>6. ASSUME m < H
      PROVE  mant_bid32(assemble_bid32(m, e, s)) = m
  <2>1. m % H = m
    BY <1>1, <1>6, Small
  <2>2. ~(m >= H)
    BY <1>1, <1>6
  <2>3. QED
    BY <1>4, <2>1, <2>2
<1>7. ASSUME m >= H
      PROVE  mant_bid32(assemble_bid32(m, e, s)) = m
  <2> DEFINE r == m - H
  <2>1. r \in 0 .. H - 1 /\ m = H * 1 + r
    BY <1>1, <1>7
  <2> HIDE DEF r
  <2>2. (H * 1 + r) % H = r
    BY <1>1, <2>1, Divides
  <2>3. m % H = r /\ H + r = m
    BY <1>1, <2>1, <2>2
  <2>4. QED
    BY <1>4, <1>7, <2>3
<1>8. mant_bid32(assemble_bid32(m, e, s)) = m
  BY <1>1, <1>6, <1>7
<1>9. top \in Nat /\ m % Q \in 0 .. Q - 1 /\ m = Q * top + (m % Q)
  BY <1>1, DivMod
<1> HIDE DEF top
<1>10. top \in Digit
  <2>1. SUFFICES ASSUME top >= 10
                 PROVE  FALSE
    BY <1>9 DEF Digit
  <2>2. Q * 10 <= Q * top /\ Q * top \in Nat
    BY <1>1, <1>9, <2>1, Times
  <2>3. QED
    BY <1>1, <1>9, <2>2
<1>11. (IF top >= 8 THEN 8 + lo(IF top >= 8 THEN lo(top) ELSE top)
                    ELSE IF top >= 8 THEN lo(top) ELSE top) = top
  <2>1. CASE top >= 8
    <3>1. lo(top) \in {0, 1} /\ top = 8 + lo(top)
      BY <1>10, <2>1, Bits DEF Digit
    <3>2. lo(lo(top)) = lo(top)
      BY <3>1 DEF lo
    <3>3. QED
      BY <2>1, <3>1, <3>2
  <2>2. QED
    BY <2>1
<1>12. bcd_dpd32(bcd32todpd(Bcd(m, e, s))) = top * Q + u
  BY <1>5, <1>11
<1>13. top * Q = Q * top
  BY <1>1, <1>9
<1>14. QED
  BY <1>2, <1>8, <1>9, <1>12, <1>13

\* And that of a 64 bit word are its lower digits.
LEMMA Word64 ==
    ASSUME NEW m \in Nat, NEW e, NEW s
    PROVE  /\ mant_bid64(bcd64tobid(Bcd(m, e, s))) = m % Pow10[ND64]
           /\ bcd_dpd64(bcd64todpd(Bcd(m, e, s))) = m % Pow10[ND64]
<1>1. undeclet(declets(m, Dec64)) = m % Pow10[ND64]
  BY Formats64, Unpacked
<1>2. QED
  BY <1>1 DEF mant_bid64, bcd64tobid, bid64, bcd_dpd64, bcd64todpd, Bcd

\* Scaling words is scaling the number they are made of.
LEMMA ScaledTo ==
    ASSUME NEW m, NEW e, NEW s, NEW n
    PROVE  /\ scalbnbid64(bcd64tobid(Bcd(m, e, s)), n) = bcd64tobid(Bcd(m, e + n, s))
           /\ scalbndpd64(bcd64todpd(Bcd(m, e, s)), n) = bcd64todpd(Bcd(m, e + n, s))
           /\ scalbnbid32(bcd32tobid(Bcd(m, e, s)), n) = bcd32tobid(Bcd(m, e + n, s))
           /\ scalbndpd32(bcd32todpd(Bcd(m, e, s)), n) = bcd32todpd(Bcd(m, e + n, s))
<1>1. scalbnbid64(bcd64tobid(Bcd(m, e, s)), n) = bcd64tobid(Bcd(m, e + n, s))
  BY DEF scalbnbid64, bcd64tobid, bid64, Bcd
<1>2. scalbndpd64(bcd64todpd(Bcd(m, e, s)), n) = bcd64todpd(Bcd(m, e + n, s))
  BY DEF scalbndpd64, bcd64todpd, Bcd
<1>3. scalbnbid32(bcd32tobid(Bcd(m, e, s)), n) = bcd32tobid(Bcd(m, e + n, s))
  BY DEF scalbnbid32, bcd32tobid, assemble_bid32, Bcd
<1>4. scalbndpd32(bcd32todpd(Bcd(m, e, s)), n) = bcd32todpd(Bcd(m, e + n, s))
  BY DEF scalbndpd32, bcd32todpd, Bcd
<1>5. QED
  BY <1>1, <1>2, <1>3, <1>4

\* Quantising words is quantising the number they hold.
LEMMA QuantisedTo ==
    ASSUME NEW m \in Nat, NEW e \in Int, NEW s, NEW er \in Int
    PROVE  /\ LET q == quantize(m % Pow10[ND64], e, er, ND64) IN
              /\ quantizebid64(bcd64tobid(Bcd(m, e, s)), er) = bcd64tobid(Bcd(q.m, q.ex, s))
              /\ quantizedpd64(bcd64todpd(Bcd(m, e, s)), er) = bcd64todpd(Bcd(q.m, q.ex, s))
           /\ LET q == quantize(m, e, er, ND32) IN
              m < Pow10[ND32] =>
              /\ quantizebid32(bcd32tobid(Bcd(m, e, s)), er) = bcd32tobid(Bcd(q.m, q.ex, s))
              /\ quantizedpd32(bcd32todpd(Bcd(m, e, s)), er) = bcd32todpd(Bcd(q.m, q.ex, s))
<1>1. LET q == quantize(m % Pow10[ND64], e, er, ND64) IN
      /\ quantizebid64(bcd64tobid(Bcd(m, e, s)), er) = bcd64tobid(Bcd(q.m, q.ex, s))
      /\ quantizedpd64(bcd64todpd(Bcd(m, e, s)), er) = bcd64todpd(Bcd(q.m, q.ex, s))
  <2> DEFINE P == Pow10[ND64]
             q == quantize(m % P, e, er, ND64)
             x == bcd64tobid(Bcd(m, e, s))
             y == bcd64todpd(Bcd(m, e, s))
  <2>1. mant_bid64(x) = m % P /\ bcd_dpd64(y) = m % P
    BY Word64
  <2>2. x.ex = e /\ x.s = s /\ y.ex = e /\ y.s = s
    BY DEF bcd64tobid, bid64, bcd64todpd, Bcd
  <2>3. q.m \in Nat /\ q.m < P
    <3>1. m % P \in Nat /\ m % P < P /\ ND64 \in Nat
      BY Formats64
    <3>2. QED
      BY <3>1, Fits
  <2>4. q.m % P = q.m
    BY <2>3, Formats64, Small
  <2>5. quantizebid64(x, er) = bid64(q.m, q.ex, s)
    BY <2>1, <2>2 DEF quantizebid64
  <2>6. quantizedpd64(y, er) = bcd64todpd(Bcd(q.m, q.ex, s))
    BY <2>1, <2>2 DEF quantizedpd64, Bcd, bcd64todpd
  <2> HIDE DEF q
  <2>7. quantizebid64(x, er) = bcd64tobid(Bcd(q.m, q.ex, s))
    BY <2>4, <2>5 DEF bcd64tobid, Bcd
  <2>8. QED
    BY <2>6, <2>7 DEF q
<1>2. ASSUME m < Pow10[ND32]
      PROVE  LET q == quantize(m, e, er, ND32) IN
             /\ quantizebid32(bcd32tobid(Bcd(m, e, s)), er) = bcd32tobid(Bcd(q.m, q.ex, s))
             /\ quantizedpd32(bcd32todpd(Bcd(m, e, s)), er) = bcd32todpd(Bcd(q.m, q.ex, s))
  <2> DEFINE P == Pow10[ND32]
             q == quantize(m, e, er, ND32)
             x == bcd32tobid(Bcd(m, e, s))
             y == bcd32todpd(Bcd(m, e, s))
  <2>1. x = assemble_bid32(m, e, s)
    <3>1. m % P = m
      BY <1>2, Formats32, Small
    <3>2. QED
      BY <3>1 DEF bcd32tobid, Bcd
  <2>2. mant_bid32(x) = m /\ bcd_dpd32(y) = m
    BY <1>2, <2>1, Word32
  <2>3. x.ex = e /\ x.s = s /\ y.ex = e /\ y.s = s
    BY DEF bcd32tobid, assemble_bid32, bcd32todpd, Bcd
  <2>4. q.m \in Nat /\ q.m < P
    BY <1>2, Formats32, Fits
  <2>5. q.m % P = q.m
    BY <2>4, Formats32, Small
  <2>6. quantizebid32(x, er) = assemble_bid32(q.m, q.ex, s)
    BY <2>2, <2>3 DEF quantizebid32
  <2>7. quantizedpd32(y, er) = bcd32todpd(Bcd(q.m, q.ex, s))
    BY <2>2, <2>3 DEF quantizedpd32, Bcd, bcd32todpd
  <2> HIDE DEF q
  <2>8. quantizebid32(x, er) = bcd32tobid(Bcd(q.m, q.ex, s))
    BY <2>5, <2>6 DEF bcd32tobid, Bcd
  <2>9. QED
    BY <2>7, <2>8 DEF q
<1>3. QED
  BY <1>1, <1>2

\* Words print the number they are made of.
LEMMA PrintedTo ==
    ASSUME NEW m \in Nat, NEW e, NEW s \in BOOLEAN
    PROVE  /\ LET k == m % Pow10[ND64] IN
              /\ bid64tostr(bcd64tobid(Bcd(m, e, s))) = bcdtostr(k, e, s /\ k # 0)
              /\ (s => m < Pow10[ND64]) =>
                 dpd64tostr(bcd64todpd(Bcd(m, e, s))) = bcdtostr(k, e, s /\ k # 0)
           /\ m < Pow10[ND32] =>
              /\ bid32tostr(bcd32tobid(Bcd(m, e, s))) = bcdtostr(m, e, s /\ m # 0)
              /\ dpd32tostr(bcd32todpd(Bcd(m, e, s))) = bcdtostr(m, e, s /\ m # 0)
<1>1. LET k == m % Pow10[ND64] IN
      /\ bid64tostr(bcd64tobid(Bcd(m, e, s))) = bcdtostr(k, e, s /\ k # 0)
      /\ (s => m < Pow10[ND64]) =>
         dpd64tostr(bcd64todpd(Bcd(m, e, s))) = bcdtostr(k, e, s /\ k # 0)
  <2> DEFINE P == Pow10[ND64]
             k == m % P
             x == bcd64tobid(Bcd(m, e, s))
             y == bcd64todpd(Bcd(m, e, s))
  <2>1. mant_bid64(x) = k /\ bcd_dpd64(y) = k
    BY Word64
  <2>2. x.ex = e /\ x.s = s /\ y.ex = e /\ y.s = s /\ y.t = m \div P
    BY DEF bcd64tobid, bid64, bcd64todpd, Bcd, ND64
  <2>3. k % P = k
    <3>1. k \in Nat /\ k < P /\ P \in Nat \ {0}
      BY Formats64
    <3> HIDE DEF k, P
    <3>2. QED
      BY <3>1, Small
  <2>4. m < P => m \div P = 0
    BY Formats64, Small
  <2>5. bid64tostr(x) = bcdtostr(k, e, s /\ k # 0)
    <3> HIDE DEF k, P, x
    <3>1. QED
      BY <2>1, <2>2, <2>3 DEF bid64tostr, bcd64tostr, P
  <2>6. dpd64tostr(y) = bcdtostr(k, e, s /\ (y.t # 0 \/ k # 0))
    <3> HIDE DEF k, P, y
    <3>1. QED
      BY <2>1, <2>2 DEF dpd64tostr, bcd64tostr
  <2>7. ASSUME s => m < P
        PROVE  (s /\ (y.t # 0 \/ k # 0)) = (s /\ k # 0)
    <3> HIDE DEF k, P, y
    <3>1. QED
      BY <2>2, <2>4, <2>7
  <2>8. (s => m < P) => dpd64tostr(y) = bcdtostr(k, e, s /\ k # 0)
    <3> HIDE DEF k, P, y
    <3>1. QED
      BY <2>6, <2>7
  <2> HIDE DEF k, x, y
  <2>9. QED
    BY <2>5, <2>8 DEF k, x, y
<1>2. ASSUME m < Pow10[ND32]
      PROVE  /\ bid32tostr(bcd32tobid(Bcd(m, e, s))) = bcdtostr(m, e, s /\ m # 0)
             /\ dpd32tostr(bcd32todpd(Bcd(m, e, s))) = bcdtostr(m, e, s /\ m # 0)
  <2> DEFINE x == bcd32tobid(Bcd(m, e, s))
             y == bcd32todpd(Bcd(m, e, s))
  <2>1. m % Pow10[ND32] = m
    BY <1>2, Formats32, Small
  <2>2. x = assemble_bid32(m, e, s)
    BY <2>1 DEF bcd32tobid, Bcd
  <2>3. mant_bid32(x) = m /\ bcd_dpd32(y) = m
    BY <1>2, <2>2, Word32
  <2>4. x.ex = e /\ x.s = s /\ y.ex = e /\ y.s = s
    BY DEF bcd32tobid, assemble_bid32, bcd32todpd, Bcd
  <2> HIDE DEF x, y
  <2>5. QED
    BY <2>1, <2>3, <2>4 DEF bid32tostr, dpd32tostr, bcd32tostr, x, y
<1>3. QED
  BY <1>1, <1>2

\* Reading makes both words of one number.
LEMMA Read64 ==
    ASSUME NEW t \in Text, ~strtoHangs(t, ND64)
    PROVE  Made64(bcd64tobid(strtobcd64(t)), bcd64todpd(strtobcd64(t)))
<1> DEFINE b == strtobcd64(t)
<1>1. /\ b = [sign |-> b.sign, mant |-> b.mant, expo |-> b.expo]
      /\ b.sign \in BOOLEAN /\ b.mant \in Nat /\ b.expo \in Int
      /\ b.sign => b.mant < Pow10[ND64]
  <2>1. Kept \in Nat \ {0}
    BY Dfp754Assumption
  <2>2. QED
    BY <2>1, Formats64, Rounded DEF strtobcd64
<1>2. b = Bcd(b.mant, b.expo, b.sign)
  BY <1>1 DEF Bcd
<1> HIDE DEF b
<1>3. QED
  BY <1>1, <1>2 DEF Made64, b

LEMMA Read32 ==
    ASSUME NEW t \in Text, ~strtoHangs(t, ND32),
           ~(roff(t, ND32) /\ ~t.neg /\ unrounded(t, ND32) + 1 = Pow10[ND32])
    PROVE  Made32(bcd32tobid(strtobcd32(t)), bcd32todpd(strtobcd32(t)))
<1> DEFINE b == strtobcd32(t)
<1>1. /\ b = [sign |-> b.sign, mant |-> b.mant, expo |-> b.expo]
      /\ b.sign \in BOOLEAN /\ b.mant \in Nat /\ b.expo \in Int
      /\ b.mant < Pow10[ND32]
  BY Formats32, Rounded DEF strtobcd32
<1>2. b = Bcd(b.mant, b.expo, b.sign)
  BY <1>1 DEF Bcd
<1> HIDE DEF b
<1>3. QED
  BY <1>1, <1>2 DEF Made32, b

\* Scaling both keeps them so.
LEMMA Scaled ==
    ASSUME NEW x, NEW y, NEW n \in Int
    PROVE  /\ Made64(x, y) => Made64(scalbnbid64(x, n), scalbndpd64(y, n))
           /\ Made32(x, y) => Made32(scalbnbid32(x, n), scalbndpd32(y, n))
<1>1. \A e \in Int : e + n \in Int
  OBVIOUS
<1>2. Made64(x, y) => Made64(scalbnbid64(x, n), scalbndpd64(y, n))
  BY <1>1, ScaledTo DEF Made64
<1>3. Made32(x, y) => Made32(scalbnbid32(x, n), scalbndpd32(y, n))
  BY <1>1, ScaledTo DEF Made32
<1>4. QED
  BY <1>2, <1>3

\* So does quantising them.
LEMMA Quantised ==
    ASSUME NEW x, NEW y, NEW er \in Int
    PROVE  /\ Made64(x, y) => Made64(quantizebid64(x, er), quantizedpd64(y, er))
           /\ Made32(x, y) => Made32(quantizebid32(x, er), quantizedpd32(y, er))
<1>1. ASSUME Made64(x, y)
      PROVE  Made64(quantizebid64(x, er), quantizedpd64(y, er))
  <2>1. PICK m \in Nat, e \in Int, s \in BOOLEAN :
            x = bcd64tobid(Bcd(m, e, s)) /\ y = bcd64todpd(Bcd(m, e, s))
    BY <1>1 DEF Made64
  <2> DEFINE k == m % Pow10[ND64]
             q == quantize(k, e, er, ND64)
  <2>2. k \in Nat /\ k < Pow10[ND64] /\ ND64 \in Nat
    BY Formats64
  <2>3. q.m \in Nat /\ q.m < Pow10[ND64] /\ q.ex \in Int
    <3> HIDE DEF k
    <3>1. QED
      BY <2>2, Fits
  <2>4. /\ quantizebid64(x, er) = bcd64tobid(Bcd(q.m, q.ex, s))
        /\ quantizedpd64(y, er) = bcd64todpd(Bcd(q.m, q.ex, s))
    BY <2>1, QuantisedTo
  <2> HIDE DEF q
  <2>5. QED
    BY <2>3, <2>4 DEF Made64
<1>2. ASSUME Made32(x, y)
      PROVE  Made32(quantizebid32(x, er), quantizedpd32(y, er))
  <2>1. PICK m \in Nat, e \in Int, s \in BOOLEAN :
            /\ m < Pow10[ND32]
            /\ x = bcd32tobid(Bcd(m, e, s)) /\ y = bcd32todpd(Bcd(m, e, s))
    BY <1>2 DEF Made32
  <2> DEFINE q == quantize(m, e, er, ND32)
  <2>2. q.m \in Nat /\ q.m < Pow10[ND32] /\ q.ex \in Int
    BY <2>1, Formats32, Fits
  <2>3. /\ quantizebid32(x, er) = bcd32tobid(Bcd(q.m, q.ex, s))
        /\ quantizedpd32(y, er) = bcd32todpd(Bcd(q.m, q.ex, s))
    BY <2>1, QuantisedTo
  <2> HIDE DEF q
  <2>4. QED
    BY <2>2, <2>3 DEF Made32
<1>3. QED
  BY <1>1, <1>2

\* Words made of one number print the same.
LEMMA Printed ==
    ASSUME NEW x, NEW y
    PROVE  /\ Made64(x, y) => bid64tostr(x) = dpd64tostr(y)
           /\ Made32(x, y) => bid32tostr(x) = dpd32tostr(y)
<1>1. Made64(x, y) => bid64tostr(x) = dpd64tostr(y)
  BY PrintedTo DEF Made64
<1>2. Made32(x, y) => bid32tostr(x) = dpd32tostr(y)
  BY PrintedTo DEF Made32
<1>3. QED
  BY <1>1, <1>2

-----------------------------------------------------------------------------
(* The numbers' invariant.                                                  *)

\* Both words of a size are made of one number, unless the carry of a 32 bit
\* one was lost.
OneNumber == /\ Made64(num.bid64, num.dpd64)
             /\ how["bid32"] # "carried" => Made32(num.bid32, num.dpd32)

\* Nothing is left of an empty text to be rounded.
LEMMA NoneLeft ==
    ASSUME NEW nd \in Nat
    PROVE  ~roff(Zero, nd) /\ Zero \in Text
<1>1. Zero \in Text /\ Zero.int = <<>> /\ Zero.frac = <<>>
  BY EmptySeq DEF Zero, Text
<1>2. Whole(Zero) = <<>>
  BY <1>1 DEF Whole, NoZeros
<1>3. <<>> \in Seq(Digit) /\ Len(<<>>) = 0
  BY EmptySeq
<1>4. Len(Left(Zero, nd)) = 0 /\ Left(Zero, nd) \in Seq(Digit)
      /\ roff(Zero, nd) = StartsHigh(Left(Zero, nd))
  <2>1. ~StartsHigh(Zero.frac)
    BY <1>1 DEF StartsHigh
  <2>2. Len(Whole(Zero)) = 0 /\ Len(Zero.frac) = 0 /\ 0 + 0 = 0
    BY <1>1, <1>2, <1>3
  <2>3. ~(0 + 0 > nd)
    OBVIOUS
  <2>4. QED
    BY <1>1, <2>1, <2>2, <2>3, Splits
<1>5. Left(Zero, nd) = <<>>
  BY <1>4, EmptySeq
<1>6. QED
  BY <1>1, <1>4, <1>5 DEF StartsHigh

\* The invariant holds at the start.
LEMMA OneInit == DfpInit => OneNumber
<1> SUFFICES ASSUME DfpInit
             PROVE  OneNumber
  OBVIOUS
<1>1. Zero \in Text /\ ND64 \in Nat /\ ND32 \in Nat
  BY NoneLeft, Formats64, Formats32
<1>2. \A nd \in Nat : ~roff(Zero, nd)
  BY NoneLeft
<1>3. ~roff(Zero, ND64) /\ ~roff(Zero, ND32)
  BY <1>1, <1>2
<1>4. num = strtod(Zero)
  BY DEF DfpInit
<1>5. Made64(bcd64tobid(strtobcd64(Zero)), bcd64todpd(strtobcd64(Zero)))
  BY <1>1, <1>3, Read64 DEF strtoHangs
<1>6. Made32(bcd32tobid(strtobcd32(Zero)), bcd32todpd(strtobcd32(Zero)))
  BY <1>1, <1>3, Read32 DEF strtoHangs
<1>7. QED
  BY <1>4, <1>5, <1>6 DEF OneNumber, strtod

\* Every operation keeps it.
LEMMA OneNext == OneNumber /\ [DfpNext]_dfpvars => OneNumber'
<1> SUFFICES ASSUME OneNumber, [DfpNext]_dfpvars
             PROVE  OneNumber'
  OBVIOUS
<1>1. ASSUME NEW t \in Texts, Read(t)
      PROVE  OneNumber'
  <2>1. t \in Text
    BY Dfp754Assumption DEF Text
  <2>2. ~strtoHangs(t, ND64) /\ ~strtoHangs(t, ND32) /\ num' = strtod(t)
    BY <1>1 DEF Read
  <2>3. Made64(num'.bid64, num'.dpd64)
    BY <2>1, <2>2, Read64 DEF strtod
  <2>4. ASSUME how'["bid32"] # "carried"
        PROVE  Made32(num'.bid32, num'.dpd32)
    <3>1. how'["bid32"] = Fault(t, Digits["bid32"], IF Digits["bid32"] = ND64 THEN Kept ELSE ND32)
      BY <1>1 DEF Read, Formats
    <3>2. Digits["bid32"] = ND32
      BY DEF Digits, Formats
    <3>3. ~(roff(t, ND32) /\ ~t.neg /\ unrounded(t, ND32) + 1 = Pow10[ND32])
      BY <2>4, <3>1, <3>2 DEF Fault
    <3>4. QED
      BY <2>1, <2>2, <3>3, Read32 DEF strtod
  <2>5. QED
    BY <2>3, <2>4 DEF OneNumber
<1>2. ASSUME NEW t \in Texts, ReadHangs(t)
      PROVE  OneNumber'
  BY <1>2 DEF ReadHangs, OneNumber
<1>3. ASSUME NEW n \in Scales, Scale(n)
      PROVE  OneNumber'
  <2>1. n \in Int /\ num' = scalbnd(num, n) /\ how' = how
    BY <1>3, Dfp754Assumption DEF Scale
  <2>2. /\ num'.bid64 = scalbnbid64(num.bid64, n) /\ num'.dpd64 = scalbndpd64(num.dpd64, n)
        /\ num'.bid32 = scalbnbid32(num.bid32, n) /\ num'.dpd32 = scalbndpd32(num.dpd32, n)
    BY <2>1 DEF scalbnd
  <2>3. QED
    BY <2>1, <2>2, Scaled DEF OneNumber
<1>4. ASSUME NEW er \in Quanta, Quantise(er)
      PROVE  OneNumber'
  <2>1. er \in Int /\ num' = quantized(num, er)
    BY <1>4, Dfp754Assumption DEF Quantise
  <2>2. how["bid32"] = "carried" => how'["bid32"] = "carried"
    BY <1>4 DEF Quantise, Formats
  <2>3. /\ num'.bid64 = quantizebid64(num.bid64, er) /\ num'.dpd64 = quantizedpd64(num.dpd64, er)
        /\ num'.bid32 = quantizebid32(num.bid32, er) /\ num'.dpd32 = quantizedpd32(num.dpd32, er)
    BY <2>1 DEF quantized
  <2>4. QED
    BY <2>1, <2>2, <2>3, Quantised DEF OneNumber
<1>5. CASE UNCHANGED dfpvars
  BY <1>5 DEF dfpvars, OneNumber
<1>6. QED
  BY <1>1, <1>2, <1>3, <1>4, <1>5 DEF DfpNext

\* Whatever is read, scaled and quantised, in whatever formats, the encodings
\* print the same as long as no carry was lost.
THEOREM SamePrinted == DfpSpec => []SameInBoth
<1>1. OneNumber => SameInBoth
  BY Printed DEF OneNumber, SameInBoth, tostr
<1>2. QED
  BY <1>1, OneInit, OneNext, PTL DEF DfpSpec

-----------------------------------------------------------------------------
(* What the words stand for.                                                *)

\* The words of a decimal.
Words(v) == [bid64 |-> bcd64tobid(Bcd(v.m, v.e, v.neg)), dpd64 |-> bcd64todpd(Bcd(v.m, v.e, v.neg)),
             bid32 |-> bcd32tobid(Bcd(v.m, v.e, v.neg)), dpd32 |-> bcd32todpd(Bcd(v.m, v.e, v.neg))]

\* As long as no known fault was met, a format's word is made of the decimal
\* that is meant, and that fits.
Stands == \A f \in Formats : how[f] = "right" => /\ Good(val[f], Digits[f])
                                                 /\ num[f] = Words(val[f])[f]

\* Scaling the words of a decimal gives those of the scaled one.
LEMMA WordsScaled ==
    ASSUME NEW f \in Formats, NEW v, Good(v, Digits[f]), NEW n \in Int,
           NEW x, x[f] = Words(v)[f]
    PROVE  LET y == [v EXCEPT !.e = @ + n] IN
           Good(y, Digits[f]) /\ scalbnd(x, n)[f] = Words(y)[f]
<1> DEFINE y == [v EXCEPT !.e = @ + n]
<1>1. y = [neg |-> v.neg, e |-> v.e + n, m |-> v.m]
  BY DEF Good
<1>2. y.neg = v.neg /\ y.e = v.e + n /\ y.m = v.m
  BY <1>1
<1> HIDE DEF y
<1>3. Good(y, Digits[f])
  BY <1>1, <1>2 DEF Good
<1>4. CASE f = "bid64"
  BY <1>2, <1>3, <1>4, ScaledTo DEF scalbnd, Words, y
<1>5. CASE f = "dpd64"
  BY <1>2, <1>3, <1>5, ScaledTo DEF scalbnd, Words, y
<1>6. CASE f = "bid32"
  BY <1>2, <1>3, <1>6, ScaledTo DEF scalbnd, Words, y
<1>7. CASE f = "dpd32"
  BY <1>2, <1>3, <1>7, ScaledTo DEF scalbnd, Words, y
<1>8. QED
  BY <1>4, <1>5, <1>6, <1>7 DEF Formats

\* The digits of the formats.
LEMMA DigitsOf ==
    /\ Digits["bid64"] = ND64 /\ Digits["dpd64"] = ND64
    /\ Digits["bid32"] = ND32 /\ Digits["dpd32"] = ND32
    /\ \A f \in Formats : Digits[f] \in Nat
<1>1. /\ Digits["bid64"] = ND64 /\ Digits["dpd64"] = ND64
      /\ Digits["bid32"] = ND32 /\ Digits["dpd32"] = ND32
  BY DEF Digits, Formats
<1>2. ND64 \in Nat /\ ND32 \in Nat
  BY Formats64, Formats32
<1>3. QED
  BY <1>1, <1>2 DEF Formats

\* Quantising the words of a decimal gives those of the nearest one.
LEMMA WordsQuantised ==
    ASSUME NEW f \in Formats, NEW v, Good(v, Digits[f]), NEW er \in Int, er - v.e <= 1,
           NEW x, x[f] = Words(v)[f]
    PROVE  LET y == Nearest(v, er, Digits[f]) IN
           Good(y, Digits[f]) /\ quantized(x, er)[f] = Words(y)[f]
<1> DEFINE nd == Digits[f]
           y == Nearest(v, er, nd)
           q == quantize(v.m, v.e, er, nd)
<1>1. nd \in Nat
  BY DigitsOf
<1>2. v.m \in Nat /\ v.m < Pow10[nd] /\ v.e \in Int /\ v.neg \in BOOLEAN
  BY DEF Good
<1>3. q.m \in Nat /\ q.m < Pow10[nd] /\ q.ex \in Int
  BY <1>1, <1>2, Fits
<1>4. y = [neg |-> v.neg, e |-> q.ex, m |-> q.m]
  BY <1>1, QuantumRight
<1>5. y.neg = v.neg /\ y.e = q.ex /\ y.m = q.m
  BY <1>4
<1>6. Good(y, nd)
  <2> HIDE DEF y, nd, q
  <2>1. QED
    BY <1>2, <1>3, <1>4, <1>5 DEF Good
<1> DEFINE Q64 == quantize(v.m % Pow10[ND64], v.e, er, ND64)
           Q32 == quantize(v.m, v.e, er, ND32)
<1>7. nd = ND64 => q = Q64
  <2>1. ASSUME nd = ND64
        PROVE  v.m % Pow10[ND64] = v.m
    BY <1>2, <2>1, Formats64, Small
  <2>2. QED
    BY <2>1
<1>8. nd = ND32 => q = Q32
  OBVIOUS
<1>9. /\ quantizebid64(bcd64tobid(Bcd(v.m, v.e, v.neg)), er) = bcd64tobid(Bcd(Q64.m, Q64.ex, v.neg))
      /\ quantizedpd64(bcd64todpd(Bcd(v.m, v.e, v.neg)), er) = bcd64todpd(Bcd(Q64.m, Q64.ex, v.neg))
      /\ v.m < Pow10[ND32] =>
         /\ quantizebid32(bcd32tobid(Bcd(v.m, v.e, v.neg)), er) =
               bcd32tobid(Bcd(Q32.m, Q32.ex, v.neg))
         /\ quantizedpd32(bcd32todpd(Bcd(v.m, v.e, v.neg)), er) =
               bcd32todpd(Bcd(Q32.m, Q32.ex, v.neg))
  BY <1>2, QuantisedTo
<1>10. f \in Formats /\ v.m < Pow10[nd] /\ nd = Digits[f]
  BY <1>2
<1> HIDE DEF q, Q64, Q32, y, nd
<1>11. CASE f = "bid64"
  <2>1. nd = ND64
    BY <1>10, <1>11, DigitsOf
  <2>2. x[f] = bcd64tobid(Bcd(v.m, v.e, v.neg)) /\ Words(y)[f] = bcd64tobid(Bcd(y.m, y.e, y.neg))
    BY <1>11 DEF Words
  <2>3. quantized(x, er)[f] = quantizebid64(x[f], er)
    BY <1>11 DEF quantized
  <2>4. QED
    BY <1>5, <1>6, <1>7, <1>9, <2>1, <2>2, <2>3 DEF y, nd
<1>12. CASE f = "dpd64"
  <2>1. nd = ND64
    BY <1>10, <1>12, DigitsOf
  <2>2. x[f] = bcd64todpd(Bcd(v.m, v.e, v.neg)) /\ Words(y)[f] = bcd64todpd(Bcd(y.m, y.e, y.neg))
    BY <1>12 DEF Words
  <2>3. quantized(x, er)[f] = quantizedpd64(x[f], er)
    BY <1>12 DEF quantized
  <2>4. QED
    BY <1>5, <1>6, <1>7, <1>9, <2>1, <2>2, <2>3 DEF y, nd
<1>13. CASE f = "bid32"
  <2>1. nd = ND32
    BY <1>10, <1>13, DigitsOf
  <2>2. x[f] = bcd32tobid(Bcd(v.m, v.e, v.neg)) /\ Words(y)[f] = bcd32tobid(Bcd(y.m, y.e, y.neg))
    BY <1>13 DEF Words
  <2>3. quantized(x, er)[f] = quantizebid32(x[f], er)
    BY <1>13 DEF quantized
  <2>4. QED
    BY <1>5, <1>6, <1>8, <1>9, <1>10, <2>1, <2>2, <2>3 DEF y, nd
<1>14. CASE f = "dpd32"
  <2>1. nd = ND32
    BY <1>10, <1>14, DigitsOf
  <2>2. x[f] = bcd32todpd(Bcd(v.m, v.e, v.neg)) /\ Words(y)[f] = bcd32todpd(Bcd(y.m, y.e, y.neg))
    BY <1>14 DEF Words
  <2>3. quantized(x, er)[f] = quantizedpd32(x[f], er)
    BY <1>14 DEF quantized
  <2>4. QED
    BY <1>5, <1>6, <1>8, <1>9, <1>10, <2>1, <2>2, <2>3 DEF y, nd
<1>15. QED
  BY <1>10, <1>11, <1>12, <1>13, <1>14 DEF Formats

\* Reading without a fault makes the words of the decimal that is meant.
LEMMA WordsRead ==
    ASSUME NEW f \in Formats, NEW t \in Text, ~strtoHangs(t, Digits[f]),
           Fault(t, Digits[f], IF Digits[f] = ND64 THEN Kept ELSE ND32) = "right"
    PROVE  LET v == Meant(t, Digits[f]) IN
           Good(v, Digits[f]) /\ strtod(t)[f] = Words(v)[f]
<1>1. ND64 # ND32
  <2>1. Dec64 \in Nat /\ Dec32 \in Nat /\ ND64 = 3 * Dec64 /\ ND32 = 3 * Dec32 + 1
    BY Dfp754Assumption DEF ND64, ND32
  <2>2. QED
    BY <2>1
<1>2. Kept \in Nat \ {0} /\ ND32 \in Nat \ {0} /\ ND64 \in Nat
  BY Dfp754Assumption, Formats64, Formats32
<1> DEFINE nd == Digits[f]
           kept == IF nd = ND64 THEN Kept ELSE ND32
           v == Meant(t, nd)
<1>3. Good(v, nd) /\ strtobcd(t, nd, kept) = Bcd(v.m, v.e, v.neg)
  <2>1. nd \in Nat /\ kept \in Nat \ {0}
    BY <1>2, DigitsOf
  <2> HIDE DEF nd, kept
  <2>2. ~strtoHangs(t, nd) /\ Fault(t, nd, kept) = "right"
    BY DEF nd, kept
  <2>3. QED
    BY <2>1, <2>2, ReadsMeant
<1> HIDE DEF v
<1>4. CASE f = "bid64" \/ f = "dpd64"
  <2>1. nd = ND64
    BY <1>4, DigitsOf
  <2>2. strtobcd64(t) = Bcd(v.m, v.e, v.neg)
    BY <1>3, <2>1 DEF strtobcd64
  <2>3. QED
    BY <1>3, <1>4, <2>2 DEF strtod, Words, v
<1>5. CASE f = "bid32" \/ f = "dpd32"
  <2>1. nd = ND32
    BY <1>5, DigitsOf
  <2>2. strtobcd32(t) = Bcd(v.m, v.e, v.neg)
    BY <1>1, <1>3, <2>1 DEF strtobcd32
  <2>3. QED
    BY <1>3, <1>5, <2>2 DEF strtod, Words, v
<1>6. QED
  BY <1>4, <1>5 DEF Formats

\* The invariant holds at the start.
LEMMA StandsInit == DfpInit => Stands
<1> SUFFICES ASSUME DfpInit, NEW f \in Formats
             PROVE  Good(val[f], Digits[f]) /\ num[f] = Words(val[f])[f]
  BY DEF Stands
<1>1. Digits[f] \in Nat
  BY DigitsOf
<1>2. ~roff(Zero, Digits[f]) /\ Zero \in Text /\ ~StartsHigh(Zero.frac)
  BY <1>1, NoneLeft DEF StartsHigh, Zero
<1>3. Fault(Zero, Digits[f], IF Digits[f] = ND64 THEN Kept ELSE ND32) = "right"
  BY <1>2 DEF Fault
<1>4. ~strtoHangs(Zero, Digits[f])
  BY <1>2 DEF strtoHangs
<1>5. num = strtod(Zero) /\ val[f] = Meant(Zero, Digits[f])
  BY DEF DfpInit
<1>6. QED
  BY <1>2, <1>3, <1>4, <1>5, WordsRead

\* Every operation keeps it.
LEMMA StandsNext == Stands /\ [DfpNext]_dfpvars => Stands'
<1> SUFFICES ASSUME Stands, [DfpNext]_dfpvars
             PROVE  Stands'
  OBVIOUS
<1>1. ASSUME NEW t \in Texts, Read(t)
      PROVE  Stands'
  <2> SUFFICES ASSUME NEW f \in Formats, how'[f] = "right"
               PROVE  Good(val'[f], Digits[f]) /\ num'[f] = Words(val'[f])[f]
    BY DEF Stands
  <2>1. t \in Text
    BY Dfp754Assumption DEF Text
  <2>2. num' = strtod(t) /\ val'[f] = Meant(t, Digits[f])
    BY <1>1 DEF Read
  <2>3. Fault(t, Digits[f], IF Digits[f] = ND64 THEN Kept ELSE ND32) = "right"
    BY <1>1 DEF Read
  <2>4. ~strtoHangs(t, Digits[f])
    BY <1>1, DigitsOf DEF Read, Formats
  <2>5. QED
    BY <2>1, <2>2, <2>3, <2>4, WordsRead
<1>2. ASSUME NEW t \in Texts, ReadHangs(t)
      PROVE  Stands'
  BY <1>2 DEF ReadHangs, Stands
<1>3. ASSUME NEW n \in Scales, Scale(n)
      PROVE  Stands'
  <2> SUFFICES ASSUME NEW f \in Formats, how'[f] = "right"
               PROVE  Good(val'[f], Digits[f]) /\ num'[f] = Words(val'[f])[f]
    BY DEF Stands
  <2>1. n \in Int /\ how[f] = "right" /\ num' = scalbnd(num, n)
        /\ val'[f] = [val[f] EXCEPT !.e = @ + n]
    BY <1>3, Dfp754Assumption DEF Scale
  <2>2. Good(val[f], Digits[f]) /\ num[f] = Words(val[f])[f]
    BY <2>1 DEF Stands
  <2>3. QED
    BY <2>1, <2>2, WordsScaled
<1>4. ASSUME NEW er \in Quanta, Quantise(er)
      PROVE  Stands'
  <2> SUFFICES ASSUME NEW f \in Formats, how'[f] = "right"
               PROVE  Good(val'[f], Digits[f]) /\ num'[f] = Words(val'[f])[f]
    BY DEF Stands
  <2>1. er \in Int /\ num' = quantized(num, er)
    BY <1>4, Dfp754Assumption DEF Quantise
  <2>2. how'[f] = IF how[f] = "right" /\ er - val[f].e > 1 THEN "off" ELSE how[f]
    BY <1>4 DEF Quantise
  <2>3. how[f] = "right" /\ ~(er - val[f].e > 1)
    BY <2>2
  <2>4. Good(val[f], Digits[f]) /\ num[f] = Words(val[f])[f]
    BY <2>3 DEF Stands
  <2>5. er - val[f].e <= 1
    BY <2>1, <2>3, <2>4 DEF Good
  <2>6. val'[f] = Nearest(val[f], er, Digits[f])
    BY <1>4, <2>3 DEF Quantise
  <2>7. QED
    BY <2>1, <2>4, <2>5, <2>6, WordsQuantised
<1>5. CASE UNCHANGED dfpvars
  BY <1>5 DEF dfpvars, Stands
<1>6. QED
  BY <1>1, <1>2, <1>3, <1>4, <1>5 DEF DfpNext

\* The words of a decimal print it.
LEMMA WordsPrint ==
    ASSUME NEW f \in Formats, NEW v, Good(v, Digits[f]), NEW x, x[f] = Words(v)[f]
    PROVE  x[f].ex = v.e /\ tostr(x)[f] = bcdtostr(v.m, v.e, v.neg /\ v.m # 0)
<1>1. v.m \in Nat /\ v.m < Pow10[Digits[f]] /\ v.neg \in BOOLEAN
  BY DEF Good
<1>2. CASE f = "bid64" \/ f = "dpd64"
  <2>1. v.m < Pow10[ND64]
    BY <1>1, <1>2, DigitsOf
  <2>2. v.m % Pow10[ND64] = v.m
    BY <1>1, <2>1, Formats64, Small
  <2>3. /\ bid64tostr(bcd64tobid(Bcd(v.m, v.e, v.neg))) = bcdtostr(v.m, v.e, v.neg /\ v.m # 0)
        /\ dpd64tostr(bcd64todpd(Bcd(v.m, v.e, v.neg))) = bcdtostr(v.m, v.e, v.neg /\ v.m # 0)
    BY <1>1, <2>1, <2>2, PrintedTo
  <2>4. bcd64tobid(Bcd(v.m, v.e, v.neg)).ex = v.e /\ bcd64todpd(Bcd(v.m, v.e, v.neg)).ex = v.e
    BY DEF bcd64tobid, bid64, bcd64todpd, Bcd
  <2>5. QED
    BY <1>2, <2>3, <2>4 DEF tostr, Words
<1>3. CASE f = "bid32" \/ f = "dpd32"
  <2>1. v.m < Pow10[ND32]
    BY <1>1, <1>3, DigitsOf
  <2>2. /\ bid32tostr(bcd32tobid(Bcd(v.m, v.e, v.neg))) = bcdtostr(v.m, v.e, v.neg /\ v.m # 0)
        /\ dpd32tostr(bcd32todpd(Bcd(v.m, v.e, v.neg))) = bcdtostr(v.m, v.e, v.neg /\ v.m # 0)
    BY <1>1, <2>1, PrintedTo
  <2>3. bcd32tobid(Bcd(v.m, v.e, v.neg)).ex = v.e /\ bcd32todpd(Bcd(v.m, v.e, v.neg)).ex = v.e
    BY DEF bcd32tobid, assemble_bid32, bcd32todpd, Bcd
  <2>4. QED
    BY <1>3, <2>2, <2>3 DEF tostr, Words
<1>4. QED
  BY <1>2, <1>3 DEF Formats

\* Whatever is read, scaled and quantised, a word prints as the decimal it
\* should stand for unless one of the known faults was met.
THEOREM Prints == DfpSpec => []PrintsRight
<1>1. Stands => PrintsRight
  <2> SUFFICES ASSUME Stands, NEW f \in Formats, how[f] = "right"
               PROVE  LET txt == tostr(num)[f]  v == val[f] IN
                      /\ num[f].ex = v.e
                      /\ Len(txt.frac) = (IF v.e < 0 THEN -v.e ELSE 0)
                      /\ NumOf(txt.int \o txt.frac) = v.m * Pow10[IF v.e < 0 THEN 0 ELSE v.e]
                      /\ txt.neg = (v.neg /\ v.m # 0)
    BY DEF PrintsRight
  <2> DEFINE v == val[f]
             s == v.neg /\ v.m # 0
  <2>1. Good(v, Digits[f]) /\ num[f] = Words(v)[f]
    BY DEF Stands
  <2>2. num[f].ex = v.e /\ tostr(num)[f] = bcdtostr(v.m, v.e, s)
    BY <2>1, WordsPrint
  <2>3. v.m \in Nat /\ v.e \in Int
    BY <2>1 DEF Good
  <2> HIDE DEF v, s
  <2> DEFINE txt == bcdtostr(v.m, v.e, s)
  <2>4. /\ Len(txt.frac) = (IF v.e < 0 THEN -v.e ELSE 0)
        /\ NumOf(txt.int \o txt.frac) = v.m * Pow10[IF v.e < 0 THEN 0 ELSE v.e]
        /\ txt.neg = s
    BY <2>3, Written
  <2> HIDE DEF txt
  <2>5. QED
    BY <2>2, <2>4 DEF v, s, txt
<1>2. QED
  BY <1>1, StandsInit, StandsNext, PTL DEF DfpSpec

-----------------------------------------------------------------------------
(* The definitions.  The table of namespaces is right once the declarations *)
(* are taken in, so that every element is handled by its language; the list *)
(* of requests is what the elements say, because what is open is the last   *)
(* of its depth and so is what the program puts things into.                *)

\* An entry of the table, and the table after some declarations of which the
\* first is an unknown one: it holds each of them, the last favourite in front.
Entry(d) == [pref |-> d.pref, nsid |-> d.ns]
Filled(t, ds, n) ==
    /\ t = [ns |-> t.ns, nns |-> n]
    /\ t.ns = [i \in 0 .. NsMax - 1 |-> t.ns[i]]
    /\ \A k \in 1 .. n : \E i \in 0 .. n - 1 : t.ns[i] = Entry(ds[k])
    /\ \A i \in 0 .. n - 1 : \E k \in 1 .. n : t.ns[i] = Entry(ds[k])
    /\ \A i, j \in 0 .. n - 1 : t.ns[i].pref = t.ns[j].pref => i = j
    /\ \A k \in 1 .. n : Fave(ds[k].ns) /\ (\A j \in 1 .. n : Fave(ds[j].ns) => j <= k)
                         => t.ns[0] = Entry(ds[k])
    /\ (\A k \in 1 .. n : ~Fave(ds[k].ns)) => t.ns[0].nsid = "UNK"

Empty == [ns |-> [i \in 0 .. NsMax - 1 |-> Nowhere], nns |-> 0]

\* What the declarations are.
LEMMA Declared ==
    ASSUME NEW ds \in Decls
    PROVE  /\ Len(ds) \in Nat /\ DOMAIN ds = 1 .. Len(ds)
           /\ \A k \in 1 .. Len(ds) : /\ ds[k].ns \in {"TWSXML", "FIXML", "UNK"}
                                      /\ Entry(ds[k]) # Nowhere
           /\ \A j, k \in 1 .. Len(ds) : ds[j].pref = ds[k].pref => j = k
<1> DEFINE D == [pref : STRING, ns : {"TWSXML", "FIXML", "UNK"}]
<1>1. ds \in Seq(D) /\ \A j, k \in DOMAIN ds : ds[j].pref = ds[k].pref => j = k
  BY SdefAssumption
<1>2. Len(ds) \in Nat /\ DOMAIN ds = 1 .. Len(ds) /\ \A k \in 1 .. Len(ds) : ds[k] \in D
  BY <1>1, LenProperties, ElementOfSeq
<1>3. \A k \in 1 .. Len(ds) : ds[k].ns \in {"TWSXML", "FIXML", "UNK"}
  BY <1>2
<1>4. \A k \in 1 .. Len(ds) : Entry(ds[k]) # Nowhere
  BY <1>3, AbsentAssumption DEF Entry, Nowhere
<1>5. QED
  BY <1>1, <1>2, <1>3, <1>4

\* The first declaration.
LEMMA FillFirst ==
    ASSUME NEW ds \in Decls, 1 <= Len(ds), ds[1].ns = "UNK"
    PROVE  Filled(ptx_reg_ns(Empty, ds[1]), ds, 1)
<1> DEFINE e == Entry(ds[1])
           t == ptx_reg_ns(Empty, ds[1])
           N == [Empty.ns EXCEPT ![0] = e]
<1>1. NsMax \in Nat \ {0}
  BY SdefAssumption
<1>2. t = [ns |-> N, nns |-> 1]
  <2>1. ~Fave(ds[1].ns) /\ ~(0 >= NsMax)
    BY <1>1 DEF Fave
  <2>2. Empty.nns = 0 /\ 0 + 1 = 1
    BY DEF Empty
  <2>3. QED
    BY <2>1, <2>2 DEF ptx_reg_ns, Entry
<1>3. N = [i \in 0 .. NsMax - 1 |-> N[i]] /\ N[0] = e
  BY <1>1 DEF Empty
<1>4. t.ns = N /\ t.nns = 1
  BY <1>2
<1> HIDE DEF N, t
<1>5. \A i \in 0 .. 1 - 1 : i = 0
  OBVIOUS
<1>6. \A k \in 1 .. 1 : k = 1
  OBVIOUS
<1>7. e.nsid = "UNK" /\ ~Fave(ds[1].ns) /\ 0 \in 0 .. 1 - 1 /\ 1 \in 1 .. 1
  BY DEF Entry, Fave
<1>8. QED
  BY <1>2, <1>3, <1>4, <1>5, <1>6, <1>7 DEF Filled, t

\* One more.
LEMMA FillMore ==
    ASSUME NEW ds \in Decls, NEW n \in Nat, n >= 1, n < Len(ds), n < NsMax,
           NEW t, Filled(t, ds, n)
    PROVE  Filled(ptx_reg_ns(t, ds[n + 1]), ds, n + 1)
<1> DEFINE d == ds[n + 1]
           e == Entry(d)
           T == t.ns
           u == ptx_reg_ns(t, d)
<1>1. NsMax \in Nat \ {0} /\ n + 1 \in 1 .. Len(ds) /\ n \in 0 .. NsMax - 1 /\ 0 \in 0 .. n - 1
  BY SdefAssumption, Declared
<1>2. /\ t = [ns |-> T, nns |-> n] /\ t.nns = n
      /\ T = [i \in 0 .. NsMax - 1 |-> T[i]]
      /\ \A k \in 1 .. n : \E i \in 0 .. n - 1 : T[i] = Entry(ds[k])
      /\ \A i \in 0 .. n - 1 : \E k \in 1 .. n : T[i] = Entry(ds[k])
      /\ \A i, j \in 0 .. n - 1 : T[i].pref = T[j].pref => i = j
      /\ \A k \in 1 .. n : Fave(ds[k].ns) /\ (\A j \in 1 .. n : Fave(ds[j].ns) => j <= k)
                           => T[0] = Entry(ds[k])
      /\ (\A k \in 1 .. n : ~Fave(ds[k].ns)) => T[0].nsid = "UNK"
  <2> HIDE DEF e, u
  <2>1. t = [ns |-> T, nns |-> n]
    BY DEF Filled
  <2>2. t.nns = n
    BY <2>1
  <2>3. QED
    BY <2>1, <2>2 DEF Filled
<1>3. \A k \in 1 .. n + 1 : k = n + 1 \/ (k \in 1 .. n /\ k \in 1 .. Len(ds))
  BY <1>1
<1>4. \A i \in 0 .. (n + 1) - 1 : i = n \/ i \in 0 .. n - 1
  OBVIOUS
<1>5. \A i \in 0 .. n - 1 : T[i].pref # e.pref
  <2> SUFFICES ASSUME NEW i \in 0 .. n - 1, T[i].pref = e.pref
               PROVE  FALSE
    OBVIOUS
  <2>1. PICK k \in 1 .. n : T[i] = Entry(ds[k])
    BY <1>2
  <2>2. ds[k].pref = ds[n + 1].pref
    BY <2>1 DEF Entry
  <2>3. k \in 1 .. Len(ds) /\ k # n + 1
    BY <1>1
  <2>4. QED
    BY <1>1, <2>2, <2>3, Declared
<1>6. T[0] # Nowhere
  <2>1. PICK k \in 1 .. n : T[0] = Entry(ds[k])
    BY <1>1, <1>2
  <2>2. k \in 1 .. Len(ds)
    BY <1>1
  <2>3. QED
    BY <2>1, <2>2, Declared
<1>7. CASE Fave(d.ns)
  <2> DEFINE N == [T EXCEPT ![n] = T[0], ![0] = e]
  <2>1. u = [ns |-> N, nns |-> n + 1]
    <3>1. ~(n >= NsMax)
      BY <1>1
    <3>2. QED
      BY <1>2, <1>6, <1>7, <3>1 DEF ptx_reg_ns, Entry
  <2>2. /\ N = [i \in 0 .. NsMax - 1 |-> N[i]] /\ N[0] = e /\ N[n] = T[0]
        /\ \A i \in 0 .. n - 1 : i # 0 => N[i] = T[i]
    <3>1. n # 0
      OBVIOUS
    <3>2. T = [i \in 0 .. NsMax - 1 |-> T[i]]
      BY <1>2
    <3>3. 0 \in 0 .. NsMax - 1 /\ n \in 0 .. NsMax - 1
          /\ \A i \in 0 .. n - 1 : i \in 0 .. NsMax - 1 /\ i # n
      BY <1>1
    <3> HIDE DEF e, T
    <3>4. QED
      BY <3>1, <3>2, <3>3
  <2> HIDE DEF N
  <2>3. u.ns = N
    BY <2>1
  <2>4. \A k \in 1 .. n + 1 : \E i \in 0 .. (n + 1) - 1 : N[i] = Entry(ds[k])
    <3> SUFFICES ASSUME NEW k \in 1 .. n + 1
                 PROVE  \E i \in 0 .. (n + 1) - 1 : N[i] = Entry(ds[k])
      OBVIOUS
    <3>1. CASE k = n + 1
      <4>1. 0 \in 0 .. (n + 1) - 1
        OBVIOUS
      <4>2. QED
        BY <2>2, <3>1, <4>1
    <3>2. CASE k \in 1 .. n
      <4>1. PICK i \in 0 .. n - 1 : T[i] = Entry(ds[k])
        BY <1>2, <3>2
      <4>2. n \in 0 .. (n + 1) - 1 /\ i \in 0 .. (n + 1) - 1
        OBVIOUS
      <4>3. QED
        BY <2>2, <4>1, <4>2
    <3>3. QED
      BY <1>3, <3>1, <3>2
  <2>5. \A i \in 0 .. (n + 1) - 1 : \E k \in 1 .. n + 1 : N[i] = Entry(ds[k])
    <3> SUFFICES ASSUME NEW i \in 0 .. (n + 1) - 1
                 PROVE  \E k \in 1 .. n + 1 : N[i] = Entry(ds[k])
      OBVIOUS
    <3>1. CASE i = 0
      <4>1. n + 1 \in 1 .. n + 1
        OBVIOUS
      <4>2. QED
        BY <2>2, <3>1, <4>1
    <3>2. CASE i # 0
      <4> DEFINE j == IF i = n THEN 0 ELSE i
      <4>1. j \in 0 .. n - 1 /\ N[i] = T[j]
        BY <1>1, <1>4, <2>2, <3>2
      <4> HIDE DEF j
      <4>2. PICK k \in 1 .. n : T[j] = Entry(ds[k])
        BY <1>2, <4>1
      <4>3. k \in 1 .. n + 1
        OBVIOUS
      <4>4. QED
        BY <4>1, <4>2, <4>3
    <3>3. QED
      BY <3>1, <3>2
  <2>6. \A i, j \in 0 .. (n + 1) - 1 : N[i].pref = N[j].pref => i = j
    <3> DEFINE o(i) == IF i = n THEN 0 ELSE i
    <3>1. \A i \in 0 .. (n + 1) - 1 : i # 0 => o(i) \in 0 .. n - 1 /\ N[i] = T[o(i)]
      BY <1>1, <1>4, <2>2
    <3>2. \A i, j \in 0 .. (n + 1) - 1 : i # 0 /\ j # 0 /\ o(i) = o(j) => i = j
      OBVIOUS
    <3> HIDE DEF o
    <3> SUFFICES ASSUME NEW i \in 0 .. (n + 1) - 1, NEW j \in 0 .. (n + 1) - 1,
                        N[i].pref = N[j].pref
                 PROVE  i = j
      OBVIOUS
    <3>3. CASE i = 0 \/ j = 0
      BY <1>5, <2>2, <3>1, <3>3
    <3>4. CASE i # 0 /\ j # 0
      <4>1. o(i) \in 0 .. n - 1 /\ o(j) \in 0 .. n - 1 /\ T[o(i)].pref = T[o(j)].pref
        BY <3>1, <3>4
      <4>2. o(i) = o(j)
        BY <1>2, <4>1
      <4>3. QED
        BY <3>2, <3>4, <4>2
    <3>5. QED
      BY <3>3, <3>4
  <2>7. \A k \in 1 .. n + 1 : Fave(ds[k].ns) /\ (\A j \in 1 .. n + 1 : Fave(ds[j].ns) => j <= k)
                              => N[0] = Entry(ds[k])
    <3> SUFFICES ASSUME NEW k \in 1 .. n + 1, \A j \in 1 .. n + 1 : Fave(ds[j].ns) => j <= k
                 PROVE  N[0] = Entry(ds[k])
      OBVIOUS
    <3>1. n + 1 \in 1 .. n + 1
      OBVIOUS
    <3>2. n + 1 <= k
      BY <1>7, <3>1
    <3>3. k = n + 1
      BY <3>2
    <3>4. QED
      BY <2>2, <3>3
  <2>8. ~(\A k \in 1 .. n + 1 : ~Fave(ds[k].ns))
    <3>1. n + 1 \in 1 .. n + 1
      OBVIOUS
    <3>2. QED
      BY <1>7, <3>1
  <2>9. u = [ns |-> u.ns, nns |-> n + 1]
    BY <2>1
  <2> HIDE DEF u
  <2>10. Filled(u, ds, n + 1)
    BY <2>2, <2>3, <2>4, <2>5, <2>6, <2>7, <2>8, <2>9 DEF Filled
  <2>11. QED
    BY <2>10 DEF u
<1>8. CASE ~Fave(d.ns)
  <2> DEFINE N == [T EXCEPT ![n] = e]
  <2>1. u = [ns |-> N, nns |-> n + 1]
    <3>1. ~(n >= NsMax)
      BY <1>1
    <3>2. QED
      BY <1>2, <1>8, <3>1 DEF ptx_reg_ns, Entry
  <2>2. /\ N = [i \in 0 .. NsMax - 1 |-> N[i]] /\ N[n] = e
        /\ \A i \in 0 .. n - 1 : N[i] = T[i]
    <3>1. T = [i \in 0 .. NsMax - 1 |-> T[i]]
      BY <1>2
    <3>2. n \in 0 .. NsMax - 1 /\ \A i \in 0 .. n - 1 : i \in 0 .. NsMax - 1 /\ i # n
      BY <1>1
    <3> HIDE DEF e, T
    <3>3. QED
      BY <3>1, <3>2
  <2> HIDE DEF N
  <2>3. u.ns = N
    BY <2>1
  <2>4. \A k \in 1 .. n + 1 : \E i \in 0 .. (n + 1) - 1 : N[i] = Entry(ds[k])
    <3> SUFFICES ASSUME NEW k \in 1 .. n + 1
                 PROVE  \E i \in 0 .. (n + 1) - 1 : N[i] = Entry(ds[k])
      OBVIOUS
    <3>1. CASE k = n + 1
      <4>1. n \in 0 .. (n + 1) - 1
        OBVIOUS
      <4>2. QED
        BY <2>2, <3>1, <4>1
    <3>2. CASE k \in 1 .. n
      <4>1. PICK i \in 0 .. n - 1 : T[i] = Entry(ds[k])
        BY <1>2, <3>2
      <4>2. i \in 0 .. (n + 1) - 1
        OBVIOUS
      <4>3. QED
        BY <2>2, <4>1, <4>2
    <3>3. QED
      BY <1>3, <3>1, <3>2
  <2>5. \A i \in 0 .. (n + 1) - 1 : \E k \in 1 .. n + 1 : N[i] = Entry(ds[k])
    <3> SUFFICES ASSUME NEW i \in 0 .. (n + 1) - 1
                 PROVE  \E k \in 1 .. n + 1 : N[i] = Entry(ds[k])
      OBVIOUS
    <3>1. CASE i = n
      <4>1. n + 1 \in 1 .. n + 1
        OBVIOUS
      <4>2. QED
        BY <2>2, <3>1, <4>1
    <3>2. CASE i \in 0 .. n - 1
      <4>1. PICK k \in 1 .. n : T[i] = Entry(ds[k])
        BY <1>2, <3>2
      <4>2. k \in 1 .. n + 1
        OBVIOUS
      <4>3. QED
        BY <2>2, <3>2, <4>1, <4>2
    <3>3. QED
      BY <1>4, <3>1, <3>2
  <2>6. \A i, j \in 0 .. (n + 1) - 1 : N[i].pref = N[j].pref => i = j
    <3> SUFFICES ASSUME NEW i \in 0 .. (n + 1) - 1, NEW j \in 0 .. (n + 1) - 1,
                        N[i].pref = N[j].pref
                 PROVE  i = j
      OBVIOUS
    <3>1. CASE i = n \/ j = n
      BY <1>4, <1>5, <2>2, <3>1
    <3>2. CASE i # n /\ j # n
      <4>1. i \in 0 .. n - 1 /\ j \in 0 .. n - 1 /\ T[i].pref = T[j].pref
        BY <1>4, <2>2, <3>2
      <4>2. QED
        BY <1>2, <4>1
    <3>3. QED
      BY <3>1, <3>2
  <2>7. \A k \in 1 .. n + 1 : Fave(ds[k].ns) /\ (\A j \in 1 .. n + 1 : Fave(ds[j].ns) => j <= k)
                              => N[0] = Entry(ds[k])
    <3> SUFFICES ASSUME NEW k \in 1 .. n + 1, Fave(ds[k].ns),
                        \A j \in 1 .. n + 1 : Fave(ds[j].ns) => j <= k
                 PROVE  N[0] = Entry(ds[k])
      OBVIOUS
    <3>1. k \in 1 .. n
      BY <1>3, <1>8
    <3>2. \A j \in 1 .. n : Fave(ds[j].ns) => j <= k
      OBVIOUS
    <3>3. T[0] = Entry(ds[k])
      BY <1>2, <3>1, <3>2
    <3>4. QED
      BY <1>1, <2>2, <3>3
  <2>8. (\A k \in 1 .. n + 1 : ~Fave(ds[k].ns)) => N[0].nsid = "UNK"
    <3> SUFFICES ASSUME \A k \in 1 .. n + 1 : ~Fave(ds[k].ns)
                 PROVE  N[0].nsid = "UNK"
      OBVIOUS
    <3>1. \A k \in 1 .. n : ~Fave(ds[k].ns)
      OBVIOUS
    <3>2. T[0].nsid = "UNK"
      BY <1>2, <3>1
    <3>3. QED
      BY <1>1, <2>2, <3>2
  <2>9. u = [ns |-> u.ns, nns |-> n + 1]
    BY <2>1
  <2> HIDE DEF u
  <2>10. Filled(u, ds, n + 1)
    BY <2>2, <2>3, <2>4, <2>5, <2>6, <2>7, <2>8, <2>9 DEF Filled
  <2>11. QED
    BY <2>10 DEF u
<1>9. QED
  BY <1>7, <1>8

\* Registering gives a table again.
LEMMA RegKeeps ==
    ASSUME NEW X, NEW t \in [ns : [0 .. NsMax - 1 -> X], nns : Nat], NEW d, Entry(d) \in X
    PROVE  ptx_reg_ns(t, d) \in [ns : [0 .. NsMax - 1 -> X], nns : Nat]
<1> DEFINE e == Entry(d)
           T == t.ns
           c == t.nns
<1>1. T \in [0 .. NsMax - 1 -> X] /\ c \in Nat /\ NsMax \in Nat \ {0} /\ t = [ns |-> T, nns |-> c]
  BY SdefAssumption
<1>2. c + 1 \in Nat /\ 0 \in 0 .. NsMax - 1 /\ T[0] \in X /\ e \in X
  BY <1>1
<1>3. ptx_reg_ns(t, d) =
         IF c >= NsMax THEN t
         ELSE IF Fave(d.ns)
              THEN IF T[0] = Nowhere THEN [t EXCEPT !.ns[0] = e]
                   ELSE [ns |-> [T EXCEPT ![c] = T[0], ![0] = e], nns |-> c + 1]
              ELSE [ns |-> [T EXCEPT ![c] = e], nns |-> c + 1]
  BY DEF ptx_reg_ns, Entry
<1>4. [t EXCEPT !.ns[0] = e] = [ns |-> [T EXCEPT ![0] = e], nns |-> c]
  <2> HIDE DEF e
  <2>1. QED
    OBVIOUS
<1> HIDE DEF e, T, c
<1>5. [T EXCEPT ![0] = e] \in [0 .. NsMax - 1 -> X]
      /\ [T EXCEPT ![c] = e] \in [0 .. NsMax - 1 -> X]
      /\ [T EXCEPT ![c] = T[0], ![0] = e] \in [0 .. NsMax - 1 -> X]
  BY <1>1, <1>2
<1> DEFINE A == [T EXCEPT ![0] = e]
           B == [T EXCEPT ![c] = e]
           C == [T EXCEPT ![c] = T[0], ![0] = e]
           R == [ns : [0 .. NsMax - 1 -> X], nns : Nat]
<1>6. [ns |-> A, nns |-> c] \in R /\ [ns |-> B, nns |-> c + 1] \in R
      /\ [ns |-> C, nns |-> c + 1] \in R
  <2> HIDE DEF A, B, C
  <2>1. QED
    BY <1>1, <1>2, <1>5 DEF A, B, C
<1>7. QED
  BY <1>3, <1>4, <1>6

\* The declarations are taken in one after the other.
LEMMA TakenIn ==
    ASSUME NEW ds \in Decls \cup {<<>>}, ns = Empty.ns, nns = 0
    PROVE  \E v : /\ v[0] = Empty
                  /\ \A k \in 1 .. Len(ds) : v[k] = ptx_reg_ns(v[k - 1], ds[k])
                  /\ registered(ds) = v[Len(ds)]
<1> DEFINE N == Len(ds)
           X == {Nowhere} \cup {Entry(ds[k]) : k \in 1 .. N}
           S == [ns : [0 .. NsMax - 1 -> X], nns : Nat]
           F == [x \in Nat \X S |-> IF x[1] < N THEN ptx_reg_ns(x[2], ds[x[1] + 1]) ELSE x[2]]
           P(f) == f = [n \in 0 .. N |-> IF n = 0 THEN [ns |-> ns, nns |-> nns]
                                                  ELSE ptx_reg_ns(f[n - 1], ds[n])]
<1>1. N \in Nat
  BY Declared, EmptySeq
<1>2. Empty = [ns |-> ns, nns |-> nns] /\ Empty \in S
  BY DEF Empty
<1>3. \A n \in Nat, x \in S : (IF n < N THEN ptx_reg_ns(x, ds[n + 1]) ELSE x) \in S
  <2> SUFFICES ASSUME NEW n \in Nat, NEW x \in S, n < N
               PROVE  ptx_reg_ns(x, ds[n + 1]) \in S
    OBVIOUS
  <2>1. n + 1 \in 1 .. N
    BY <1>1
  <2>2. Entry(ds[n + 1]) \in X
    BY <2>1
  <2> HIDE DEF X
  <2>3. QED
    BY <2>2, RegKeeps
<1>4. F \in [Nat \X S -> S]
  BY <1>3
<1>5. \A n \in Nat, x \in S : F[<<n, x>>] = IF n < N THEN ptx_reg_ns(x, ds[n + 1]) ELSE x
  OBVIOUS
<1> HIDE DEF F, S
<1>6. PICK g \in [0 .. N -> S] : RecursTo(g, Empty, F, N)
  <2> HIDE DEF N
  <2>1. QED
    BY <1>1, <1>2, <1>4, RecursionTo
<1>7. \A n \in 1 .. N : g[n] = ptx_reg_ns(g[n - 1], ds[n])
  <2> SUFFICES ASSUME NEW n \in 1 .. N
               PROVE  g[n] = ptx_reg_ns(g[n - 1], ds[n])
    OBVIOUS
  <2>1. n - 1 \in Nat /\ n - 1 \in 0 .. N /\ n - 1 < N /\ (n - 1) + 1 = n
    BY <1>1
  <2>2. g[n - 1] \in S
    BY <2>1
  <2>3. QED
    BY <1>5, <1>6, <2>1, <2>2 DEF RecursTo
<1>8. P(g)
  <2>1. g[0] = [ns |-> ns, nns |-> nns]
    BY <1>2, <1>6 DEF RecursTo
  <2>2. QED
    BY <1>1, <1>6, <1>7, <2>1
<1>9. P(CHOOSE f : P(f))
  <2> HIDE DEF P
  <2>1. QED
    BY <1>8
<1> DEFINE v == CHOOSE f : P(f)
<1>10. registered(ds) = v[N]
  BY DEF registered
<1> HIDE DEF v
<1>11. P(v)
  BY <1>9 DEF v
<1>12. v[0] = Empty
  BY <1>1, <1>2, <1>11
<1>13. \A k \in 1 .. N : v[k] = ptx_reg_ns(v[k - 1], ds[k])
  BY <1>1, <1>11
<1>14. QED
  BY <1>10, <1>12, <1>13

\* What a readable document declares is found in the table.
LEMMA Registered ==
    ASSUME NEW ds \in Decls, ns = Empty.ns, nns = 0, Len(ds) <= NsMax, 1 <= Len(ds)
    PROVE  /\ ds[1].ns = "UNK" => Filled(registered(ds), ds, Len(ds))
           /\ Len(ds) = 1 /\ Fave(ds[1].ns) => registered(ds).ns[0] = Entry(ds[1])
<1> DEFINE N == Len(ds)
<1>1. PICK v : /\ v[0] = Empty
               /\ \A k \in 1 .. N : v[k] = ptx_reg_ns(v[k - 1], ds[k])
               /\ registered(ds) = v[N]
  BY TakenIn
<1>2. N \in Nat /\ 1 \in 1 .. N /\ 1 - 1 = 0 /\ NsMax \in Nat \ {0}
  BY Declared, SdefAssumption
<1>3. v[1] = ptx_reg_ns(Empty, ds[1])
  BY <1>1, <1>2
<1>4. ASSUME ds[1].ns = "UNK"
      PROVE  Filled(registered(ds), ds, N)
  <2> DEFINE B == {n \in Nat : n = 0 \/ Filled(v[n], ds, n)}
  <2>1. 0 \in B
    OBVIOUS
  <2>2. ASSUME NEW n \in Nat, n < N, n \in B
        PROVE  n + 1 \in B
    <3>1. CASE n = 0
      <4>1. Filled(v[1], ds, 1)
        BY <1>3, <1>4, FillFirst
      <4>2. QED
        BY <3>1, <4>1
    <3>2. CASE n # 0
      <4>1. n >= 1 /\ n < NsMax /\ n + 1 \in 1 .. N /\ (n + 1) - 1 = n
        BY <1>2, <2>2, <3>2
      <4>2. Filled(v[n], ds, n)
        BY <2>2, <3>2
      <4>3. Filled(ptx_reg_ns(v[n], ds[n + 1]), ds, n + 1)
        BY <2>2, <4>1, <4>2, FillMore
      <4>4. v[n + 1] = ptx_reg_ns(v[n], ds[n + 1])
        BY <1>1, <4>1
      <4>5. QED
        BY <4>3, <4>4
    <3>3. QED
      BY <3>1, <3>2
  <2>3. 0 .. N \subseteq B
    <3> HIDE DEF B, N
    <3>1. QED
      BY <1>2, <2>1, <2>2, InductionTo
  <2>4. N \in B /\ N # 0
    BY <1>2, <2>3
  <2>5. QED
    BY <1>1, <2>4
<1>5. ASSUME N = 1, Fave(ds[1].ns)
      PROVE  registered(ds).ns[0] = Entry(ds[1])
  <2>1. Empty.ns[0] = Nowhere /\ Empty.nns = 0 /\ ~(0 >= NsMax)
    BY <1>2 DEF Empty
  <2>2. ptx_reg_ns(Empty, ds[1]) = [Empty EXCEPT !.ns[0] = Entry(ds[1])]
    BY <1>5, <2>1 DEF ptx_reg_ns, Entry
  <2>3. [Empty EXCEPT !.ns[0] = Entry(ds[1])].ns[0] = Entry(ds[1])
    <3> DEFINE e == Entry(ds[1])
    <3> HIDE DEF e
    <3>1. [Empty EXCEPT !.ns[0] = e].ns[0] = e
      BY <1>2 DEF Empty
    <3>2. QED
      BY <3>1 DEF e
  <2>4. QED
    BY <1>1, <1>3, <1>5, <2>2, <2>3
<1>6. QED
  BY <1>4, <1>5

\* Where nothing is declared the table stays.
LEMMA NoneTakenIn ==
    ASSUME TRUE
    PROVE  registered(<<>>) = [ns |-> ns, nns |-> nns]
<1> DEFINE a == [ns |-> ns, nns |-> nns]
           P(f) == f = [n \in 0 .. Len(<<>>) |-> IF n = 0 THEN a
                                                 ELSE ptx_reg_ns(f[n - 1], <<>>[n])]
<1>1. Len(<<>>) = 0 /\ \A n \in 0 .. 0 : n = 0
  BY EmptySeq
<1>2. P([n \in 0 .. 0 |-> a])
  BY <1>1
<1>3. P(CHOOSE f : P(f))
  <2> HIDE DEF P
  <2>1. QED
    BY <1>2
<1> DEFINE v == CHOOSE f : P(f)
<1>4. registered(<<>>) = v[Len(<<>>)]
  BY DEF registered
<1> HIDE DEF v
<1>5. P(v)
  BY <1>3 DEF v
<1>6. QED
  BY <1>1, <1>4, <1>5

\* The latest of some of the first n.
LEMMA LatestRight ==
    ASSUME NEW n \in Nat, NEW S, S \subseteq 1 .. n, S # {}
    PROVE  Latest(S) \in S /\ \A j \in S : j <= Latest(S)
<1> DEFINE I == {i \in Nat : n - i \in S}
<1>1. I \subseteq Nat /\ I # {}
  <2>1. PICK k \in S : TRUE
    OBVIOUS
  <2>2. n - k \in Nat /\ n - (n - k) = k
    OBVIOUS
  <2>3. QED
    BY <2>1, <2>2
<1>2. PICK i \in I : \A j \in I : i <= j
  <2> HIDE DEF I
  <2>1. QED
    BY <1>1, Least
<1>3. n - i \in S /\ i \in Nat
  OBVIOUS
<1>4. \A j \in S : j <= n - i
  <2> SUFFICES ASSUME NEW j \in S
               PROVE  j <= n - i
    OBVIOUS
  <2>1. n - j \in Nat /\ n - (n - j) = j
    OBVIOUS
  <2>2. n - j \in I
    BY <2>1
  <2>3. i <= n - j
    BY <1>2, <2>2
  <2>4. QED
    BY <1>3, <2>1, <2>3
<1>5. QED
  BY <1>3, <1>4 DEF Latest

\* What a prefix means is the one declaration that has it.
LEMMA MeansOne ==
    ASSUME NEW ds \in Decls, NEW k \in 1 .. Len(ds)
    PROVE  Means(ds, ds[k].pref) = ds[k].ns
<1>1. \A j \in DOMAIN ds : ds[j].pref = ds[k].pref => j = k
  BY Declared
<1>2. k \in DOMAIN ds
  BY Declared
<1>3. (CHOOSE j \in DOMAIN ds : ds[j].pref = ds[k].pref) = k
  BY <1>1, <1>2
<1>4. QED
  BY <1>2, <1>3 DEF Means

\* A prefix of one of the languages is declared, as that.
LEMMA MeansNone ==
    ASSUME NEW ds \in Decls \cup {<<>>}, NEW p, Fave(Means(ds, p))
    PROVE  ds # <<>> /\ \E k \in 1 .. Len(ds) : ds[k].pref = p /\ Fave(ds[k].ns)
                                              /\ Means(ds, p) = ds[k].ns
<1>1. \E k \in DOMAIN ds : ds[k].pref = p
  BY DEF Means, Fave
<1>2. ds # <<>>
  BY <1>1, EmptySeq
<1>3. PICK k \in DOMAIN ds : ds[k].pref = p
  BY <1>1
<1>4. k \in 1 .. Len(ds)
  BY <1>2, Declared
<1>5. Means(ds, p) = ds[k].ns
  BY <1>2, <1>3, <1>4, MeansOne
<1>6. QED
  BY <1>2, <1>3, <1>4, <1>5

\* The table of a readable document.
Bare(p)   == p = ""
Known(p)  == Bare(p) \/ \E k \in DOMAIN decls : decls[k].pref = p
Tabled(t, n, ds) ==
    /\ ds = <<>> => t = Empty.ns /\ n = 0
    /\ ds # <<>> =>
       \/ Filled([ns |-> t, nns |-> n], ds, Len(ds))
       \/ /\ Len(ds) = 1 /\ Fave(ds[1].ns) /\ Bare(ds[1].pref)
          /\ t[0] = Entry(ds[1])
TableRight == Tabled(ns, nns, decls)
DefaultLast == \A k \in DOMAIN decls : Bare(decls[k].pref) =>
                   Favourites # {} /\ k = Latest(Favourites)

\* The fields of an entry.
LEMMA EntryIs ==
    ASSUME NEW d
    PROVE  Entry(d).pref = d.pref /\ Entry(d).nsid = d.ns
BY DEF Entry

\* What is in front is the last favourite.
LEMMA InFront ==
    ASSUME decls \in Decls, decls # <<>>, TableRight
    PROVE  /\ Favourites \subseteq 1 .. Len(decls)
           /\ Favourites # {} => /\ Latest(Favourites) \in Favourites
                                 /\ ns[0] = Entry(decls[Latest(Favourites)])
                                 /\ ns[0].pref = front /\ Fave(ns[0].nsid)
           /\ Favourites = {} => Unk(ns[0].nsid)
<1> DEFINE N == Len(decls)
           L == Latest(Favourites)
<1>1. N \in Nat /\ DOMAIN decls = 1 .. N /\ Favourites \subseteq 1 .. N
  BY Declared DEF Favourites
<1>2. \A k \in Favourites : Fave(decls[k].ns)
  BY DEF Favourites
<1>3. Favourites # {} => L \in Favourites /\ \A j \in Favourites : j <= L
  BY <1>1, LatestRight
<1>4. (Favourites # {} => ns[0] = Entry(decls[L])) /\ (Favourites = {} => ns[0].nsid = "UNK")
  <2>1. CASE Filled([ns |-> ns, nns |-> nns], decls, N)
    <3>1. /\ \A k \in 1 .. N : Fave(decls[k].ns) /\ (\A j \in 1 .. N : Fave(decls[j].ns) => j <= k)
                               => ns[0] = Entry(decls[k])
          /\ (\A k \in 1 .. N : ~Fave(decls[k].ns)) => ns[0].nsid = "UNK"
      BY <2>1 DEF Filled
    <3>2. \A k \in 1 .. N : Fave(decls[k].ns) => k \in Favourites
      BY <1>1 DEF Favourites
    <3> HIDE DEF L, N
    <3>3. QED
      BY <1>1, <1>2, <1>3, <3>1, <3>2
  <2>2. CASE N = 1 /\ Fave(decls[1].ns) /\ ns[0] = Entry(decls[1])
    <3>1. Favourites = {1}
      BY <1>1, <2>2 DEF Favourites
    <3>2. L = 1
      BY <1>3, <3>1
    <3>3. QED
      BY <2>2, <3>1, <3>2
  <2>3. QED
    BY <2>1, <2>2 DEF TableRight, Tabled
<1>5. Favourites = {} => Unk(ns[0].nsid)
  BY <1>4 DEF Unk
<1>6. ASSUME Favourites # {}
      PROVE  ns[0].pref = front /\ Fave(ns[0].nsid)
  <2>1. ns[0].pref = decls[L].pref /\ ns[0].nsid = decls[L].ns
    BY <1>4, <1>6, EntryIs
  <2>2. front = decls[L].pref
    BY <1>6 DEF front
  <2>3. Fave(decls[L].ns)
    BY <1>2, <1>3, <1>6
  <2>4. QED
    BY <2>1, <2>2, <2>3
<1>7. QED
  BY <1>1, <1>3, <1>4, <1>5, <1>6

\* The entries of a table that is filled.
LEMMA Entries ==
    ASSUME Filled([ns |-> ns, nns |-> nns], decls, Len(decls))
    PROVE  /\ nns = Len(decls)
           /\ \A k \in 1 .. Len(decls) : \E j \in 0 .. Len(decls) - 1 : ns[j] = Entry(decls[k])
           /\ \A j \in 0 .. Len(decls) - 1 : \E k \in 1 .. Len(decls) : ns[j] = Entry(decls[k])
           /\ \A j, k \in 0 .. Len(decls) - 1 : ns[j].pref = ns[k].pref => j = k
<1> DEFINE t == [ns |-> ns, nns |-> nns]
           N == Len(decls)
<1>1. t.ns = ns /\ t.nns = nns
  OBVIOUS
<1> HIDE DEF t, N
<1>2. Filled(t, decls, N)
  BY DEF t, N
<1>3. t = [ns |-> t.ns, nns |-> N]
  BY <1>2 DEF Filled
<1>4. t.nns = N
  BY <1>3
<1>5. /\ \A k \in 1 .. N : \E i \in 0 .. N - 1 : t.ns[i] = Entry(decls[k])
      /\ \A i \in 0 .. N - 1 : \E k \in 1 .. N : t.ns[i] = Entry(decls[k])
      /\ \A i, j \in 0 .. N - 1 : t.ns[i].pref = t.ns[j].pref => i = j
  BY <1>2 DEF Filled
<1>6. QED
  BY <1>1, <1>4, <1>5 DEF N

\* Every prefix that is declared, or none, is found without following a NULL,
\* and one of a language leads to it.
LEMMA Found ==
    ASSUME decls \in Decls, decls # <<>>, TableRight, DefaultLast, NEW p, Known(p)
    PROVE  /\ __pref_to_ns(p) # Absent /\ ~pref_to_ns_dies(p)
           /\ Fave(Means(decls, p)) /\ (Bare(p) => Bare(front)) =>
                 ns[__pref_to_ns(p)].nsid = Means(decls, p)
<1> DEFINE N == Len(decls)
           L == Latest(Favourites)
           i == __pref_to_ns(p)
           hit == {j \in compared : Bare(p) \/ ns[j].pref = p}
<1>1. N \in Nat /\ DOMAIN decls = 1 .. N /\ Favourites \subseteq 1 .. N
  BY Declared, InFront
<1>2. Favourites # {} => L \in Favourites /\ ns[0] = Entry(decls[L]) /\ ns[0].pref = front
                         /\ Fave(ns[0].nsid)
  BY InFront
<1>3. \A k \in 1 .. N : Fave(decls[k].ns) => Favourites # {}
  BY <1>1 DEF Favourites
<1>4. \A n \in Nat : n # Absent
  BY AbsentAssumption
<1>5. ASSUME Fave(Means(decls, p))
      PROVE  Favourites # {} /\ \E k \in 1 .. N : decls[k].pref = p /\ Means(decls, p) = decls[k].ns
  <2>1. PICK k \in 1 .. N : decls[k].pref = p /\ Fave(decls[k].ns) /\ Means(decls, p) = decls[k].ns
    BY <1>5, MeansNone
  <2>2. QED
    BY <1>3, <2>1
<1>6. Fave(ns[0].nsid) => ~Unk(ns[0].nsid)
  BY AbsentAssumption DEF Fave, Unk
<1>7. \A k \in 1 .. N : Bare(decls[k].pref) => Favourites # {} /\ k = L
  BY <1>1 DEF DefaultLast
<1>8. i = IF Unk(ns[0].nsid) \/ (Bare(p) /\ Bare(ns[0].pref)) THEN 0
          ELSE IF hit = {} THEN Absent ELSE CHOOSE j \in hit : \A k \in hit : j <= k
  BY DEF __pref_to_ns, Bare
<1>9. pref_to_ns_dies(p) =>
         /\ ~Unk(ns[0].nsid) /\ ~Bare(p)
         /\ \E j \in compared : Bare(ns[j].pref)
  BY DEF pref_to_ns_dies, Bare
<1>10. Known(p) => Bare(p) \/ \E k \in 1 .. N : decls[k].pref = p
  BY <1>1 DEF Known
<1>11. \A q : Bare(p) /\ Bare(q) => p = q
  BY DEF Bare
<1> HIDE DEF N, L, i, hit
<1>12. CASE Unk(ns[0].nsid) \/ (Bare(p) /\ Bare(ns[0].pref))
  <2>1. i = 0
    BY <1>8, <1>12
  <2>2. ~pref_to_ns_dies(p)
    BY <1>9, <1>12
  <2>3. ASSUME Fave(Means(decls, p)), Bare(p) => Bare(front)
        PROVE  ns[0].nsid = Means(decls, p)
    <3>1. Favourites # {}
      BY <1>5, <2>3
    <3>2. Bare(p)
      BY <1>2, <1>6, <1>12, <3>1
    <3>3. PICK k \in 1 .. N : decls[k].pref = p /\ Means(decls, p) = decls[k].ns
      BY <1>5, <2>3
    <3>4. k = L
      BY <1>7, <3>2, <3>3
    <3>5. ns[0] = Entry(decls[k])
      BY <1>2, <3>1, <3>4
    <3>6. QED
      BY <3>3, <3>5, EntryIs
  <2>4. 0 # Absent
    BY <1>4
  <2>5. QED
    BY <2>1, <2>2, <2>3, <2>4 DEF i
<1>13. CASE ~(Unk(ns[0].nsid) \/ (Bare(p) /\ Bare(ns[0].pref)))
  <2>1. Favourites # {}
    BY <1>13, InFront
  <2>2. Filled([ns |-> ns, nns |-> nns], decls, Len(decls))
    <3>1. CASE Len(decls) = 1 /\ Bare(decls[1].pref) /\ ns[0] = Entry(decls[1])
      <4>1. N = 1
        BY <3>1 DEF N
      <4>2. \A k \in 1 .. N : Bare(decls[k].pref)
        BY <3>1, <4>1
      <4>3. Bare(p)
        BY <1>10, <4>2
      <4>4. Bare(ns[0].pref)
        BY <3>1, EntryIs
      <4>5. QED
        BY <1>13, <4>3, <4>4
    <3>2. QED
      BY <3>1 DEF TableRight, Tabled
  <2>3. /\ nns = N
        /\ \A k \in 1 .. N : \E j \in 0 .. N - 1 : ns[j] = Entry(decls[k])
        /\ \A j \in 0 .. N - 1 : \E k \in 1 .. N : ns[j] = Entry(decls[k])
        /\ \A j, k \in 0 .. N - 1 : ns[j].pref = ns[k].pref => j = k
    BY <2>2, Entries DEF N
  <2>4. i = IF hit = {} THEN Absent ELSE CHOOSE j \in hit : \A k \in hit : j <= k
    BY <1>8, <1>13
  <2>5. compared = (IF Bare(ns[0].pref) THEN 1 ELSE 0) .. (N - 1)
    BY <2>3 DEF compared, Bare
  <2>6. /\ compared \subseteq 0 .. N - 1
        /\ \A j \in 0 .. N - 1 : j # 0 \/ ~Bare(ns[0].pref) => j \in compared
        /\ \A j \in compared : Bare(ns[0].pref) => j # 0
    <3>1. CASE Bare(ns[0].pref)
      <4>1. compared = 1 .. N - 1
        BY <2>5, <3>1
      <4>2. QED
        BY <1>1, <3>1, <4>1
    <3>2. CASE ~Bare(ns[0].pref)
      <4>1. compared = 0 .. N - 1
        BY <2>5, <3>2
      <4>2. QED
        BY <1>1, <3>2, <4>1
    <3>3. QED
      BY <3>1, <3>2
  <2>7. 0 \in 0 .. N - 1
    BY <1>1, <1>2, <2>1
  <2>8. CASE Bare(p)
    <3>1. ~Bare(ns[0].pref)
      BY <1>13, <2>8
    <3>2. 0 \in hit
      BY <2>6, <2>7, <2>8, <3>1 DEF hit
    <3>3. hit \subseteq Nat
      <4>1. hit \subseteq compared /\ 0 .. N - 1 \subseteq Nat
        BY <1>1 DEF hit
      <4>2. QED
        BY <2>6, <4>1
    <3>4. \E j \in hit : \A k \in hit : j <= k
      BY <3>2, <3>3, Least
    <3>5. i \in hit
      BY <2>4, <3>2, <3>4
    <3>6. i # Absent
      BY <1>4, <3>3, <3>5
    <3>7. ~pref_to_ns_dies(p)
      BY <1>9, <2>8
    <3>8. ~Bare(front)
      BY <1>2, <2>1, <3>1
    <3>9. QED
      BY <2>8, <3>6, <3>7, <3>8 DEF i
  <2>9. CASE ~Bare(p)
    <3>1. PICK k \in 1 .. N : decls[k].pref = p
      BY <1>10, <2>9
    <3>2. PICK j \in 0 .. N - 1 : ns[j] = Entry(decls[k])
      BY <2>3
    <3>3. ns[j].pref = p /\ ns[j].nsid = decls[k].ns
      BY <3>1, <3>2, EntryIs
    <3>4. j # 0 \/ ~Bare(ns[0].pref)
      BY <2>9, <3>3
    <3>5. j \in compared
      BY <2>6, <3>4
    <3>6. \A h \in compared : ns[h].pref = p => h = j
      BY <2>3, <2>6, <3>3
    <3>7. hit = {j}
      BY <2>9, <3>3, <3>5, <3>6 DEF hit
    <3>8. i = j
      <4>1. j <= j
        BY <1>1
      <4>2. QED
        BY <2>4, <3>7, <4>1
    <3>9. Means(decls, p) = decls[k].ns
      BY <3>1, MeansOne DEF N
    <3>10. ~pref_to_ns_dies(p)
      <4>1. ASSUME NEW h \in compared, Bare(ns[h].pref)
            PROVE  FALSE
        <5>1. h \in 0 .. N - 1
          BY <2>6
        <5>2. PICK c \in 1 .. N : ns[h] = Entry(decls[c])
          BY <2>3, <5>1
        <5>3. Bare(decls[c].pref)
          BY <4>1, <5>2, EntryIs
        <5>4. c = L
          BY <1>7, <5>3
        <5>5. ns[0] = ns[h]
          BY <1>2, <2>1, <5>2, <5>4
        <5>6. Bare(ns[0].pref) /\ h = 0
          BY <2>3, <2>7, <4>1, <5>1, <5>5
        <5>7. QED
          BY <2>6, <4>1, <5>6
      <4>2. QED
        BY <1>9, <4>1
    <3>11. i # Absent
      BY <1>4, <3>8
    <3>12. QED
      BY <3>3, <3>8, <3>9, <3>10, <3>11 DEF i
  <2>10. QED
    BY <2>8, <2>9
<1>14. QED
  BY <1>12, <1>13

-----------------------------------------------------------------------------
(* Elements in turn.                                                        *)

\* The elements of the first n as they come, one more at a time.
Turn(S, s, k)   == IF k \in S THEN Append(s, k) ELSE s
Turns(f, S)     == f[0] = <<>> /\ \A k \in Nat : f[k + 1] = Turn(S, f[k], k + 1)

\* They can be listed: the definition has a solution.
LEMMA TurnsAre ==
    ASSUME NEW S
    PROVE  \E f \in [Nat -> Seq(Nat)] : Turns(f, S) /\ \A n \in Nat : InTurn(S, n) = f[n]
<1> DEFINE Q == Seq(Nat)
           F == [x \in Nat \X Q |-> Turn(S, x[2], x[1] + 1)]
           E == <<>>
<1>1. \A k \in Nat, s \in Q : Turn(S, s, k + 1) \in Q
  BY AppendProperties DEF Turn
<1>2. F \in [Nat \X Q -> Q] /\ E \in Q
  BY <1>1
<1>3. \A k \in Nat, s \in Q : F[<<k, s>>] = Turn(S, s, k + 1)
  OBVIOUS
<1> HIDE DEF F, E, Q
<1>4. PICK f \in [Nat -> Q] : Recurs(f, E, F)
  BY <1>2, Recursion
<1>5. Turns(f, S)
  BY <1>3, <1>4 DEF Recurs, Turns, E
<1>6. ASSUME NEW n \in Nat
      PROVE  InTurn(S, n) = f[n]
  <2> DEFINE P(t) == t = [k \in 0 .. n |-> IF k = 0 THEN <<>>
                            ELSE IF k \in S THEN Append(t[k - 1], k) ELSE t[k - 1]]
             g == [k \in 0 .. n |-> f[k]]
             v == CHOOSE t : P(t)
  <2>1. P(g)
    <3>1. g[0] = <<>>
      BY <1>5 DEF Turns
    <3>2. ASSUME NEW k \in 0 .. n, k # 0
          PROVE  g[k] = IF k \in S THEN Append(g[k - 1], k) ELSE g[k - 1]
      <4>1. k - 1 \in Nat /\ k - 1 \in 0 .. n /\ (k - 1) + 1 = k
        BY <3>2
      <4>2. f[k] = Turn(S, f[k - 1], k)
        BY <1>5, <4>1 DEF Turns
      <4>3. g[k] = f[k] /\ g[k - 1] = f[k - 1]
        BY <4>1
      <4> HIDE DEF g
      <4>4. QED
        BY <4>2, <4>3 DEF Turn
    <3>3. \A k \in 0 .. n : g[k] = IF k = 0 THEN <<>>
                            ELSE IF k \in S THEN Append(g[k - 1], k) ELSE g[k - 1]
      BY <3>1, <3>2
    <3>4. g = [k \in 0 .. n |-> g[k]]
      OBVIOUS
    <3> HIDE DEF g
    <3>5. QED
      BY <3>3, <3>4
  <2>2. P(v)
    <3> HIDE DEF P
    <3>1. QED
      BY <2>1
  <2>3. InTurn(S, n) = v[n]
    BY DEF InTurn
  <2> HIDE DEF v
  <2> DEFINE B == {k \in Nat : k <= n => v[k] = f[k]}
  <2>4. 0 \in B
    <3>1. v[0] = <<>>
      BY <2>2
    <3>2. QED
      BY <1>5, <3>1 DEF Turns
  <2>5. ASSUME NEW k \in Nat, k < n, k \in B
        PROVE  k + 1 \in B
    <3>1. k + 1 \in 0 .. n /\ k + 1 # 0 /\ (k + 1) - 1 = k /\ v[k] = f[k]
      BY <2>5
    <3>2. v[k + 1] = IF k + 1 \in S THEN Append(v[k], k + 1) ELSE v[k]
      BY <2>2, <3>1
    <3>3. v[k + 1] = f[k + 1]
      BY <1>5, <3>1, <3>2 DEF Turns, Turn
    <3>4. QED
      BY <3>3
  <2>6. 0 .. n \subseteq B
    <3> HIDE DEF B
    <3>1. QED
      BY <2>4, <2>5, InductionTo
  <2>7. QED
    BY <2>3, <2>6
<1>7. QED
  BY <1>4, <1>5, <1>6 DEF Q

\* The list of the next.
LEMMA TurnStep ==
    ASSUME NEW S, NEW n \in Nat
    PROVE  /\ InTurn(S, 0) = <<>>
           /\ InTurn(S, n) \in Seq(Nat)
           /\ InTurn(S, n + 1) = Turn(S, InTurn(S, n), n + 1)
<1>1. PICK f \in [Nat -> Seq(Nat)] : Turns(f, S) /\ \A k \in Nat : InTurn(S, k) = f[k]
  BY TurnsAre
<1>2. n + 1 \in Nat /\ 0 \in Nat
  OBVIOUS
<1>3. QED
  BY <1>1, <1>2 DEF Turns

\* What is in a list: some of 1 .. n, the last of them at its end.
Lists(s, S, n) ==
    /\ \A k \in 1 .. Len(s) : s[k] \in S /\ s[k] \in 1 .. n /\ s[k] <= s[Len(s)]
    /\ \A k \in 1 .. Len(s) : k # Len(s) => s[k] # s[Len(s)]
    /\ \A j \in 1 .. n : j \in S => Len(s) # 0 /\ j <= s[Len(s)]

\* Every list is one of those.
LEMMA TurnLists ==
    ASSUME NEW S, NEW n \in Nat
    PROVE  Lists(InTurn(S, n), S, n)
<1> DEFINE B == {k \in Nat : Lists(InTurn(S, k), S, k)}
<1>1. 0 \in B
  <2>1. InTurn(S, 0) = <<>> /\ Len(<<>>) = 0
    BY TurnStep, EmptySeq
  <2>2. QED
    BY <2>1 DEF Lists
<1>2. ASSUME NEW k \in Nat, k \in B
      PROVE  k + 1 \in B
  <2> DEFINE s == InTurn(S, k)
             t == InTurn(S, k + 1)
  <2>1. s \in Seq(Nat) /\ t = Turn(S, s, k + 1) /\ Lists(s, S, k) /\ Len(s) \in Nat
    BY <1>2, TurnStep, LenProperties
  <2>2. \A j \in 1 .. k + 1 : j = k + 1 \/ j \in 1 .. k
    OBVIOUS
  <2>3. \A j \in 1 .. k : j \in 1 .. k + 1 /\ j < k + 1
    OBVIOUS
  <2> HIDE DEF s, t
  <2>4. ASSUME k + 1 \in S
        PROVE  Lists(t, S, k + 1)
    <3> DEFINE L == Len(s)
    <3>1. t = Append(s, k + 1)
      BY <2>1, <2>4 DEF Turn
    <3>2. /\ Len(t) = L + 1 /\ t[L + 1] = k + 1
          /\ \A i \in 1 .. L : t[i] = s[i]
      BY <2>1, <3>1, AppendProperties
    <3>3. \A i \in 1 .. L + 1 : i = L + 1 \/ i \in 1 .. L
      BY <2>1
    <3>4. \A i \in 1 .. L : s[i] \in S /\ s[i] \in 1 .. k
      BY <2>1 DEF Lists
    <3>5. L + 1 # 0 /\ k + 1 \in 1 .. k + 1 /\ L \in Nat
      BY <2>1
    <3> HIDE DEF L
    <3>6. \A i \in 1 .. L + 1 : t[i] \in S /\ t[i] \in 1 .. k + 1 /\ t[i] <= k + 1
      BY <2>3, <2>4, <3>2, <3>3, <3>4, <3>5
    <3>7. \A i \in 1 .. L + 1 : i # L + 1 => t[i] # k + 1
      BY <2>3, <3>2, <3>3, <3>4
    <3>8. \A j \in 1 .. k + 1 : j \in S => Len(t) # 0 /\ j <= t[Len(t)]
      BY <3>2, <3>5
    <3>9. Len(t) = L + 1 /\ t[Len(t)] = k + 1
      BY <3>2
    <3>10. QED
      BY <3>6, <3>7, <3>8, <3>9 DEF Lists
  <2>5. ASSUME k + 1 \notin S
        PROVE  Lists(t, S, k + 1)
    <3>1. t = s
      BY <2>1, <2>5 DEF Turn
    <3>2. \A i \in 1 .. Len(s) : s[i] \in S /\ s[i] \in 1 .. k + 1 /\ s[i] <= s[Len(s)]
      BY <2>1, <2>3 DEF Lists
    <3>3. \A i \in 1 .. Len(s) : i # Len(s) => s[i] # s[Len(s)]
      BY <2>1 DEF Lists
    <3>4. \A j \in 1 .. k + 1 : j \in S => Len(s) # 0 /\ j <= s[Len(s)]
      BY <2>1, <2>2, <2>5 DEF Lists
    <3>5. QED
      BY <3>1, <3>2, <3>3, <3>4 DEF Lists
  <2>6. QED
    BY <2>4, <2>5 DEF t
<1>3. Nat \subseteq B
  <2> HIDE DEF B
  <2>1. QED
    BY <1>1, <1>2, Induction
<1>4. QED
  BY <1>3

\* Sets that agree on the first n have the same list.
LEMMA TurnSame ==
    ASSUME NEW S, NEW T, NEW n \in Nat, \A k \in 1 .. n : k \in S <=> k \in T
    PROVE  InTurn(S, n) = InTurn(T, n)
<1> DEFINE B == {k \in Nat : k <= n => InTurn(S, k) = InTurn(T, k)}
<1>1. 0 \in B
  BY TurnStep
<1>2. ASSUME NEW k \in Nat, k < n, k \in B
      PROVE  k + 1 \in B
  <2>1. k + 1 \in 1 .. n /\ InTurn(S, k) = InTurn(T, k)
    BY <1>2
  <2>2. InTurn(S, k + 1) = Turn(S, InTurn(S, k), k + 1)
        /\ InTurn(T, k + 1) = Turn(T, InTurn(T, k), k + 1)
    BY TurnStep
  <2>3. Turn(S, InTurn(S, k), k + 1) = Turn(T, InTurn(S, k), k + 1)
    BY <2>1 DEF Turn
  <2>4. QED
    BY <2>1, <2>2, <2>3
<1>3. 0 .. n \subseteq B
  <2> HIDE DEF B
  <2>1. QED
    BY <1>1, <1>2, InductionTo
<1>4. QED
  BY <1>3

\* One more element, which is the next of them or is none.
LEMMA TurnMore ==
    ASSUME NEW n \in Nat, NEW S, S \subseteq 1 .. n
    PROVE  /\ InTurn(S, n + 1) = InTurn(S, n)
           /\ InTurn(S \cup {n + 1}, n + 1) = Append(InTurn(S, n), n + 1)
<1> DEFINE T == S \cup {n + 1}
<1>1. n + 1 \notin S /\ n + 1 \in T /\ \A k \in 1 .. n : k \in S <=> k \in T
  OBVIOUS
<1> HIDE DEF T
<1>2. InTurn(S, n) = InTurn(T, n)
  BY <1>1, TurnSame
<1>3. QED
  BY <1>1, <1>2, TurnStep DEF Turn, T

\* How deep an element is.
Level == [document |-> 0, other |-> 1, TWSXML |-> 2, FIXML |-> 2, request |-> 3, SecDef |-> 3,
          qmeta |-> 4, query |-> 4, Instrmt |-> 4, reqContract |-> 5, comboLegs |-> 6,
          comboLeg |-> 7]

\* The tags of a depth.
LEMMA Levels ==
    ASSUME NEW t \in DOMAIN Kids
    PROVE  /\ Level[t] \in Nat
           /\ Level[t] = 3 => t \in {"request", "SecDef"}
           /\ Level[t] = 4 => t \in {"qmeta", "query", "Instrmt"}
           /\ Level[t] = 5 => t = "reqContract"
           /\ Level[t] = 6 => t = "comboLegs"
           /\ Level[t] = 7 => t = "comboLeg"
BY SMT DEF Kids, Level

\* A tag is deeper than the one it is in.
LEMMA Nested ==
    ASSUME NEW t \in DOMAIN Kids, NEW u \in Kids[t]
    PROVE  /\ u \in DOMAIN Kids /\ u # "document" /\ Level[u] > Level[t]
           /\ u \in {"request"} => t = "TWSXML"
           /\ u \in {"qmeta", "query"} => t = "request"
           /\ u = "reqContract" => t = "query"
           /\ u = "comboLegs" => t = "reqContract"
           /\ u = "comboLeg" => t = "comboLegs"
           /\ u = "SecDef" => t = "FIXML"
           /\ u = "Instrmt" => t = "SecDef"
BY SMT DEF Kids, Level

-----------------------------------------------------------------------------
(* The document.  Elements are where the languages allow them, and what is    *)
(* open is the last of its depth.                                             *)

Element == [tag : DOMAIN Kids, lang : {"TWSXML", "FIXML", "UNK"}, pref : DeclPrefixes,
            val : Nat \cup {Absent}, apref : DeclPrefixes, up : Nat]
Placed(k) ==
    /\ doc[k].up \in 0 .. k - 1 /\ doc[k].tag \in Kids[TagAt(doc[k].up)]
    /\ doc[k].lang = Language(doc[k].tag) /\ Known(doc[k].pref)
    /\ Fave(doc[k].lang) => Means(decls, doc[k].pref) = doc[k].lang
    /\ doc[k].val # Absent => HasAttrs(doc[k].tag)
Path(Z) ==
    /\ Z \subseteq 1 .. at /\ (at # 0 => at \in Z)
    /\ \A z \in Z : doc[z].up # 0 => doc[z].up \in Z
    /\ \A z \in Z : \A k \in 1 .. Len(doc) : k > z => Level[doc[k].tag] > Level[doc[z].tag]
Shape ==
    /\ decls \in Decls \cup {<<>>}
    /\ doc \in Seq(Element)
    /\ at \in 0 .. Len(doc)
    /\ \A k \in 1 .. Len(doc) : Placed(k)
    /\ \E Z : Path(Z)

\* Elements and what they are in have tags of their own.
LEMMA Shaped ==
    ASSUME Shape
    PROVE  /\ Len(doc) \in Nat /\ DOMAIN doc = 1 .. Len(doc)
           /\ \A k \in 1 .. Len(doc) : doc[k] \in Element
           /\ \A k \in 0 .. Len(doc) : TagAt(k) \in DOMAIN Kids
<1>1. doc \in Seq(Element)
  BY DEF Shape
<1>2. Len(doc) \in Nat /\ DOMAIN doc = 1 .. Len(doc) /\ \A k \in 1 .. Len(doc) : doc[k] \in Element
  BY <1>1, LenProperties, ElementOfSeq
<1>3. \A k \in 1 .. Len(doc) : doc[k].tag \in DOMAIN Kids
  BY <1>2 DEF Element
<1>4. "document" \in DOMAIN Kids
  BY SMT DEF Kids
<1>5. \A k \in 0 .. Len(doc) : k = 0 \/ k \in 1 .. Len(doc)
  BY <1>2
<1>6. QED
  BY <1>2, <1>3, <1>4, <1>5 DEF TagAt

\* What is opened.
OrNone(p) == {"", p}
New(tag, p, v, ap) == [tag |-> tag, lang |-> Language(tag), pref |-> p,
                       val |-> v, apref |-> ap, up |-> at]
Value(given) == IF given THEN Len(doc) + 1 ELSE Absent

\* The document with one more element.
Grows(e) ==
    /\ Len(doc') = Len(doc) + 1 /\ DOMAIN doc' = 1 .. Len(doc) + 1
    /\ doc'[Len(doc) + 1] = e
    /\ \A k \in 1 .. Len(doc) : doc'[k] = doc[k]

\* What an element that is opened is, and what it leaves.
LEMMA Opens ==
    ASSUME Shape, NEW tag, NEW p \in DeclPrefixes, NEW given \in BOOLEAN, NEW ap \in OrNone(p),
           NEW ds \in Decls \cup {<<>>}, OpenElt(tag, p, given, ap, ds)
    PROVE  /\ tag \in DOMAIN Kids /\ tag \in Kids[TagAt(at)] /\ tag # "document"
           /\ New(tag, p, Value(given), ap) \in Element
           /\ doc' = Append(doc, New(tag, p, Value(given), ap)) /\ doc' \in Seq(Element)
           /\ Grows(New(tag, p, Value(given), ap))
           /\ at' = Len(doc) + 1
           /\ decls' \in Decls \cup {<<>>}
           /\ ds # <<>> => decls = <<>> /\ decls' = ds
           /\ ds # <<>> => TagAt(at) \in {"document", "other"}
           /\ ds = <<>> => decls' = decls
           /\ Known(p)' /\ Means(decls', p) = Language(tag)
           /\ Value(given) # Absent => HasAttrs(tag)
<1> DEFINE v == Value(given)
           e == New(tag, p, v, ap)
<1>1. at \in 0 .. Len(doc) /\ Len(doc) \in Nat /\ TagAt(at) \in DOMAIN Kids
      /\ doc \in Seq(Element) /\ decls \in Decls \cup {<<>>}
  BY Shaped DEF Shape
<1>2. /\ tag \in Kids[TagAt(at)]
      /\ ds # <<>> => decls = <<>> /\ TagAt(at) \in {"document", "other"}
      /\ decls' = IF ds = <<>> THEN decls ELSE ds
      /\ p = "" \/ \E k \in DOMAIN decls' : decls'[k].pref = p
      /\ Means(decls', p) = Language(tag)
      /\ given => HasAttrs(tag)
      /\ doc' = Append(doc, e)
      /\ at' = Len(doc) + 1
  BY DEF OpenElt, New, Value
<1>3. tag \in DOMAIN Kids /\ tag # "document"
  BY <1>1, <1>2, Nested
<1>4. Known(p)'
  BY <1>2 DEF Known, Bare
<1>5. e \in Element
  <2>1. Language(tag) \in {"TWSXML", "FIXML", "UNK"}
    BY DEF Language
  <2>2. v \in Nat \cup {Absent}
    BY <1>1 DEF Value
  <2>3. ap \in DeclPrefixes
    BY DEF DeclPrefixes, OrNone
  <2>4. at \in Nat
    BY <1>1
  <2> HIDE DEF v
  <2>5. QED
    BY <1>3, <2>1, <2>2, <2>3, <2>4 DEF Element, New
<1>6. v # Absent => HasAttrs(tag)
  BY <1>2 DEF Value
<1> HIDE DEF e
<1>7. doc' \in Seq(Element) /\ Grows(e)
  <2>1. /\ Append(doc, e) \in Seq(Element) /\ Len(Append(doc, e)) = Len(doc) + 1
        /\ \A k \in 1 .. Len(doc) : Append(doc, e)[k] = doc[k]
        /\ Append(doc, e)[Len(doc) + 1] = e
    BY <1>1, <1>5, AppendProperties
  <2>2. DOMAIN Append(doc, e) = 1 .. Len(Append(doc, e))
    BY <2>1, LenProperties
  <2>3. QED
    BY <1>2, <2>1, <2>2 DEF Grows
<1>8. decls' \in Decls \cup {<<>>}
  BY <1>1, <1>2
<1>9. QED
  BY <1>2, <1>3, <1>4, <1>5, <1>6, <1>7, <1>8 DEF e

\* Opening an element keeps the document in shape: it is the deepest, and
\* prefixes that mean something go on meaning it.
LEMMA ShapeOpens ==
    ASSUME Shape, NEW tag, NEW p \in DeclPrefixes, NEW given \in BOOLEAN, NEW ap \in OrNone(p),
           NEW ds \in Decls \cup {<<>>}, OpenElt(tag, p, given, ap, ds)
    PROVE  Shape'
<1> DEFINE v == Value(given)
           e == New(tag, p, v, ap)
<1>1. PICK n : n = Len(doc)
  OBVIOUS
<1>2. /\ tag \in DOMAIN Kids /\ tag \in Kids[TagAt(at)] /\ tag # "document"
      /\ doc' \in Seq(Element) /\ Grows(e) /\ at' = n + 1 /\ decls' \in Decls \cup {<<>>}
      /\ ds # <<>> => decls = <<>> /\ decls' = ds
      /\ ds = <<>> => decls' = decls
      /\ Known(p)' /\ Means(decls', p) = Language(tag)
      /\ v # Absent => HasAttrs(tag)
  BY <1>1, Opens
<1>3. /\ n \in Nat /\ at \in 0 .. n /\ TagAt(at) \in DOMAIN Kids
      /\ \A k \in 1 .. n : doc[k].tag \in DOMAIN Kids
      /\ \A k \in 1 .. n : Placed(k)
  BY <1>1, Shaped DEF Shape, Element
<1>4. /\ Len(doc') = n + 1 /\ DOMAIN doc' = 1 .. n + 1 /\ doc'[n + 1] = e
      /\ \A k \in 1 .. n : doc'[k] = doc[k]
  BY <1>1, <1>2 DEF Grows
<1>5. e.tag = tag /\ e.lang = Language(tag) /\ e.pref = p /\ e.val = v /\ e.up = at
  BY DEF New
<1>6. \A k \in 1 .. n + 1 : k = n + 1 \/ k \in 1 .. n
  BY <1>3
<1>7. \A k \in 0 .. n : k = 0 \/ k \in 1 .. n
  BY <1>3
<1>8. \A k \in 0 .. n : TagAt(k)' = TagAt(k)
  BY <1>4, <1>7 DEF TagAt
<1> HIDE DEF v, e
<1>9. ASSUME NEW k \in 1 .. n
      PROVE  Placed(k)'
  <2>1. Placed(k)
    BY <1>3
  <2>2. doc[k].up \in 0 .. n
    BY <1>3, <2>1 DEF Placed
  <2>3. TagAt(doc[k].up)' = TagAt(doc[k].up)
    BY <1>4, <1>8, <2>2
  <2>4. Known(doc[k].pref)' /\ (Fave(doc[k].lang) => Means(decls', doc[k].pref) = doc[k].lang)
    <3>1. CASE ds = <<>>
      BY <1>2, <1>4, <2>1, <3>1 DEF Placed, Known
    <3>2. CASE ds # <<>>
      <4>1. decls = <<>> /\ DOMAIN decls = {}
        BY <1>2, <3>2
      <4>2. Bare(doc[k].pref)
        BY <2>1, <4>1 DEF Placed, Known
      <4>3. ~Fave(doc[k].lang)
        BY <2>1, <4>1, MeansNone DEF Placed
      <4>4. QED
        BY <1>4, <4>2, <4>3 DEF Known
    <3>3. QED
      BY <3>1, <3>2
  <2>5. QED
    BY <1>4, <2>1, <2>3, <2>4 DEF Placed
<1>10. Placed(n + 1)'
  <2>2. doc'[n + 1].up = at /\ at \in 0 .. (n + 1) - 1
    BY <1>3, <1>4, <1>5
  <2>3. doc'[n + 1].tag \in Kids[IF at = 0 THEN "document" ELSE doc'[at].tag]
    BY <1>2, <1>3, <1>4, <1>5, <1>7 DEF TagAt
  <2>4. Kids' = Kids
    OBVIOUS
  <2>5. QED
    BY <1>2, <1>4, <1>5, <2>2, <2>3 DEF Placed, TagAt
<1>11. \E Z : Path(Z)'
  <2>1. PICK Z : Path(Z)
    BY DEF Shape
  <2>2. PICK Y : Y = Z \cup {n + 1}
    OBVIOUS
  <2>3. Level[tag] \in Nat /\ Level[TagAt(at)] \in Nat /\ Level[tag] > Level[TagAt(at)]
    BY <1>2, <1>3, Nested, Levels
  <2>4. ASSUME NEW z \in Z
        PROVE  /\ z \in 1 .. n /\ at \in 1 .. n /\ Level[tag] > Level[doc[z].tag]
    <3>1. z \in 1 .. n /\ at \in 1 .. n /\ z <= at
      BY <1>3, <2>1 DEF Path
    <3>2. Level[doc[z].tag] \in Nat
      BY <1>3, <3>1, Levels
    <3>3. TagAt(at) = doc[at].tag
      BY <3>1 DEF TagAt
    <3>4. at = z \/ Level[doc[at].tag] > Level[doc[z].tag]
      BY <1>1, <2>1, <3>1 DEF Path
    <3>5. QED
      BY <2>3, <3>1, <3>2, <3>3, <3>4
  <2>5. Y \subseteq 1 .. at' /\ (at' # 0 => at' \in Y)
    BY <2>2, <1>2, <1>3, <2>4
  <2>6. \A z \in Y : doc'[z].up # 0 => doc'[z].up \in Y
    <3>1. \A z \in Z : doc'[z].up # 0 => doc'[z].up \in Z
      BY <1>4, <2>1, <2>4 DEF Path
    <3>2. at # 0 => at \in Z
      BY <2>1 DEF Path
    <3>3. QED
      BY <1>4, <1>5, <2>2, <3>1, <3>2
  <2>7. ASSUME NEW z \in Y, NEW k \in 1 .. n + 1, k > z
        PROVE  Level[doc'[k].tag] > Level[doc'[z].tag]
    <3>1. z # n + 1
      BY <1>3, <2>7
    <3>2. z \in Z /\ z \in 1 .. n
      BY <2>4, <2>2, <3>1
    <3>3. CASE k = n + 1
      BY <1>4, <1>5, <2>4, <3>2, <3>3
    <3>4. CASE k \in 1 .. n
      BY <1>1, <1>4, <2>1, <2>7, <3>2, <3>4 DEF Path
    <3>5. QED
      BY <1>6, <3>3, <3>4
  <2>8. Path(Y)'
    BY <1>4, <2>5, <2>6, <2>7 DEF Path
  <2>9. QED
    BY <2>8
<1>12. at' \in 0 .. Len(doc')
  BY <1>2, <1>3, <1>4
<1>13. \A k \in 1 .. Len(doc') : Placed(k)'
  BY <1>4, <1>6, <1>9, <1>10
<1>14. QED
  BY <1>2, <1>11, <1>12, <1>13 DEF Shape

\* So does closing one.
LEMMA ShapeCloses ==
    ASSUME Shape, CloseElt
    PROVE  Shape'
<1>1. /\ at # 0 /\ at' = doc[at].up /\ decls' = decls /\ doc' = doc
  BY DEF CloseElt
<1>2. at \in 1 .. Len(doc) /\ Len(doc) \in Nat
  BY <1>1, Shaped DEF Shape
<1>3. PICK Z : Path(Z)
  BY DEF Shape
<1>4. at' \in 0 .. at - 1 /\ (at' # 0 => at' \in Z)
  BY <1>1, <1>2, <1>3 DEF Shape, Placed, Path
<1>5. \A z \in Z : z \in 1 .. Len(doc) /\ doc[z].up < z
  BY <1>2, <1>3 DEF Shape, Placed, Path
<1>6. PICK Y : Y = {z \in Z : z <= at'}
  OBVIOUS
<1>7. Y \subseteq 1 .. at' /\ (at' # 0 => at' \in Y)
  BY <1>6, <1>2, <1>4, <1>5
<1>8. \A z \in Y : doc[z].up # 0 => doc[z].up \in Y
  <2> SUFFICES ASSUME NEW z \in Y, doc[z].up # 0
               PROVE  doc[z].up \in Y
    OBVIOUS
  <2>1. doc[z].up \in Z
    BY <1>6, <1>3 DEF Path
  <2>2. doc[z].up < z /\ z <= at' /\ z \in Nat /\ doc[z].up \in Nat /\ at' \in Nat
    BY <1>6, <1>2, <1>4, <1>5, <2>1
  <2>3. QED
    BY <1>6, <2>1, <2>2
<1>9. \A z \in Y : \A k \in 1 .. Len(doc) : k > z => Level[doc[k].tag] > Level[doc[z].tag]
  BY <1>6, <1>3 DEF Path
<1>10. Path(Y)'
  BY <1>1, <1>7, <1>8, <1>9 DEF Path
<1>11. at' \in 0 .. Len(doc')
  BY <1>1, <1>2, <1>4
<1>12. \A k \in 1 .. Len(doc) : Placed(k)' = Placed(k)
  BY <1>1 DEF Placed, TagAt, Known
<1>13. QED
  BY <1>1, <1>10, <1>11, <1>12 DEF Shape

\* A document that can be read, again.
Plain ==
    /\ Len(decls) <= NsMax
    /\ (Len(decls) <= 1 /\ Bare(front)) \/ decls[1].ns = "UNK"
    /\ DefaultLast
    /\ \A k \in DOMAIN doc : /\ Fave(doc[k].lang) /\ Bare(doc[k].pref) => Bare(front)
                             /\ doc[k].val # Absent => doc[k].apref = front

\* It is the same.
LEMMA PlainIs ==
    ASSUME TRUE
    PROVE  Readable <=> Plain
BY Zenon DEF Readable, Plain, DefaultLast, Bare

\* The languages of the tags, and the tags that do nothing.
LEMMA Tongues ==
    ASSUME NEW t \in DOMAIN Kids
    PROVE  /\ t # "other" => Fave(Language(t))
           /\ ~Fave(Language("other")) /\ ~HasAttrs("other")
           /\ Fave(Language(t)) => t # "other"
BY SMT DEF Kids, Language, Fave, HasAttrs

\* Tags that do nothing.
LEMMA Inert ==
    ASSUME NEW x, NEW r, NEW t \in {"other", "TWSXML", "FIXML", "query"}, NEW w
    PROVE  sax_bo(x, r, t, w) = r
BY SMT DEF sax_bo, sax_bo_TWSXML_elt, sax_bo_FIXML_elt

\* Before there are declarations there are only unknown elements.
LEMMA Undeclared ==
    ASSUME Shape, decls = <<>>, NEW k \in 1 .. Len(doc)
    PROVE  ~Fave(doc[k].lang) /\ doc[k].val = Absent
<1>1. Placed(k) /\ doc[k].tag \in DOMAIN Kids
  BY Shaped DEF Shape, Element
<1>2. ~Fave(doc[k].lang)
  BY <1>1, MeansNone DEF Placed
<1>3. doc[k].tag = "other"
  BY <1>1, <1>2, Tongues DEF Placed
<1>4. QED
  BY <1>1, <1>2, <1>3, Tongues DEF Placed

\* What can be read with one more element could be read before.
LEMMA PlainBefore ==
    ASSUME Shape, NEW tag, NEW p \in DeclPrefixes, NEW given \in BOOLEAN, NEW ap \in OrNone(p),
           NEW ds \in Decls \cup {<<>>}, OpenElt(tag, p, given, ap, ds), Plain'
    PROVE  Plain
<1>1. /\ Grows(New(tag, p, Value(given), ap))
      /\ ds # <<>> => decls = <<>> /\ decls' = ds
      /\ ds = <<>> => decls' = decls
  BY Opens
<1>2. Len(doc) \in Nat /\ DOMAIN doc = 1 .. Len(doc) /\ NsMax \in Nat
  BY Shaped, SdefAssumption
<1>3. CASE ds = <<>>
  <2>1. decls' = decls /\ front' = front /\ DefaultLast' = DefaultLast
    BY <1>1, <1>3 DEF front, Favourites, DefaultLast
  <2>2. \A k \in DOMAIN doc : k \in DOMAIN doc' /\ doc'[k] = doc[k]
    BY <1>1, <1>2 DEF Grows
  <2>3. QED
    BY <2>1, <2>2 DEF Plain
<1>4. CASE ds # <<>>
  <2>1. decls = <<>>
    BY <1>1, <1>4
  <2>2. Len(decls) = 0 /\ DOMAIN decls = {}
    BY <2>1, EmptySeq
  <2>3. Favourites = {}
    BY <2>2 DEF Favourites
  <2>4. Bare(front)
    BY <2>3 DEF front, Bare
  <2>5. DefaultLast
    BY <2>2 DEF DefaultLast
  <2>6. \A k \in DOMAIN doc : ~Fave(doc[k].lang) /\ doc[k].val = Absent
    BY <1>2, <2>1, Undeclared
  <2>7. QED
    BY <1>2, <2>2, <2>4, <2>5, <2>6 DEF Plain
<1>5. QED
  BY <1>3, <1>4

\* Taking the declarations in makes the table of them.
LEMMA TakesIn ==
    ASSUME NEW ds \in Decls, ds # <<>>, decls = <<>>, decls' = ds, TableRight, Plain',
           ns' = registered(ds).ns, nns' = registered(ds).nns
    PROVE  TableRight'
<1>1. ns = Empty.ns /\ nns = 0
  BY DEF TableRight, Tabled
<1>2. Len(ds) \in Nat /\ Len(ds) <= NsMax /\ DOMAIN ds = 1 .. Len(ds)
  BY Declared DEF Plain
<1>3. 1 <= Len(ds)
  <2>1. ds \in Seq([pref : STRING, ns : {"TWSXML", "FIXML", "UNK"}])
    BY SdefAssumption
  <2>2. Len(ds) # 0
    BY <2>1, EmptySeq
  <2>3. QED
    BY <1>2, <2>2
<1>4. CASE ds[1].ns = "UNK"
  <2>1. Filled(registered(ds), ds, Len(ds))
    BY <1>1, <1>2, <1>3, <1>4, Registered
  <2>2. registered(ds) = [ns |-> registered(ds).ns, nns |-> registered(ds).nns]
    <3> DEFINE t == registered(ds)
    <3>1. t = [ns |-> t.ns, nns |-> Len(ds)]
      BY <2>1 DEF Filled
    <3> HIDE DEF t
    <3>2. t.nns = Len(ds)
      BY <3>1
    <3>3. QED
      BY <3>1, <3>2 DEF t
  <2>3. Filled([ns |-> ns', nns |-> nns'], ds, Len(ds))
    BY <2>1, <2>2
  <2>4. QED
    BY <2>3 DEF TableRight, Tabled
<1>5. CASE ds[1].ns # "UNK"
  <2>1. Len(ds) = 1 /\ Bare(front)' /\ 1 \in 1 .. Len(ds)
    BY <1>2, <1>3, <1>5 DEF Plain
  <2>2. Fave(ds[1].ns)
    BY <1>5, <2>1, Declared DEF Fave
  <2>3. ns'[0] = Entry(ds[1])
    BY <1>1, <1>2, <1>3, <2>1, <2>2, Registered
  <2>4. Favourites' = {1}
    BY <1>2, <2>1, <2>2 DEF Favourites, Fave
  <2>5. Latest({1}) = 1
    BY LatestRight
  <2>6. front' = ds[1].pref
    <3>1. front' = IF Favourites' = {} THEN "" ELSE decls'[Latest(Favourites')].pref
      BY DEF front, Latest
    <3>2. QED
      BY <2>4, <2>5, <3>1
  <2>7. Bare(ds[1].pref)
    BY <2>1, <2>6 DEF Bare
  <2>8. QED
    BY <2>1, <2>2, <2>3, <2>7 DEF TableRight, Tabled
<1>6. QED
  BY <1>4, <1>5

-----------------------------------------------------------------------------
(* An element finds the language it is in.                                  *)

\* What is read before an element, and what its handler makes of it.
Before        == [sreq |-> sreq, cur |-> cur, crashed |-> FALSE]
Upon(tag, v) == sax_bo(Language(tag), Before, tag, v)
Handled(tag, v) ==
    /\ TableRight'
    /\ sreq' = Upon(tag, v).sreq /\ cur' = Upon(tag, v).cur
    /\ ~Upon(tag, v).crashed => ~crashed'

\* What it is made of.
LEMMA BeforeIs ==
    ASSUME TRUE
    PROVE  Before.sreq = sreq /\ Before.cur = cur /\ ~Before.crashed
BY DEF Before

\* el_sta, given the entry that is found and the table after it.
Hits(p, ds) == IF __pref_to_ns(p) # Absent /\ Unk(ns[__pref_to_ns(p)].nsid)
               THEN registered(ds) ELSE [ns |-> ns, nns |-> nns]
Tongue(p, ds) == IF __pref_to_ns(p) = Absent THEN Absent
                 ELSE IF Unk(ns[__pref_to_ns(p)].nsid) THEN Hits(p, ds).ns[0].nsid
                 ELSE ns[__pref_to_ns(p)].nsid
Heard(p, v, ap, ds) == IF ptx_pref_p(Hits(p, ds).ns[0], ap) THEN v ELSE Absent
Effect(tag, p, v, ap, ds) == IF Fave(Tongue(p, ds))
                             THEN sax_bo(Tongue(p, ds), Before, tag, Heard(p, v, ap, ds))
                             ELSE Before

\* el_sta, in these terms.
LEMMA Begins ==
    ASSUME NEW tag, NEW p, NEW v, NEW ap, NEW ds, el_sta(tag, p, v, ap, ds)
    PROVE  /\ ns' = Hits(p, ds).ns /\ nns' = Hits(p, ds).nns
           /\ sreq' = Effect(tag, p, v, ap, ds).sreq /\ cur' = Effect(tag, p, v, ap, ds).cur
           /\ crashed' = (Effect(tag, p, v, ap, ds).crashed \/ pref_to_ns_dies(p))
BY Zenon DEF el_sta, Hits, Tongue, Heard, Effect, Before

\* An entry that was never set.
LEMMA NowhereIs ==
    ASSUME TRUE
    PROVE  Nowhere.nsid = Absent /\ Empty.ns[0] = Nowhere
<1>1. Nowhere.nsid = Absent
  BY DEF Nowhere
<1>2. 0 \in 0 .. NsMax - 1
  BY SdefAssumption
<1>3. QED
  BY <1>1, <1>2 DEF Empty

\* An element is handled by its own language, with its attributes, and the
\* table stays right.
LEMMA Handles ==
    ASSUME Shape, NEW tag, NEW p \in DeclPrefixes, NEW given \in BOOLEAN, NEW ap \in OrNone(p),
           NEW ds \in Decls \cup {<<>>}, OpenElt(tag, p, given, ap, ds), Plain', TableRight
    PROVE  Handled(tag, Value(given))
<1> DEFINE v == Value(given)
           e == New(tag, p, v, ap)
           s == Effect(tag, p, v, ap, ds)
           i == __pref_to_ns(p)
<1>1. /\ tag \in DOMAIN Kids /\ tag \in Kids[TagAt(at)] /\ tag # "document"
      /\ Grows(e) /\ decls' \in Decls \cup {<<>>}
      /\ ds # <<>> => decls = <<>> /\ decls' = ds
      /\ ds # <<>> => TagAt(at) \in {"document", "other"}
      /\ ds = <<>> => decls' = decls
      /\ Known(p)' /\ Means(decls', p) = Language(tag)
  BY Opens
<1>2. el_sta(tag, p, v, ap, ds)
  BY DEF OpenElt, Value
<1>3. /\ ns' = Hits(p, ds).ns /\ nns' = Hits(p, ds).nns
      /\ sreq' = s.sreq /\ cur' = s.cur
      /\ crashed' = (s.crashed \/ pref_to_ns_dies(p))
  BY <1>2, Begins
<1>4. decls \in Decls \cup {<<>>} /\ Plain
  BY PlainBefore DEF Shape
<1>5. \A x, w : tag \in {"other", "TWSXML", "FIXML"} => sax_bo(x, Before, tag, w) = Before
  BY Inert
<1>6. [ns |-> ns, nns |-> nns].ns = ns /\ [ns |-> ns, nns |-> nns].nns = nns
  OBVIOUS
<1>7. registered(<<>>) = [ns |-> ns, nns |-> nns]
  BY NoneTakenIn
<1>8. ns' = ns /\ nns' = nns /\ decls' = decls => TableRight'
  BY DEF TableRight
<1> HIDE DEF v, s, i
<1>9. CASE decls = <<>>
  <2>1. ns = Empty.ns /\ nns = 0
    BY <1>9 DEF TableRight, Tabled
  <2>2. ns[0].nsid = Absent
    BY <2>1, NowhereIs
  <2>3. Unk(ns[0].nsid)
    BY <2>2 DEF Unk
  <2>4. i = 0 /\ ~pref_to_ns_dies(p)
    BY <2>3 DEF __pref_to_ns, pref_to_ns_dies, i
  <2>5. Hits(p, ds) = registered(ds)
    BY <2>3, <2>4, AbsentAssumption DEF Hits, i
  <2>6. tag \in {"other", "TWSXML", "FIXML"}
    <3>1. CASE ds = <<>>
      <4>1. ~Fave(Language(tag))
        BY <1>1, <1>9, <3>1, MeansNone
      <4>2. QED
        BY <1>1, <4>1, Tongues
    <3>2. CASE ds # <<>>
      BY <1>1, <3>2, SMT DEF Kids
    <3>3. QED
      BY <3>1, <3>2
  <2>7. s = Before /\ Upon(tag, v) = Before
    BY <1>5, <2>6 DEF s, Effect, Upon
  <2>8. TableRight'
    <3>1. CASE ds = <<>>
      BY <1>1, <1>3, <1>6, <1>7, <1>8, <2>5, <3>1
    <3>2. CASE ds # <<>>
      BY <1>1, <1>3, <1>9, <2>5, <3>2, TakesIn
    <3>3. QED
      BY <3>1, <3>2
  <2>9. ~crashed'
    BY <1>3, <2>4, <2>7, BeforeIs
  <2>10. QED
    BY <1>3, <2>7, <2>8, <2>9 DEF Handled, v
<1>10. CASE decls # <<>>
  <2>1. ds = <<>> /\ decls' = decls /\ decls \in Decls
    BY <1>1, <1>4, <1>10
  <2>2. Known(p) /\ DefaultLast /\ Means(decls, p) = Language(tag)
    BY <1>1, <1>4, <2>1 DEF Known, Plain
  <2>3. i # Absent /\ ~pref_to_ns_dies(p)
        /\ (Fave(Language(tag)) /\ (Bare(p) => Bare(front)) => ns[i].nsid = Language(tag))
    BY <1>10, <2>1, <2>2, Found DEF i
  <2>4. Hits(p, ds) = [ns |-> ns, nns |-> nns]
    BY <1>7, <2>1 DEF Hits
  <2>5. TableRight'
    BY <1>3, <1>6, <1>8, <2>1, <2>4
  <2>6. CASE tag = "other"
    <3>1. s = Before /\ Upon(tag, v) = Before
      BY <1>5, <2>6 DEF s, Effect, Upon
    <3>2. ~crashed'
      BY <1>3, <2>3, <3>1, BeforeIs
    <3>3. QED
      BY <1>3, <2>5, <3>1, <3>2 DEF Handled, v
  <2>7. CASE tag # "other"
    <3>1. Fave(Language(tag))
      BY <1>1, <2>7, Tongues
    <3>2. front' = front
      BY <2>1 DEF front, Favourites
    <3>3. (Bare(p) => Bare(front)) /\ (v # Absent => ap = front)
      <4>1. Len(doc) + 1 \in DOMAIN doc' /\ doc'[Len(doc) + 1] = e
        BY <1>1, Shaped DEF Grows
      <4>2. e.lang = Language(tag) /\ e.pref = p /\ e.val = v /\ e.apref = ap
        BY DEF New
      <4> HIDE DEF e
      <4>3. /\ Fave(e.lang) /\ Bare(e.pref) => Bare(front)'
            /\ e.val # Absent => e.apref = front'
        BY <4>1 DEF Plain
      <4>4. QED
        BY <3>1, <3>2, <4>2, <4>3 DEF Bare
    <3>4. ns[i].nsid = Language(tag)
      BY <2>3, <3>1, <3>3
    <3>5. ~Unk(ns[i].nsid) /\ Fave(ns[i].nsid)
      BY <3>1, <3>4, AbsentAssumption DEF Fave, Unk
    <3>6. Tongue(p, ds) = Language(tag)
      BY <2>3, <3>4, <3>5 DEF Tongue, i
    <3>7. Heard(p, v, ap, ds) = v
      <4>1. CASE v = Absent
        BY <4>1 DEF Heard
      <4>2. CASE v # Absent
        <5>1. ap = front
          BY <3>3, <4>2
        <5>2. Favourites # {}
          <6>1. PICK k \in 1 .. Len(decls) : Fave(decls[k].ns)
            BY <2>1, <2>2, <3>1, MeansNone
          <6>2. k \in DOMAIN decls
            BY <2>1, Declared
          <6>3. QED
            BY <6>1, <6>2 DEF Favourites
        <5>3. ns[0].pref = front /\ Fave(ns[0].nsid)
          BY <1>10, <2>1, <5>2, InFront
        <5>4. ns[0] # Nowhere
          BY <5>3, NowhereIs, AbsentAssumption DEF Fave
        <5>5. ptx_pref_p(ns[0], ap)
          BY <5>1, <5>3, <5>4 DEF ptx_pref_p
        <5>6. QED
          BY <1>6, <2>4, <5>5 DEF Heard
      <4>3. QED
        BY <4>1, <4>2
    <3>8. s = Upon(tag, v)
      BY <3>1, <3>6, <3>7 DEF s, Effect, Upon
    <3>9. ~Upon(tag, v).crashed => ~crashed'
      BY <1>3, <2>3, <3>8
    <3>10. QED
      BY <1>3, <2>5, <3>8, <3>9 DEF Handled, v
  <2>8. QED
    BY <2>6, <2>7
<1>11. QED
  BY <1>9, <1>10

-----------------------------------------------------------------------------
(* What a document says, with one more element.                             *)

\* Growing by an element of what is open.
GrowsBy(e) == /\ Grows(e) /\ e.up = at /\ e.tag \in Kids[TagAt(at)]

\* The document before and after.
LEMMA Sizes ==
    ASSUME Shape, NEW e, GrowsBy(e)
    PROVE  /\ Len(doc) \in Nat /\ at \in 0 .. Len(doc) /\ e.up = at
           /\ DOMAIN doc = 1 .. Len(doc) /\ DOMAIN doc' = 1 .. Len(doc) + 1
           /\ Len(doc') = Len(doc) + 1 /\ doc'[Len(doc) + 1] = e
           /\ \A k \in 1 .. Len(doc) : doc'[k] = doc[k] /\ doc[k].up \in 0 .. Len(doc)
           /\ \A k \in 1 .. Len(doc) + 1 : k = Len(doc) + 1 \/ k \in 1 .. Len(doc)
           /\ Len(doc) + 1 \notin 1 .. Len(doc) /\ Len(doc) + 1 \notin 0 .. Len(doc)
           /\ Len(doc) + 1 \in 1 .. Len(doc) + 1
           /\ 1 .. Len(doc) \subseteq 1 .. Len(doc) + 1
<1>1. Len(doc) \in Nat /\ at \in 0 .. Len(doc) /\ DOMAIN doc = 1 .. Len(doc)
  BY Shaped DEF Shape
<1>2. \A k \in 1 .. Len(doc) : doc[k].up \in 0 .. Len(doc)
  BY <1>1 DEF Shape, Placed
<1>3. QED
  BY <1>1, <1>2 DEF GrowsBy, Grows

More(S, m, b) == IF b THEN S \cup {m} ELSE S

\* What is in an element, with one more.
LEMMA ElemsGrow ==
    ASSUME Shape, NEW e, GrowsBy(e), NEW i, NEW t, NEW m, m = Len(doc) + 1
    PROVE  /\ Elems(i, t) \subseteq 1 .. Len(doc)
           /\ Elems(i, t)' = More(Elems(i, t), m, e.tag = t /\ at = i)
<1> DEFINE n == Len(doc)
           E == {k \in 1 .. n + 1 : doc'[k].tag = t /\ doc'[k].up = i}
<1>1. Elems(i, t)' = E /\ Elems(i, t) = {k \in 1 .. n : doc[k].tag = t /\ doc[k].up = i}
  BY Sizes DEF Elems
<1>2. n + 1 \in E <=> e.tag = t /\ at = i
  BY Sizes
<1>3. \A k \in 1 .. n : k \in E <=> k \in Elems(i, t)
  BY <1>1, Sizes
<1>4. \A k \in E : k = n + 1 \/ k \in 1 .. n
  BY Sizes
<1>5. Elems(i, t) \subseteq 1 .. n
  BY <1>1
<1> HIDE DEF E, n
<1>6. E = Elems(i, t) \cup {k \in {n + 1} : e.tag = t /\ at = i}
  BY <1>2, <1>3, <1>4, <1>5
<1>7. QED
  BY <1>1, <1>5, <1>6 DEF More, n

\* What is in some elements, with one more.
LEMMA InsideGrow ==
    ASSUME Shape, NEW e, GrowsBy(e), NEW S, NEW t, NEW m, m = Len(doc) + 1
    PROVE  /\ Inside(S, t) \subseteq 1 .. Len(doc)
           /\ Inside(S, t)' = More(Inside(S, t), m, e.tag = t /\ at \in S)
<1> DEFINE n == Len(doc)
           E == {k \in 1 .. n + 1 : doc'[k].tag = t /\ doc'[k].up \in S}
<1>1. Inside(S, t)' = E /\ Inside(S, t) = {k \in 1 .. n : doc[k].tag = t /\ doc[k].up \in S}
  BY Sizes DEF Inside
<1>2. n + 1 \in E <=> e.tag = t /\ at \in S
  BY Sizes
<1>3. \A k \in 1 .. n : k \in E <=> k \in Inside(S, t)
  BY <1>1, Sizes
<1>4. \A k \in E : k = n + 1 \/ k \in 1 .. n
  BY Sizes
<1>5. Inside(S, t) \subseteq 1 .. n
  BY <1>1
<1> HIDE DEF E, n
<1>6. E = Inside(S, t) \cup {k \in {n + 1} : e.tag = t /\ at \in S}
  BY <1>2, <1>3, <1>4, <1>5
<1>7. QED
  BY <1>1, <1>5, <1>6 DEF More, n

\* Nothing is inside the new element.
LEMMA InsideNew ==
    ASSUME Shape, NEW e, GrowsBy(e), NEW S, NEW t, NEW m, m = Len(doc) + 1
    PROVE  Inside(S \cup {m}, t)' = Inside(S, t)'
<1>1. \A k \in 1 .. m : doc'[k].up # m
  BY Sizes
<1>2. \A k \in 1 .. m : doc'[k].up \in S \cup {m} <=> doc'[k].up \in S
  BY <1>1
<1>3. Inside(S \cup {m}, t)' = {k \in 1 .. m : doc'[k].tag = t /\ doc'[k].up \in S \cup {m}}
      /\ Inside(S, t)' = {k \in 1 .. m : doc'[k].tag = t /\ doc'[k].up \in S}
  BY Sizes DEF Inside
<1>4. QED
  BY <1>2, <1>3

\* The list of some elements.
LEMMA ListedGrow ==
    ASSUME Shape, NEW e, GrowsBy(e), NEW S, S \subseteq 1 .. Len(doc), NEW m, m = Len(doc) + 1
    PROVE  /\ Listed(S) \in Seq(Nat) /\ Lists(Listed(S), S, Len(doc))
           /\ Listed(S)' = Listed(S)
           /\ Listed(S \cup {m})' = Append(Listed(S), m)
<1>1. Len(doc) \in Nat /\ Len(doc') = Len(doc) + 1
  BY Sizes
<1>2. InTurn(S, Len(doc)) \in Seq(Nat) /\ Lists(InTurn(S, Len(doc)), S, Len(doc))
  BY <1>1, TurnStep, TurnLists
<1>3. /\ InTurn(S, Len(doc) + 1) = InTurn(S, Len(doc))
      /\ InTurn(S \cup {Len(doc) + 1}, Len(doc) + 1) = Append(InTurn(S, Len(doc)), Len(doc) + 1)
  BY <1>1, TurnMore
<1>4. Listed(S)' = InTurn(S, Len(doc')) /\ Listed(S) = InTurn(S, Len(doc))
      /\ Listed(S \cup {m})' = InTurn(S \cup {m}, Len(doc'))
  BY DEF Listed
<1>5. QED
  BY <1>1, <1>2, <1>3, <1>4

\* A new element is the latest.
LEMMA LatestMore ==
    ASSUME NEW n \in Nat, NEW S, S \subseteq 1 .. n, NEW m, m = n + 1, NEW T, T = S \cup {m}
    PROVE  Latest(T) = m /\ T # {}
<1>1. T \subseteq 1 .. m /\ m \in T /\ m \in Nat
  OBVIOUS
<1>2. Latest(T) \in T /\ \A j \in T : j <= Latest(T)
  BY <1>1, LatestRight
<1>3. m <= Latest(T) /\ Latest(T) \in 1 .. m
  BY <1>1, <1>2
<1>4. QED
  BY <1>1, <1>3

\* What is open is the last of its depth.
LEMMA LastOpen ==
    ASSUME Shape, NEW Z, Path(Z), NEW z \in Z, NEW S, S \subseteq 1 .. Len(doc), z \in S,
           \A k \in S : Level[doc[k].tag] = Level[doc[z].tag]
    PROVE  Latest(S) = z /\ \A k \in S : k <= z
<1>1. Len(doc) \in Nat /\ \A k \in 1 .. Len(doc) : doc[k].tag \in DOMAIN Kids
  BY Shaped DEF Element
<1>2. Latest(S) \in S /\ \A k \in S : k <= Latest(S)
  BY <1>1, LatestRight
<1>3. \A k \in S : ~(k > z)
  <2> SUFFICES ASSUME NEW k \in S, k > z
               PROVE  FALSE
    OBVIOUS
  <2>1. Level[doc[k].tag] > Level[doc[z].tag]
    BY DEF Path
  <2>2. Level[doc[z].tag] \in Nat
    BY <1>1, Levels
  <2>3. QED
    BY <2>1, <2>2
<1>4. \A k \in S : k \in Nat /\ k <= z
  BY <1>1, <1>3
<1>5. Latest(S) \in Nat /\ z \in Nat /\ Latest(S) <= z /\ z <= Latest(S)
  BY <1>2, <1>4
<1>6. QED
  BY <1>4, <1>5

-----------------------------------------------------------------------------
(* The parts of a request, with one more element.                           *)

\* The parts of a request.
Legs(c)    == Inside({c}, "comboLegs")
EachLeg(c) == Inside(Legs(c), "comboLeg")
LegSeq(c)  == Listed(EachLeg(c))
LegVals(c) == [k \in DOMAIN LegSeq(c) |-> doc[LegSeq(c)[k]].val]
Nicks(i)   == Given(Elems(i, "qmeta"))
Conts(i)   == Inside(Elems(i, "query"), "reqContract")
Insts(i)   == Given(Elems(i, "Instrmt"))

\* A contract and requests, by their parts.
LEMMA OfParts ==
    ASSUME NEW i
    PROVE  /\ TwsContract(i) = [spec |-> SpecOf(doc[i].val),
                                legs |-> IF Legs(i) = {} THEN Absent ELSE LegVals(i)]
           /\ TwsRequest(i) = [nick |-> IF Nicks(i) = {} THEN Absent ELSE doc[Latest(Nicks(i))].val,
                               c |-> IF Conts(i) = {} THEN Absent ELSE TwsContract(Latest(Conts(i)))]
           /\ FixRequest(i) = [nick |-> Absent,
                               c |-> [spec |-> SpecOf(doc[i].val) \cup {doc[k].val : k \in Insts(i)},
                                      legs |-> Absent]]
<1>1. TwsContract(i) = [spec |-> SpecOf(doc[i].val),
                        legs |-> IF Legs(i) = {} THEN Absent ELSE LegVals(i)]
  BY Zenon DEF TwsContract, Legs, EachLeg, LegSeq, LegVals
<1>2. TwsRequest(i) = [nick |-> IF Nicks(i) = {} THEN Absent ELSE doc[Latest(Nicks(i))].val,
                       c |-> IF Conts(i) = {} THEN Absent ELSE TwsContract(Latest(Conts(i)))]
  BY Zenon DEF TwsRequest, Nicks, Conts
<1>3. FixRequest(i) = [nick |-> Absent,
                       c |-> [spec |-> SpecOf(doc[i].val) \cup {doc[k].val : k \in Insts(i)},
                              legs |-> Absent]]
  BY Zenon DEF FixRequest, Insts
<1>4. QED
  BY <1>1, <1>2, <1>3

\* And in the next state.
LEMMA OfPartsThen ==
    ASSUME NEW i
    PROVE  /\ TwsContract(i)' = [spec |-> SpecOf(doc'[i].val),
                                 legs |-> IF Legs(i)' = {} THEN Absent ELSE LegVals(i)']
           /\ TwsRequest(i)' = [nick |-> IF Nicks(i)' = {} THEN Absent
                                         ELSE doc'[Latest(Nicks(i)')].val,
                                c |-> IF Conts(i)' = {} THEN Absent
                                      ELSE TwsContract(Latest(Conts(i)))']
           /\ FixRequest(i)' = [nick |-> Absent,
                                c |-> [spec |-> SpecOf(doc'[i].val) \cup {doc'[k].val : k \in Insts(i)'},
                                       legs |-> Absent]]
<1>1. TwsContract(i)' = [spec |-> SpecOf(doc'[i].val),
                         legs |-> IF Legs(i)' = {} THEN Absent ELSE LegVals(i)']
  BY Zenon DEF TwsContract, Legs, EachLeg, LegSeq, LegVals, Listed, Inside
<1>2. TwsRequest(i)' = [nick |-> IF Nicks(i)' = {} THEN Absent ELSE doc'[Latest(Nicks(i)')].val,
                        c |-> IF Conts(i)' = {} THEN Absent ELSE TwsContract(Latest(Conts(i)))']
  BY Zenon DEF TwsRequest, Nicks, Conts, Latest, Given, Elems, Inside, TwsContract
<1>3. FixRequest(i)' = [nick |-> Absent,
                        c |-> [spec |-> SpecOf(doc'[i].val) \cup {doc'[k].val : k \in Insts(i)'},
                               legs |-> Absent]]
  BY Zenon DEF FixRequest, Insts
<1>4. QED
  BY <1>1, <1>2, <1>3

\* What is inside of a set that has grown, perhaps, by the new element.
LEMMA InsideMore ==
    ASSUME Shape, NEW e, GrowsBy(e), NEW m, m = Len(doc) + 1, NEW S, NEW T, NEW t,
           T = S \/ T = S \cup {m}
    PROVE  Inside(T, t)' = More(Inside(S, t), m, e.tag = t /\ at \in S)
<1>1. Inside(T, t)' = Inside(S, t)'
  BY InsideNew
<1>2. QED
  BY <1>1, InsideGrow

\* The parts of a contract and of a request, with one more element.
LEMMA PartsGrow ==
    ASSUME Shape, NEW e, GrowsBy(e), NEW m, m = Len(doc) + 1, NEW i
    PROVE  /\ Legs(i)' = More(Legs(i), m, e.tag = "comboLegs" /\ at = i)
           /\ EachLeg(i)' = More(EachLeg(i), m, e.tag = "comboLeg" /\ at \in Legs(i))
           /\ Conts(i)' = More(Conts(i), m, e.tag = "reqContract" /\ at \in Elems(i, "query"))
           /\ Nicks(i)' = More(Nicks(i), m, e.tag = "qmeta" /\ at = i /\ e.val # Absent)
           /\ Insts(i)' = More(Insts(i), m, e.tag = "Instrmt" /\ at = i /\ e.val # Absent)
           /\ Asking' = More(Asking, m, e.tag \in {"request", "SecDef"})
<1>1. Legs(i)' = More(Legs(i), m, e.tag = "comboLegs" /\ at = i)
  <2>1. Inside({i}, "comboLegs")' = More(Inside({i}, "comboLegs"), m, e.tag = "comboLegs" /\ at \in {i})
    BY InsideGrow
  <2>2. QED
    BY <2>1 DEF Legs
<1>2. PICK S, T : S = Legs(i) /\ T = Legs(i)'
  OBVIOUS
<1>3. T = S \/ T = S \cup {m}
  BY <1>1, <1>2 DEF More
<1>4. EachLeg(i)' = More(EachLeg(i), m, e.tag = "comboLeg" /\ at \in Legs(i))
  <2>1. Inside(T, "comboLeg")' = More(Inside(S, "comboLeg"), m, e.tag = "comboLeg" /\ at \in S)
    BY <1>3, InsideMore
  <2>2. EachLeg(i)' = Inside(T, "comboLeg")'
    BY <1>2 DEF EachLeg, Inside
  <2>3. QED
    BY <1>2, <2>1, <2>2 DEF EachLeg
<1>5. Conts(i)' = More(Conts(i), m, e.tag = "reqContract" /\ at \in Elems(i, "query"))
  <2>1. PICK Q, R : Q = Elems(i, "query") /\ R = Elems(i, "query")'
    OBVIOUS
  <2>2. R = Q \/ R = Q \cup {m}
    BY <2>1, ElemsGrow DEF More
  <2>3. Inside(R, "reqContract")' = More(Inside(Q, "reqContract"), m, e.tag = "reqContract" /\ at \in Q)
    BY <2>2, InsideMore
  <2>4. Conts(i)' = Inside(R, "reqContract")'
    BY <2>1 DEF Conts, Inside
  <2>5. QED
    BY <2>1, <2>3, <2>4 DEF Conts
<1>6. ASSUME NEW t
      PROVE  Given(Elems(i, t))' = More(Given(Elems(i, t)), m, e.tag = t /\ at = i /\ e.val # Absent)
  <2>1. PICK Q, R : Q = Elems(i, t) /\ R = Elems(i, t)'
    OBVIOUS
  <2>2. R = More(Q, m, e.tag = t /\ at = i) /\ Q \subseteq 1 .. Len(doc)
    BY <2>1, ElemsGrow
  <2>3. \A k : k \in Given(Elems(i, t))' <=> k \in R /\ doc'[k].val # Absent
    BY <2>1 DEF Given
  <2>4. \A k : k \in Given(Elems(i, t)) <=> k \in Q /\ doc'[k].val # Absent
    BY <2>1, <2>2, Sizes DEF Given
  <2>5. doc'[m] = e /\ m \notin Q
    BY <2>2, Sizes
  <2>6. CASE e.tag = t /\ at = i /\ e.val # Absent
    <3>1. R = Q \cup {m}
      BY <2>2, <2>6 DEF More
    <3>2. \A k : k \in Given(Elems(i, t))' <=> k \in Given(Elems(i, t)) \cup {m}
      BY <2>3, <2>4, <2>5, <2>6, <3>1
    <3>3. QED
      BY <2>6, <3>2 DEF More
  <2>7. CASE ~(e.tag = t /\ at = i /\ e.val # Absent)
    <3>1. \A k : k \in R /\ doc'[k].val # Absent <=> k \in Q /\ doc'[k].val # Absent
      BY <2>2, <2>5, <2>7 DEF More
    <3>2. \A k : k \in Given(Elems(i, t))' <=> k \in Given(Elems(i, t))
      BY <2>3, <2>4, <3>1
    <3>3. QED
      BY <2>7, <3>2 DEF More
  <2>8. QED
    BY <2>6, <2>7
<1>7. Asking' = More(Asking, m, e.tag \in {"request", "SecDef"})
  <2>1. Asking' = {k \in 1 .. m : doc'[k].tag \in {"request", "SecDef"}}
        /\ Asking = {k \in 1 .. Len(doc) : doc[k].tag \in {"request", "SecDef"}}
    BY Sizes DEF Asking
  <2>2. \A k \in 1 .. Len(doc) : k \in Asking' <=> k \in Asking
    BY <2>1, Sizes
  <2>3. m \in Asking' <=> e.tag \in {"request", "SecDef"}
    BY <2>1, Sizes
  <2>4. (\A k \in Asking' : k = m \/ k \in 1 .. Len(doc)) /\ \A k \in Asking : k \in 1 .. Len(doc)
    BY <2>1, Sizes
  <2>5. CASE e.tag \in {"request", "SecDef"}
    <3>1. \A k : k \in Asking' <=> k \in Asking \cup {m}
      BY <2>2, <2>3, <2>4, <2>5
    <3>2. QED
      BY <2>5, <3>1 DEF More
  <2>6. CASE e.tag \notin {"request", "SecDef"}
    <3>1. \A k : k \in Asking' <=> k \in Asking
      BY <2>2, <2>3, <2>4, <2>6
    <3>2. QED
      BY <2>6, <3>1 DEF More
  <2>7. QED
    BY <2>5, <2>6
<1>8. QED
  BY <1>1, <1>4, <1>5, <1>6, <1>7 DEF Nicks, Insts

Values == Nat \cup {Absent}

\* The values of a list of elements.
Vals(s) == [k \in DOMAIN s |-> doc[s[k]].val]

\* The values stay, with one more element, and a new one is appended.
LEMMA ValsGrow ==
    ASSUME Shape, NEW e, e \in Element, GrowsBy(e), NEW m, m = Len(doc) + 1,
           NEW s \in Seq(Nat), \A k \in 1 .. Len(s) : s[k] \in 1 .. Len(doc)
    PROVE  /\ Vals(s) \in Seq(Values) /\ Len(Vals(s)) = Len(s)
           /\ Vals(s)' = Vals(s)
           /\ Vals(Append(s, m))' = Append(Vals(s), e.val)
<1>1. Len(s) \in Nat /\ DOMAIN s = 1 .. Len(s) /\ m \in Nat
  BY LenProperties, Sizes
<1>2. \A k \in 1 .. Len(doc) : doc[k].val \in Values
  BY Shaped DEF Element, Values
<1>3. e.val \in Values
  BY DEF Element, Values
<1> DEFINE L == Len(s)
           f == [k \in 1 .. L |-> doc[s[k]].val]
           g == [k \in 1 .. L + 1 |-> doc'[Append(s, m)[k]].val]
<1>4. Vals(s) = f /\ Vals(s)' = [k \in 1 .. L |-> doc'[s[k]].val]
  BY <1>1 DEF Vals
<1>5. f \in Seq(Values) /\ Len(f) = L /\ \A k \in 1 .. L : f[k] = doc[s[k]].val
  <2>1. \A k \in 1 .. L : f[k] \in Values
    BY <1>2
  <2>2. f \in [1 .. L -> Values]
    BY <2>1
  <2> HIDE DEF f
  <2>3. f \in Seq(Values) /\ Len(f) = L
    BY <1>1, <2>2
  <2>4. QED
    BY <2>3 DEF f
<1>6. Vals(s)' = Vals(s)
  BY <1>4, Sizes
<1>7. /\ Append(s, m) \in Seq(Nat) /\ Len(Append(s, m)) = L + 1 /\ Append(s, m)[L + 1] = m
      /\ \A k \in 1 .. L : Append(s, m)[k] = s[k]
  BY <1>1, AppendProperties
<1>8. Vals(Append(s, m))' = g
  <2>1. DOMAIN Append(s, m) = 1 .. L + 1
    BY <1>7, LenProperties
  <2>2. QED
    BY <2>1 DEF Vals
<1>9. g = Append(f, e.val)
  <2>1. \A k \in 1 .. L + 1 : k = L + 1 \/ k \in 1 .. L
    BY <1>1
  <2>2. \A k \in 1 .. L : g[k] = f[k]
    BY <1>5, <1>7, Sizes
  <2>3. g[L + 1] = e.val
    BY <1>1, <1>7, Sizes
  <2>4. DOMAIN g = 1 .. L + 1
    OBVIOUS
  <2>5. g = [k \in 1 .. L + 1 |-> g[k]]
    OBVIOUS
  <2> DEFINE a == Append(f, e.val)
  <2> HIDE DEF g, f, L
  <2>6. /\ a \in Seq(Values) /\ Len(a) = L + 1 /\ a[L + 1] = e.val
        /\ \A k \in 1 .. L : a[k] = f[k]
    BY <1>3, <1>5, AppendProperties
  <2> HIDE DEF a
  <2>7. a = [k \in 1 .. L + 1 |-> a[k]]
    BY <2>6, LenProperties
  <2>8. \A k \in 1 .. L + 1 : g[k] = a[k]
    BY <2>1, <2>2, <2>3, <2>6
  <2>9. g = a
    BY <2>5, <2>7, <2>8
  <2>10. QED
    BY <2>9 DEF a
<1>10. QED
  BY <1>4, <1>5, <1>6, <1>8, <1>9

\* The legs of a contract, with one more element.
LEMMA LegsGrow ==
    ASSUME Shape, NEW e, e \in Element, GrowsBy(e), NEW m, m = Len(doc) + 1, NEW c
    PROVE  /\ LegVals(c) \in Seq(Values)
           /\ ~(e.tag = "comboLeg" /\ at \in Legs(c)) => LegVals(c)' = LegVals(c)
           /\ e.tag = "comboLeg" /\ at \in Legs(c) => LegVals(c)' = Append(LegVals(c), e.val)
           /\ Legs(c)' = {} => LegVals(c) = <<>>
           /\ Legs(c) = {} => LegVals(c) = <<>>
<1>1. PICK S, T : S = EachLeg(c) /\ T = EachLeg(c)'
  OBVIOUS
<1>2. T = More(S, m, e.tag = "comboLeg" /\ at \in Legs(c)) /\ S \subseteq 1 .. Len(doc)
  <2>1. S \subseteq 1 .. Len(doc)
    BY <1>1, Sizes DEF EachLeg, Inside
  <2>2. QED
    BY <1>1, <2>1, PartsGrow
<1>3. PICK s, t : s = LegSeq(c) /\ t = LegSeq(c)'
  OBVIOUS
<1>4. s = Listed(S) /\ t = Listed(T)'
  BY <1>1, <1>3 DEF LegSeq, Listed
<1>5. /\ s \in Seq(Nat) /\ Lists(s, S, Len(doc))
      /\ Listed(S)' = s /\ Listed(S \cup {m})' = Append(s, m)
  BY <1>2, <1>4, ListedGrow
<1>6. \A k \in 1 .. Len(s) : s[k] \in 1 .. Len(doc)
  BY <1>5 DEF Lists
<1>7. /\ Vals(s) \in Seq(Values) /\ Len(Vals(s)) = Len(s)
      /\ Vals(s)' = Vals(s) /\ Vals(Append(s, m))' = Append(Vals(s), e.val)
  BY <1>5, <1>6, ValsGrow
<1>8. LegVals(c) = Vals(s) /\ LegVals(c)' = Vals(t)'
  BY <1>3 DEF LegVals, Vals
<1>9. ~(e.tag = "comboLeg" /\ at \in Legs(c)) => LegVals(c)' = LegVals(c)
  BY <1>2, <1>4, <1>5, <1>7, <1>8 DEF More
<1>10. e.tag = "comboLeg" /\ at \in Legs(c) => LegVals(c)' = Append(LegVals(c), e.val)
  <2> SUFFICES ASSUME e.tag = "comboLeg" /\ at \in Legs(c)
               PROVE  LegVals(c)' = Append(LegVals(c), e.val)
    OBVIOUS
  <2>1. T = S \cup {m}
    BY <1>2 DEF More
  <2>2. t = Append(s, m)
    BY <1>4, <1>5, <2>1
  <2>3. QED
    BY <1>7, <1>8, <2>2
<1>11. Legs(c) = {} => LegVals(c) = <<>>
  <2> SUFFICES ASSUME Legs(c) = {}
               PROVE  LegVals(c) = <<>>
    OBVIOUS
  <2>1. S = {}
    BY <1>1 DEF EachLeg, Inside
  <2>2. Len(s) = 0
    <3>1. Len(s) \in Nat
      BY <1>5, LenProperties
    <3>2. \A k \in 1 .. Len(s) : FALSE
      BY <1>5, <2>1 DEF Lists
    <3>3. QED
      BY <3>1, <3>2
  <2>3. QED
    BY <1>7, <1>8, <2>2, EmptySeq
<1>12. Legs(c)' = {} => Legs(c) = {}
  BY PartsGrow DEF More
<1>13. QED
  BY <1>7, <1>8, <1>9, <1>10, <1>11, <1>12

\* A contract that is not touched, and that a contract is one.
LEMMA ContractKept ==
    ASSUME Shape, NEW e, e \in Element, GrowsBy(e), NEW m, m = Len(doc) + 1,
           NEW c \in 1 .. Len(doc)
    PROVE  /\ TwsContract(c) # Absent
           /\ ~(e.tag = "comboLegs" /\ at = c) /\ ~(e.tag = "comboLeg" /\ at \in Legs(c))
              => TwsContract(c)' = TwsContract(c)
<1>1. doc'[c] = doc[c] /\ doc[c].val \in Values
  BY Sizes, Shaped DEF Element, Values
<1>2. TwsContract(c) = [spec |-> SpecOf(doc[c].val),
                        legs |-> IF Legs(c) = {} THEN Absent ELSE LegVals(c)]
  BY OfParts
<1>3. TwsContract(c)' = [spec |-> SpecOf(doc'[c].val),
                         legs |-> IF Legs(c)' = {} THEN Absent ELSE LegVals(c)']
  BY OfPartsThen
<1>4. LegVals(c) \in Seq(Values)
  BY LegsGrow
<1>5. SpecOf(doc[c].val) \in SUBSET Nat
  BY <1>1 DEF SpecOf, Values
<1>6. TwsContract(c) \in [spec : SUBSET Nat, legs : Seq(Values) \cup {Absent}]
  BY <1>2, <1>4, <1>5
<1>7. TwsContract(c) # Absent
  BY <1>6, AbsentAssumption DEF Values
<1>8. ASSUME ~(e.tag = "comboLegs" /\ at = c), ~(e.tag = "comboLeg" /\ at \in Legs(c))
      PROVE  TwsContract(c)' = TwsContract(c)
  <2>1. Legs(c)' = Legs(c)
    BY <1>8, PartsGrow DEF More
  <2>2. LegVals(c)' = LegVals(c)
    BY <1>8, LegsGrow
  <2>3. QED
    BY <1>1, <1>2, <1>3, <2>1, <2>2
<1>9. QED
  BY <1>7, <1>8

\* The contract of a request, by the element that is the last of them.
LEMMA LastCont ==
    ASSUME NEW i, NEW c, c = Latest(Conts(i)')
    PROVE  TwsContract(Latest(Conts(i)))' = TwsContract(c)'
BY Zenon DEF TwsContract, Latest, Conts, Elems, Inside, Listed

\* The parts are elements of the document.
LEMMA ContsIn ==
    ASSUME Shape, NEW i
    PROVE  /\ Conts(i) \subseteq 1 .. Len(doc) /\ Elems(i, "query") \subseteq 1 .. Len(doc)
           /\ Conts(i) # {} => Latest(Conts(i)) \in Conts(i)
           /\ Nicks(i) \subseteq 1 .. Len(doc) /\ Insts(i) \subseteq 1 .. Len(doc)
           /\ Nicks(i) # {} => Latest(Nicks(i)) \in Nicks(i)
<1>1. Len(doc) \in Nat /\ DOMAIN doc = 1 .. Len(doc)
  BY Shaped
<1>2. /\ Conts(i) \subseteq 1 .. Len(doc) /\ Elems(i, "query") \subseteq 1 .. Len(doc)
      /\ Nicks(i) \subseteq 1 .. Len(doc) /\ Insts(i) \subseteq 1 .. Len(doc)
  BY <1>1 DEF Conts, Elems, Inside, Nicks, Insts, Given
<1>3. QED
  BY <1>1, <1>2, LatestRight

\* The nick and the contract of a request, and when they are not touched.
NickOf(i) == IF Nicks(i) = {} THEN Absent ELSE doc[Latest(Nicks(i))].val
ContOf(i) == IF Conts(i) = {} THEN Absent ELSE TwsContract(Latest(Conts(i)))

\* They make the request, before and after.
LEMMA TwsIs ==
    ASSUME NEW i
    PROVE  /\ TwsRequest(i) = [nick |-> NickOf(i), c |-> ContOf(i)]
           /\ TwsRequest(i)' = [nick |-> NickOf(i)', c |-> ContOf(i)']
<1>1. TwsRequest(i) = [nick |-> NickOf(i), c |-> ContOf(i)]
  BY OfParts DEF NickOf, ContOf
<1>2. TwsRequest(i)' = [nick |-> NickOf(i)', c |-> ContOf(i)']
  BY OfPartsThen DEF NickOf, ContOf
<1>3. QED
  BY <1>1, <1>2

\* A nick that is not given anew.
LEMMA NickKept ==
    ASSUME Shape, NEW e, e \in Element, GrowsBy(e), NEW m, m = Len(doc) + 1,
           NEW i \in 1 .. Len(doc), ~(e.tag = "qmeta" /\ at = i /\ e.val # Absent)
    PROVE  NickOf(i)' = NickOf(i)
<1>1. PICK P : P = Nicks(i)
  OBVIOUS
<1>2. Nicks(i)' = P
  BY <1>1, PartsGrow DEF More
<1>3. PICK d : d = Latest(P)
  OBVIOUS
<1>4. P # {} => doc'[d].val = doc[d].val
  BY <1>1, <1>3, ContsIn, Sizes
<1>5. NickOf(i) = IF P = {} THEN Absent ELSE doc[d].val
  BY <1>1, <1>3 DEF NickOf
<1>6. NickOf(i)' = IF P = {} THEN Absent ELSE doc'[d].val
  <2>1. NickOf(i)' = IF Nicks(i)' = {} THEN Absent ELSE doc'[Latest(Nicks(i)')].val
    BY Zenon DEF NickOf, Latest
  <2>2. QED
    BY <1>2, <1>3, <2>1
<1>7. QED
  BY <1>4, <1>5, <1>6

\* A contract that is not touched.
LEMMA ContKept ==
    ASSUME Shape, NEW e, e \in Element, GrowsBy(e), NEW m, m = Len(doc) + 1,
           NEW i \in 1 .. Len(doc),
           ~(e.tag = "reqContract" /\ at \in Elems(i, "query")),
           \A c \in Conts(i) : ~(e.tag = "comboLegs" /\ at = c) /\ ~(e.tag = "comboLeg" /\ at \in Legs(c))
    PROVE  ContOf(i)' = ContOf(i)
<1>1. PICK Q : Q = Conts(i)
  OBVIOUS
<1>2. Conts(i)' = Q
  BY <1>1, PartsGrow DEF More
<1>3. PICK c : c = Latest(Q)
  OBVIOUS
<1>4. Q # {} => TwsContract(c)' = TwsContract(c)
  <2> SUFFICES ASSUME Q # {}
               PROVE  TwsContract(c)' = TwsContract(c)
    OBVIOUS
  <2>1. c \in Conts(i) /\ c \in 1 .. Len(doc)
    BY <1>1, <1>3, ContsIn
  <2>2. ~(e.tag = "comboLegs" /\ at = c) /\ ~(e.tag = "comboLeg" /\ at \in Legs(c))
    BY <2>1
  <2>3. QED
    BY <2>1, <2>2, ContractKept
<1>5. c = Latest(Conts(i)')
  BY <1>2, <1>3
<1>6. TwsContract(Latest(Conts(i)))' = TwsContract(c)'
  BY <1>5, LastCont
<1>7. ContOf(i) = IF Q = {} THEN Absent ELSE TwsContract(c)
  BY <1>1, <1>3 DEF ContOf
<1>8. ContOf(i)' = IF Q = {} THEN Absent ELSE TwsContract(c)'
  <2>1. ContOf(i)' = IF Conts(i)' = {} THEN Absent ELSE TwsContract(Latest(Conts(i)))'
    BY Zenon DEF ContOf
  <2>2. QED
    BY <1>2, <1>6, <2>1
<1>9. QED
  BY <1>4, <1>7, <1>8

\* A request that is not touched.
LEMMA TwsKept ==
    ASSUME Shape, NEW e, e \in Element, GrowsBy(e), NEW m, m = Len(doc) + 1,
           NEW i \in 1 .. Len(doc),
           ~(e.tag = "qmeta" /\ at = i /\ e.val # Absent),
           ~(e.tag = "reqContract" /\ at \in Elems(i, "query")),
           \A c \in Conts(i) : ~(e.tag = "comboLegs" /\ at = c) /\ ~(e.tag = "comboLeg" /\ at \in Legs(c))
    PROVE  TwsRequest(i)' = TwsRequest(i)
BY NickKept, ContKept, TwsIs

\* A request of the other language that is not touched.
LEMMA FixKept ==
    ASSUME Shape, NEW e, e \in Element, GrowsBy(e), NEW m, m = Len(doc) + 1,
           NEW i \in 1 .. Len(doc), ~(e.tag = "Instrmt" /\ at = i /\ e.val # Absent)
    PROVE  FixRequest(i)' = FixRequest(i)
<1>1. Insts(i)' = Insts(i)
  BY PartsGrow DEF More
<1>2. doc'[i] = doc[i] /\ \A k \in Insts(i) : doc'[k] = doc[k]
  BY ContsIn, Sizes
<1>3. {doc'[k].val : k \in Insts(i)'} = {doc[k].val : k \in Insts(i)}
  BY <1>1, <1>2
<1>4. QED
  BY <1>2, <1>3, OfParts, OfPartsThen

\* A request that is not open is not touched.
LEMMA Untouched ==
    ASSUME Shape, NEW e, e \in Element, GrowsBy(e), NEW m, m = Len(doc) + 1,
           NEW Z, Path(Z), NEW i \in 1 .. Len(doc), i \notin Z
    PROVE  Request(i)' = Request(i)
<1>1. Len(doc) \in Nat /\ (at # 0 => at \in Z) /\ \A z \in Z : doc[z].up # 0 => doc[z].up \in Z
  BY Sizes DEF Path
<1>2. i # 0 /\ 0 \notin 1 .. Len(doc)
  OBVIOUS
<1>3. at # i
  BY <1>1, <1>2
<1>4. \A k \in Elems(i, "query") : k \notin Z /\ k # 0
  <2>1. \A k \in Elems(i, "query") : k \in 1 .. Len(doc) /\ doc[k].up = i
    BY Sizes DEF Elems
  <2>2. QED
    BY <1>1, <1>2, <2>1
<1>5. \A c \in Conts(i) : c \notin Z /\ c # 0
  <2>1. \A c \in Conts(i) : c \in 1 .. Len(doc) /\ doc[c].up \in Elems(i, "query")
    BY Sizes DEF Conts, Inside
  <2>2. QED
    BY <1>1, <1>2, <1>4, <2>1
<1>6. \A c \in Conts(i) : \A l \in Legs(c) : l \notin Z /\ l # 0
  <2>1. \A c \in Conts(i) : \A l \in Legs(c) : l \in 1 .. Len(doc) /\ doc[l].up = c
    BY Sizes DEF Legs, Inside
  <2>2. QED
    BY <1>1, <1>2, <1>5, <2>1
<1>7. at \notin Elems(i, "query") /\ \A c \in Conts(i) : at # c /\ at \notin Legs(c)
  BY <1>1, <1>4, <1>5, <1>6
<1>8. TwsRequest(i)' = TwsRequest(i)
  BY <1>3, <1>7, TwsKept
<1>9. FixRequest(i)' = FixRequest(i)
  BY <1>3, FixKept
<1>10. doc'[i] = doc[i]
  BY Sizes
<1>11. Request(i) = IF doc[i].tag = "request" THEN TwsRequest(i) ELSE FixRequest(i)
  BY DEF Request
<1>12. Request(i)' = IF doc'[i].tag = "request" THEN TwsRequest(i)' ELSE FixRequest(i)'
  BY DEF Request
<1>13. QED
  BY <1>8, <1>9, <1>10, <1>11, <1>12

-----------------------------------------------------------------------------
(* The requests, with one more element.                                     *)

\* The elements that ask for something, in turn; the one that is open is the
\* last of them.
Asks == Listed(Asking)

\* What they are, and what one more element makes of them.
LEMMA AsksAre ==
    ASSUME Shape, NEW e, e \in Element, GrowsBy(e), NEW m, m = Len(doc) + 1,
           NEW Z, Path(Z)
    PROVE  /\ Len(Asks) \in Nat /\ Asks \in Seq(Nat)
           /\ Meant_sreq = [k \in 1 .. Len(Asks) |-> Request(Asks[k])]
           /\ \A k \in 1 .. Len(Asks) : Asks[k] \in Asking /\ Asks[k] \in 1 .. Len(doc)
           /\ \A k \in 1 .. Len(Asks) : k # Len(Asks) => Asks[k] \notin Z
           /\ \A z \in Z : z \in Asking => Len(Asks) # 0 /\ z = Asks[Len(Asks)]
           /\ Asking' = Asking => Asks' = Asks
           /\ Asking' = Asking \cup {m} => Asks' = Append(Asks, m)
<1>1. Asking \subseteq 1 .. Len(doc) /\ \A k \in Asking : doc[k].tag \in {"request", "SecDef"}
  BY Sizes DEF Asking
<1>2. PICK S, s, T : S = Asking /\ s = Asks /\ T = Asking'
  OBVIOUS
<1>3. Asks = Listed(S) /\ Asks' = Listed(T)'
  BY <1>2 DEF Asks, Listed
<1>4. /\ s \in Seq(Nat) /\ Lists(s, S, Len(doc))
      /\ Listed(S)' = s /\ Listed(S \cup {m})' = Append(s, m)
  BY <1>1, <1>2, <1>3, ListedGrow
<1>5. Len(s) \in Nat /\ DOMAIN s = 1 .. Len(s)
  BY <1>4, LenProperties
<1>6. Meant_sreq = [k \in DOMAIN Asks |-> Request(Asks[k])]
  BY DEF Meant_sreq, Asks
<1>7. /\ \A k \in 1 .. Len(s) : s[k] \in S /\ s[k] \in 1 .. Len(doc) /\ s[k] <= s[Len(s)]
      /\ \A k \in 1 .. Len(s) : k # Len(s) => s[k] # s[Len(s)]
      /\ \A j \in 1 .. Len(doc) : j \in S => Len(s) # 0 /\ j <= s[Len(s)]
  BY <1>4 DEF Lists
<1>8. ASSUME NEW z \in Z, z \in S
      PROVE  Len(s) # 0 /\ z = s[Len(s)]
  <2>1. \A k \in S : Level[doc[k].tag] = 3
    BY <1>1, <1>2, SMT DEF Level
  <2>2. \A k \in S : Level[doc[k].tag] = Level[doc[z].tag]
    BY <1>8, <2>1
  <2>3. \A k \in S : k <= z
    BY <1>1, <1>2, <1>8, <2>2, LastOpen
  <2>4. z \in 1 .. Len(doc)
    BY <1>1, <1>2, <1>8
  <2>5. Len(s) # 0 /\ z <= s[Len(s)]
    BY <1>7, <1>8, <2>4
  <2>6. Len(s) \in 1 .. Len(s)
    BY <1>5, <2>5
  <2>7. s[Len(s)] \in S /\ s[Len(s)] \in Nat /\ z \in Nat
    BY <1>7, <2>4, <2>6
  <2>8. QED
    BY <2>3, <2>5, <2>7
<1>9. \A k \in 1 .. Len(s) : k # Len(s) => s[k] \notin Z
  BY <1>7, <1>8
<1>10. (T = S => Asks' = s) /\ (T = S \cup {m} => Asks' = Append(s, m))
  BY <1>3, <1>4
<1>11. QED
  BY <1>2, <1>4, <1>5, <1>6, <1>7, <1>8, <1>9, <1>10

\* One more request.
LEMMA MeantAsks ==
    ASSUME Shape, NEW e, e \in Element, GrowsBy(e), NEW m, m = Len(doc) + 1,
           e.tag \in {"request", "SecDef"}
    PROVE  Meant_sreq' = Append(Meant_sreq, Request(m)')
<1>1. PICK Z : Path(Z)
  BY DEF Shape
<1>2. PICK s : s = Asks
  OBVIOUS
<1> DEFINE L == Len(s)
<1>3. /\ L \in Nat /\ s \in Seq(Nat)
      /\ Meant_sreq = [k \in 1 .. L |-> Request(s[k])]
      /\ \A k \in 1 .. L : s[k] \in Asking /\ s[k] \in 1 .. Len(doc)
      /\ Asking' = Asking \cup {m} => Asks' = Append(s, m)
  BY <1>1, <1>2, AsksAre
<1>4. Asking' = Asking \cup {m}
  BY PartsGrow DEF More
<1>5. Asks' = Append(s, m) /\ m \in Nat
  BY <1>3, <1>4, Sizes
<1>6. /\ Append(s, m) \in Seq(Nat) /\ Len(Append(s, m)) = L + 1 /\ Append(s, m)[L + 1] = m
      /\ \A k \in 1 .. L : Append(s, m)[k] = s[k]
  BY <1>3, <1>5, AppendProperties
<1>7. DOMAIN Append(s, m) = 1 .. L + 1
  BY <1>6, LenProperties
<1>8. PICK t : t = Append(s, m)
  OBVIOUS
<1>9. Meant_sreq' = [k \in 1 .. L + 1 |-> Request(t[k])']
  <2>1. Meant_sreq' = [k \in DOMAIN Asks' |-> Request(Asks[k])']
    BY DEF Meant_sreq, Asks
  <2>2. \A k : Request(Asks[k])' = Request(t[k])'
    BY <1>5, <1>8 DEF Request, TwsRequest, FixRequest, Elems, Inside, Given
  <2>3. QED
    BY <1>5, <1>7, <1>8, <2>1, <2>2
<1>10. \A z \in Z : z \notin Asking
  <2> SUFFICES ASSUME NEW z \in Z, z \in Asking
               PROVE  FALSE
    OBVIOUS
  <2>1. at \in 1 .. Len(doc) /\ z \in 1 .. at /\ doc[z].tag \in {"request", "SecDef"}
    BY <1>1, Sizes DEF Path, Asking
  <2>2. doc[at].tag \in {"TWSXML", "FIXML"}
    <3>1. TagAt(at) \in DOMAIN Kids /\ e.tag \in Kids[TagAt(at)]
      BY <2>1, Shaped DEF GrowsBy
    <3>2. TagAt(at) \in {"TWSXML", "FIXML"}
      BY <3>1, Nested
    <3>3. QED
      BY <2>1, <3>2 DEF TagAt
  <2>3. Level[doc[at].tag] = 2 /\ Level[doc[z].tag] = 3
    BY <2>1, <2>2, SMT DEF Level
  <2>4. at > z
    BY <2>1, <2>3
  <2>5. Level[doc[at].tag] > Level[doc[z].tag]
    BY <1>1, <2>1, <2>4 DEF Path
  <2>6. QED
    BY <2>3, <2>5
<1>11. \A k \in 1 .. L : Request(s[k])' = Request(s[k])
  <2> SUFFICES ASSUME NEW k \in 1 .. L
               PROVE  Request(s[k])' = Request(s[k])
    OBVIOUS
  <2>1. s[k] \in 1 .. Len(doc) /\ s[k] \notin Z
    BY <1>3, <1>10
  <2>2. QED
    BY <1>1, <2>1, Untouched
<1> DEFINE M == Meant_sreq
           N == [k \in 1 .. L + 1 |-> Request(t[k])']
           q == Request(m)'
           X == {M[k] : k \in 1 .. L} \cup {q}
<1>12. \A k \in 1 .. L : M[k] = Request(s[k])
  BY <1>3
<1>13. \A k \in 1 .. L : N[k] = M[k]
  <2> SUFFICES ASSUME NEW k \in 1 .. L
               PROVE  N[k] = M[k]
    OBVIOUS
  <2>1. k \in 1 .. L + 1 /\ t[k] = s[k]
    BY <1>3, <1>6, <1>8
  <2>2. QED
    BY <1>11, <1>12, <2>1
<1>14. N[L + 1] = q
  <2>1. L + 1 \in 1 .. L + 1 /\ t[L + 1] = m
    BY <1>3, <1>6, <1>8
  <2>2. QED
    BY <2>1
<1>15. DOMAIN M = 1 .. L /\ M = [k \in 1 .. L |-> M[k]] /\ DOMAIN N = 1 .. L + 1
       /\ N = [k \in 1 .. L + 1 |-> N[k]]
  BY <1>3
<1> HIDE DEF M, N, q, L
<1>16. M \in [1 .. L -> X]
  <2>1. \A k \in 1 .. L : M[k] \in X
    OBVIOUS
  <2> HIDE DEF X
  <2>2. QED
    BY <1>15, <2>1
<1>17. M \in Seq(X) /\ Len(M) = L /\ q \in X
  <2>1. L \in Nat
    BY <1>3 DEF L
  <2>2. q \in X
    OBVIOUS
  <2> HIDE DEF X
  <2>3. M \in Seq(X) /\ Len(M) = L
    BY <1>16, <2>1
  <2>4. QED
    BY <2>2, <2>3
<1> HIDE DEF X
<1> DEFINE A == Append(M, q)
<1>18. /\ A \in Seq(X) /\ Len(A) = L + 1 /\ A[L + 1] = q
       /\ \A k \in 1 .. L : A[k] = M[k]
  BY <1>17, AppendProperties
<1> HIDE DEF A
<1>19. A = [k \in 1 .. L + 1 |-> A[k]]
  BY <1>18, LenProperties
<1>20. \A k \in 1 .. L + 1 : k = L + 1 \/ k \in 1 .. L
  BY <1>3 DEF L
<1>21. \A k \in 1 .. L + 1 : N[k] = A[k]
  BY <1>13, <1>14, <1>18, <1>20
<1>22. N = A
  BY <1>15, <1>19, <1>21
<1>23. QED
  BY <1>9, <1>22 DEF N, A, M, q, L

\* A function on 1 .. n is a sequence of n.
LEMMA SizeOf ==
    ASSUME NEW n \in Nat, NEW f, f = [k \in 1 .. n |-> f[k]]
    PROVE  Len(f) = n
<1> DEFINE X == {f[k] : k \in 1 .. n}
<1>1. \A k \in 1 .. n : f[k] \in X
  OBVIOUS
<1> HIDE DEF X
<1>2. f \in [1 .. n -> X]
  BY <1>1
<1>3. QED
  BY <1>2

\* Another element: the requests are as many, and one that is open is the last.
LEMMA MeantGrows ==
    ASSUME Shape, NEW e, e \in Element, GrowsBy(e), NEW m, m = Len(doc) + 1,
           NEW Z, Path(Z), e.tag \notin {"request", "SecDef"}
    PROVE  /\ (\A z \in Z : z \in Asking => Request(z)' = Request(z)) => Meant_sreq' = Meant_sreq
           /\ \A z \in Z : z \in Asking =>
                 /\ Len(Meant_sreq) \in Nat \ {0} /\ Len(Meant_sreq) \in DOMAIN Meant_sreq
                 /\ Meant_sreq[Len(Meant_sreq)] = Request(z)
                 /\ \A q : q = Request(z)' =>
                       /\ Meant_sreq' = [Meant_sreq EXCEPT ![Len(Meant_sreq)] = q]
                       /\ Len(Meant_sreq') = Len(Meant_sreq)
<1>1. PICK s : s = Asks
  OBVIOUS
<1>2. PICK L : L = Len(s)
  OBVIOUS
<1>3. PICK M : M = Meant_sreq
  OBVIOUS
<1>4. /\ L \in Nat /\ s \in Seq(Nat)
      /\ M = [k \in 1 .. L |-> Request(s[k])]
      /\ \A k \in 1 .. L : s[k] \in Asking /\ s[k] \in 1 .. Len(doc)
      /\ \A k \in 1 .. L : k # L => s[k] \notin Z
      /\ \A z \in Z : z \in Asking => L # 0 /\ z = s[L]
      /\ Asking' = Asking => Asks' = s
  BY <1>1, <1>2, <1>3, AsksAre
<1>5. Asks' = s
  BY <1>4, PartsGrow DEF More
<1>6. DOMAIN s = 1 .. L
  BY <1>2, <1>4, LenProperties
<1>7. Meant_sreq' = [k \in 1 .. L |-> Request(s[k])']
  <2>1. Meant_sreq' = [k \in DOMAIN Asks' |-> Request(Asks[k])']
    BY DEF Meant_sreq, Asks
  <2>2. \A k : Request(Asks[k])' = Request(s[k])'
    BY <1>5 DEF Request, TwsRequest, FixRequest, Elems, Inside, Given
  <2>3. QED
    BY <1>5, <1>6, <2>1, <2>2
<1>8. \A k \in 1 .. L : k # L => Request(s[k])' = Request(s[k])
  BY <1>4, Untouched
<1>9. ASSUME \A z \in Z : z \in Asking => Request(z)' = Request(z)
      PROVE  Meant_sreq' = M
  <2>1. \A k \in 1 .. L : Request(s[k])' = Request(s[k])
    <3> SUFFICES ASSUME NEW k \in 1 .. L
                 PROVE  Request(s[k])' = Request(s[k])
      OBVIOUS
    <3>1. CASE s[k] \in Z
      BY <1>4, <1>9, <3>1
    <3>2. CASE s[k] \notin Z
      BY <1>4, <3>2, Untouched
    <3>3. QED
      BY <3>1, <3>2
  <2>2. QED
    BY <1>4, <1>7, <2>1
<1>10. M = [k \in 1 .. L |-> M[k]] /\ \A k \in 1 .. L : M[k] = Request(s[k])
  BY <1>4
<1>11. Len(M) = L
  BY <1>4, <1>10, SizeOf
<1>12. ASSUME NEW z \in Z, z \in Asking, NEW q, q = Request(z)'
       PROVE  /\ L \in Nat \ {0} /\ L \in DOMAIN M /\ M[L] = Request(z)
              /\ Meant_sreq' = [M EXCEPT ![L] = q] /\ Len(Meant_sreq') = L
  <2>1. L # 0 /\ z = s[L]
    BY <1>4, <1>12
  <2>2. L \in 1 .. L
    BY <1>4, <2>1
  <2>3. PICK N : N = Meant_sreq'
    OBVIOUS
  <2>4. N = [k \in 1 .. L |-> N[k]] /\ \A k \in 1 .. L : N[k] = Request(s[k])'
    BY <1>7, <2>3
  <2>5. N[L] = q
    BY <1>12, <2>1, <2>2, <2>4
  <2>6. \A k \in 1 .. L : k # L => N[k] = M[k]
    BY <1>8, <1>10, <2>4
  <2>7. N = [M EXCEPT ![L] = q]
    BY <1>10, <2>2, <2>4, <2>5, <2>6
  <2>8. Len(N) = L
    BY <1>4, <2>4, SizeOf
  <2>9. QED
    BY <1>4, <1>10, <2>1, <2>2, <2>3, <2>7, <2>8
<1>13. QED
  BY <1>3, <1>9, <1>11, <1>12

\* The document has a length.
LEMMA Counted ==
    ASSUME Shape
    PROVE  Len(doc) \in Nat
BY Shaped

\* A nick that is given.
LEMMA NickGiven ==
    ASSUME Shape, NEW e, e \in Element, GrowsBy(e), NEW m, m = Len(doc) + 1,
           NEW i \in 1 .. Len(doc), e.tag = "qmeta", at = i, e.val # Absent
    PROVE  NickOf(i)' = e.val
<1>1. PICK P, Q : P = Nicks(i)' /\ Q = Nicks(i)
  OBVIOUS
<1>2. P = Q \cup {m} /\ Q \subseteq 1 .. Len(doc)
  <2>1. P = Q \cup {m}
    BY <1>1, PartsGrow DEF More
  <2>2. Q \subseteq 1 .. Len(doc)
    BY <1>1, ContsIn
  <2>3. QED
    BY <2>1, <2>2
<1>3. Latest(P) = m /\ P # {}
  <2>1. PICK n : n = Len(doc)
    OBVIOUS
  <2>2. n \in Nat /\ m = n + 1 /\ Q \subseteq 1 .. n
    BY <1>2, <2>1, Counted
  <2>3. QED
    BY <1>2, <2>2, LatestMore
<1>4. NickOf(i)' = IF P = {} THEN Absent ELSE doc'[Latest(P)].val
  <2>1. NickOf(i)' = IF Nicks(i)' = {} THEN Absent ELSE doc'[Latest(Nicks(i)')].val
    BY Zenon DEF NickOf, Latest
  <2>2. QED
    BY <1>1, <2>1
<1>5. QED
  BY <1>3, <1>4, Sizes

\* A contract that is new.
LEMMA ContNew ==
    ASSUME Shape, NEW e, e \in Element, GrowsBy(e), NEW m, m = Len(doc) + 1,
           NEW i \in 1 .. Len(doc), e.tag = "reqContract", at \in Elems(i, "query")
    PROVE  ContOf(i)' = Contract(e.val)
<1>1. PICK P, Q : P = Conts(i)' /\ Q = Conts(i)
  OBVIOUS
<1>2. P = Q \cup {m} /\ Q \subseteq 1 .. Len(doc)
  <2>1. P = Q \cup {m}
    BY <1>1, PartsGrow DEF More
  <2>2. Q \subseteq 1 .. Len(doc)
    BY <1>1, ContsIn
  <2>3. QED
    BY <2>1, <2>2
<1>3. Latest(P) = m /\ P # {}
  <2>1. PICK n : n = Len(doc)
    OBVIOUS
  <2>2. n \in Nat /\ m = n + 1 /\ Q \subseteq 1 .. n
    BY <1>2, <2>1, Counted
  <2>3. QED
    BY <1>2, <2>2, LatestMore
<1>4. ContOf(i)' = TwsContract(m)'
  <2>1. ContOf(i)' = IF Conts(i)' = {} THEN Absent ELSE TwsContract(Latest(Conts(i)))'
    BY Zenon DEF ContOf
  <2>2. TwsContract(Latest(Conts(i)))' = TwsContract(m)'
    BY <1>1, <1>3, LastCont
  <2>3. QED
    BY <1>1, <1>3, <2>1, <2>2
<1>5. Legs(m)' = {}
  <2>1. Legs(m)' = Legs(m)
    BY PartsGrow DEF More
  <2>2. \A k \in 1 .. Len(doc) : doc[k].up # m
    BY Sizes
  <2>3. Legs(m) = {}
    BY <2>2, Sizes DEF Legs, Inside
  <2>4. QED
    BY <2>1, <2>3
<1>6. TwsContract(m)' = [spec |-> SpecOf(doc'[m].val), legs |-> Absent]
  BY <1>5, OfPartsThen
<1>7. QED
  BY <1>4, <1>6, Sizes DEF Contract

\* The contract of a request, if it is the last.
LEMMA ContIs ==
    ASSUME Shape, NEW e, e \in Element, GrowsBy(e), NEW m, m = Len(doc) + 1,
           NEW i \in 1 .. Len(doc), NEW c \in Conts(i), c = Latest(Conts(i)),
           e.tag \in {"comboLegs", "comboLeg"}
    PROVE  /\ ContOf(i) = TwsContract(c) /\ ContOf(i)' = TwsContract(c)'
           /\ TwsContract(c) = [spec |-> SpecOf(doc[c].val),
                                legs |-> IF Legs(c) = {} THEN Absent ELSE LegVals(c)]
           /\ TwsContract(c)' = [spec |-> SpecOf(doc[c].val),
                                 legs |-> IF Legs(c)' = {} THEN Absent ELSE LegVals(c)']
<1>1. Conts(i)' = Conts(i)
  BY PartsGrow DEF More
<1>2. Conts(i) # {} /\ c \in 1 .. Len(doc)
  BY ContsIn
<1>3. ContOf(i) = TwsContract(c)
  BY <1>2 DEF ContOf
<1>4. ContOf(i)' = TwsContract(c)'
  <2>1. ContOf(i)' = IF Conts(i)' = {} THEN Absent ELSE TwsContract(Latest(Conts(i)))'
    BY Zenon DEF ContOf
  <2>2. TwsContract(Latest(Conts(i)))' = TwsContract(c)'
    BY <1>1, LastCont
  <2>3. QED
    BY <1>1, <1>2, <2>1, <2>2
<1>5. doc'[c] = doc[c]
  BY <1>2, Sizes
<1>6. QED
  BY <1>3, <1>4, <1>5, OfParts, OfPartsThen

\* Its list of legs, and one more leg.
LEMMA ContLegs ==
    ASSUME Shape, NEW e, e \in Element, GrowsBy(e), NEW m, m = Len(doc) + 1,
           NEW i \in 1 .. Len(doc), NEW c \in Conts(i), c = Latest(Conts(i)),
           e.tag = "comboLegs", at = c
    PROVE  /\ TwsContract(c).legs # Absent => ContOf(i)' = TwsContract(c)
           /\ TwsContract(c).legs = Absent => ContOf(i)' = [TwsContract(c) EXCEPT !.legs = <<>>]
<1>1. /\ ContOf(i)' = TwsContract(c)'
      /\ TwsContract(c) = [spec |-> SpecOf(doc[c].val),
                           legs |-> IF Legs(c) = {} THEN Absent ELSE LegVals(c)]
      /\ TwsContract(c)' = [spec |-> SpecOf(doc[c].val),
                            legs |-> IF Legs(c)' = {} THEN Absent ELSE LegVals(c)']
  BY ContIs
<1>2. m \in Legs(c)' /\ Legs(c)' # {}
  BY PartsGrow DEF More
<1>3. LegVals(c)' = LegVals(c) /\ LegVals(c) \in Seq(Values) /\ (Legs(c) = {} => LegVals(c) = <<>>)
  BY LegsGrow
<1>4. LegVals(c) # Absent
  BY <1>3, AbsentAssumption DEF Values
<1>5. TwsContract(c)' = [spec |-> SpecOf(doc[c].val), legs |-> LegVals(c)]
  BY <1>1, <1>2, <1>3
<1>6. TwsContract(c).legs = IF Legs(c) = {} THEN Absent ELSE LegVals(c)
  BY <1>1
<1>7. CASE Legs(c) = {}
  BY <1>1, <1>3, <1>4, <1>5, <1>6, <1>7
<1>8. CASE Legs(c) # {}
  BY <1>1, <1>3, <1>4, <1>5, <1>6, <1>8
<1>9. QED
  BY <1>7, <1>8

\* One more leg.
LEMMA ContLeg ==
    ASSUME Shape, NEW e, e \in Element, GrowsBy(e), NEW m, m = Len(doc) + 1,
           NEW i \in 1 .. Len(doc), NEW c \in Conts(i), c = Latest(Conts(i)),
           e.tag = "comboLeg", at \in Legs(c)
    PROVE  /\ TwsContract(c).legs # Absent
           /\ ContOf(i)' = [TwsContract(c) EXCEPT !.legs = Append(@, e.val)]
<1>1. /\ ContOf(i)' = TwsContract(c)'
      /\ TwsContract(c) = [spec |-> SpecOf(doc[c].val),
                           legs |-> IF Legs(c) = {} THEN Absent ELSE LegVals(c)]
      /\ TwsContract(c)' = [spec |-> SpecOf(doc[c].val),
                            legs |-> IF Legs(c)' = {} THEN Absent ELSE LegVals(c)']
  BY ContIs
<1>2. Legs(c)' = Legs(c) /\ Legs(c) # {}
  BY PartsGrow DEF More
<1>3. LegVals(c)' = Append(LegVals(c), e.val) /\ LegVals(c) \in Seq(Values)
  BY LegsGrow
<1>4. LegVals(c) # Absent
  BY <1>3, AbsentAssumption DEF Values
<1>5. TwsContract(c) = [spec |-> SpecOf(doc[c].val), legs |-> LegVals(c)]
  BY <1>1, <1>2
<1>6. TwsContract(c)' = [spec |-> SpecOf(doc[c].val), legs |-> Append(LegVals(c), e.val)]
  BY <1>1, <1>2, <1>3
<1>7. QED
  BY <1>1, <1>4, <1>5, <1>6

\* A contract with more in its specification.
LEMMA SpecSet ==
    ASSUME NEW A, NEW S, NEW T, NEW x, x = [nick |-> A, c |-> [spec |-> S, legs |-> A]]
    PROVE  [x EXCEPT !.c.spec = T] = [nick |-> A, c |-> [spec |-> T, legs |-> A]]
OBVIOUS

\* Adding to what is there.
LEMMA SpecMore ==
    ASSUME NEW x, NEW T
    PROVE  [x EXCEPT !.c.spec = @ \cup T] = [x EXCEPT !.c.spec = x.c.spec \cup T]
OBVIOUS

\* An instrument that is given.
LEMMA InstGiven ==
    ASSUME Shape, NEW e, e \in Element, GrowsBy(e), NEW m, m = Len(doc) + 1,
           NEW i \in 1 .. Len(doc), e.tag = "Instrmt", at = i, e.val # Absent
    PROVE  FixRequest(i)' = [FixRequest(i) EXCEPT !.c.spec = @ \cup {e.val}]
<1>1. Insts(i)' = Insts(i) \cup {m} /\ Insts(i) \subseteq 1 .. Len(doc)
  BY PartsGrow, ContsIn DEF More
<1>2. doc'[i] = doc[i] /\ doc'[m] = e /\ \A k \in Insts(i) : doc'[k] = doc[k]
  BY <1>1, Sizes
<1> DEFINE A == SpecOf(doc[i].val)
           B == {doc[k].val : k \in Insts(i)}
           C == {doc'[k].val : k \in Insts(i)'}
<1>3. C = B \cup {e.val}
  BY <1>1, <1>2
<1>4. FixRequest(i) = [nick |-> Absent, c |-> [spec |-> A \cup B, legs |-> Absent]]
  BY OfParts
<1>5. FixRequest(i)' = [nick |-> Absent, c |-> [spec |-> A \cup C, legs |-> Absent]]
  BY <1>2, OfPartsThen
<1>6. A \cup C = (A \cup B) \cup {e.val}
  BY <1>3
<1>7. PICK x, D, E : x = FixRequest(i) /\ D = A \cup B /\ E = D \cup {e.val}
  OBVIOUS
<1>8. x = [nick |-> Absent, c |-> [spec |-> D, legs |-> Absent]]
      /\ FixRequest(i)' = [nick |-> Absent, c |-> [spec |-> E, legs |-> Absent]]
  BY <1>4, <1>5, <1>6, <1>7
<1>9. x.c.spec = D
  BY <1>8
<1>10. [x EXCEPT !.c.spec = @ \cup {e.val}] = [nick |-> Absent, c |-> [spec |-> E, legs |-> Absent]]
  <2>1. [x EXCEPT !.c.spec = @ \cup {e.val}] = [x EXCEPT !.c.spec = x.c.spec \cup {e.val}]
    BY SpecMore
  <2>2. x.c.spec \cup {e.val} = E
    BY <1>7, <1>9
  <2>3. [x EXCEPT !.c.spec = E] = [nick |-> Absent, c |-> [spec |-> E, legs |-> Absent]]
    BY <1>8, SpecSet
  <2>4. QED
    BY <2>1, <2>2, <2>3
<1>11. QED
  BY <1>7, <1>8, <1>10

-----------------------------------------------------------------------------
(* What is open.                                                            *)

\* What an open element is in is open.
LEMMA Above ==
    ASSUME Shape, NEW Z, Path(Z), NEW z \in Z, NEW t, t # "document",
           doc[z].tag \in DOMAIN Kids => TagAt(doc[z].up) = t
    PROVE  doc[z].up \in Z /\ doc[z].up \in 1 .. Len(doc) /\ doc[doc[z].up].tag = t
<1>1. z \in 1 .. Len(doc) /\ Len(doc) \in Nat
  BY Shaped DEF Shape, Path
<1>2. doc[z].up \in 0 .. z - 1 /\ doc[z].tag \in DOMAIN Kids
  BY <1>1, Shaped DEF Shape, Placed, Element
<1>3. doc[z].up # 0
  BY <1>2 DEF TagAt
<1>4. doc[z].up \in Z /\ doc[z].up \in 1 .. Len(doc)
  BY <1>1, <1>2, <1>3 DEF Path
<1>5. QED
  BY <1>2, <1>3, <1>4 DEF TagAt

\* The open element is on the path.
LEMMA Here ==
    ASSUME Shape, NEW Z, Path(Z), NEW t, t # "document", TagAt(at) = t
    PROVE  at \in Z /\ at \in 1 .. Len(doc) /\ doc[at].tag = t
<1>1. at \in 0 .. Len(doc) /\ Len(doc) \in Nat
  BY Shaped DEF Shape
<1>2. at # 0
  BY DEF TagAt
<1>3. QED
  BY <1>1, <1>2 DEF TagAt, Path

\* The tag an element's parent has.
LEMMA ParentTag ==
    ASSUME Shape, NEW z \in 1 .. Len(doc)
    PROVE  /\ doc[z].tag = "query" => TagAt(doc[z].up) = "request"
           /\ doc[z].tag = "reqContract" => TagAt(doc[z].up) = "query"
           /\ doc[z].tag = "comboLegs" => TagAt(doc[z].up) = "reqContract"
<1>1. Len(doc) \in Nat /\ doc[z].up \in 0 .. z - 1 /\ doc[z].tag \in Kids[TagAt(doc[z].up)]
  BY Shaped DEF Shape, Placed
<1>2. TagAt(doc[z].up) \in DOMAIN Kids
  BY <1>1, Shaped
<1>3. QED
  BY <1>1, <1>2, Nested

\* A query that is open is in a request that is open.
LEMMA OpenQuery ==
    ASSUME Shape, NEW Z, Path(Z), NEW z \in Z, doc[z].tag = "query"
    PROVE  \E a \in Z : /\ a \in 1 .. Len(doc) /\ doc[a].tag = "request" /\ a = doc[z].up
                        /\ z \in Elems(a, "query")
<1>1. z \in 1 .. Len(doc) /\ DOMAIN doc = 1 .. Len(doc)
  BY Shaped DEF Shape, Path
<1>2. TagAt(doc[z].up) = "request"
  BY <1>1, ParentTag
<1>3. doc[z].up \in Z /\ doc[z].up \in 1 .. Len(doc) /\ doc[doc[z].up].tag = "request"
  BY <1>2, Above
<1>4. z \in Elems(doc[z].up, "query")
  BY <1>1 DEF Elems
<1>5. QED
  BY <1>3, <1>4

\* A contract that is open is the last of a request that is open.
LEMMA OpenContract ==
    ASSUME Shape, NEW Z, Path(Z), NEW z \in Z, doc[z].tag = "reqContract"
    PROVE  \E a \in Z : /\ a \in 1 .. Len(doc) /\ doc[a].tag = "request"
                        /\ z \in Conts(a) /\ z = Latest(Conts(a))
<1>1. z \in 1 .. Len(doc) /\ DOMAIN doc = 1 .. Len(doc)
  BY Shaped DEF Shape, Path
<1>2. TagAt(doc[z].up) = "query"
  BY <1>1, ParentTag
<1>3. doc[z].up \in Z /\ doc[doc[z].up].tag = "query"
  BY <1>2, Above
<1>4. PICK a \in Z : /\ a \in 1 .. Len(doc) /\ doc[a].tag = "request"
                     /\ doc[z].up \in Elems(a, "query")
  BY <1>3, OpenQuery
<1>5. z \in Conts(a)
  BY <1>1, <1>4 DEF Conts, Inside
<1>6. Conts(a) \subseteq 1 .. Len(doc) /\ \A k \in Conts(a) : doc[k].tag = "reqContract"
  BY <1>1 DEF Conts, Inside
<1>7. \A k \in Conts(a) : Level[doc[k].tag] = Level[doc[z].tag]
  BY <1>6
<1>8. z = Latest(Conts(a))
  BY <1>5, <1>6, <1>7, LastOpen
<1>9. QED
  BY <1>4, <1>5, <1>8

\* A list of legs that is open is in the last contract of a request that is open.
LEMMA OpenLegs ==
    ASSUME Shape, NEW Z, Path(Z), NEW z \in Z, doc[z].tag = "comboLegs"
    PROVE  \E a, c \in Z : /\ a \in 1 .. Len(doc) /\ doc[a].tag = "request"
                           /\ c \in Conts(a) /\ c = Latest(Conts(a)) /\ z \in Legs(c)
<1>1. z \in 1 .. Len(doc) /\ DOMAIN doc = 1 .. Len(doc)
  BY Shaped DEF Shape, Path
<1>2. TagAt(doc[z].up) = "reqContract"
  BY <1>1, ParentTag
<1>3. PICK c \in Z : c = doc[z].up /\ doc[c].tag = "reqContract"
  BY <1>2, Above
<1>4. PICK a \in Z : /\ a \in 1 .. Len(doc) /\ doc[a].tag = "request"
                     /\ c \in Conts(a) /\ c = Latest(Conts(a))
  BY <1>3, OpenContract
<1>5. z \in Legs(c)
  BY <1>1, <1>3 DEF Legs, Inside
<1>6. QED
  BY <1>4, <1>5

\* What the list is when an element has been handled.
Right(h) == h.sreq = Meant_sreq' /\ h.cur = Len(Meant_sreq') /\ ~h.crashed
Sane     == sreq = Meant_sreq /\ cur = Len(sreq)

\* The request the list is at is the open one.
LEMMA AtCur ==
    ASSUME Shape, NEW e, e \in Element, GrowsBy(e), NEW m, m = Len(doc) + 1,
           NEW Z, Path(Z), e.tag \notin {"request", "SecDef"}, Sane,
           NEW z \in Z, z \in 1 .. Len(doc), doc[z].tag \in {"request", "SecDef"}
    PROVE  /\ cur # 0 /\ cur \in DOMAIN sreq /\ sreq[cur] = Request(z)
           /\ \A q, h : /\ q = Request(z)' /\ h.sreq = [sreq EXCEPT ![cur] = q]
                        /\ h.cur = cur /\ ~h.crashed
                        => Right(h)
<1>1. z \in Asking
  BY Sizes DEF Asking
<1>2. /\ Len(Meant_sreq) \in Nat \ {0} /\ Len(Meant_sreq) \in DOMAIN Meant_sreq
      /\ Meant_sreq[Len(Meant_sreq)] = Request(z)
      /\ \A q : q = Request(z)' =>
            /\ Meant_sreq' = [Meant_sreq EXCEPT ![Len(Meant_sreq)] = q]
            /\ Len(Meant_sreq') = Len(Meant_sreq)
  BY <1>1, MeantGrows
<1>3. sreq = Meant_sreq /\ cur = Len(Meant_sreq)
  BY DEF Sane
<1>4. QED
  BY <1>2, <1>3 DEF Right

\* Nothing is said, and nothing done.
LEMMA Nothing ==
    ASSUME Shape, NEW e, e \in Element, GrowsBy(e), NEW m, m = Len(doc) + 1,
           NEW Z, Path(Z), e.tag \notin {"request", "SecDef"}, Sane,
           e.tag \notin {"reqContract", "comboLegs", "comboLeg"},
           e.tag \in {"qmeta", "Instrmt"} => e.val = Absent
    PROVE  Right(Before)
<1>1. ASSUME NEW z \in Z, z \in Asking
      PROVE  Request(z)' = Request(z)
  <2>1. z \in 1 .. Len(doc)
    BY <1>1, Sizes DEF Asking
  <2>2. TwsRequest(z)' = TwsRequest(z)
    BY <2>1, TwsKept
  <2>3. FixRequest(z)' = FixRequest(z)
    BY <2>1, FixKept
  <2>4. doc'[z] = doc[z]
    BY <2>1, Sizes
  <2>5. Request(z) = (IF doc[z].tag = "request" THEN TwsRequest(z) ELSE FixRequest(z))
        /\ Request(z)' = (IF doc'[z].tag = "request" THEN TwsRequest(z)' ELSE FixRequest(z)')
    BY DEF Request
  <2>6. QED
    BY <2>2, <2>3, <2>4, <2>5
<1>2. Meant_sreq' = Meant_sreq
  BY <1>1, MeantGrows
<1>3. QED
  BY <1>2, BeforeIs DEF Right, Sane

-----------------------------------------------------------------------------
(* The handlers do what the document says.                                  *)

\* What the handlers are, tag by tag.
LEMMA UponIs ==
    ASSUME NEW v
    PROVE  /\ Upon("request", v) = request(Before, Blank)
           /\ Upon("qmeta", v) = qmeta(Before, v)
           /\ Upon("reqContract", v) = reqcontract(Before, v)
           /\ Upon("comboLegs", v) = combolegs(Before)
           /\ Upon("comboLeg", v) = comboleg(Before, v)
           /\ Upon("SecDef", v) = request(Before, [Blank EXCEPT !.c = Contract(v)])
           /\ Upon("Instrmt", v) = instrmt(Before, v)
<1>1. /\ Language("request") = "TWSXML" /\ Language("qmeta") = "TWSXML"
      /\ Language("reqContract") = "TWSXML" /\ Language("comboLegs") = "TWSXML"
      /\ Language("comboLeg") = "TWSXML"
      /\ Language("SecDef") # "TWSXML" /\ Language("Instrmt") # "TWSXML"
  BY DEF Language
<1>2. QED
  BY <1>1 DEF Upon, sax_bo, sax_bo_TWSXML_elt, sax_bo_FIXML_elt

\* Putting something in its place.
LEMMA Puts ==
    ASSUME NEW T
    PROVE  /\ [Before EXCEPT !.sreq = T].sreq = T
           /\ [Before EXCEPT !.sreq = T].cur = cur
           /\ [Before EXCEPT !.sreq = T].crashed = FALSE
BY DEF Before

\* Putting something deep into a structure.
LEMMA PutIn ==
    ASSUME NEW f, NEW c, NEW T
    PROVE  /\ [f EXCEPT !.sreq[c].nick = T]
              = [f EXCEPT !.sreq = [f.sreq EXCEPT ![c] = [f.sreq[c] EXCEPT !.nick = T]]]
           /\ [f EXCEPT !.sreq[c].c = T]
              = [f EXCEPT !.sreq = [f.sreq EXCEPT ![c] = [f.sreq[c] EXCEPT !.c = T]]]
           /\ [f EXCEPT !.sreq[c].c.legs = T]
              = [f EXCEPT !.sreq = [f.sreq EXCEPT ![c] = [f.sreq[c] EXCEPT !.c.legs = T]]]
           /\ [f EXCEPT !.sreq[c].c.legs = Append(@, T)]
              = [f EXCEPT !.sreq = [f.sreq EXCEPT ![c] = [f.sreq[c] EXCEPT !.c.legs = Append(@, T)]]]
           /\ [f EXCEPT !.sreq[c].c.spec = @ \cup T]
              = [f EXCEPT !.sreq = [f.sreq EXCEPT ![c] = [f.sreq[c] EXCEPT !.c.spec = @ \cup T]]]
<1>1. [f EXCEPT !.sreq[c].nick = T]
      = [f EXCEPT !.sreq = [f.sreq EXCEPT ![c] = [f.sreq[c] EXCEPT !.nick = T]]]
  OBVIOUS
<1>2. [f EXCEPT !.sreq[c].c = T]
      = [f EXCEPT !.sreq = [f.sreq EXCEPT ![c] = [f.sreq[c] EXCEPT !.c = T]]]
  OBVIOUS
<1>3. [f EXCEPT !.sreq[c].c.legs = T]
      = [f EXCEPT !.sreq = [f.sreq EXCEPT ![c] = [f.sreq[c] EXCEPT !.c.legs = T]]]
  OBVIOUS
<1>4. [f EXCEPT !.sreq[c].c.legs = Append(@, T)]
      = [f EXCEPT !.sreq = [f.sreq EXCEPT ![c] = [f.sreq[c] EXCEPT !.c.legs = Append(@, T)]]]
  OBVIOUS
<1>5. [f EXCEPT !.sreq[c].c.spec = @ \cup T]
      = [f EXCEPT !.sreq = [f.sreq EXCEPT ![c] = [f.sreq[c] EXCEPT !.c.spec = @ \cup T]]]
  OBVIOUS
<1>6. QED
  BY <1>1, <1>2, <1>3, <1>4, <1>5

\* The lengths of a list and of a list with one more.
LEMMA OneMore ==
    ASSUME NEW n \in Nat, NEW f, f = [k \in 1 .. n |-> f[k]], NEW q
    PROVE  Len(f) = n /\ Len(Append(f, q)) = n + 1
<1> DEFINE X == {f[k] : k \in 1 .. n} \cup {q}
<1>1. (\A k \in 1 .. n : f[k] \in X) /\ q \in X
  OBVIOUS
<1> HIDE DEF X
<1>2. f \in [1 .. n -> X]
  BY <1>1
<1>3. f \in Seq(X) /\ Len(f) = n
  BY <1>2
<1>4. QED
  BY <1>1, <1>3, AppendProperties

\* A request that is new.
LEMMA RequestNew ==
    ASSUME Shape, NEW e, e \in Element, GrowsBy(e), NEW m, m = Len(doc) + 1,
           e.tag \in {"request", "SecDef"}
    PROVE  Request(m)' = IF e.tag = "request" THEN Blank ELSE [Blank EXCEPT !.c = Contract(e.val)]
<1>1. doc'[m] = e /\ at # m /\ \A k \in 1 .. Len(doc) : doc[k].up # m
  BY Sizes DEF Shape
<1>2. \A t : Elems(m, t) = {}
  BY <1>1, Sizes DEF Elems
<1>3. Nicks(m) = {} /\ Insts(m) = {} /\ Conts(m) = {}
  BY <1>2 DEF Nicks, Insts, Conts, Inside, Given
<1>4. Nicks(m)' = Nicks(m) /\ Insts(m)' = Insts(m) /\ Conts(m)' = Conts(m)
  BY PartsGrow DEF More
<1>5. TwsRequest(m)' = [nick |-> Absent, c |-> Absent]
  BY <1>3, <1>4, OfPartsThen
<1>6. FixRequest(m)' = [nick |-> Absent, c |-> [spec |-> SpecOf(e.val), legs |-> Absent]]
  <2>1. FixRequest(m)' = [nick |-> Absent,
                          c |-> [spec |-> SpecOf(doc'[m].val) \cup {doc'[k].val : k \in Insts(m)'},
                                 legs |-> Absent]]
    BY OfPartsThen
  <2>2. {doc'[k].val : k \in Insts(m)'} = {}
    BY <1>3, <1>4
  <2>3. SpecOf(doc'[m].val) \cup {doc'[k].val : k \in Insts(m)'} = SpecOf(e.val)
    BY <1>1, <2>2
  <2>4. QED
    BY <2>1, <2>3
<1>7. Request(m)' = IF doc'[m].tag = "request" THEN TwsRequest(m)' ELSE FixRequest(m)'
  BY DEF Request
<1>8. [Blank EXCEPT !.c = Contract(e.val)]
      = [nick |-> Absent, c |-> [spec |-> SpecOf(e.val), legs |-> Absent]]
  BY DEF Blank, Contract
<1>9. QED
  BY <1>1, <1>5, <1>6, <1>7, <1>8 DEF Blank

\* A request that is begun is appended.
LEMMA RightAsks ==
    ASSUME Shape, NEW e, e \in Element, GrowsBy(e), Sane, e.tag \in {"request", "SecDef"}
    PROVE  Right(Upon(e.tag, e.val))
<1>1. PICK m : m = Len(doc) + 1
  OBVIOUS
<1>2. PICK q : q = Request(m)'
  OBVIOUS
<1>3. Meant_sreq' = Append(Meant_sreq, q)
  BY <1>1, <1>2, MeantAsks
<1>4. Upon(e.tag, e.val) = request(Before, q)
  BY <1>1, <1>2, RequestNew, UponIs
<1>5. /\ request(Before, q).sreq = Append(sreq, q)
      /\ request(Before, q).cur = Len(sreq) + 1
      /\ ~request(Before, q).crashed
  BY DEF request, Before
<1>6. Len(Append(Meant_sreq, q)) = Len(Meant_sreq) + 1
  <2>1. PICK Z : Path(Z)
    BY DEF Shape
  <2>2. PICK n, M : n = Len(Asks) /\ M = Meant_sreq
    OBVIOUS
  <2>3. n \in Nat /\ M = [k \in 1 .. n |-> Request(Asks[k])]
    BY <1>1, <2>1, <2>2, AsksAre
  <2>4. M = [k \in 1 .. n |-> M[k]]
    BY <2>3
  <2>5. QED
    BY <2>2, <2>3, <2>4, OneMore
<1>7. QED
  BY <1>3, <1>4, <1>5, <1>6 DEF Right, Sane

\* An element that changes the request the list is at.
LEMMA RightPut ==
    ASSUME Shape, NEW e, e \in Element, GrowsBy(e), NEW m, m = Len(doc) + 1,
           NEW Z, Path(Z), e.tag \notin {"request", "SecDef"}, Sane,
           NEW z \in Z, z \in 1 .. Len(doc), doc[z].tag \in {"request", "SecDef"},
           NEW q, q = Request(z)'
    PROVE  /\ cur # 0 /\ sreq[cur] = Request(z)
           /\ Right([Before EXCEPT !.sreq = [sreq EXCEPT ![cur] = q]])
<1>1. /\ cur # 0 /\ cur \in DOMAIN sreq /\ sreq[cur] = Request(z)
      /\ \A r, h : /\ r = Request(z)' /\ h.sreq = [sreq EXCEPT ![cur] = r]
                   /\ h.cur = cur /\ ~h.crashed
                   => Right(h)
  BY AtCur
<1>2. PICK T, h : T = [sreq EXCEPT ![cur] = q] /\ h = [Before EXCEPT !.sreq = T]
  OBVIOUS
<1>3. h.sreq = T /\ h.cur = cur /\ ~h.crashed
  BY <1>2, Puts
<1>4. QED
  BY <1>1, <1>2, <1>3

\* A request, by its language.
LEMMA RequestOf ==
    ASSUME Shape, NEW e, GrowsBy(e), NEW z \in 1 .. Len(doc)
    PROVE  /\ doc[z].tag = "request" => Request(z) = TwsRequest(z) /\ Request(z)' = TwsRequest(z)'
           /\ doc[z].tag = "SecDef" => Request(z) = FixRequest(z) /\ Request(z)' = FixRequest(z)'
<1>1. PICK m : m = Len(doc) + 1
  OBVIOUS
<1>2. doc'[z] = doc[z]
  BY <1>1, Sizes
<1>3. Request(z) = (IF doc[z].tag = "request" THEN TwsRequest(z) ELSE FixRequest(z))
      /\ Request(z)' = (IF doc'[z].tag = "request" THEN TwsRequest(z)' ELSE FixRequest(z)')
  BY DEF Request
<1>4. QED
  BY <1>2, <1>3

\* The request the list is at, when an element is opened in it.
LEMMA ParentOpen ==
    ASSUME Shape, NEW e, GrowsBy(e)
    PROVE  /\ e.tag = "qmeta" => TagAt(at) = "request"
           /\ e.tag = "reqContract" => TagAt(at) = "query"
           /\ e.tag = "comboLegs" => TagAt(at) = "reqContract"
           /\ e.tag = "comboLeg" => TagAt(at) = "comboLegs"
           /\ e.tag = "Instrmt" => TagAt(at) = "SecDef"
<1>1. TagAt(at) \in DOMAIN Kids /\ e.tag \in Kids[TagAt(at)]
  BY Shaped DEF GrowsBy, Shape
<1>2. QED
  BY <1>1, Nested

\* A nick goes to the request it stands in.
LEMMA RightNick ==
    ASSUME Shape, NEW e, e \in Element, GrowsBy(e), Sane, e.tag = "qmeta"
    PROVE  Right(Upon("qmeta", e.val))
<1>1. PICK m, Z, z : m = Len(doc) + 1 /\ Path(Z) /\ z = at
  BY DEF Shape
<1>2. CASE e.val = Absent
  BY <1>1, <1>2, Nothing, UponIs DEF qmeta
<1>3. CASE e.val # Absent
  <2>1. TagAt(at) = "request"
    BY ParentOpen
  <2>2. z \in Z /\ z \in 1 .. Len(doc) /\ doc[z].tag = "request"
    BY <1>1, <2>1, Here
  <2>3. NickOf(z)' = e.val
    BY <1>1, <1>3, <2>2, NickGiven
  <2>4. ContOf(z)' = ContOf(z)
    <3>1. \A c \in Conts(z) : ~(e.tag = "comboLegs" /\ at = c) /\ ~(e.tag = "comboLeg" /\ at \in Legs(c))
      OBVIOUS
    <3>2. QED
      BY <1>1, <2>2, <3>1, ContKept
  <2>5. Request(z) = [nick |-> NickOf(z), c |-> ContOf(z)]
        /\ Request(z)' = [nick |-> e.val, c |-> ContOf(z)]
    BY <2>2, <2>3, <2>4, RequestOf, TwsIs
  <2>6. PICK q : q = Request(z)'
    OBVIOUS
  <2>7. q = [Request(z) EXCEPT !.nick = e.val]
    BY <2>5, <2>6
  <2>8. /\ cur # 0 /\ sreq[cur] = Request(z)
        /\ Right([Before EXCEPT !.sreq = [sreq EXCEPT ![cur] = q]])
    BY <1>1, <2>2, <2>6, RightPut
  <2>9. Upon("qmeta", e.val) = [Before EXCEPT !.sreq[cur].nick = e.val]
    BY <1>3, <2>8, UponIs, BeforeIs DEF qmeta
  <2>10. [Before EXCEPT !.sreq[cur].nick = e.val] = [Before EXCEPT !.sreq = [sreq EXCEPT ![cur] = q]]
    BY <2>7, <2>8, BeforeIs, PutIn
  <2>11. QED
    BY <2>8, <2>9, <2>10
<1>4. QED
  BY <1>2, <1>3

\* A contract goes to the request it stands in.
LEMMA RightContract ==
    ASSUME Shape, NEW e, e \in Element, GrowsBy(e), Sane, e.tag = "reqContract"
    PROVE  Right(Upon("reqContract", e.val))
<1>1. PICK m, Z, y : m = Len(doc) + 1 /\ Path(Z) /\ y = at
  BY DEF Shape
<1>2. TagAt(at) = "query"
  BY ParentOpen
<1>3. y \in Z /\ doc[y].tag = "query"
  BY <1>1, <1>2, Here
<1>4. PICK z \in Z : z \in 1 .. Len(doc) /\ doc[z].tag = "request" /\ y \in Elems(z, "query")
  BY <1>1, <1>3, OpenQuery
<1>5. ContOf(z)' = Contract(e.val)
  BY <1>1, <1>4, ContNew
<1>6. NickOf(z)' = NickOf(z)
  BY <1>1, <1>4, NickKept
<1>7. Request(z) = [nick |-> NickOf(z), c |-> ContOf(z)]
      /\ Request(z)' = [nick |-> NickOf(z), c |-> Contract(e.val)]
  BY <1>4, <1>5, <1>6, RequestOf, TwsIs
<1>8. PICK q, T : q = Request(z)' /\ T = Contract(e.val)
  OBVIOUS
<1>9. q = [Request(z) EXCEPT !.c = T]
  BY <1>7, <1>8
<1>10. /\ cur # 0 /\ sreq[cur] = Request(z)
       /\ Right([Before EXCEPT !.sreq = [sreq EXCEPT ![cur] = q]])
  BY <1>1, <1>4, <1>8, RightPut
<1>11. Upon("reqContract", e.val) = [Before EXCEPT !.sreq[cur].c = T]
  BY <1>8, <1>10, UponIs, BeforeIs DEF reqcontract
<1>12. [Before EXCEPT !.sreq[cur].c = T] = [Before EXCEPT !.sreq = [sreq EXCEPT ![cur] = q]]
  BY <1>9, <1>10, BeforeIs, PutIn
<1>13. QED
  BY <1>10, <1>11, <1>12

\* A contract's legs, in the request of it.
LEMMA LegsIn ==
    ASSUME NEW A, NEW t, NEW x, x = [nick |-> A, c |-> t], NEW L
    PROVE  /\ x.c = t
           /\ [x EXCEPT !.c.legs = L] = [nick |-> A, c |-> [t EXCEPT !.legs = L]]
           /\ [x EXCEPT !.c.legs = Append(@, L)] = [nick |-> A, c |-> [t EXCEPT !.legs = Append(@, L)]]
<1>1. x.c = t
  OBVIOUS
<1>2. [x EXCEPT !.c.legs = L] = [nick |-> A, c |-> [t EXCEPT !.legs = L]]
  OBVIOUS
<1>3. [x EXCEPT !.c.legs = Append(@, L)] = [nick |-> A, c |-> [t EXCEPT !.legs = Append(@, L)]]
  <2>1. PICK K : K = Append(t.legs, L)
    OBVIOUS
  <2>2. [x EXCEPT !.c.legs = K] = [nick |-> A, c |-> [t EXCEPT !.legs = K]]
    OBVIOUS
  <2>3. [x EXCEPT !.c.legs = Append(@, L)] = [x EXCEPT !.c.legs = Append(x.c.legs, L)]
    OBVIOUS
  <2>4. [t EXCEPT !.legs = Append(@, L)] = [t EXCEPT !.legs = Append(t.legs, L)]
    OBVIOUS
  <2>5. QED
    BY <1>1, <2>1, <2>2, <2>3, <2>4
<1>4. QED
  BY <1>1, <1>2, <1>3

\* A list of legs goes to the contract it stands in, the first one.
LEMMA RightLegs ==
    ASSUME Shape, NEW e, e \in Element, GrowsBy(e), Sane, e.tag = "comboLegs"
    PROVE  Right(Upon("comboLegs", e.val))
<1>1. PICK m, Z, c : m = Len(doc) + 1 /\ Path(Z) /\ c = at
  BY DEF Shape
<1>2. TagAt(at) = "reqContract"
  BY ParentOpen
<1>3. c \in Z /\ c \in 1 .. Len(doc) /\ doc[c].tag = "reqContract"
  BY <1>1, <1>2, Here
<1>4. PICK z \in Z : z \in 1 .. Len(doc) /\ doc[z].tag = "request" /\ c \in Conts(z)
                     /\ c = Latest(Conts(z))
  BY <1>1, <1>3, OpenContract
<1>5. PICK t, u : t = TwsContract(c) /\ u = ContOf(z)'
  OBVIOUS
<1>6. /\ t.legs # Absent => u = t
      /\ t.legs = Absent => u = [t EXCEPT !.legs = <<>>]
  BY <1>1, <1>4, <1>5, ContLegs
<1>7. t # Absent /\ ContOf(z) = t
  BY <1>1, <1>3, <1>4, <1>5, ContractKept, ContIs
<1>8. NickOf(z)' = NickOf(z)
  BY <1>1, <1>4, NickKept
<1>9. Request(z) = [nick |-> NickOf(z), c |-> t] /\ Request(z)' = [nick |-> NickOf(z), c |-> u]
  BY <1>4, <1>5, <1>7, <1>8, RequestOf, TwsIs
<1>10. PICK q, x : q = Request(z)' /\ x = Request(z)
  OBVIOUS
<1>11. /\ cur # 0 /\ sreq[cur] = x
       /\ Right([Before EXCEPT !.sreq = [sreq EXCEPT ![cur] = q]])
  BY <1>1, <1>4, <1>10, RightPut
<1>12. x.c = t
  BY <1>9, <1>10
<1>13. HasContract(Before) /\ (HasLegs(Before) <=> t.legs # Absent)
  BY <1>7, <1>11, <1>12, BeforeIs DEF HasContract, HasLegs
<1>14. CASE t.legs # Absent
  <2>1. Upon("comboLegs", e.val) = Before
    BY <1>13, <1>14, UponIs DEF combolegs
  <2>2. q = x
    BY <1>6, <1>9, <1>10, <1>14
  <2>3. PICK T, h : T = [sreq EXCEPT ![cur] = q] /\ h = [Before EXCEPT !.sreq = T]
    OBVIOUS
  <2>4. T = sreq
    <3>1. sreq = [k \in DOMAIN sreq |-> sreq[k]]
      BY DEF Sane, Meant_sreq
    <3>2. QED
      BY <1>11, <2>2, <2>3, <3>1
  <2>5. h.sreq = sreq /\ h.cur = cur /\ ~h.crashed
    BY <2>3, <2>4, Puts
  <2>6. Right(h) => Right(Before)
    BY <2>5, BeforeIs DEF Right
  <2>7. QED
    BY <1>11, <2>1, <2>3, <2>6
<1>15. CASE t.legs = Absent
  <2>1. PICK E : E = <<>>
    OBVIOUS
  <2>2. Upon("comboLegs", e.val) = [Before EXCEPT !.sreq[cur].c.legs = E]
    BY <1>13, <1>15, <2>1, UponIs, BeforeIs DEF combolegs
  <2>3. u = [t EXCEPT !.legs = E]
    BY <1>6, <1>15, <2>1
  <2>4. q = [x EXCEPT !.c.legs = E]
    BY <1>9, <1>10, <2>3, LegsIn
  <2>5. [Before EXCEPT !.sreq[cur].c.legs = E] = [Before EXCEPT !.sreq = [sreq EXCEPT ![cur] = q]]
    BY <1>11, <2>4, BeforeIs, PutIn
  <2>6. QED
    BY <1>11, <2>2, <2>5
<1>16. QED
  BY <1>14, <1>15

\* A leg goes to the contract it stands in.
LEMMA RightLeg ==
    ASSUME Shape, NEW e, e \in Element, GrowsBy(e), Sane, e.tag = "comboLeg"
    PROVE  Right(Upon("comboLeg", e.val))
<1>1. PICK m, Z, y : m = Len(doc) + 1 /\ Path(Z) /\ y = at
  BY DEF Shape
<1>2. TagAt(at) = "comboLegs"
  BY ParentOpen
<1>3. y \in Z /\ doc[y].tag = "comboLegs"
  BY <1>1, <1>2, Here
<1>4. PICK z, c \in Z : z \in 1 .. Len(doc) /\ doc[z].tag = "request" /\ c \in Conts(z)
                        /\ c = Latest(Conts(z)) /\ y \in Legs(c)
  BY <1>1, <1>3, OpenLegs
<1>5. PICK t, u : t = TwsContract(c) /\ u = ContOf(z)'
  OBVIOUS
<1>6. t.legs # Absent /\ u = [t EXCEPT !.legs = Append(@, e.val)]
  BY <1>1, <1>4, <1>5, ContLeg
<1>7. t # Absent /\ ContOf(z) = t
  <2>1. c \in 1 .. Len(doc)
    BY <1>4, ContsIn
  <2>2. QED
    BY <1>1, <1>4, <1>5, <2>1, ContractKept, ContIs
<1>8. NickOf(z)' = NickOf(z)
  BY <1>1, <1>4, NickKept
<1>9. Request(z) = [nick |-> NickOf(z), c |-> t] /\ Request(z)' = [nick |-> NickOf(z), c |-> u]
  BY <1>4, <1>5, <1>7, <1>8, RequestOf, TwsIs
<1>10. PICK q, x, v : q = Request(z)' /\ x = Request(z) /\ v = e.val
  OBVIOUS
<1>11. /\ cur # 0 /\ sreq[cur] = x
       /\ Right([Before EXCEPT !.sreq = [sreq EXCEPT ![cur] = q]])
  BY <1>1, <1>4, <1>10, RightPut
<1>12. x.c = t
  BY <1>9, <1>10
<1>13. HasLegs(Before)
  BY <1>6, <1>7, <1>11, <1>12, BeforeIs DEF HasContract, HasLegs
<1>14. PICK K : K = Append(x.c.legs, v)
  OBVIOUS
<1>15. comboleg(Before, v) = [Before EXCEPT !.sreq[cur].c.legs = K]
  <2>1. comboleg(Before, v) = [Before EXCEPT !.sreq[Before.cur].c.legs
                                 = Append(Before.sreq[Before.cur].c.legs, v)]
    BY <1>13 DEF comboleg
  <2>2. Append(Before.sreq[Before.cur].c.legs, v) = K
    BY <1>11, <1>14, BeforeIs
  <2>3. QED
    BY <2>1, <2>2, BeforeIs
<1>16. q = [x EXCEPT !.c.legs = K]
  <2>1. [x EXCEPT !.c.legs = K] = [nick |-> NickOf(z), c |-> [t EXCEPT !.legs = K]]
    BY <1>9, <1>10, LegsIn
  <2>2. [t EXCEPT !.legs = K] = u
    BY <1>6, <1>10, <1>12, <1>14
  <2>3. QED
    BY <1>9, <1>10, <2>1, <2>2
<1>17. [Before EXCEPT !.sreq[cur].c.legs = K] = [Before EXCEPT !.sreq = [sreq EXCEPT ![cur] = q]]
  BY <1>11, <1>16, BeforeIs, PutIn
<1>18. Upon("comboLeg", e.val) = comboleg(Before, v)
  BY <1>10, UponIs
<1>19. QED
  BY <1>11, <1>15, <1>17, <1>18

\* An instrument goes to the definition it stands in.
LEMMA RightInst ==
    ASSUME Shape, NEW e, e \in Element, GrowsBy(e), Sane, e.tag = "Instrmt"
    PROVE  Right(Upon("Instrmt", e.val))
<1>1. PICK m, Z, z : m = Len(doc) + 1 /\ Path(Z) /\ z = at
  BY DEF Shape
<1>2. CASE e.val = Absent
  BY <1>1, <1>2, Nothing, UponIs DEF instrmt
<1>3. CASE e.val # Absent
  <2>1. TagAt(at) = "SecDef"
    BY ParentOpen
  <2>2. z \in Z /\ z \in 1 .. Len(doc) /\ doc[z].tag = "SecDef"
    BY <1>1, <2>1, Here
  <2>3. PICK q, x, V : q = Request(z)' /\ x = Request(z) /\ V = {e.val}
    OBVIOUS
  <2>4. q = [x EXCEPT !.c.spec = @ \cup V]
    <3>1. FixRequest(z)' = [FixRequest(z) EXCEPT !.c.spec = @ \cup {e.val}]
      BY <1>1, <1>3, <2>2, InstGiven
    <3>2. x = FixRequest(z) /\ q = FixRequest(z)'
      BY <2>2, <2>3, RequestOf
    <3>3. QED
      BY <2>3, <3>1, <3>2
  <2>5. x.c # Absent
    <3>1. PICK S : S = SpecOf(doc[z].val) \cup {doc[k].val : k \in Insts(z)}
      OBVIOUS
    <3>2. \A k \in Insts(z) : doc[k].val \in Nat
      BY ContsIn, Shaped DEF Element, Insts, Given
    <3>3. SpecOf(doc[z].val) \subseteq Nat
      BY <2>2, Shaped DEF Element, SpecOf
    <3>4. x = [nick |-> Absent, c |-> [spec |-> S, legs |-> Absent]]
      BY <2>2, <2>3, <3>1, RequestOf, OfParts
    <3>5. S \in SUBSET Nat
      BY <3>1, <3>2, <3>3
    <3>6. x.c \in [spec : SUBSET Nat, legs : Seq(Values) \cup {Absent}]
      BY <3>4, <3>5
    <3>7. QED
      BY <3>6, AbsentAssumption DEF Values
  <2>6. /\ cur # 0 /\ sreq[cur] = x
        /\ Right([Before EXCEPT !.sreq = [sreq EXCEPT ![cur] = q]])
    BY <1>1, <2>2, <2>3, RightPut
  <2>7. HasContract(Before)
    BY <2>5, <2>6, BeforeIs DEF HasContract
  <2>8. SpecOf(e.val) = V
    BY <1>3, <2>3 DEF SpecOf
  <2>9. Upon("Instrmt", e.val) = [Before EXCEPT !.sreq[cur].c.spec = @ \cup V]
    BY <1>3, <2>7, <2>8, UponIs, BeforeIs DEF instrmt
  <2>10. [Before EXCEPT !.sreq[cur].c.spec = @ \cup V]
         = [Before EXCEPT !.sreq = [sreq EXCEPT ![cur] = q]]
    BY <2>4, <2>6, BeforeIs, PutIn
  <2>11. QED
    BY <2>6, <2>9, <2>10
<1>4. QED
  BY <1>2, <1>3

\* Whatever is opened, the list is what the document says then.
LEMMA RightAll ==
    ASSUME Shape, NEW e, e \in Element, GrowsBy(e), Sane
    PROVE  Right(Upon(e.tag, e.val))
<1>1. TagAt(at) \in DOMAIN Kids /\ e.tag \in Kids[TagAt(at)]
  BY Shaped DEF GrowsBy, Shape
<1>2. e.tag \in DOMAIN Kids /\ e.tag # "document"
  BY <1>1, Nested
<1>3. e.tag \in {"other", "TWSXML", "FIXML", "query"} \/ e.tag \in {"request", "SecDef"}
      \/ e.tag = "qmeta" \/ e.tag = "reqContract" \/ e.tag = "comboLegs" \/ e.tag = "comboLeg"
      \/ e.tag = "Instrmt"
  BY <1>2, SMT DEF Kids
<1>4. CASE e.tag \in {"other", "TWSXML", "FIXML", "query"}
  <2>1. Upon(e.tag, e.val) = Before
    BY <1>4, Inert DEF Upon
  <2>2. PICK m, Z : m = Len(doc) + 1 /\ Path(Z)
    BY DEF Shape
  <2>3. Right(Before)
    BY <1>4, <2>2, Nothing
  <2>4. QED
    BY <2>1, <2>3
<1>5. CASE e.tag \in {"request", "SecDef"}
  BY <1>5, RightAsks
<1>6. CASE e.tag = "qmeta"
  BY <1>6, RightNick
<1>7. CASE e.tag = "reqContract"
  BY <1>7, RightContract
<1>8. CASE e.tag = "comboLegs"
  BY <1>8, RightLegs
<1>9. CASE e.tag = "comboLeg"
  BY <1>9, RightLeg
<1>10. CASE e.tag = "Instrmt"
  BY <1>10, RightInst
<1>11. QED
  BY <1>3, <1>4, <1>5, <1>6, <1>7, <1>8, <1>9, <1>10

-----------------------------------------------------------------------------
(* The invariant.                                                           *)

\* The invariant: the document is in shape; and if it can be read then the
\* table is right, the list is what the document says, and its last request is
\* where reading is.
Reads == Shape /\ (Plain => TableRight /\ ~crashed /\ Sane)

\* It holds at first.
LEMMA ReadsFirst ==
    ASSUME SdefInit
    PROVE  Reads
<1>1. decls = <<>> /\ doc = <<>> /\ at = 0 /\ sreq = <<>> /\ cur = 0 /\ ~crashed
      /\ ns = Empty.ns /\ nns = 0
  BY DEF SdefInit, Empty
<1>2. Len(doc) = 0 /\ doc \in Seq(Element) /\ DOMAIN doc = {}
  BY <1>1, EmptySeq
<1>3. Path({})
  BY <1>1, <1>2 DEF Path
<1>4. Shape
  BY <1>1, <1>2, <1>3 DEF Shape
<1>5. TableRight
  BY <1>1 DEF TableRight, Tabled
<1>6. Meant_sreq = <<>>
  <2>1. Listed(Asking) = <<>>
    BY <1>2, TurnStep DEF Listed
  <2>2. QED
    BY <2>1 DEF Meant_sreq
<1>7. Sane
  BY <1>1, <1>6, EmptySeq DEF Sane
<1>8. QED
  BY <1>1, <1>4, <1>5, <1>7 DEF Reads

\* It holds when an element is opened.
LEMMA ReadsOpens ==
    ASSUME Reads, NEW tag, NEW p \in DeclPrefixes, NEW given \in BOOLEAN, NEW ap \in OrNone(p),
           NEW ds \in Decls \cup {<<>>}, OpenElt(tag, p, given, ap, ds)
    PROVE  Reads'
<1>1. Shape'
  BY ShapeOpens DEF Reads
<1>2. ASSUME Plain'
      PROVE  TableRight' /\ ~crashed' /\ Sane'
  <2>1. Shape /\ Plain
    BY <1>2, PlainBefore DEF Reads
  <2>2. TableRight /\ Sane
    BY <2>1 DEF Reads
  <2>3. PICK v, e : v = Value(given) /\ e = New(tag, p, v, ap)
    OBVIOUS
  <2>4. e \in Element /\ GrowsBy(e)
    BY <2>1, <2>3, Opens DEF GrowsBy, New
  <2>5. e.tag = tag /\ e.val = v
    BY <2>3 DEF New
  <2>6. Right(Upon(tag, v))
    BY <2>1, <2>2, <2>4, <2>5, RightAll
  <2>7. Handled(tag, v)
    BY <1>2, <2>1, <2>2, <2>3, Handles
  <2>8. TableRight' /\ ~crashed' /\ sreq' = Meant_sreq' /\ cur' = Len(Meant_sreq')
    BY <2>6, <2>7 DEF Handled, Right
  <2>9. QED
    BY <2>8 DEF Sane
<1>3. QED
  BY <1>1, <1>2 DEF Reads

\* It holds when neither the document nor what was read changes.
LEMMA ReadsStays ==
    ASSUME Reads, Shape', ns' = ns, nns' = nns, sreq' = sreq, cur' = cur, decls' = decls, doc' = doc,
           Plain /\ TableRight => ~crashed'
    PROVE  Reads'
<1>1. Plain' <=> Plain
  BY DEF Plain, front, Favourites, DefaultLast
<1>2. TableRight' <=> TableRight
  BY DEF TableRight, Tabled
<1>3. Sane' <=> Sane
  <2>1. Meant_sreq' = Meant_sreq
    BY DEF Meant_sreq, Listed, Asking, Request, TwsRequest, FixRequest, TwsContract, Elems, Inside, Given
  <2>2. QED
    BY <2>1 DEF Sane
<1>4. QED
  BY <1>1, <1>2, <1>3 DEF Reads

\* It holds when an element is closed.
LEMMA ReadsCloses ==
    ASSUME Reads, CloseElt
    PROVE  Reads'
<1>1. Shape /\ Shape'
  BY ShapeCloses DEF Reads
<1>2. /\ at # 0 /\ decls' = decls /\ doc' = doc /\ ns' = ns /\ nns' = nns /\ sreq' = sreq /\ cur' = cur
      /\ crashed' = (__pref_to_ns(doc[at].pref) = Absent \/ pref_to_ns_dies(doc[at].pref))
  BY DEF CloseElt
<1>3. ASSUME Plain, TableRight
      PROVE  ~crashed'
  <2> DEFINE p == doc[at].pref
  <2>1. CASE decls = <<>>
    <3>1. ns = Empty.ns
      BY <1>3, <2>1 DEF TableRight, Tabled
    <3>2. Unk(ns[0].nsid)
      BY <3>1, NowhereIs DEF Unk
    <3>3. __pref_to_ns(p) = 0 /\ ~pref_to_ns_dies(p)
      BY <3>2 DEF __pref_to_ns, pref_to_ns_dies
    <3>4. 0 # Absent
      BY AbsentAssumption
    <3>5. QED
      BY <1>2, <3>3, <3>4
  <2>2. CASE decls # <<>>
    <3>1. decls \in Decls /\ at \in 1 .. Len(doc)
      BY <1>1, <1>2, <2>2, Shaped DEF Shape
    <3>2. Known(p) /\ DefaultLast
      BY <1>1, <1>3, <3>1 DEF Shape, Placed, Plain
    <3>3. __pref_to_ns(p) # Absent /\ ~pref_to_ns_dies(p)
      BY <1>3, <2>2, <3>1, <3>2, Found
    <3>4. QED
      BY <1>2, <3>3
  <2>3. QED
    BY <2>1, <2>2
<1>4. QED
  BY <1>1, <1>2, <1>3, ReadsStays

\* It holds whatever happens.
LEMMA ReadsNext ==
    ASSUME Reads, [SdefNext]_sdefVars
    PROVE  Reads'
<1>1. ASSUME NEW tag \in DOMAIN Kids, NEW p \in DeclPrefixes, NEW given \in BOOLEAN,
             NEW ds \in Decls \cup {<<>>}, NEW ap \in {"", p}, OpenElt(tag, p, given, ap, ds)
      PROVE  Reads'
  <2>1. ap \in OrNone(p)
    BY <1>1, Zenon DEF OrNone
  <2>2. QED
    BY <1>1, <2>1, ReadsOpens, Zenon
<1>2. CASE CloseElt
  BY <1>2, ReadsCloses
<1>3. CASE UNCHANGED sdefVars
  <2>1. /\ ns' = ns /\ nns' = nns /\ sreq' = sreq /\ cur' = cur /\ decls' = decls /\ doc' = doc
        /\ at' = at /\ crashed' = crashed
    BY <1>3 DEF sdefVars
  <2>2. Shape'
    BY <2>1 DEF Reads, Shape, Placed, TagAt, Known, Path
  <2>3. Plain /\ TableRight => ~crashed'
    BY <2>1 DEF Reads
  <2>4. QED
    BY <2>1, <2>2, <2>3, ReadsStays
<1>4. QED
  BY <1>1, <1>2, <1>3, Zenon DEF SdefNext

\* Every document that can be read is read as it says and to its end, whatever
\* it declares.
THEOREM ReadRight == SdefSpec => []RequestsRight
<1>1. SdefInit => Reads
  BY ReadsFirst
<1>2. Reads /\ [SdefNext]_sdefVars => Reads'
  BY ReadsNext
<1>3. Reads => RequestsRight
  BY PlainIs, Zenon DEF Reads, RequestsRight, Sane
<1>4. QED
  BY <1>1, <1>2, <1>3, PTL DEF SdefSpec
=============================================================================
