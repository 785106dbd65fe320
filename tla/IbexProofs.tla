------------------------------ MODULE IbexProofs ------------------------------
(***************************************************************************)
(* The order daemon, for any pairs, table size, amount and broker: orders  *)
(* are those of their commands, a halted daemon is idle, and ids differ.   *)
(***************************************************************************)
EXTENDS Ibex, SequenceTheorems, TLAPS

-----------------------------------------------------------------------------
(* The table of pairs.                                                      *)

\* What intern_instr does to the table: the place it returns is that of the
\* pair, no place changes, and the table stays free of doubles.
LEMMA InternFacts ==
    ASSUME instrs \in Seq(Pairs), Len(instrs) <= MaxInstrs, OnePlacePerPair,
           NEW p \in Pairs, ~Full(p)
    PROVE  /\ Interned(p) \in Seq(Pairs)
           /\ Len(Interned(p)) <= MaxInstrs
           /\ DOMAIN instrs \subseteq DOMAIN Interned(p)
           /\ intern_instr(p) \in DOMAIN Interned(p)
           /\ Interned(p)[intern_instr(p)] = p
           /\ \A i, j \in DOMAIN Interned(p) : Interned(p)[i] = Interned(p)[j] => i = j
<1>1. /\ Len(instrs) \in Nat /\ DOMAIN instrs = 1 .. Len(instrs) /\ MaxInstrs \in Nat
      /\ \A i, j \in DOMAIN instrs : instrs[i] = instrs[j] => i = j
  BY LenProperties, IbexAssumption DEF OnePlacePerPair
<1>2. CASE Known(p) # {}
  <2>1. PICK i \in DOMAIN instrs : instrs[i] = p
    BY <1>2 DEF Known
  <2>2. Known(p) = {i}
    BY <1>1, <2>1 DEF Known
  <2>3. \A j \in Known(p) : i <= j
    BY <1>1, <2>1, <2>2
  <2>4. intern_instr(p) = i
    BY <1>2, <2>2, <2>3 DEF intern_instr
  <2>5. Interned(p) = instrs
    BY <1>2 DEF Interned
  <2>6. QED
    BY <1>1, <2>1, <2>4, <2>5
<1>3. CASE Known(p) = {}
  <2> DEFINE t == Append(instrs, p)
             n == Len(instrs) + 1
  <2>1. Interned(p) = t /\ intern_instr(p) = n
    BY <1>3 DEF Interned, intern_instr
  <2>2. /\ t \in Seq(Pairs) /\ Len(t) = n
        /\ \A i \in 1 .. Len(instrs) : t[i] = instrs[i]
        /\ t[n] = p
    BY AppendProperties
  <2>3. n <= MaxInstrs
    BY <1>1, <1>3 DEF Full
  <2>4. \A i \in 1 .. Len(instrs) : instrs[i] # p
    BY <1>1, <1>3 DEF Known
  <2> HIDE DEF t
  <2>5. DOMAIN t = 1 .. n
    BY <2>2
  <2>6. ASSUME NEW i \in 1 .. n, NEW j \in 1 .. n, t[i] = t[j]
        PROVE  i = j
    <3>1. CASE i = n \/ j = n
      BY <1>1, <2>2, <2>4, <2>6, <3>1
    <3>2. CASE i # n /\ j # n
      <4>1. i \in 1 .. Len(instrs) /\ j \in 1 .. Len(instrs)
        BY <1>1, <3>2
      <4>2. QED
        BY <1>1, <2>2, <2>6, <4>1
    <3>3. QED
      BY <3>1, <3>2
  <2>7. n \in 1 .. n /\ 1 .. Len(instrs) \subseteq 1 .. n
    BY <1>1
  <2>8. QED
    BY <1>1, <2>1, <2>2, <2>3, <2>5, <2>6, <2>7
<1>4. QED
  BY <1>2, <1>3

-----------------------------------------------------------------------------
(* The amount of an order.                                                  *)

LEMMA DivBounds ==
    ASSUME NEW a \in Nat, NEW b \in Nat \ {0}
    PROVE  a \div b \in Nat /\ (a \div b) * b <= a
  OBVIOUS

LEMMA ScaledFacts ==
    ASSUME halt_amt \in Amounts, dflt_amt \in {0, halt_amt},
           NEW c \in Commands, ~Refused(c)
    PROVE  LET s == Scaled(c, c.pair) IN
           /\ s \in Int
           /\ c.verb \in {"LONG", "SHORT", "CANCEL"}
           /\ c.verb = "LONG" /\ c.pair \notin XPairs => s = dflt_amt
           /\ c.verb = "SHORT" /\ c.pair \notin XPairs => s = -dflt_amt
           /\ c.verb = "CANCEL" => s = 0
           /\ c.pair \in XPairs => s >= 0 /\ (s * Lot <= AbsAmount \/ s = 1)
           /\ dflt_amt = 0 => s = 0 \/ (c.pair \in XPairs /\ s = 1)
<1>1. /\ halt_amt \in Int /\ halt_amt # 0 /\ Lot \in Nat \ {0} /\ dflt_amt \in Int
      /\ AbsAmount \in Nat /\ dflt_amt <= AbsAmount /\ -dflt_amt <= AbsAmount
  BY IbexAssumption DEF AbsAmount
<1>2. c.verb \in {"LONG", "SHORT", "EMERGCLOSE", "CANCEL"} /\ c.verb # "EMERGCLOSE"
  BY DEF Refused, Commands
<1> DEFINE s == Scaled(c, c.pair)
<1>3. CASE c.verb \in {"LONG", "SHORT"}
  <2> DEFINE amt == AmountOf(c)
  <2>1. amt = IF c.verb = "LONG" THEN dflt_amt ELSE -dflt_amt
    BY <1>3 DEF AmountOf
  <2>2. amt \in Int /\ amt <= AbsAmount /\ (dflt_amt = 0 => amt = 0)
    BY <1>1, <2>1
  <2>3. s = IF c.pair \notin XPairs THEN amt ELSE IF amt > Lot THEN amt \div Lot ELSE 1
    BY <1>3 DEF Scaled
  <2> HIDE DEF amt, s
  <2>4. CASE c.pair \notin XPairs
    BY <1>1, <1>3, <2>1, <2>2, <2>3, <2>4 DEF s
  <2>5. CASE c.pair \in XPairs /\ amt > Lot
    <3>1. amt \in Nat /\ amt # 0 /\ s = amt \div Lot
      BY <1>1, <2>2, <2>3, <2>5
    <3>2. s \in Nat /\ s * Lot <= amt
      BY <1>1, <3>1, DivBounds
    <3>3. s * Lot \in Int
      BY <1>1, <3>2
    <3>4. s * Lot <= AbsAmount
      BY <1>1, <2>2, <3>2, <3>3
    <3>5. QED
      BY <1>3, <2>2, <2>5, <3>1, <3>2, <3>4 DEF s
  <2>6. CASE c.pair \in XPairs /\ ~(amt > Lot)
    <3>1. s = 1
      BY <2>3, <2>6
    <3>2. QED
      BY <1>3, <2>6, <3>1 DEF s
  <2>7. QED
    BY <2>4, <2>5, <2>6
<1>4. CASE c.verb = "CANCEL"
  <2>1. AmountOf(c) = 0
    BY <1>4 DEF AmountOf
  <2>2. s = 0
    BY <1>4, <2>1 DEF Scaled
  <2>3. s * Lot = 0
    BY <1>1, <2>2
  <2> HIDE DEF s
  <2>4. QED
    BY <1>1, <1>4, <2>2, <2>3 DEF s
<1>5. QED
  BY <1>2, <1>3, <1>4

-----------------------------------------------------------------------------
(* The inductive invariant.                                                 *)

\* Types, of what orders are made of and of the loop.
Types ==
    /\ next_oid \in Nat /\ oids \subseteq Nat
    /\ instrs \in Seq(Pairs) /\ Len(instrs) <= MaxInstrs
    /\ pend \subseteq DOMAIN instrs
    /\ halt_amt \in Amounts /\ dflt_amt \in {0, halt_amt}
    /\ told \in BOOLEAN /\ early \in BOOLEAN /\ halted \in BOOLEAN
    /\ ord \in Orders \cup {None}

LoopTypes ==
    /\ priv \in 0 .. Sessions /\ sess \in 0 .. Sessions /\ polled \in 0 .. Sessions
    /\ sockok \in BOOLEAN /\ timer \in BOOLEAN /\ twsc \in BOOLEAN
    /\ loop \in {"prep", "wait", "poll", "recv", "dead"}
    /\ ready \subseteq {"beef", "reco", "twsc"}

\* The order is forgotten when a round ends, and a round reads one command.
OnePerRound == loop \in {"prep", "wait"} \/ "beef" \in ready => ord = None

\* The switch is the amount.
Switch == halted <=> dflt_amt = 0

\* The ids of a session never overtake the counter, unless one was drawn
\* before the broker set it.
Below ==
    priv # 0 /\ ~early => /\ \A o \in oids : o <= next_oid
                          /\ ~told => oids = {}

IInv == Types /\ OnePlacePerPair /\ OrderRight /\ HaltedIdle /\ OnePerRound /\ Switch
        /\ Below

\* The order that BeefOrder makes.
LEMMA OrderMade ==
    ASSUME IInv, NEW c \in Commands, BeefOrder(c)
    PROVE  /\ instrs' \in Seq(Pairs) /\ Len(instrs') <= MaxInstrs /\ OnePlacePerPair'
           /\ pend' \subseteq DOMAIN instrs'
           /\ ord' \in Orders
           /\ OrderRight'
           /\ HaltedIdle'
<1> DEFINE amt == Scaled(c, c.pair)
<1>1. c.pair \in Pairs /\ ~Full(c.pair) /\ ~Refused(c)
  BY DEF BeefOrder, Commands
<1>2. /\ instrs \in Seq(Pairs) /\ Len(instrs) <= MaxInstrs /\ OnePlacePerPair
      /\ halt_amt \in Amounts /\ dflt_amt \in {0, halt_amt} /\ pend \subseteq DOMAIN instrs
  BY DEF IInv, Types
<1>3. /\ Interned(c.pair) \in Seq(Pairs)
      /\ Len(Interned(c.pair)) <= MaxInstrs
      /\ DOMAIN instrs \subseteq DOMAIN Interned(c.pair)
      /\ intern_instr(c.pair) \in DOMAIN Interned(c.pair)
      /\ Interned(c.pair)[intern_instr(c.pair)] = c.pair
      /\ \A i, j \in DOMAIN Interned(c.pair) :
             Interned(c.pair)[i] = Interned(c.pair)[j] => i = j
  BY <1>1, <1>2, InternFacts
<1>4. /\ instrs' = Interned(c.pair)
      /\ pend' = pend \cup {intern_instr(c.pair)}
      /\ ord' = [pair |-> c.pair, action |-> IF amt >= 0 THEN "BUY" ELSE "SELL",
                 qty |-> IF amt >= 0 THEN amt ELSE -amt,
                 type |-> IF c.tail = "limit" THEN "LMT" ELSE "MKT", cmd |-> c]
      /\ halted' = halted
  BY <1>3 DEF BeefOrder
<1>5. /\ amt \in Int /\ c.verb \in {"LONG", "SHORT", "CANCEL"}
      /\ c.verb = "LONG" /\ c.pair \notin XPairs => amt = dflt_amt
      /\ c.verb = "SHORT" /\ c.pair \notin XPairs => amt = -dflt_amt
      /\ c.verb = "CANCEL" => amt = 0
      /\ c.pair \in XPairs => amt >= 0 /\ (amt * Lot <= AbsAmount \/ amt = 1)
      /\ dflt_amt = 0 => amt = 0 \/ (c.pair \in XPairs /\ amt = 1)
  BY <1>1, <1>2, ScaledFacts
<1> HIDE DEF amt
<1>6. ord' \in Orders
  <2>1. (IF amt >= 0 THEN amt ELSE -amt) \in Nat
    BY <1>5
  <2>2. QED
    BY <1>1, <1>4, <2>1 DEF Orders
<1>7. OnePlacePerPair'
  BY <1>3, <1>4 DEF OnePlacePerPair
<1>8. pend' \subseteq DOMAIN instrs'
  BY <1>2, <1>3, <1>4
<1>9. OrderRight'
  <2>1. halt_amt' = halt_amt /\ halt_amt \in Int /\ AbsAmount' = AbsAmount
    BY <1>2, IbexAssumption DEF BeefOrder, AbsAmount
  <2>2. Turned(c)' <=> Turned(c)
    BY <2>1 DEF Turned
  <2>3. c.pair \in XPairs => ord'.qty = amt
    BY <1>4, <1>5
  <2>4. ASSUME ord'.qty # 0
        PROVE  ord'.action = Side(c.verb) <=> ~Turned(c)
    <3>1. amt # 0 /\ c.verb \in {"LONG", "SHORT"}
      BY <1>4, <1>5, <2>4
    <3>2. ord'.action = IF amt >= 0 THEN "BUY" ELSE "SELL"
      BY <1>4
    <3>3. CASE c.pair \in XPairs
      BY <1>5, <3>1, <3>2, <3>3 DEF Side, Turned
    <3>4. CASE c.pair \notin XPairs
      <4>1. dflt_amt # 0 /\ dflt_amt = halt_amt
        BY <1>2, <1>5, <2>1, <3>1, <3>4
      <4>2. CASE c.verb = "LONG"
        <5>1. amt >= 0 <=> ~(halt_amt < 0)
          BY <1>5, <2>1, <3>4, <4>1, <4>2
        <5>2. QED
          BY <3>2, <3>4, <4>2, <5>1 DEF Side, Turned
      <4>3. CASE c.verb = "SHORT"
        <5>1. amt >= 0 <=> halt_amt < 0
          BY <1>5, <2>1, <3>1, <3>4, <4>1, <4>3
        <5>2. QED
          BY <3>2, <3>4, <4>3, <5>1 DEF Side, Turned
      <4>4. QED
        BY <3>1, <4>2, <4>3
    <3>5. QED
      BY <3>3, <3>4
  <2>5. c.verb = "CANCEL" => ord'.qty = 0
    BY <1>4, <1>5
  <2>6. c.pair \in XPairs => ord'.qty * Lot <= AbsAmount' \/ ord'.qty = 1
    BY <1>5, <2>1, <2>3
  <2>7. ord'.pair = c.pair /\ ord'.cmd = c
    BY <1>4
  <2>8. QED
    BY <2>2, <2>4, <2>5, <2>6, <2>7 DEF OrderRight
<1>10. HaltedIdle'
  <2> SUFFICES ASSUME halted
               PROVE  ord'.qty <= (IF c.pair \in XPairs THEN 1 ELSE 0)
    BY <1>4 DEF HaltedIdle
  <2>1. dflt_amt = 0
    BY DEF IInv, Switch
  <2>2. amt = 0 \/ (c.pair \in XPairs /\ amt = 1)
    BY <1>5, <2>1
  <2>3. ord'.qty = amt
    BY <1>4, <1>5, <2>2
  <2>4. QED
    BY <2>2, <2>3
<1>11. QED
  BY <1>3, <1>4, <1>6, <1>7, <1>8, <1>9, <1>10

LEMMA OrderHolds ==
    ASSUME IInv, NEW c \in Commands, BeefOrder(c)
    PROVE  IInv'
<1>1. /\ next_oid' = next_oid + 1 /\ priv' = priv /\ priv # 0 /\ told' = told
      /\ early' = (early \/ ~told) /\ oids' = oids \cup {next_oid + 1}
      /\ halted' = halted /\ dflt_amt' = dflt_amt /\ halt_amt' = halt_amt /\ loop' = loop /\ loop = "poll"
      /\ ready' = ready \ {"beef"}
  BY DEF BeefOrder, Serve, Counted
<1>2. Types'
  BY <1>1, OrderMade DEF IInv, Types
<1>3. OnePerRound' /\ Switch'
  BY <1>1 DEF IInv, OnePerRound, Switch
<1>4. Below'
  <2> SUFFICES ASSUME ~early'
               PROVE  (\A o \in oids' : o <= next_oid') /\ (~told' => oids' = {})
    BY DEF Below
  <2>1. told' /\ ~early
    BY <1>1
  <2>2. next_oid \in Nat /\ oids \subseteq Nat /\ \A o \in oids : o <= next_oid
    BY <1>1, <2>1 DEF IInv, Types, Below
  <2>3. \A o \in oids' : o <= next_oid'
    BY <1>1, <2>2
  <2>4. QED
    BY <2>1, <2>3
<1>5. QED
  BY <1>2, <1>3, <1>4, OrderMade DEF IInv

LEMMA RefuseHolds ==
    ASSUME IInv, NEW c \in Commands, instrs' = Interned(c.pair), ~Full(c.pair),
           UNCHANGED <<pend, halt_amt, dflt_amt, history, twsVars>>,
           loop' \in {loop, "dead"}, ready' \subseteq ready
    PROVE  IInv'
<1>1. c.pair \in Pairs
  BY DEF Commands
<1>2. /\ Interned(c.pair) \in Seq(Pairs)
      /\ Len(Interned(c.pair)) <= MaxInstrs
      /\ DOMAIN instrs \subseteq DOMAIN Interned(c.pair)
      /\ \A i, j \in DOMAIN Interned(c.pair) :
             Interned(c.pair)[i] = Interned(c.pair)[j] => i = j
  BY <1>1, InternFacts DEF IInv, Types
<1>3. Types' /\ OnePlacePerPair'
  BY <1>2 DEF IInv, Types, OnePlacePerPair, history, twsVars
<1>4. OrderRight' /\ HaltedIdle' /\ OnePerRound' /\ Switch' /\ Below'
  BY DEF IInv, OrderRight, Turned, AbsAmount, HaltedIdle, OnePerRound, Switch, Below,
         history, twsVars
<1>5. QED
  BY <1>3, <1>4 DEF IInv

\* Steps that touch neither the table, the orders nor the session's ids.
LEMMA QuietHolds ==
    ASSUME IInv, UNCHANGED <<instrs, pend, halt_amt, dflt_amt, told, ord, oids, early, halted>>,
           \/ UNCHANGED <<priv, next_oid>>
           \/ priv' = 0 /\ next_oid' = 0,
           ~(loop' \in {"prep", "wait"} \/ "beef" \in ready')
               \/ loop \in {"prep", "wait"} \/ "beef" \in ready
    PROVE  IInv'
<1>1. Types' /\ OnePlacePerPair'
  BY DEF IInv, Types, OnePlacePerPair
<1>2. OrderRight' /\ HaltedIdle' /\ OnePerRound' /\ Switch' /\ Below'
  BY DEF IInv, OrderRight, Turned, AbsAmount, HaltedIdle, OnePerRound, Switch, Below
<1>3. QED
  BY <1>1, <1>2 DEF IInv

LEMMA SwitchHolds ==
    ASSUME IInv, BeefHalt \/ BeefResume
    PROVE  IInv'
<1>1. /\ UNCHANGED <<twsVars, instrs, pend, halt_amt, loop, told, ord, oids, early>>
      /\ "beef" \in ready /\ ready' \subseteq ready
      /\ \/ dflt_amt' = 0 /\ halted' = TRUE
         \/ dflt_amt' = halt_amt /\ halted' = FALSE
  BY DEF BeefHalt, BeefResume, Serve
<1>2. ord = None /\ ord' = None
  BY <1>1 DEF IInv, OnePerRound
<1>3. Types' /\ OnePlacePerPair'
  BY <1>1 DEF IInv, Types, OnePlacePerPair, twsVars
<1>4. OrderRight' /\ HaltedIdle' /\ OnePerRound'
  BY <1>2 DEF OrderRight, HaltedIdle, OnePerRound
<1>5. Switch'
  BY <1>1, IbexAssumption DEF IInv, Types, Switch
<1>6. Below'
  BY <1>1 DEF IInv, Below, twsVars
<1>7. QED
  BY <1>3, <1>4, <1>5, <1>6 DEF IInv

\* A session is set up, or its broker sends the first id.
LEMMA SessionHolds ==
    ASSUME IInv, RecoConnect \/ RecvValidId
    PROVE  IInv'
<1>1. /\ UNCHANGED <<ibexVars, ord, halted>>
      /\ loop' = loop /\ loop \in {"poll", "recv"} /\ ready' \subseteq ready
  BY DEF RecoConnect, RecvValidId, Serve
<1>2. OnePlacePerPair' /\ OrderRight' /\ HaltedIdle' /\ OnePerRound' /\ Switch'
  BY <1>1 DEF IInv, OnePlacePerPair, OrderRight, Turned, AbsAmount, HaltedIdle, OnePerRound,
              Switch, ibexVars
<1>3. CASE RecoConnect
  <2>1. next_oid' = 0 /\ told' = FALSE /\ oids' = {} /\ early' = FALSE
    BY <1>3 DEF RecoConnect, init_tws
  <2>2. Types' /\ Below'
    BY <1>1, <2>1 DEF IInv, Types, Below, ibexVars
  <2>3. QED
    BY <1>2, <2>2 DEF IInv
<1>4. CASE RecvValidId
  <2>1. /\ next_oid' = FirstOid /\ told' = TRUE /\ ~told /\ priv' = priv
        /\ oids' = oids /\ early' = early
    BY <1>4 DEF RecvValidId, nextValidId
  <2>2. Types' /\ Below'
    BY <1>1, <2>1, IbexAssumption DEF IInv, Types, Below, ibexVars
  <2>3. QED
    BY <1>2, <2>2 DEF IInv
<1>5. QED
  BY <1>3, <1>4

LEMMA NextHolds == IInv /\ [Next]_vars => IInv'
<1> SUFFICES ASSUME IInv, [Next]_vars
             PROVE  IInv'
  OBVIOUS
<1>1. ASSUME UNCHANGED vars
      PROVE  IInv'
  BY <1>1, QuietHolds DEF vars
<1>2. ASSUME PrepCb
      PROVE  IInv'
  BY <1>2, QuietHolds DEF PrepCb, twsVars, ibexVars, history, SockBreaks
<1>3. ASSUME NEW evs \in SUBSET Possible, Poll(evs)
      PROVE  IInv'
  BY <1>3, QuietHolds DEF Poll, twsVars, ibexVars, history
<1>4. ASSUME RoundDone
      PROVE  IInv'
  <2>1. /\ UNCHANGED <<twsVars, ibexVars, ready, told, oids, early, halted>>
        /\ ord' = None
    BY <1>4 DEF RoundDone
  <2>2. Types' /\ OnePlacePerPair' /\ Switch' /\ Below'
    BY <2>1 DEF IInv, Types, OnePlacePerPair, Switch, Below, twsVars, ibexVars
  <2>3. OrderRight' /\ HaltedIdle' /\ OnePerRound'
    BY <2>1 DEF OrderRight, HaltedIdle, OnePerRound
  <2>4. QED
    BY <2>2, <2>3 DEF IInv
<1>5. ASSUME BeefNothing
      PROVE  IInv'
  BY <1>5, QuietHolds DEF BeefNothing, Serve, twsVars, ibexVars, history
<1>6. ASSUME NEW c \in Commands, BeefFull(c)
      PROVE  IInv'
  BY <1>6, QuietHolds DEF BeefFull, Serve, twsVars, ibexVars, history
<1>7. ASSUME NEW c \in Commands, BeefRefuse(c)
      PROVE  IInv'
  BY <1>7, RefuseHolds DEF BeefRefuse, Serve
<1>8. ASSUME NEW c \in Commands, BeefCrash(c)
      PROVE  IInv'
  BY <1>8, RefuseHolds DEF BeefCrash, Serve
<1>9. ASSUME TwscHangup
      PROVE  IInv'
  BY <1>9, QuietHolds DEF TwscHangup, fini_tws, Serve, ibexVars, history
<1>10. ASSUME RecoIdle
       PROVE  IInv'
  BY <1>10, QuietHolds DEF RecoIdle, Serve, twsVars, ibexVars, history
<1>11. ASSUME TwscData
       PROVE  IInv'
  BY <1>11, QuietHolds DEF TwscData, Serve, twsVars, ibexVars, history
<1>12. ASSUME RecvDone
       PROVE  IInv'
  BY <1>12, QuietHolds DEF RecvDone, twsVars, ibexVars, history, SockBreaks
<1>13. QED
  BY <1>1, <1>2, <1>3, <1>4, <1>5, <1>6, <1>7, <1>8, <1>9, <1>10, <1>11, <1>12,
     OrderHolds, SwitchHolds, SessionHolds DEF Next

LEMMA Invariance == Spec => []IInv
<1>1. Init => IInv
  <2> SUFFICES ASSUME Init
               PROVE  IInv
    OBVIOUS
  <2>1. instrs \in Seq(Pairs) /\ Len(instrs) <= MaxInstrs
    BY IbexAssumption DEF Init
  <2>2. Types
    BY <2>1 DEF Init, twsInit, Types
  <2>3. QED
    BY <2>2, IbexAssumption DEF Init, twsInit, IInv, OnePlacePerPair, OrderRight,
       HaltedIdle, OnePerRound, Switch, Below
<1>2. QED
  BY <1>1, NextHolds, PTL DEF Spec

LEMMA LoopHolds == Spec => []LoopTypes
<1>1. Init => LoopTypes
  <2>1. 0 \in 0 .. Sessions
    BY IbexAssumption
  <2>2. QED
    BY <2>1 DEF Init, twsInit, LoopTypes
<1>2. LoopTypes /\ [Next]_vars => LoopTypes'
  <2> SUFFICES ASSUME LoopTypes, [Next]_vars
               PROVE  LoopTypes'
    OBVIOUS
  <2> USE DEF LoopTypes
  <2>1. CASE UNCHANGED vars
    BY <2>1 DEF vars
  <2>2. CASE PrepCb \/ RecvDone
    BY <2>2 DEF PrepCb, RecvDone, SockBreaks, twsVars
  <2>3. ASSUME NEW evs \in SUBSET Possible, Poll(evs)
        PROVE  LoopTypes'
    BY <2>3 DEF Poll, Possible, twsVars
  <2>4. CASE RoundDone \/ BeefNothing \/ BeefHalt \/ BeefResume
    BY <2>4 DEF RoundDone, BeefNothing, BeefHalt, BeefResume, Serve, twsVars
  <2>5. ASSUME NEW c \in Commands,
               BeefFull(c) \/ BeefRefuse(c) \/ BeefOrder(c) \/ BeefCrash(c)
        PROVE  LoopTypes'
    BY <2>5 DEF BeefFull, BeefRefuse, BeefOrder, BeefCrash, Serve, twsVars
  <2>6. CASE TwscHangup
    <3>1. 0 \in 0 .. Sessions
      BY IbexAssumption
    <3>2. QED
      BY <2>6, <3>1 DEF TwscHangup, Serve, fini_tws
  <2>7. CASE RecoIdle \/ TwscData
    BY <2>7 DEF RecoIdle, TwscData, Serve, twsVars
  <2>8. CASE RecvValidId
    BY <2>8 DEF RecvValidId, nextValidId
  <2>9. CASE RecoConnect
    <3>1. (sess % Sessions) + 1 \in 0 .. Sessions
      BY IbexAssumption
    <3>2. QED
      BY <2>9, <3>1 DEF RecoConnect, Serve, init_tws
  <2>10. QED
    BY <2>1, <2>2, <2>3, <2>4, <2>5, <2>6, <2>7, <2>8, <2>9 DEF Next
<1>3. QED
  BY <1>1, <1>2, PTL DEF Spec

-----------------------------------------------------------------------------
(* The theorems.                                                            *)

\* The state keeps its types and the table its size (ibex.c, all of it).
THEOREM Typing == Spec => []TypeOK
<1>1. IInv /\ LoopTypes => TypeOK
  BY DEF IInv, Types, LoopTypes, TypeOK
<1>2. QED
  BY <1>1, Invariance, LoopHolds, PTL

\* intern_instr gives a pair one place, for any pairs and table size.
THEOREM OnePlace == Spec => []OnePlacePerPair
<1>1. IInv => OnePlacePerPair
  BY DEF IInv
<1>2. QED
  BY <1>1, Invariance, PTL

\* ex, o and tws_order make the order of the command, for any pairs and for
\* amounts of either sign; where the side is not that of the command (a SHORT
\* of a metal, a currency with a negative amount) OrderRight says so by name.
THEOREM Right == Spec => []OrderRight
<1>1. IInv => OrderRight
  BY DEF IInv
<1>2. QED
  BY <1>1, Invariance, PTL

\* halt and resume: a halted daemon trades nothing but single ounces.
THEOREM Idle == Spec => []HaltedIdle
<1>1. IInv => HaltedIdle
  BY DEF IInv
<1>2. QED
  BY <1>1, Invariance, PTL

\* tws_order draws a fresh id each time, whatever sessions come and go, when
\* no order comes before the broker's first id.
THEOREM Fresh == Spec => OidsDiffer
<1>1. IInv /\ [Next]_vars =>
          [\A c \in Commands : BeefOrder(c) /\ ~early' => next_oid + 1 \notin oids]_vars
  <2> SUFFICES ASSUME IInv, NEW c \in Commands, BeefOrder(c), ~early'
               PROVE  next_oid + 1 \notin oids
    OBVIOUS
  <2>1. priv # 0 /\ ~early
    BY DEF BeefOrder
  <2>2. \A o \in oids : o <= next_oid
    BY <2>1 DEF IInv, Below
  <2>3. next_oid \in Nat
    BY DEF IInv, Types
  <2>4. QED
    BY <2>2, <2>3
<1>2. QED
  BY <1>1, Invariance, PTL DEF Spec, OidsDiffer
=============================================================================
