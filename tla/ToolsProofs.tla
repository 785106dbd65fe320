----------------------------- MODULE ToolsProofs -----------------------------
(***************************************************************************)
(* The tools, for any pairs, any first ids, any number of sessions and any *)
(* faults: a session is set up only where there is none, ibfx asks for its *)
(* pairs in every session that becomes ready, once, and a line is of the   *)
(* pair its price came for, though the table of ids is never cleared.      *)
(***************************************************************************)
EXTENDS Tools, FiniteSetTheorems, TLAPS

-----------------------------------------------------------------------------
(* One session.                                                             *)

Down == st \in {"UNK", "DWN"}

\* The timer of ox-tws runs, and a poll has found it expired, only while there
\* is no session: none but its own callback sets one up, and stops it.
TimerRight == prog = "ox-tws" => (timer = TRUE \/ "reco" \in ready => Down)

\* Without a session, what is not reco_cb brings none up.
LEMMA StaysDown ==
    ASSUME Down, \/ UNCHANGED twsVars \/ SockBreaks \/ fini_tws
                 \/ \E oid : nextValidId(oid)
    PROVE  Down'
BY DEF Down, st, tws_state, twsVars, SockBreaks, fini_tws, nextValidId

LEMMA TimerInvariance == ToolsSpec => []TimerRight
<1>1. ToolsInit => TimerRight
  BY DEF ToolsInit, evInit, twsInit, TimerRight, Down, st, tws_state
<1>2. TimerRight /\ [ToolsNext]_toolVars => TimerRight'
  <2> SUFFICES ASSUME TimerRight, [ToolsNext]_toolVars, prog' = "ox-tws"
               PROVE  timer' = TRUE \/ "reco" \in ready' => Down'
    BY DEF TimerRight
  <2>1. CASE UNCHANGED toolVars \/ Gone
    BY <2>1 DEF Gone, toolVars, twsVars, evVars, TimerRight, Down, st, tws_state
  <2>2. prog' = prog
    BY DEF ToolsNext, ibfxNext, oxNext, Gone, toolVars, twsVars, evVars,
        ibfx_prep_cb, subs, ibfx_send, ibfx_hangup, Hangup, ibfx_recv, Data, RecvValidId,
        pre_cb, infra_cb, Handled, RecvDone, ibfx_reco_idle, ibfx_reco_fails, NoSock,
        ibfx_reco, Connect, Unloop, RoundDone, Leave, Poll, ox_prep_cb, chck_cb, ox_recv,
        tws_sock_dies, ox_reco_cb
  <2>3. CASE ox_prep_cb
    BY <2>2, <2>3 DEF ox_prep_cb, TimerRight, Down, st, tws_state, twsVars
  <2>4. CASE chck_cb
    <3>1. (UNCHANGED twsVars \/ SockBreaks) /\ timer' = timer /\ ready' \subseteq ready
      BY <2>4 DEF chck_cb, Serve
    <3>2. QED
      BY <2>2, <3>1, StaysDown DEF TimerRight
  <2>5. CASE Hangup \/ Leave
    BY <2>5 DEF Hangup, Leave, fini_tws, Down, st, tws_state
  <2>6. CASE ox_recv
    <3>1. /\ UNCHANGED twsVars \/ SockBreaks \/ \E oid : nextValidId(oid)
          /\ timer' = timer /\ ready' \subseteq ready
      BY <2>6 DEF ox_recv, Data, RecvValidId, RecvDone, Serve, evVars
    <3>2. QED
      BY <2>2, <3>1, StaysDown DEF TimerRight
  <2>7. CASE NoSock \/ tws_sock_dies \/ Unloop \/ RoundDone
    <3>1. UNCHANGED twsVars /\ timer' = timer /\ ready' \subseteq ready
      BY <2>7 DEF NoSock, tws_sock_dies, Unloop, RoundDone, Serve
    <3>2. QED
      BY <2>2, <3>1, StaysDown DEF TimerRight
  <2>8. CASE ox_reco_cb
    BY <2>8 DEF ox_reco_cb, Connect, Serve
  <2>9. ASSUME NEW evs \in SUBSET Possible, Poll(evs)
        PROVE  timer' = TRUE \/ "reco" \in ready' => Down'
    <3>1. UNCHANGED twsVars /\ timer' = timer /\ ("reco" \in ready' => timer = TRUE)
      BY <2>9 DEF Poll, Possible, Always
    <3>2. QED
      BY <2>2, <3>1, StaysDown DEF TimerRight
  <2>10. QED
    BY <2>1, <2>2, <2>3, <2>4, <2>5, <2>6, <2>7, <2>8, <2>9 DEF ToolsNext, oxNext
<1>3. QED
  BY <1>1, <1>2, PTL DEF ToolsSpec

\* A session is set up only where there is none or a broken one: ibfx asks
\* before it does, and ox-tws does not have to.
THEOREM SetUpOnce == ToolsSpec => OneSession
<1>1. TimerRight /\ [ToolsNext]_toolVars => [sess' # sess => Down]_<<twsVars, evVars>>
  <2> SUFFICES ASSUME TimerRight, ToolsNext, sess' # sess
               PROVE  Down
    BY DEF toolVars, twsVars
  <2>1. CASE prog = "ibfx" /\ ibfxNext
    BY <2>1 DEF ibfxNext, Down, twsVars, evVars,
        ibfx_prep_cb, subs, DrawOid, ibfx_send, SockBreaks, ibfx_hangup, Hangup, fini_tws,
        ibfx_recv, Data, RecvValidId, nextValidId, pre_cb, infra_cb, Handled, RecvDone,
        ibfx_reco_idle, ibfx_reco_fails, NoSock, ibfx_reco, Unloop, RoundDone, Leave, Poll
  <2>2. CASE prog = "ox-tws" /\ oxNext
    <3>1. CASE ox_reco_cb
      BY <2>2, <3>1 DEF ox_reco_cb, Connect, Serve, TimerRight
    <3>2. CASE ~ox_reco_cb
      BY <2>2, <3>2 DEF oxNext, twsVars, evVars, ox_prep_cb, chck_cb, SockBreaks, Hangup,
          fini_tws, ox_recv, Data, RecvValidId, nextValidId, RecvDone, NoSock,
          tws_sock_dies, Unloop, RoundDone, Leave, Poll
    <3>3. QED
      BY <3>1, <3>2
  <2>3. QED
    BY <2>1, <2>2 DEF ToolsNext, Gone, toolVars, twsVars
<1>2. QED
  BY <1>1, TimerInvariance, PTL DEF ToolsSpec, OneSession, Down

-----------------------------------------------------------------------------
(* The pairs of ibfx.                                                       *)

\* The id of a ticker leads to its pair.
Table == /\ DOMAIN cons = 0 .. TableSize - 1
         /\ \A i \in DOMAIN tick : i \in DOMAIN cons /\ cons[i] = tick[i]

\* The first n pairs have been asked for in this session, in order, under the
\* first ids it gave out.
AskedTo(n) == \E o \in FirstOids :
    /\ next_oid = o + n
    /\ DOMAIN tick = o .. o + n - 1
    /\ \A k \in 1 .. n : tick[o + k - 1] = Pairs[k]

Full  == AskedTo(Len(Pairs))
Fresh == DOMAIN tick = {} /\ next_oid \in {0} \cup FirstOids
Quiet == DOMAIN tick = {} /\ next_oid = 0

\* Sessions: the poll that is served is of the last one while reco_cb is due.
Numbers ==
    /\ sess \in 0 .. Sessions /\ priv \in {0, sess}
    /\ sockok = TRUE \/ next_oid # 0 => priv # 0
    /\ loop \in {"prep", "subs", "send", "wait"} => ready = {}
    /\ "reco" \in ready => polled \in {0, sess}

\* What prep_cb saw last tells what has been asked for.  A session that was
\* ready and has everything, or is no more; and the one after it cannot become
\* ready in the same round, what the poll has found is not its.
Rounds ==
    /\ loop = "subs" => /\ todo \in 1 .. Len(Pairs) /\ AskedTo(todo - 1)
                        /\ old_st = "RDY" /\ sockok = TRUE
    /\ loop \in {"prep", "send", "wait", "poll", "recv"} =>
          IF old_st = "RDY" THEN Full \/ Quiet ELSE Fresh \/ (Full /\ sockok = FALSE)
    /\ loop = "send" => st = old_st
    /\ loop = "wait" => st \in {old_st, "DWN"}
    /\ loop \in {"send", "wait"} /\ old_st = "RDY" => Full
    /\ loop = "poll" /\ old_st = "RDY" =>
          Full \/ priv = 0 \/ polled # priv \/ "twsc" \notin ready
    /\ loop = "recv" => priv # 0 /\ "twsc" \notin ready /\ (old_st = "RDY" => Full)

PInv == /\ sockok \in BOOLEAN
        /\ prog = "ibfx" => Numbers /\ Table /\ Rounds
        /\ QuotesOfPairs
        /\ prog # "ibfx" => out = None

LEMMA Sizes ==
    /\ Len(Pairs) \in Nat \ {0} /\ DOMAIN Pairs = 1 .. Len(Pairs)
    /\ TableSize \in Nat /\ FirstOids \subseteq Nat \ {0}
    /\ \A o \in FirstOids : o + Len(Pairs) <= TableSize
    /\ Sessions \in Nat \ {0, 1}
<1> DEFINE S == {Pairs[k] : k \in DOMAIN Pairs}
<1>1. Pairs \in Seq(S) /\ Pairs # <<>>
  BY IbfxAssumption
<1> HIDE DEF S
<1>2. Len(Pairs) \in Nat \ {0} /\ DOMAIN Pairs = 1 .. Len(Pairs)
  BY <1>1
<1>3. QED
  BY <1>2, IbfxAssumption, EvLoopAssumption

\* A session that is set up is another than the one before.
LEMMA NewSession ==
    ASSUME sess \in 0 .. Sessions
    PROVE  /\ (sess % Sessions) + 1 \in 1 .. Sessions
           /\ (sess % Sessions) + 1 # sess
<1>1. Sessions \in Nat \ {0, 1}
  BY EvLoopAssumption
<1>2. CASE sess = Sessions
  <2>1. sess % Sessions = 0
    BY <1>1, <1>2
  <2>2. QED
    BY <1>1, <1>2, <2>1
<1>3. CASE sess < Sessions
  <2>1. sess % Sessions = sess
    BY <1>1, <1>3
  <2>2. QED
    BY <1>1, <1>3, <2>1
<1>4. QED
  BY <1>1, <1>2, <1>3

\* What has been asked for stays while the session and its ids do.
LEMMA SameAsked ==
    ASSUME UNCHANGED <<next_oid, tick>>
    PROVE  (Full' <=> Full) /\ (Fresh' <=> Fresh) /\ (Quiet' <=> Quiet)
BY DEF Full, Fresh, Quiet, AskedTo

JInv == Numbers /\ Table /\ Rounds /\ QuotesOfPairs

\* A session is ready for its ids.
LEMMA States ==
    ASSUME sockok \in BOOLEAN, JInv
    PROVE  /\ st = "UNK" <=> priv = 0
           /\ st = "DWN" <=> priv # 0 /\ sockok = FALSE
           /\ st = "RDY" <=> sockok = TRUE /\ next_oid # 0
           /\ st = "SUP" <=> sockok = TRUE /\ next_oid = 0
           /\ st \in {"UNK", "DWN", "SUP", "RDY"}
BY DEF JInv, Numbers, st, tws_state

LEMMA PrepStep ==
    ASSUME sockok \in BOOLEAN, JInv, ibfx_prep_cb
    PROVE  JInv'
<1>1. /\ UNCHANGED <<priv, sess, sockok, next_oid, ready, polled, cons, tick, out>>
      /\ loop = "prep" /\ old_st' = st /\ todo' = 1 /\ st' = st
  BY DEF ibfx_prep_cb, twsVars, st, tws_state
<1>2. Numbers'
  BY <1>1 DEF JInv, Numbers, ibfx_prep_cb
<1>3. Table' /\ QuotesOfPairs'
  BY <1>1 DEF JInv, Table, QuotesOfPairs
<1>4. (Full' <=> Full) /\ (Fresh' <=> Fresh) /\ (Quiet' <=> Quiet)
  BY <1>1, SameAsked
<1>5. Rounds'
  <2>1. IF old_st = "RDY" THEN Full \/ Quiet ELSE Fresh \/ (Full /\ sockok = FALSE)
    BY <1>1 DEF JInv, Rounds
  <2>2. CASE loop' = "subs"
    <3>1. st = "RDY" /\ old_st # "RDY"
      BY <1>1, <2>2 DEF ibfx_prep_cb
    <3>2. Fresh /\ sockok = TRUE /\ next_oid \in FirstOids /\ DOMAIN tick = {}
      BY <2>1, <3>1, States DEF Fresh
    <3>3. next_oid = next_oid + 0 /\ next_oid .. next_oid + 0 - 1 = {}
      BY <3>2, Sizes
    <3>4. AskedTo(0)'
      BY <1>1, <3>2, <3>3 DEF AskedTo
    <3>5. todo' \in 1 .. Len(Pairs) /\ AskedTo(todo - 1)'
      BY <1>1, <3>4, Sizes
    <3>6. QED
      BY <1>1, <2>2, <3>1, <3>2, <3>5 DEF Rounds
  <2>3. CASE loop' = "wait"
    <3>1. st \in {"UNK", "DWN"}
      BY <1>1, <2>3 DEF ibfx_prep_cb
    <3>2. Fresh \/ (Full /\ sockok = FALSE)
      <4>1. st = "UNK" => priv = 0 /\ sockok = FALSE
        BY States DEF JInv, Numbers
      <4>2. Quiet => Fresh
        BY DEF Quiet, Fresh
      <4>3. QED
        BY <2>1, <3>1, <4>1, <4>2, States
    <3>3. QED
      BY <1>1, <1>4, <2>3, <3>1, <3>2 DEF Rounds
  <2>4. CASE loop' = "send"
    <3>1. st = "SUP" \/ (st = "RDY" /\ old_st = "RDY")
      BY <1>1, <2>4, States DEF ibfx_prep_cb
    <3>2. CASE st = "SUP"
      <4>1. Fresh
        <5>1. next_oid = 0 /\ sockok = TRUE
          BY <3>2, States
        <5>2. ~Full
          BY <5>1, Sizes DEF Full, AskedTo
        <5>3. QED
          BY <2>1, <5>1, <5>2 DEF Quiet, Fresh
      <4>2. QED
        BY <1>1, <1>4, <2>4, <3>2, <4>1 DEF Rounds
    <3>3. CASE st = "RDY" /\ old_st = "RDY"
      <4>1. Full
        BY <2>1, <3>3, States DEF Quiet
      <4>2. QED
        BY <1>1, <1>4, <2>4, <3>3, <4>1 DEF Rounds
    <3>4. QED
      BY <3>1, <3>2, <3>3
  <2>5. QED
    BY <1>1, <2>2, <2>3, <2>4 DEF ibfx_prep_cb
<1>6. QED
  BY <1>2, <1>3, <1>5 DEF JInv

LEMMA SubsStep ==
    ASSUME sockok \in BOOLEAN, JInv, subs
    PROVE  JInv'
<1>1. /\ loop = "subs" /\ todo \in 1 .. Len(Pairs) /\ old_st = "RDY" /\ sockok = TRUE
      /\ AskedTo(todo - 1) /\ loop' \in {"send", "subs"}
  BY DEF JInv, Rounds, subs
<1>2. /\ UNCHANGED <<priv, sess, sockok, ready, polled, old_st, out>>
      /\ next_oid # 0 /\ next_oid' = next_oid + 1 /\ todo' = todo + 1
      /\ cons' = [cons EXCEPT ![next_oid] = Pairs[todo]]
      /\ tick' = [i \in DOMAIN tick \cup {next_oid} |->
                     IF i = next_oid THEN Pairs[todo] ELSE tick[i]]
  <2>1. DrawOid
    BY DEF subs
  <2>2. next_oid \in Nat
    BY <1>1, Sizes DEF AskedTo
  <2>3. QED
    BY <2>1, <2>2 DEF subs, DrawOid, tws_ready_p
<1>3. PICK o \in FirstOids : /\ next_oid = o + (todo - 1)
                             /\ DOMAIN tick = o .. o + (todo - 1) - 1
                             /\ \A k \in 1 .. todo - 1 : tick[o + k - 1] = Pairs[k]
  BY <1>1 DEF AskedTo
<1>4. /\ o \in Nat \ {0} /\ o + Len(Pairs) <= TableSize /\ todo \in Nat \ {0}
      /\ todo <= Len(Pairs) /\ Len(Pairs) \in Nat /\ TableSize \in Nat
  BY <1>1, Sizes
<1>5. next_oid \in 0 .. TableSize - 1 /\ next_oid \notin DOMAIN tick
  BY <1>3, <1>4
<1>6. Numbers'
  BY <1>1, <1>2, <1>5 DEF JInv, Numbers
<1>7. Table'
  <2>1. DOMAIN cons = 0 .. TableSize - 1
    BY DEF JInv, Table
  <2>2. ASSUME NEW i \in DOMAIN tick'
        PROVE  i \in DOMAIN cons' /\ cons'[i] = tick'[i]
    <3>1. CASE i = next_oid
      BY <1>2, <1>5, <2>1, <3>1
    <3>2. CASE i # next_oid
      <4>1. i \in DOMAIN tick /\ tick'[i] = tick[i] /\ cons'[i] = cons[i]
        BY <1>2, <2>2, <3>2
      <4>2. QED
        BY <1>2, <4>1 DEF JInv, Table
    <3>3. QED
      BY <3>1, <3>2
  <2>3. QED
    BY <1>2, <2>1, <2>2 DEF Table
<1>8. /\ next_oid' = o + todo /\ DOMAIN tick' = o .. o + todo - 1
      /\ \A k \in 1 .. todo : tick'[o + k - 1] = Pairs[k]
  <2>1. next_oid' = o + todo /\ DOMAIN tick' = o .. o + todo - 1
    <3>1. next_oid' = next_oid + 1 /\ DOMAIN tick' = DOMAIN tick \cup {next_oid}
      BY <1>2
    <3>2. next_oid' = o + todo
      BY <1>3, <1>4, <3>1
    <3>3. \A j \in Int : j \in o .. o + todo - 1
              <=> j \in o .. o + (todo - 1) - 1 \/ j = o + todo - 1
      BY <1>4
    <3>4. next_oid = o + todo - 1 /\ next_oid \in Int
      BY <1>3, <1>4
    <3>5. o .. o + todo - 1 = (o .. o + (todo - 1) - 1) \cup {next_oid}
      BY <3>3, <3>4
    <3>6. QED
      BY <1>3, <3>1, <3>2, <3>5
  <2>2. ASSUME NEW k \in 1 .. todo
        PROVE  tick'[o + k - 1] = Pairs[k]
    <3>1. CASE k = todo
      BY <1>2, <1>3, <1>4, <3>1
    <3>2. CASE k # todo
      <4>1. k \in 1 .. todo - 1 /\ o + k - 1 \in DOMAIN tick
        BY <1>3, <1>4, <3>2
      <4>2. o + k - 1 # next_oid
        BY <1>5, <4>1
      <4>3. QED
        BY <1>2, <1>3, <4>1, <4>2
    <3>3. QED
      BY <3>1, <3>2
  <2>3. QED
    BY <2>1, <2>2
<1>9. Rounds'
  <2>1. CASE loop' = "subs"
    <3>1. todo' - 1 = todo /\ todo' \in 1 .. Len(Pairs)
      BY <1>2, <1>4, <2>1 DEF subs
    <3>2. AskedTo(todo - 1)'
      BY <1>8, <3>1 DEF AskedTo
    <3>3. QED
      BY <1>1, <1>2, <2>1, <3>1, <3>2 DEF Rounds
  <2>2. CASE loop' = "send"
    <3>1. todo = Len(Pairs)
      BY <2>2 DEF subs
    <3>2. Full'
      BY <1>8, <3>1 DEF Full, AskedTo
    <3>3. st' = "RDY"
      <4>1. priv # 0
        BY <1>2 DEF JInv, Numbers
      <4>2. next_oid' # 0
        BY <1>4, <1>8
      <4>3. QED
        BY <1>1, <1>2, <4>1, <4>2 DEF st, tws_state
    <3>4. QED
      BY <1>1, <1>2, <2>2, <3>2, <3>3 DEF Rounds
  <2>3. QED
    BY <1>1, <2>1, <2>2
<1>10. QuotesOfPairs'
  BY <1>2 DEF JInv, QuotesOfPairs
<1>11. QED
  BY <1>6, <1>7, <1>9, <1>10 DEF JInv

\* The steps that leave the session, its ids and the loop's place in the round
\* alone, or find its socket broken.
LEMMA SendStep ==
    ASSUME sockok \in BOOLEAN, JInv, ibfx_send
    PROVE  JInv'
<1>1. /\ UNCHANGED <<priv, sess, next_oid, ready, polled, cons, tick, out, old_st>>
      /\ loop = "send" /\ loop' = "wait"
      /\ sockok' = sockok \/ sockok' = FALSE
  BY DEF ibfx_send, twsVars, SockBreaks, ibfxVars
<1>2. Numbers'
  BY <1>1 DEF JInv, Numbers
<1>3. Table' /\ QuotesOfPairs'
  BY <1>1 DEF JInv, Table, QuotesOfPairs
<1>4. (Full' <=> Full) /\ (Fresh' <=> Fresh) /\ (Quiet' <=> Quiet)
  BY <1>1, SameAsked
<1>5. st = old_st /\ (old_st = "RDY" => Full)
      /\ IF old_st = "RDY" THEN Full \/ Quiet ELSE Fresh \/ (Full /\ sockok = FALSE)
  BY <1>1 DEF JInv, Rounds
<1>6. st' \in {old_st', "DWN"} /\ (st' = "RDY" => st = "RDY")
  <2>1. st' = st \/ st' = "DWN" \/ (st' = "UNK" /\ st = "UNK")
    BY <1>1 DEF st, tws_state
  <2>2. QED
    BY <1>1, <1>5, <2>1
<1>7. Rounds'
  BY <1>1, <1>4, <1>5, <1>6 DEF Rounds
<1>8. QED
  BY <1>2, <1>3, <1>7 DEF JInv

\* Out of the poll's wait, and back.
LEMMA PollStep ==
    ASSUME sockok \in BOOLEAN, JInv, UNCHANGED ibfxVars,
           (\E evs \in SUBSET Possible : Poll(evs)) \/ RoundDone
    PROVE  JInv'
<1>1. /\ UNCHANGED <<priv, sess, sockok, next_oid, cons, tick, out, old_st>>
      /\ \/ loop = "wait" /\ loop' = "poll" /\ polled' = priv
         \/ loop = "poll" /\ loop' \in {"prep", "over"} /\ ready = {} /\ UNCHANGED <<polled, ready>>
  BY DEF Poll, RoundDone, twsVars, ibfxVars
<1>2. Numbers'
  BY <1>1 DEF JInv, Numbers
<1>3. Table' /\ QuotesOfPairs'
  BY <1>1 DEF JInv, Table, QuotesOfPairs
<1>4. (Full' <=> Full) /\ (Fresh' <=> Fresh) /\ (Quiet' <=> Quiet)
  BY <1>1, SameAsked
<1>5. Rounds'
  <2>1. IF old_st = "RDY" THEN Full \/ Quiet ELSE Fresh \/ (Full /\ sockok = FALSE)
    BY <1>1 DEF JInv, Rounds
  <2>2. CASE loop = "wait"
    <3>1. old_st = "RDY" => Full
      BY <2>2 DEF JInv, Rounds
    <3>2. QED
      BY <1>1, <1>4, <2>1, <2>2, <3>1 DEF Rounds
  <2>3. CASE loop = "poll"
    BY <1>1, <1>4, <2>1, <2>3 DEF Rounds
  <2>4. QED
    BY <1>1, <2>2, <2>3
<1>6. QED
  BY <1>2, <1>3, <1>5 DEF JInv

\* A signal, or a timer that has nothing to do or nobody to reach.
LEMMA IdleStep ==
    ASSUME sockok \in BOOLEAN, JInv, Unloop \/ ibfx_reco_idle \/ ibfx_reco_fails,
           Unloop => UNCHANGED ibfxVars
    PROVE  JInv'
<1>1. /\ UNCHANGED <<priv, sess, sockok, next_oid, loop, polled, cons, tick, out, old_st>>
      /\ loop = "poll" /\ ready' \subseteq ready
  BY DEF Unloop, ibfx_reco_idle, ibfx_reco_fails, NoSock, Serve, twsVars, ibfxVars
<1>2. Numbers'
  BY <1>1 DEF JInv, Numbers
<1>3. Table' /\ QuotesOfPairs'
  BY <1>1 DEF JInv, Table, QuotesOfPairs
<1>4. (Full' <=> Full) /\ (Fresh' <=> Fresh) /\ (Quiet' <=> Quiet)
  BY <1>1, SameAsked
<1>5. Rounds'
  BY <1>1, <1>4 DEF JInv, Rounds
<1>6. QED
  BY <1>2, <1>3, <1>5 DEF JInv

\* The session goes, with its ids.
LEMMA HangupStep ==
    ASSUME sockok \in BOOLEAN, JInv, ibfx_hangup
    PROVE  JInv'
<1>1. /\ UNCHANGED <<sess, loop, polled, cons, out, old_st>>
      /\ priv' = 0 /\ sockok' = FALSE /\ next_oid' = 0
      /\ loop = "poll" /\ ready' = ready \ {"twsc"} /\ DOMAIN tick' = {}
  BY DEF ibfx_hangup, Hangup, fini_tws, Serve
<1>2. Numbers'
  BY <1>1 DEF JInv, Numbers
<1>3. Table' /\ QuotesOfPairs'
  BY <1>1 DEF JInv, Table, QuotesOfPairs
<1>4. Fresh' /\ Quiet'
  BY <1>1 DEF Fresh, Quiet
<1>5. Rounds'
  BY <1>1, <1>4 DEF Rounds
<1>6. QED
  BY <1>2, <1>3, <1>5 DEF JInv

\* A new session: what the poll has found on the socket is not of it.
LEMMA RecoStep ==
    ASSUME sockok \in BOOLEAN, JInv, ibfx_reco
    PROVE  JInv'
<1>1. /\ UNCHANGED <<loop, polled, cons, out, old_st>>
      /\ priv' = (sess % Sessions) + 1 /\ sess' = priv' /\ sockok' = TRUE /\ next_oid' = 0
      /\ loop = "poll" /\ "reco" \in ready /\ ready' = ready \ {"reco"} /\ DOMAIN tick' = {}
  BY DEF ibfx_reco, Connect, init_tws, Serve
<1>2. sess \in 0 .. Sessions /\ polled \in {0, sess}
  BY <1>1 DEF JInv, Numbers
<1>3. sess' \in 0 .. Sessions /\ priv' # 0 /\ polled' # priv'
  <2>1. priv' \in 1 .. Sessions /\ priv' # sess
    BY <1>1, <1>2, NewSession
  <2>2. QED
    BY <1>1, <1>2, <2>1, Sizes
<1>4. Numbers'
  BY <1>1, <1>3 DEF Numbers
<1>5. Table' /\ QuotesOfPairs'
  BY <1>1 DEF JInv, Table, QuotesOfPairs
<1>6. Fresh' /\ Quiet'
  BY <1>1 DEF Fresh, Quiet
<1>7. Rounds'
  BY <1>1, <1>3, <1>6 DEF Rounds
<1>8. QED
  BY <1>4, <1>5, <1>7 DEF JInv

\* Prices, and only they, call pre_cb back with TWS_CB_PRE_PRICE.
LEMMA PricesOnly ==
    ASSUME NEW m \in DOMAIN PreTicks \cup DOMAIN PreRest, Callback(m) = <<"pre", "PRICE">>
    PROVE  m = "tickPrice"
<1>1. CASE m \in DOMAIN PreTicks
  <2> DEFINE x == PreTicks[m]
  <2>1. x = "PRICE"
    <3>1. /\ m \notin DOMAIN PreRest /\ m \notin DOMAIN Trades
          /\ m \notin DOMAIN Posts /\ m \notin DOMAIN Infras
      BY <1>1 DEF PreTicks, PreRest, Trades, Posts, Infras
    <3>2. Callback(m) = <<"pre", x>>
      BY <1>1, <3>1 DEF Callback
    <3> HIDE DEF x
    <3>3. QED
      BY <3>2
  <2>2. QED
    BY <1>1, <2>1 DEF PreTicks
<1>2. CASE m \notin DOMAIN PreTicks
  <2> DEFINE x == PreRest[m]
  <2>1. m \in DOMAIN PreRest /\ x = "PRICE"
    <3>1. m \in DOMAIN PreRest
      BY <1>2
    <3>2. m \notin DOMAIN Trades /\ m \notin DOMAIN Posts /\ m \notin DOMAIN Infras
      BY <3>1 DEF PreRest, Trades, Posts, Infras
    <3>3. Callback(m) = <<"pre", x>>
      BY <1>2, <3>1, <3>2 DEF Callback
    <3> HIDE DEF x
    <3>4. QED
      BY <3>1, <3>3
  <2>2. QED
    BY <2>1 DEF PreRest
<1>3. QED
  BY <1>1, <1>2

LEMMA PriceStep ==
    ASSUME Table, NEW m \in DOMAIN PreTicks \cup DOMAIN PreRest, NEW i \in DOMAIN tick,
           NEW tt \in {1, 2, 4}, pre_cb(m, i, tt)
    PROVE  QuotesOfPairs'
<1>1. CASE Callback(m) = <<"pre", "PRICE">>
  <2>1. out' = [line |-> route_quote(i, tt), msg |-> m, inst |-> tick[i], tt |-> tt]
    BY <1>1 DEF pre_cb
  <2>2. out'.msg = m /\ out'.inst = tick[i] /\ out'.tt = tt /\ out'.line = route_quote(i, tt)
    BY <2>1
  <2>3. out'.line.pair = cons[i] /\ cons[i] = tick[i]
    BY <2>2 DEF route_quote, Table
  <2>4. out'.line.side = (CASE tt = 1 -> "bid" [] tt = 2 -> "ask" [] OTHER -> "none")
    BY <2>2 DEF route_quote
  <2>5. (out'.line.side = "bid" <=> tt = 1) /\ (out'.line.side = "ask" <=> tt = 2)
    BY <2>4
  <2>6. m = "tickPrice"
    BY <1>1, PricesOnly
  <2>7. QED
    BY <2>2, <2>3, <2>5, <2>6 DEF QuotesOfPairs
<1>2. CASE Callback(m) # <<"pre", "PRICE">>
  BY <1>2 DEF pre_cb, QuotesOfPairs
<1>3. QED
  BY <1>1, <1>2

LEMMA RecvStep ==
    ASSUME sockok \in BOOLEAN, JInv, ibfx_recv
    PROVE  JInv'
<1>1. CASE Data /\ UNCHANGED ibfxVars
  <2>1. /\ UNCHANGED <<priv, sess, sockok, next_oid, polled, cons, tick, out, old_st>>
        /\ loop = "poll" /\ loop' = "recv" /\ "twsc" \in ready /\ ready' = ready \ {"twsc"}
        /\ sockok /\ polled = priv
    BY <1>1 DEF Data, Serve, twsVars, ibfxVars
  <2>2. priv # 0
    BY <2>1 DEF JInv, Numbers
  <2>3. Numbers'
    BY <2>1 DEF JInv, Numbers
  <2>4. Table' /\ QuotesOfPairs'
    BY <2>1 DEF JInv, Table, QuotesOfPairs
  <2>5. (Full' <=> Full) /\ (Fresh' <=> Fresh) /\ (Quiet' <=> Quiet)
    BY <2>1, SameAsked
  <2>6. Rounds'
    BY <2>1, <2>2, <2>5 DEF JInv, Rounds
  <2>7. QED
    BY <2>3, <2>4, <2>6 DEF JInv
<1>2. ASSUME NEW oid \in FirstOids, RecvValidId(oid), UNCHANGED ibfxVars
      PROVE  JInv'
  <2>1. /\ UNCHANGED <<priv, sess, sockok, loop, ready, polled, cons, tick, out, old_st>>
        /\ loop = "recv" /\ next_oid = 0 /\ next_oid' = oid
    BY <1>2 DEF RecvValidId, nextValidId, evVars, ibfxVars
  <2>2. Numbers'
    BY <2>1 DEF JInv, Numbers, Rounds
  <2>3. Table' /\ QuotesOfPairs'
    BY <2>1 DEF JInv, Table, QuotesOfPairs
  <2>4. ~Full
    <3>1. next_oid = 0
      BY <2>1
    <3>2. QED
      BY <3>1, Sizes DEF Full, AskedTo
  <2>5. old_st # "RDY" /\ Fresh
    BY <2>1, <2>4 DEF JInv, Rounds
  <2>6. Fresh'
    BY <2>1, <2>5 DEF Fresh
  <2>7. Rounds'
    BY <2>1, <2>5, <2>6 DEF JInv, Rounds
  <2>8. QED
    BY <2>2, <2>3, <2>7 DEF JInv
<1>3. ASSUME Handled, UNCHANGED <<cons, old_st, todo, tick>>
      PROVE  Numbers' /\ Table' /\ Rounds'
  <2>1. /\ UNCHANGED <<priv, sess, sockok, next_oid, loop, ready, polled>>
        /\ loop = "recv"
    BY <1>3 DEF Handled, twsVars, evVars
  <2>2. (Full' <=> Full) /\ (Fresh' <=> Fresh) /\ (Quiet' <=> Quiet)
    BY <1>3, <2>1, SameAsked
  <2>3. Numbers' /\ Table'
    BY <1>3, <2>1 DEF JInv, Numbers, Table
  <2>4. Rounds'
    BY <1>3, <2>1, <2>2 DEF JInv, Rounds
  <2>5. QED
    BY <2>3, <2>4
<1>4. ASSUME NEW m \in DOMAIN PreTicks \cup DOMAIN PreRest, NEW i \in DOMAIN tick,
             NEW tt \in {1, 2, 4}, pre_cb(m, i, tt)
      PROVE  JInv'
  <2>1. Handled /\ UNCHANGED <<cons, old_st, todo, tick>>
    BY <1>4 DEF pre_cb
  <2>2. QuotesOfPairs'
    BY <1>4, PriceStep DEF JInv
  <2>3. QED
    BY <1>3, <2>1, <2>2 DEF JInv
<1>5. ASSUME NEW m, infra_cb(m)
      PROVE  JInv'
  <2>1. Handled /\ UNCHANGED <<cons, old_st, todo, tick>> /\ out' = None
    BY <1>5 DEF infra_cb
  <2>2. QED
    BY <1>3, <2>1 DEF JInv, QuotesOfPairs
<1>6. CASE RecvDone /\ out' = None /\ UNCHANGED <<cons, old_st, todo, tick>>
  <2>1. /\ UNCHANGED <<priv, sess, next_oid, ready, polled, cons, tick, old_st>>
        /\ loop = "recv" /\ loop' = "poll"
        /\ sockok' = sockok \/ sockok' = FALSE
    BY <1>6 DEF RecvDone, SockBreaks, twsVars
  <2>2. (Full' <=> Full) /\ (Fresh' <=> Fresh) /\ (Quiet' <=> Quiet)
    BY <2>1, SameAsked
  <2>3. Numbers'
    BY <2>1 DEF JInv, Numbers
  <2>4. Table' /\ QuotesOfPairs'
    BY <1>6, <2>1 DEF JInv, Table, QuotesOfPairs
  <2>5. Rounds'
    BY <2>1, <2>2 DEF JInv, Rounds
  <2>6. QED
    BY <2>3, <2>4, <2>5 DEF JInv
<1>7. QED
  BY <1>1, <1>2, <1>4, <1>5, <1>6 DEF ibfx_recv

\* reco_cb(NULL): nothing is served any more.
LEMMA LeaveStep ==
    ASSUME sockok \in BOOLEAN, JInv, Leave, UNCHANGED ibfxVars
    PROVE  JInv'
<1>1. /\ UNCHANGED <<sess, ready, polled, cons, tick, out>>
      /\ priv' = 0 /\ sockok' = FALSE /\ next_oid' = 0 /\ loop' = "gone"
  BY DEF Leave, fini_tws, ibfxVars
<1>2. Numbers' /\ Table' /\ Rounds' /\ QuotesOfPairs'
  BY <1>1 DEF JInv, Numbers, Table, Rounds, QuotesOfPairs
<1>3. QED
  BY <1>2 DEF JInv

LEMMA PairsInvariance == ToolsSpec => []PInv
<1>1. ToolsInit => PInv
  <2> SUFFICES ASSUME ToolsInit
               PROVE  PInv
    OBVIOUS
  <2>1. /\ priv = 0 /\ sess = 0 /\ sockok = FALSE /\ next_oid = 0 /\ loop = "prep"
        /\ ready = {} /\ DOMAIN cons = 0 .. TableSize - 1 /\ old_st = "UNK"
        /\ DOMAIN tick = {} /\ out = None
    BY DEF ToolsInit, evInit, twsInit, ibfxInit
  <2>2. 0 \in 0 .. Sessions
    BY Sizes
  <2>3. QED
    BY <2>1, <2>2 DEF PInv, Numbers, Table, Rounds, Fresh, QuotesOfPairs
<1>2. PInv /\ [ToolsNext]_toolVars => PInv'
  <2> SUFFICES ASSUME PInv, [ToolsNext]_toolVars
               PROVE  PInv'
    OBVIOUS
  <2>1. sockok' \in BOOLEAN
    BY DEF PInv, ToolsNext, ibfxNext, oxNext, Gone, toolVars, twsVars, evVars,
        ibfx_prep_cb, subs, DrawOid, ibfx_send, SockBreaks, ibfx_hangup, Hangup, fini_tws,
        ibfx_recv, Data, RecvValidId, nextValidId, pre_cb, infra_cb, Handled, RecvDone,
        ibfx_reco_idle, ibfx_reco_fails, NoSock, ibfx_reco, Connect, init_tws, Unloop,
        RoundDone, Leave, Poll, ox_prep_cb, chck_cb, ox_recv, tws_sock_dies, ox_reco_cb
  <2>2. prog' = prog
    BY DEF ToolsNext, ibfxNext, oxNext, Gone, toolVars, twsVars, evVars,
        ibfx_prep_cb, subs, ibfx_send, ibfx_hangup, Hangup, ibfx_recv, Data, RecvValidId,
        pre_cb, infra_cb, Handled, RecvDone, ibfx_reco_idle, ibfx_reco_fails, NoSock,
        ibfx_reco, Connect, Unloop, RoundDone, Leave, Poll, ox_prep_cb, chck_cb, ox_recv,
        tws_sock_dies, ox_reco_cb
  <2>3. CASE prog = "ibfx"
    <3>1. sockok \in BOOLEAN /\ JInv
      BY <2>3 DEF PInv, JInv
    <3>2. JInv'
      <4>1. CASE UNCHANGED toolVars \/ Gone
        <5>1. UNCHANGED <<priv, sess, sockok, next_oid, loop, ready, polled, cons, tick,
                          todo, out, old_st>>
          BY <4>1 DEF Gone, toolVars, twsVars, evVars, ibfxVars
        <5>2. (Full' <=> Full) /\ (Fresh' <=> Fresh) /\ (Quiet' <=> Quiet)
          BY <5>1, SameAsked
        <5>3. AskedTo(todo - 1)' <=> AskedTo(todo - 1)
          BY <5>1 DEF AskedTo
        <5>4. st' = st
          BY <5>1 DEF st, tws_state
        <5>5. Rounds'
          BY <3>1, <5>1, <5>2, <5>3, <5>4 DEF JInv, Rounds
        <5>6. QED
          BY <3>1, <5>1, <5>5 DEF JInv, Numbers, Table, QuotesOfPairs
      <4>2. CASE ibfx_prep_cb \/ subs \/ ibfx_send
        BY <3>1, <4>2, PrepStep, SubsStep, SendStep
      <4>3. CASE ibfx_hangup \/ ibfx_recv \/ ibfx_reco
        BY <3>1, <4>3, HangupStep, RecvStep, RecoStep
      <4>4. CASE ibfx_reco_idle \/ ibfx_reco_fails
        <5>1. ~Unloop
          BY <4>4 DEF ibfx_reco_idle, ibfx_reco_fails, NoSock, Unloop, Serve
        <5>2. QED
          BY <3>1, <4>4, <5>1, IdleStep
      <4>5. CASE Unloop /\ UNCHANGED ibfxVars
        BY <3>1, <4>5, IdleStep
      <4>6. CASE RoundDone /\ UNCHANGED ibfxVars
        BY <3>1, <4>6, PollStep
      <4>7. CASE Leave /\ UNCHANGED ibfxVars
        BY <3>1, <4>7, LeaveStep
      <4>8. CASE \E evs \in SUBSET Possible : Poll(evs) /\ UNCHANGED ibfxVars
        BY <3>1, <4>8, PollStep
      <4>9. QED
        BY <2>3, <4>1, <4>2, <4>3, <4>4, <4>5, <4>6, <4>7, <4>8 DEF ToolsNext, ibfxNext
    <3>3. QED
      BY <2>1, <2>2, <2>3, <3>2 DEF PInv, JInv
  <2>4. CASE prog # "ibfx"
    <3>1. out' = out
      BY <2>4 DEF ToolsNext, Gone, toolVars, ibfxVars
    <3>2. QED
      BY <2>1, <2>2, <2>4, <3>1 DEF PInv, QuotesOfPairs
  <2>5. QED
    BY <2>3, <2>4
<1>3. QED
  BY <1>1, <1>2, PTL DEF ToolsSpec

\* A line goes out for a price only, of the pair the ticker id was asked for in
\* the session it came from: what the sessions before have left in the table is
\* written over before it is looked up.
THEOREM LinesOfPairs == ToolsSpec => []QuotesOfPairs
<1>1. PInv => QuotesOfPairs
  BY DEF PInv
<1>2. QED
  BY <1>1, PairsInvariance, PTL

\* Whenever ibfx waits with a session that is ready, that session was asked for
\* each pair as often as it was named.
THEOREM AllPairs == ToolsSpec => []PairsSubscribed
<1>1. PInv => PairsSubscribed
  <2> SUFFICES ASSUME PInv, prog = "ibfx", loop = "wait", st = "RDY",
                      NEW p \in {Pairs[k] : k \in DOMAIN Pairs}
               PROVE  Cardinality({i \in DOMAIN tick : tick[i] = p})
                          = Cardinality({k \in DOMAIN Pairs : Pairs[k] = p})
    BY DEF PairsSubscribed
  <2>1. Full
    <3>1. old_st = "RDY" => Full
      BY DEF PInv, Rounds
    <3>2. old_st = "RDY"
      BY DEF PInv, Rounds
    <3>3. QED
      BY <3>1, <3>2
  <2>2. PICK o \in FirstOids : /\ DOMAIN tick = o .. o + Len(Pairs) - 1
                               /\ \A k \in 1 .. Len(Pairs) : tick[o + k - 1] = Pairs[k]
    BY <2>1 DEF Full, AskedTo
  <2>3. o \in Nat \ {0} /\ Len(Pairs) \in Nat /\ DOMAIN Pairs = 1 .. Len(Pairs)
    BY Sizes
  <2> DEFINE K == {k \in DOMAIN Pairs : Pairs[k] = p}
             I == {i \in DOMAIN tick : tick[i] = p}
             f == [k \in K |-> o + k - 1]
  <2>4. IsFiniteSet(K)
    <3>1. K \subseteq 1 .. Len(Pairs) /\ IsFiniteSet(1 .. Len(Pairs))
      BY <2>3, FS_Interval
    <3>2. QED
      BY <3>1, FS_Subset
  <2>5. f \in Bijection(K, I)
    <3>1. \A k \in K : k \in 1 .. Len(Pairs)
      BY <2>3
    <3>2. ASSUME NEW k \in K
          PROVE  o + k - 1 \in I
      <4>1. k \in 1 .. Len(Pairs) /\ Pairs[k] = p
        BY <2>3
      <4>2. tick[o + k - 1] = p
        BY <2>2, <4>1
      <4>3. o + k - 1 \in o .. o + Len(Pairs) - 1
        BY <2>3, <4>1
      <4>4. QED
        BY <2>2, <4>2, <4>3
    <3>3. ASSUME NEW i \in I
          PROVE  i - o + 1 \in K /\ o + (i - o + 1) - 1 = i
      <4>1. i \in o .. o + Len(Pairs) - 1 /\ tick[i] = p
        BY <2>2
      <4>2. i - o + 1 \in 1 .. Len(Pairs) /\ o + (i - o + 1) - 1 = i
        BY <2>3, <4>1
      <4>3. tick[o + (i - o + 1) - 1] = Pairs[i - o + 1]
        BY <2>2, <4>2
      <4>4. QED
        BY <2>3, <4>1, <4>2, <4>3
    <3>4. \A j, k \in K : o + j - 1 = o + k - 1 => j = k
      BY <2>3, <3>1
    <3> HIDE DEF K, I
    <3>5. f \in Injection(K, I)
      BY <3>2, <3>4 DEF Injection, IsInjective
    <3>6. f \in Surjection(K, I)
      BY <3>2, <3>3 DEF Surjection
    <3>7. QED
      BY <3>5, <3>6 DEF Bijection
  <2>6. Cardinality(I) = Cardinality(K)
    <3> HIDE DEF K, I, f
    <3>1. ExistsBijection(K, I)
      BY <2>5 DEF ExistsBijection
    <3>2. QED
      BY <2>4, <3>1, FS_Bijection
  <2>7. QED
    BY <2>6
<1>2. QED
  BY <1>1, PairsInvariance, PTL

=============================================================================
