--------------------------------- MODULE Ibex ---------------------------------
(***************************************************************************)
(* ibex.c: the daemon that turns commands read off a multicast channel     *)
(* into orders at the broker (Tws).  The loop is that of module QuoTws.    *)
(*                                                                         *)
(* A command is what ex() makes of a line: its verb, its pair and what     *)
(* comes behind the pair, nothing ("market"), a limit price ("limit"), one *)
(* of 0 ("zero") or something that cannot be read ("bad").  Amounts are    *)
(* whole numbers of either sign: --amount is read with its sign, and only  *)
(* 0 is refused.                                                           *)
(* accs[].tp and .sl are written and never read, accs[].reco is 0 for      *)
(* ever, and the pending bit is not looked at when an order is made.       *)
(*                                                                         *)
(* tws_order asks no questions: it draws an id and places the order in     *)
(* whatever state the session is, and without one it follows a NULL.       *)
(***************************************************************************)
EXTENDS Integers, Sequences, Tws

CONSTANTS
    Pairs,       \* currency pairs
    XPairs,      \* those whose base begins with an X, ounces of a metal
    MaxInstrs,   \* countof(instrs), 64
    Amounts,     \* what --amount may be
    Lot,         \* the 10000 that an ounce is taken to be worth
    None,
    FirstOid,    \* the order id the broker sends to a new session
    Faults,      \* which of "sock" and "conn" may fail
    MaxOid       \* bound: no order when the ids have come that far

ASSUME IbexAssumption ==
    /\ XPairs \subseteq Pairs
    /\ MaxInstrs \in Nat /\ Amounts \subseteq Int \ {0} /\ Lot \in Nat \ {0}
    /\ Sessions \in Nat \ {0} /\ FirstOid \in Nat \ {0} /\ MaxOid \in Nat
    /\ Faults \subseteq {"sock", "conn"}

VARIABLES
    instrs,      \* the table of pairs, ninstrs its length
    pend,        \* the pending bits that are set
    halt_amt,    \* the amount of the command line, never changed
    dflt_amt,    \* the amount of the next order
    loop, ready, polled, timer, twsc,
    told,        \* the broker: has it sent the session its first id
    ord,         \* the order placed in this round
    oids,        \* history: the ids of this session's orders
    early,       \* history: was one placed before the broker sent an id
    halted       \* history: was HALT the last of HALT and RESUME

ibexVars == <<instrs, pend, halt_amt, dflt_amt>>
history == <<told, ord, oids, early, halted>>
vars == <<priv, sess, sockok, next_oid, instrs, pend, halt_amt, dflt_amt, loop, ready,
          polled, timer, twsc, told, ord, oids, early, halted>>

st == tws_state

Init == /\ twsInit
        /\ instrs = <<>> /\ pend = {}
        /\ halt_amt \in Amounts /\ dflt_amt = halt_amt
        /\ loop = "prep" /\ ready = {} /\ polled = 0
        /\ timer = FALSE /\ twsc = FALSE
        /\ told = FALSE /\ ord = None /\ oids = {} /\ early = FALSE /\ halted = FALSE

-----------------------------------------------------------------------------
(* The loop.                                                                *)

PrepCb ==
    /\ loop = "prep"
    /\ timer' = (timer \/ st = "UNK")
    /\ loop' = "wait"
    /\ \/ UNCHANGED twsVars
       \/ "sock" \in Faults /\ st \in {"SUP", "RDY"} /\ SockBreaks
    /\ UNCHANGED <<ibexVars, ready, polled, twsc, history>>

Possible == {"beef"} \cup (IF timer THEN {"reco"} ELSE {})
                     \cup (IF twsc THEN {"twsc"} ELSE {})

Poll(evs) ==
    /\ loop = "wait"
    /\ loop' = "poll"
    /\ ready' = evs
    /\ polled' = priv
    /\ UNCHANGED <<twsVars, ibexVars, timer, twsc, history>>

RoundDone ==
    /\ loop = "poll" /\ ready = {}
    /\ loop' = "prep"
    /\ ord' = None
    /\ UNCHANGED <<twsVars, ibexVars, ready, polled, timer, twsc, told, oids, early,
                   halted>>

Serve(e) == loop = "poll" /\ e \in ready /\ ready' = ready \ {e}

-----------------------------------------------------------------------------
(* beef_cb: one line, given to ex().                                        *)

Commands == [verb : {"LONG", "SHORT", "EMERGCLOSE", "CANCEL"}, pair : Pairs,
             tail : {"market", "limit", "zero", "bad"}]

\* HEARTBEAT, INFO, a line that is not understood, or a pair like EUR/USD.
BeefNothing ==
    /\ Serve("beef")
    /\ UNCHANGED <<twsVars, ibexVars, loop, polled, timer, twsc, history>>

BeefHalt ==
    /\ Serve("beef")
    /\ dflt_amt' = 0
    /\ halted' = TRUE
    /\ UNCHANGED <<twsVars, instrs, pend, halt_amt, loop, polled, timer, twsc, told,
                   ord, oids, early>>

BeefResume ==
    /\ Serve("beef")
    /\ dflt_amt' = halt_amt
    /\ halted' = FALSE
    /\ UNCHANGED <<twsVars, instrs, pend, halt_amt, loop, polled, timer, twsc, told,
                   ord, oids, early>>

\* intern_instr: the place of the pair in the table, which is a new one if
\* there is none yet, and 0 for NOT_A_INSTR if there is no room.
\* Slip: the last place is never looked at.
Known_ButLast(p) == {i \in DOMAIN instrs : instrs[i] = p /\ i < Len(instrs)}

Known(p) == {i \in DOMAIN instrs : instrs[i] = p}

\* Slip: a full table has room for one more.
Full_OneMore(p) == Known(p) = {} /\ Len(instrs) > MaxInstrs

Full(p) == Known(p) = {} /\ Len(instrs) >= MaxInstrs

intern_instr(p) ==
    IF Known(p) # {} THEN CHOOSE i \in Known(p) : \A j \in Known(p) : i <= j
    ELSE Len(instrs) + 1

Interned(p) == IF Known(p) # {} THEN instrs ELSE Append(instrs, p)

BeefFull(c) ==
    /\ Serve("beef")
    /\ Full(c.pair)
    /\ UNCHANGED <<twsVars, ibexVars, loop, polled, timer, twsc, history>>

\* A limit that cannot be read or is not for this verb, or nothing to close:
\* the pair has got its place in the table by then.
Refused(c) == \/ c.tail = "bad"
              \/ c.tail \in {"limit", "zero"} /\ c.verb \in {"EMERGCLOSE", "CANCEL"}
              \/ c.tail = "market" /\ c.verb = "EMERGCLOSE"

BeefRefuse(c) ==
    /\ Serve("beef")
    /\ ~Full(c.pair)
    /\ Refused(c)
    /\ instrs' = Interned(c.pair)
    /\ UNCHANGED <<twsVars, pend, halt_amt, dflt_amt, loop, polled, timer, twsc, history>>

\* The amount of the order, before and after metals are scaled to ounces.
\* Slip: the amount of the configuration.
AmountOf_Configured(c) == CASE c.verb = "LONG" -> halt_amt
                            [] c.verb = "SHORT" -> -halt_amt
                            [] OTHER -> 0

\* Slip: a SHORT is not turned around.
AmountOf_Long(c) == IF c.verb \in {"LONG", "SHORT"} THEN dflt_amt ELSE 0

AmountOf(c) == CASE c.verb = "LONG" -> dflt_amt
                 [] c.verb = "SHORT" -> -dflt_amt
                 [] OTHER -> 0

Scaled(c, pair) ==
    LET amt == AmountOf(c) IN
    IF c.verb \notin {"LONG", "SHORT"} \/ pair \notin XPairs THEN amt
    ELSE IF amt > Lot THEN amt \div Lot
    ELSE 1

\* Slip: the id that was drawn is not counted.
Counted_Not == next_oid

Counted == next_oid + 1

\* o(), tws_order and what ex() notes about the order.  A limit price of 0 is
\* no limit.
BeefOrder(c) ==
    LET ins  == intern_instr(c.pair)
        pair == Interned(c.pair)[ins]
        amt  == Scaled(c, pair)
    IN  /\ Serve("beef")
        /\ ~Full(c.pair) /\ ~Refused(c)
        /\ priv # 0
        /\ next_oid < MaxOid
        /\ instrs' = Interned(c.pair)
        /\ next_oid' = Counted
        /\ ord' = [pair |-> pair, action |-> IF amt >= 0 THEN "BUY" ELSE "SELL",
                   qty |-> IF amt >= 0 THEN amt ELSE -amt,
                   type |-> IF c.tail = "limit" THEN "LMT" ELSE "MKT", cmd |-> c]
        /\ pend' = pend \cup {ins}
        /\ oids' = oids \cup {next_oid + 1}
        /\ early' = (early \/ ~told)
        /\ UNCHANGED <<priv, sess, sockok, halt_amt, dflt_amt, loop, polled, timer, twsc,
                       told, halted>>

\* The same with no session: the process dies in tws_order.
BeefCrash(c) ==
    /\ Serve("beef")
    /\ ~Full(c.pair) /\ ~Refused(c)
    /\ priv = 0
    /\ loop' = "dead"
    /\ instrs' = Interned(c.pair)
    /\ UNCHANGED <<twsVars, pend, halt_amt, dflt_amt, polled, timer, twsc, history>>

-----------------------------------------------------------------------------
(* twsc_cb and reco_cb.                                                     *)

TwscHangup ==
    /\ Serve("twsc")
    /\ twsc' = FALSE
    /\ fini_tws
    /\ UNCHANGED <<ibexVars, loop, polled, timer, history>>

RecoIdle ==
    /\ Serve("reco")
    /\ st \in {"SUP", "RDY"} \/ "conn" \in Faults
    /\ UNCHANGED <<twsVars, ibexVars, loop, polled, timer, twsc, history>>

RecoConnect ==
    /\ Serve("reco")
    /\ st \in {"UNK", "DWN"}
    /\ init_tws
    /\ twsc' = TRUE
    /\ told' = FALSE /\ oids' = {} /\ early' = FALSE
    /\ UNCHANGED <<ibexVars, loop, polled, timer, ord, halted>>

TwscData ==
    /\ Serve("twsc")
    /\ sockok /\ polled = priv
    /\ loop' = "recv"
    /\ UNCHANGED <<twsVars, ibexVars, polled, timer, twsc, history>>

RecvDone ==
    /\ loop = "recv"
    /\ loop' = "poll"
    /\ UNCHANGED twsVars \/ ("sock" \in Faults /\ SockBreaks)
    /\ UNCHANGED <<ibexVars, ready, polled, timer, twsc, history>>

\* The broker sends the first id once, whatever was ordered before it.
RecvValidId ==
    /\ loop = "recv"
    /\ ~told
    /\ told' = TRUE
    /\ nextValidId(FirstOid)
    /\ UNCHANGED <<ibexVars, loop, ready, polled, timer, twsc, ord, oids, early, halted>>

-----------------------------------------------------------------------------

Next == \/ PrepCb
        \/ \E evs \in SUBSET Possible \ {{}} : Poll(evs)
        \/ RoundDone
        \/ BeefNothing \/ BeefHalt \/ BeefResume
        \/ \E c \in Commands : BeefFull(c) \/ BeefRefuse(c) \/ BeefOrder(c) \/ BeefCrash(c)
        \/ TwscHangup \/ RecoIdle \/ RecoConnect
        \/ TwscData \/ RecvDone \/ RecvValidId

Spec == Init /\ [][Next]_vars

-----------------------------------------------------------------------------
(* Properties.                                                              *)

Orders == [pair : Pairs, action : {"BUY", "SELL"}, qty : Nat, type : {"LMT", "MKT"},
           cmd : Commands]

\* Types of the state.  The table does not outgrow its 64 places.
TypeOK ==
    /\ priv \in 0 .. Sessions /\ sess \in 0 .. Sessions /\ polled \in 0 .. Sessions
    /\ sockok \in BOOLEAN /\ timer \in BOOLEAN /\ twsc \in BOOLEAN
    /\ next_oid \in Nat /\ oids \subseteq Nat
    /\ instrs \in Seq(Pairs) /\ Len(instrs) <= MaxInstrs
    /\ pend \subseteq DOMAIN instrs
    /\ halt_amt \in Amounts /\ dflt_amt \in {0, halt_amt}
    /\ loop \in {"prep", "wait", "poll", "recv", "dead"}
    /\ ready \subseteq {"beef", "reco", "twsc"}
    /\ told \in BOOLEAN /\ early \in BOOLEAN /\ halted \in BOOLEAN
    /\ ord \in Orders \cup {None}

\* A pair has one place in the table, and so one pending bit, whichever
\* commands, refused ones included, have put pairs there (intern_instr).
OnePlacePerPair ==
    \A i, j \in DOMAIN instrs : instrs[i] = instrs[j] => i = j

\* The side a command asks for, and when ex() takes the other: with a negative
\* amount for every currency, and for a SHORT of a metal, whose amount is 1 if
\* it is not more than the worth of an ounce, as a negative one never is.
Side(verb) == IF verb = "LONG" THEN "BUY" ELSE "SELL"

Turned(c) == IF c.pair \in XPairs THEN c.verb = "SHORT" ELSE halt_amt < 0

AbsAmount == IF halt_amt < 0 THEN -halt_amt ELSE halt_amt

\* The order is in the pair of the command, though it is made from the place
\* in the table, and on its side but in the two cases of Turned, where it is on
\* the other; a CANCEL moves nothing, and of metals no more than the amount's
\* worth of ounces, or one, are ordered (ex, o, tws_order).
OrderRight ==
    ord # None =>
        LET c == ord.cmd IN
        /\ ord.pair = c.pair
        /\ ord.qty # 0 => (ord.action = Side(c.verb) <=> ~Turned(c))
        /\ c.verb = "CANCEL" => ord.qty = 0
        /\ c.pair \in XPairs => ord.qty * Lot <= AbsAmount \/ ord.qty = 1

\* No two orders of a session have the same id, as long as none was placed
\* before the broker sent its first one.
OidsDiffer ==
    [][\A c \in Commands : BeefOrder(c) /\ ~early' => next_oid + 1 \notin oids]_vars

\* From a HALT to the next RESUME nothing is traded but single ounces.
HaltedIdle == ord # None /\ halted => ord.qty <= (IF ord.pair \in XPairs THEN 1 ELSE 0)

\* tws.cpp:744: "inspect TWS and return non-nil if requests to the tws can be
\* made".  An order is placed only when it says so.
OrdersWhenReady ==
    [][\A c \in Commands : BeefOrder(c) \/ BeefCrash(c) => priv # 0 /\ tws_ready_p]_vars
=============================================================================
