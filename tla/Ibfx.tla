-------------------------------- MODULE Ibfx --------------------------------
(***************************************************************************)
(* ibfx.c: subscribes to the quotes of the currency pairs on its command   *)
(* line each time a session becomes ready, and multicasts a line per price *)
(* as it comes in.  A ticker id leads to its pair through a table, cons,   *)
(* that is never cleared.                                                  *)
(*                                                                         *)
(* What the broker does is kept apart from what the code notes: `tick' is  *)
(* the pair each ticker id of the present session was asked for.           *)
(***************************************************************************)
EXTENDS EvLoop, Wrapper, Sequences, FiniteSets

CONSTANTS Pairs,      \* the arguments, in order
          FirstOids,  \* what a session may begin its ids with
          TableSize,  \* entries of cons, 100
          None

ASSUME IbfxAssumption ==
    /\ Pairs # <<>> /\ Pairs \in Seq({Pairs[k] : k \in DOMAIN Pairs})
    /\ TableSize \in Nat
    /\ FirstOids \subseteq Nat \ {0}
    /\ \A o \in FirstOids : o + Len(Pairs) <= TableSize

VARIABLES cons,    \* the pair of a ticker id
          old_st,  \* the state prep_cb saw last
          todo,    \* the next pair to subscribe to
          tick,
          out      \* the line just sent
ibfxVars == <<cons, old_st, todo, tick, out>>

ibfxInit == /\ cons = [i \in 0 .. TableSize - 1 |-> None]
            /\ old_st = "UNK"
            /\ todo = 0
            /\ tick = [i \in {} |-> None]
            /\ out = None

-----------------------------------------------------------------------------
(* prep_cb: look at the state, subscribe, send.                             *)

\* Slip: a session that is being set up is not noted in old_st.
ibfx_prep_cb_Forgetful ==
    /\ loop = "prep"
    /\ timer' = (timer \/ st = "UNK")
    /\ old_st' = IF st = "SUP" THEN old_st ELSE st
    /\ todo' = 1
    /\ loop' = CASE st \in {"UNK", "DWN"}               -> "wait"
                 [] st = "RDY" /\ old_st # "RDY"        -> "subs"
                 [] OTHER                               -> "send"
    /\ UNCHANGED <<twsVars, prog, ready, polled, twsc, done, cons, tick, out>>

\* The timer is started the first time, and runs on for good.
ibfx_prep_cb ==
    /\ loop = "prep"
    /\ timer' = (timer \/ st = "UNK")
    /\ old_st' = st
    /\ todo' = 1
    /\ loop' = CASE st \in {"UNK", "DWN"}               -> "wait"
                 [] st = "RDY" /\ old_st # "RDY"        -> "subs"
                 [] OTHER                               -> "send"
    /\ UNCHANGED <<twsVars, prog, ready, polled, twsc, done, cons, tick, out>>

\* subs(): a contract from the two currencies, an id from the session.
\* Slip: the table is indexed by the argument's number.
subs_Slip ==
    /\ loop = "subs"
    /\ DrawOid
    /\ cons' = [cons EXCEPT ![todo] = Pairs[todo]]
    /\ tick' = [i \in DOMAIN tick \cup {next_oid} |->
                   IF i = next_oid THEN Pairs[todo] ELSE tick[i]]
    /\ todo' = todo + 1
    /\ loop' = IF todo = Len(Pairs) THEN "send" ELSE "subs"
    /\ UNCHANGED <<prog, ready, polled, timer, twsc, done, old_st, out>>

subs ==
    /\ loop = "subs"
    /\ DrawOid
    /\ cons' = [cons EXCEPT ![next_oid] = Pairs[todo]]
    /\ tick' = [i \in DOMAIN tick \cup {next_oid} |->
                   IF i = next_oid THEN Pairs[todo] ELSE tick[i]]
    /\ todo' = todo + 1
    /\ loop' = IF todo = Len(Pairs) THEN "send" ELSE "subs"
    /\ UNCHANGED <<prog, ready, polled, timer, twsc, done, old_st, out>>

ibfx_send ==
    /\ loop = "send"
    /\ loop' = "wait"
    /\ UNCHANGED twsVars \/ ("sock" \in Faults /\ SockBreaks)
    /\ UNCHANGED <<prog, ready, polled, timer, twsc, done, ibfxVars>>

-----------------------------------------------------------------------------
(* twsc_cb, pre_cb and infra_cb.                                            *)

\* The ids of a session go with it.
ibfx_hangup == Hangup /\ tick' = [i \in {} |-> None] /\ UNCHANGED <<cons, old_st, todo, out>>

\* route_quote(): a line with the pair and a bid, an ask, or neither.
route_quote(i, tt) == [pair |-> cons[i],
                       side |-> CASE tt = 1 -> "bid" [] tt = 2 -> "ask" [] OTHER -> "none"]

\* A message m that has to do with ticker id i and tick type tt.  `of' is what
\* the broker meant by it.
pre_cb(m, i, tt) ==
    /\ Handled
    /\ out' = IF Callback(m) = <<"pre", "PRICE">>
              THEN [line |-> route_quote(i, tt), msg |-> m, inst |-> tick[i], tt |-> tt]
              ELSE None
    /\ UNCHANGED <<cons, old_st, todo, tick>>

\* A message for one of the other hooks, or none: infra_cb logs it.
infra_cb(m) ==
    /\ Callback(m)[1] # "pre"
    /\ Handled
    /\ out' = None
    /\ UNCHANGED <<cons, old_st, todo, tick>>

ibfx_recv ==
    \/ Data /\ UNCHANGED ibfxVars
    \/ \E oid \in FirstOids : RecvValidId(oid) /\ UNCHANGED ibfxVars
    \/ \E m \in DOMAIN PreTicks \cup DOMAIN PreRest, i \in DOMAIN tick, tt \in {1, 2, 4} : pre_cb(m, i, tt)
    \/ \E m \in Messages : infra_cb(m)
    \/ RecvDone /\ out' = None /\ UNCHANGED <<cons, old_st, todo, tick>>

-----------------------------------------------------------------------------
(* reco_cb, which fires every two seconds, with a session or without.       *)

ibfx_reco_idle ==
    /\ Serve("reco")
    /\ st \in {"SUP", "RDY"}
    /\ UNCHANGED <<twsVars, prog, loop, polled, timer, twsc, done, ibfxVars>>

ibfx_reco_fails == st \in {"UNK", "DWN"} /\ NoSock /\ UNCHANGED ibfxVars

ibfx_reco ==
    /\ st \in {"UNK", "DWN"}
    /\ Connect(timer)
    /\ tick' = [i \in {} |-> None]
    /\ UNCHANGED <<cons, old_st, todo, out>>

ibfxNext ==
    \/ ibfx_prep_cb \/ subs \/ ibfx_send
    \/ ibfx_hangup \/ ibfx_recv
    \/ ibfx_reco_idle \/ ibfx_reco_fails \/ ibfx_reco
    \/ (Unloop \/ RoundDone \/ Leave) /\ UNCHANGED ibfxVars
    \/ \E evs \in SUBSET Possible : Poll(evs) /\ UNCHANGED ibfxVars

-----------------------------------------------------------------------------

\* A line goes out for a price only, with the pair its ticker id was asked for
\* in the session it came from, on the side it was quoted on, though the table
\* still holds the ids of the sessions before.
QuotesOfPairs ==
    out # None =>
        /\ out.msg = "tickPrice"
        /\ out.line.pair = out.inst
        /\ out.line.side = "bid" <=> out.tt = 1
        /\ out.line.side = "ask" <=> out.tt = 2

\* Whenever the loop waits with a session that is ready, each pair has been
\* asked for in that session, as often as it was named on the command line:
\* prep_cb sees every session come up, however soon after the last one it does.
PairsSubscribed ==
    prog = "ibfx" /\ loop = "wait" /\ st = "RDY" =>
        \A p \in {Pairs[k] : k \in DOMAIN Pairs} :
            Cardinality({i \in DOMAIN tick : tick[i] = p})
                = Cardinality({k \in DOMAIN Pairs : Pairs[k] = p})
=============================================================================
