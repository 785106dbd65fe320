------------------------------- MODULE QuoTws -------------------------------
(***************************************************************************)
(* quo-tws.c: the daemon that subscribes to quotes at the broker (Tws),    *)
(* keeps its subscriptions (Sub) and publishes the quotes (Quo) as ticks   *)
(* under its own index, announcing what the index stands for.              *)
(*                                                                         *)
(* One thread runs libev's loop: prep_cb before every poll, then the       *)
(* callbacks of the events the poll has found, in any order.  `loop' says  *)
(* where in that round the program is.  The callbacks that touch neither   *)
(* the session nor the queues (beef_cb, sigusr1_cb, dccp_cb) are one event *)
(* that only wakes the loop up.                                            *)
(***************************************************************************)
EXTENDS Naturals, Sequences, Tws, Sub

CONSTANTS
    Reqs,        \* the requests of the subscription files, in order
    UserNick,    \* request -> did the user give it a nick
    ReqNick,     \* request -> its nick, the user's or tws_cont_nick's
    Matches,     \* request -> the instruments the broker finds for it
    InstNick,    \* instrument -> tws_sdef_nick of its definition
    None,
    FirstOid,    \* the first order id the broker hands out in a session
    Junk,        \* what the uninitialised s.idx of __sub_sdef may hold
    Beef,        \* is there a channel to publish on (ctx->beef)
    Faults,      \* which of "sock", "file" and "conn" may fail
    MaxQq,       \* bound: quotes read before they are flushed
    MaxSub       \* bound: subscriptions left on the queue by a session that
                 \* was not closed, beyond which "conn" fails

ASSUME QuoTwsAssumption ==
    /\ \A k \in DOMAIN Reqs : /\ UserNick[Reqs[k]] \in BOOLEAN
                             /\ ReqNick[Reqs[k]] \in Nick
                             /\ Matches[Reqs[k]] \subseteq Sdef
    /\ \A x \in Sdef : InstNick[x] \in Nick
    /\ NoSdef \notin Sdef
    /\ Sessions \in Nat \ {0, 1}
    /\ Junk \subseteq Nat
    /\ Beef \in BOOLEAN
    /\ Faults \subseteq {"sock", "file", "conn"}
    /\ MaxQq \in Nat /\ MaxSub \in Nat
    /\ FirstOid \in Nat \ {0}
    /\ Reqs \in Seq(DOMAIN Matches) /\ Len(Reqs) > 0

\* No two nicks are alike by chance: neither those of two requests nor those
\* of two instruments, and a request may have the nick of an instrument if it
\* finds no other.
NicksApart ==
    /\ \A i, j \in DOMAIN Reqs : ReqNick[Reqs[i]] = ReqNick[Reqs[j]] => i = j
    /\ \A x, y \in Sdef : InstNick[x] = InstNick[y] => x = y
    /\ \A k \in DOMAIN Reqs : \A x \in Sdef :
           ReqNick[Reqs[k]] = InstNick[x] => Matches[Reqs[k]] \subseteq {x}

VARIABLES
    qq,          \* the quote queue: <<ticker id, instrument, session>> each
    loop,        \* where in the round of the event loop
    todo,        \* init_subs: the request that is next
    ready,       \* the events of this round still to be served
    polled,      \* the session whose socket this round's poll has looked at
    old_st,      \* prep_cb's static
    timer,       \* is the reconnect timer running (reco->data != NULL)
    twsc,        \* the socket watcher: is it active
    adv,         \* what the consumers were told last: uidx -> nick
    out,         \* the tick published last in this flush
    asked, tick, \* the broker: answers due, <<sreq, instrument>>, and the
                 \* instrument of each ticker id subscribed
    mixed        \* history: are there subscriptions on the queue that an
                 \* earlier session has left there

broker == <<asked, tick, mixed>>
vars == <<priv, sess, sockok, next_oid, sbuf, norm, uidx, qq, loop, todo, ready,
          polled, old_st, timer, twsc, adv, out, asked, tick, mixed>>

st == tws_state

Init == /\ twsInit
        /\ subInit
        /\ qq = <<>>
        /\ loop = "prep" /\ todo = 0
        /\ ready = {} /\ polled = 0
        /\ old_st = "UNK"
        /\ timer = FALSE
        /\ twsc = FALSE
        /\ adv = [u \in {} |-> None]
        /\ out = None
        /\ asked = {}
        /\ tick = [i \in {} |-> None]
        /\ mixed = FALSE

-----------------------------------------------------------------------------
(* prep_cb, in steps: look at the state, subscribe, send, flush.            *)

\* Slip: on a change of state only.
TimerDue_EdgeOnly == st = "UNK" /\ old_st # "UNK"

TimerDue == st = "UNK"

\* Slip: whenever the session is found ready.
JustReady_EveryTime == st = "RDY"

JustReady == st = "RDY" /\ old_st # "RDY"

\* Slip: a session that is being set up is not noted in old_st.
PrepCb_Forgetful ==
    /\ loop = "prep"
    /\ old_st' = (IF st = "SUP" THEN old_st ELSE st)
    /\ timer' = (timer \/ TimerDue)
    /\ loop' = IF st \in {"UNK", "DWN"} THEN "wait"
               ELSE IF JustReady THEN "subs"
               ELSE "send"
    /\ todo' = 1
    /\ UNCHANGED <<twsVars, subVars, qq, ready, polled, twsc, adv, out, broker>>

PrepCb ==
    /\ loop = "prep"
    /\ old_st' = st
    /\ timer' = (timer \/ TimerDue)
    /\ loop' = IF st \in {"UNK", "DWN"} THEN "wait"
               ELSE IF JustReady THEN "subs"
               ELSE "send"
    /\ todo' = 1
    /\ UNCHANGED <<twsVars, subVars, qq, ready, polled, twsc, adv, out, broker>>

\* init_subs: no file can be read, nothing is subscribed.
InitSubsFail ==
    /\ loop = "subs" /\ todo = 1
    /\ "file" \in Faults
    /\ loop' = "send"
    /\ UNCHANGED <<twsVars, subVars, qq, todo, ready, polled, old_st, timer, twsc,
                   adv, out, broker>>

\* __sub_sdef for one request; s.idx is not initialised.
SubSdef ==
    LET r == Reqs[todo] IN
    /\ loop = "subs"
    /\ DrawOid
    /\ \E j \in Junk :
           subq_add([idx |-> j, uidx |-> 0, sreq |-> next_oid,
                        last_dsm |-> IF UserNick[r] THEN "user" ELSE "auto",
                        sdef |-> NoSdef, nick |-> ReqNick[r]])
    /\ asked' = asked \cup {<<next_oid, x>> : x \in Matches[r]}
    /\ todo' = todo + 1
    /\ loop' = IF todo = Len(Reqs) THEN "send" ELSE "subs"
    /\ UNCHANGED <<qq, ready, polled, old_st, timer, twsc, adv, out, tick,
                   mixed>>

\* Slip: flushes only when the session is ready.
TwsSend_ReadyOnly ==
    /\ loop = "send"
    /\ loop' = IF Beef /\ st = "RDY" THEN "flush" ELSE "wait"
    /\ \/ UNCHANGED twsVars
       \/ "sock" \in Faults /\ SockBreaks
    /\ UNCHANGED <<subVars, qq, todo, ready, polled, old_st, timer, twsc, adv, out,
                   broker>>

\* tws_send; what it returns is not looked at.
TwsSend ==
    /\ loop = "send"
    /\ loop' = IF Beef THEN "flush" ELSE "wait"
    /\ \/ UNCHANGED twsVars
       \/ "sock" \in Faults /\ SockBreaks
    /\ UNCHANGED <<subVars, qq, todo, ready, polled, old_st, timer, twsc, adv, out,
                   broker>>

\* qq_flush_cb for a quote whose ticker id is on no subscription.
FlushDrop ==
    /\ loop = "flush" /\ qq # <<>>
    /\ find(sbuf, "idx", Head(qq)[1]) = 0
    /\ qq' = Tail(qq)
    /\ out' = None
    /\ UNCHANGED <<twsVars, subVars, loop, todo, ready, polled, old_st, timer, twsc,
                   adv, broker>>

\* qq_flush_cb for the others: announce the index if that was not done in the
\* last BRAG_INTV seconds (it is always due after 0 and 1), then publish.
\* Slip: a nick set by the user, mark 1, is taken for a time.
BragDue_AutoOnly(s) == IF s.last_dsm = "auto" THEN {TRUE} ELSE BOOLEAN

BragDue(s) == IF s.last_dsm = "bragged" THEN BOOLEAN ELSE {TRUE}

Told(u) == IF u \in DOMAIN adv THEN adv[u] ELSE None

Announce(s) == adv' = [u \in DOMAIN adv \cup {s.uidx} |->
                          IF u = s.uidx THEN s.nick ELSE adv[u]]

FlushPublish ==
    LET i == find(sbuf, "idx", Head(qq)[1])
        s == sbuf[i]
    IN  /\ loop = "flush" /\ qq # <<>>
        /\ i # 0
        /\ \E due \in BragDue(s) :
               /\ IF due
                  THEN Stamp(i) /\ Announce(s)
                  ELSE UNCHANGED <<subVars, adv>>
               /\ out' = [uidx |-> s.uidx, nick |-> s.nick,
                          told |-> IF due THEN s.nick ELSE Told(s.uidx),
                          idx |-> Head(qq)[1], inst |-> Head(qq)[2], sess |-> Head(qq)[3]]
        /\ qq' = Tail(qq)
        /\ UNCHANGED <<twsVars, loop, todo, ready, polled, old_st, timer, twsc, broker>>

\* websvc_secdef: the definition of an index, NoSdef if nothing is sent.
served(u) == LET i == find(sbuf, "uidx", u) IN IF i = 0 THEN NoSdef ELSE sbuf[i].sdef

FlushDone ==
    /\ loop = "flush" /\ qq = <<>>
    /\ loop' = "wait"
    /\ out' = None
    /\ UNCHANGED <<twsVars, subVars, qq, todo, ready, polled, old_st, timer, twsc,
                   adv, broker>>

-----------------------------------------------------------------------------
(* libev: the poll, and the end of a round.                                 *)

Possible == {"hup", "other"} \cup (IF timer THEN {"reco"} ELSE {})
                             \cup (IF twsc THEN {"twsc"} ELSE {})

Poll(evs) ==
    /\ loop = "wait"
    /\ loop' = "poll"
    /\ ready' = evs
    /\ polled' = priv
    /\ UNCHANGED <<twsVars, subVars, qq, todo, old_st, timer, twsc, adv, out, broker>>

RoundDone ==
    /\ loop = "poll" /\ ready = {}
    /\ loop' = "prep"
    /\ UNCHANGED <<twsVars, subVars, qq, todo, ready, polled, old_st, timer, twsc,
                   adv, out, broker>>

Serve(e) == loop = "poll" /\ e \in ready /\ ready' = ready \ {e}

OtherCb ==
    /\ Serve("other")
    /\ UNCHANGED <<twsVars, subVars, qq, loop, todo, polled, old_st, timer, twsc, adv,
                   out, broker>>

-----------------------------------------------------------------------------
(* twsc_cb, sighup_cb and reco_cb.                                          *)

\* Slip: the subscriptions of the session are not flushed.
Close_KeepsSubs ==
    /\ twsc' = FALSE
    /\ IF twsc THEN fini_tws /\ UNCHANGED subVars
               ELSE UNCHANGED <<twsVars, subVars>>
    /\ asked' = {}
    /\ tick' = [i \in {} |-> None]
    /\ mixed' = (mixed /\ ~twsc)

\* Slip: the registry goes with the session.
Close_Forgets ==
    /\ twsc' = FALSE
    /\ IF twsc THEN fini_tws /\ sbuf' = <<>> /\ norm' = <<>> /\ uidx' = 0
               ELSE UNCHANGED <<twsVars, subVars>>
    /\ asked' = {}
    /\ tick' = [i \in {} |-> None]
    /\ mixed' = (mixed /\ ~twsc)

\* twsc_conn_clos and ev_io_shut, if a session was ever put on the watcher;
\* stopping the watcher drops an event of it that has not been served.
Close ==
    /\ twsc' = FALSE
    /\ IF twsc THEN fini_tws /\ subq_flush
               ELSE UNCHANGED <<twsVars, subVars>>
    /\ asked' = {}
    /\ tick' = [i \in {} |-> None]
    /\ mixed' = (mixed /\ ~twsc)

\* The peer has hung up, or there is nothing to read on what is now a
\* different socket, or the library has closed it.
TwscHangup ==
    /\ Serve("twsc")
    /\ Close
    /\ UNCHANGED <<qq, loop, todo, polled, old_st, timer, adv, out>>

\* SIGHUP acts as though the daemon was going down.
SighupCb ==
    /\ loop = "poll" /\ "hup" \in ready
    /\ ready' = ready \ {"hup", "twsc"}
    /\ Close
    /\ UNCHANGED <<qq, loop, todo, polled, old_st, timer, adv, out>>

\* The connection is up, or the socket cannot be made.
RecoIdle ==
    /\ Serve("reco")
    /\ st \in {"SUP", "RDY"} \/ "conn" \in Faults
    /\ UNCHANGED <<twsVars, subVars, qq, loop, todo, polled, old_st, timer, twsc, adv,
                   out, broker>>

\* Put a new session on the watcher.  The subscriptions are not touched.  From
\* the down state the watcher is active: it is set up over itself and the old
\* descriptor is never closed; what libev makes of that is not modelled.
RecoConnect ==
    /\ Serve("reco")
    /\ st \in {"UNK", "DWN"}
    /\ Len(sbuf) <= MaxSub
    /\ init_tws
    /\ twsc' = TRUE
    /\ asked' = {}
    /\ tick' = [i \in {} |-> None]
    /\ mixed' = (st = "DWN" /\ sbuf # <<>>)
    /\ UNCHANGED <<subVars, qq, loop, todo, polled, old_st, timer, adv, out>>

-----------------------------------------------------------------------------
(* twsc_cb with something to read: tws_recv calls back for each message.    *)

TwscData ==
    /\ Serve("twsc")
    /\ sockok /\ polled = priv
    /\ loop' = "recv"
    /\ UNCHANGED <<twsVars, subVars, qq, todo, polled, old_st, timer, twsc, adv, out,
                   broker>>

RecvDone ==
    /\ loop = "recv"
    /\ loop' = "poll"
    /\ \/ UNCHANGED twsVars
       \/ "sock" \in Faults /\ SockBreaks
    /\ UNCHANGED <<subVars, qq, todo, ready, polled, old_st, timer, twsc, adv, out,
                   broker>>

RecvValidId ==
    /\ loop = "recv"
    /\ next_oid = 0
    /\ nextValidId(FirstOid)
    /\ UNCHANGED <<subVars, qq, loop, todo, ready, polled, old_st, timer, twsc, adv, out,
                   broker>>

\* pre_cb, PRE_PRICE and PRE_SIZE: quoq_add.
RecvTick(i) ==
    /\ loop = "recv"
    /\ Len(qq) < MaxQq
    /\ qq' = Append(qq, <<i, tick[i], priv>>)
    /\ UNCHANGED <<twsVars, subVars, loop, todo, ready, polled, old_st, timer, twsc,
                   adv, out, broker>>

\* pre_cb, PRE_CONT_DTL: subscribe to the instrument found, whatever happens
\* next, and put it on the subscription that asked, or on one of its own if
\* that one has a definition already.
RecvContDtl(sreq, x) ==
    LET i == find(sbuf, "sreq", sreq) IN
    /\ loop = "recv"
    /\ DrawOid
    /\ tick' = [j \in DOMAIN tick \cup {next_oid} |-> IF j = next_oid THEN x ELSE tick[j]]
    /\ asked' = asked \ {<<sreq, x>>}
    /\ IF i = 0 \/ (i # 0 /\ sbuf[i].sdef # NoSdef)
       THEN subq_add([idx |-> next_oid, uidx |-> 0, sreq |-> sreq, last_dsm |-> "auto",
                         sdef |-> x, nick |-> InstNick[x]])
       ELSE Resolve(i, next_oid, x,
                       IF sbuf[i].last_dsm = "auto" THEN InstNick[x] ELSE sbuf[i].nick)
    /\ UNCHANGED <<qq, loop, todo, ready, polled, old_st, timer, twsc, adv, out, mixed>>

-----------------------------------------------------------------------------

Next == \/ PrepCb \/ InitSubsFail \/ SubSdef \/ TwsSend
        \/ FlushDrop \/ FlushPublish \/ FlushDone
        \/ \E evs \in SUBSET Possible \ {{}} : Poll(evs)
        \/ RoundDone \/ OtherCb
        \/ TwscHangup \/ SighupCb \/ RecoIdle \/ RecoConnect
        \/ TwscData \/ RecvDone \/ RecvValidId
        \/ \E i \in DOMAIN tick : RecvTick(i)
        \/ \E a \in asked : RecvContDtl(a[1], a[2])

Spec == Init /\ [][Next]_vars

\* The process runs, and the timer goes off every two seconds once started,
\* so that again and again a poll finds it expired.
TimerFires == \E evs \in SUBSET Possible : "reco" \in evs /\ Poll(evs)

LiveSpec == Spec /\ WF_vars(Next) /\ SF_vars(TimerFires)

-----------------------------------------------------------------------------
(* Properties.                                                              *)

\* Types of the state, the subscription queue's aside (SubSpec).
TypeOK ==
    /\ priv \in 0 .. Sessions /\ sess \in 0 .. Sessions /\ polled \in 0 .. Sessions
    /\ sockok \in BOOLEAN /\ timer \in BOOLEAN /\ twsc \in BOOLEAN
    /\ next_oid \in Nat
    /\ SubTypeOK
    /\ qq \in Seq(Nat \X Sdef \X (0 .. Sessions))
    /\ loop \in {"prep", "subs", "send", "flush", "wait", "poll", "recv"}
    /\ todo \in 0 .. (Len(Reqs) + 1)
    /\ ready \subseteq {"hup", "other", "reco", "twsc"}
    /\ old_st \in {"UNK", "SUP", "RDY", "DWN"}
    /\ asked \subseteq Nat \X Sdef
    /\ \A i \in DOMAIN tick : i \in Nat /\ tick[i] \in Sdef
    /\ \A u \in DOMAIN adv : u \in Nat /\ adv[u] \in Nick

\* A request that waits for its answer has, by chance, the ticker id for its idx.
Leftover(t) == \E i \in DOMAIN sbuf : sbuf[i].idx = t /\ sbuf[i].sdef = NoSdef

RightInstrument ==
    /\ \E i \in DOMAIN sbuf : sbuf[i].uidx = out.uidx /\ sbuf[i].sdef = out.inst
    /\ served(out.uidx) \in {NoSdef, out.inst}

RightSession    == out.sess = priv

\* A tick is published under the index of the instrument it is of: a
\* subscription of that index has the definition of the quote, and websvc
\* serves no other for it (nothing as long as the first subscription of the
\* index waits for its answer).  And it is published in the session it came in:
\* a quote left on the queue is not published in the next one, where its ticker
\* id may mean another instrument.  Two cases are known to go wrong and left
\* out by name: a session set up from the down state, on top of the
\* subscriptions of the one before (mixed, until the next hang-up), and a
\* ticker id that lies in the uninitialised idx of a request without an answer
\* (Leftover), under whose index the quotes may go until the answer comes.
RoutedRight ==
    out # None /\ ~mixed /\ ~Leftover(out.idx) => RightInstrument /\ RightSession

\* No tick goes out under an index before the consumers have been told which
\* nick the index stands for, and the nick has not changed since (as long as no
\* leftover is a ticker id: then a request is announced before its answer).
Announced == out # None => out.told = out.nick

\* However the session comes and goes, and however often prep_cb looks at it,
\* a session asks for each request once: no more definition requests are on
\* the queue than the files have, and the state keeps its types.
SubscribedOnce ==
    /\ TypeOK
    /\ \A s \in {sbuf[i].sreq : i \in DOMAIN sbuf} : s < FirstOid + Len(Reqs)

\* An index is only ever announced with the nick it was given to or with the
\* nick of an instrument that request found, in this session or an earlier.
NicksOf(n) == {n} \cup UNION {{InstNick[x] : x \in Matches[Reqs[k]]} :
                              k \in {j \in DOMAIN Reqs : ReqNick[Reqs[j]] = n}}

IndexKeepsRequest ==
    \A u \in DOMAIN adv : \E i \in DOMAIN norm :
        norm[i].uidx = u /\ adv[u] \in NicksOf(norm[i].nick)

\* An index was registered under the made-up nick of a request that finds
\* several instruments: the first to be answered gives the index its nick.
Ambiguous(u) ==
    \E i \in DOMAIN norm, k \in DOMAIN Reqs :
        /\ norm[i].uidx = u /\ norm[i].nick = ReqNick[Reqs[k]]
        /\ ~UserNick[Reqs[k]]
        /\ \E x, y \in Matches[Reqs[k]] : x # y

\* A subscription of the index has been announced since the last hang-up.
Heard(u) == \E i \in DOMAIN sbuf : sbuf[i].uidx = u /\ sbuf[i].last_dsm = "bragged"

\* What consumers were told of an index is not taken back: over all sessions an
\* index is announced with one nick, though a definition overwrites the nick of
\* the subscription it is put on and each session gives the indices out again.
\* One case is left out by name: the index of a request with a made-up nick
\* that finds several instruments (Ambiguous) may be announced with the nick of
\* another of them, but only after a hang-up (pre_cb, subq_add, qq_flush_cb).
\* As in Announced, no leftover is to be a ticker id.
IndexKeepsNick ==
    [][\A u \in DOMAIN adv : adv'[u] # adv[u] => Ambiguous(u) /\ ~Heard(u)]_vars

\* A session that is lost is set up anew, however often it has been lost.
Reconnects == st \in {"UNK", "DWN"} ~> st \in {"SUP", "RDY"}

\* A session that is ready gets its subscriptions or is lost on the way:
\* prep_cb does not miss the moment.
Requested(k) == \E i \in DOMAIN sbuf : sbuf[i].sreq = FirstOid + k - 1

ReadyGetsSubscribed ==
    st = "RDY" ~> st # "RDY" \/ \A k \in DOMAIN Reqs : Requested(k)

\* Quotes do not stay on the queue when sessions are lost in between, as long
\* as prep_cb finds one again and again (a HUP in every round may prevent it).
FoundUp == loop = "prep" /\ st \in {"SUP", "RDY"}

QuotesDrained == []<>FoundUp => (qq # <<>> ~> qq = <<>>)

\* quo-tws.c:357, when a definition arrives: "there should be one on the
\* queue", a subscription that waits for this answer.
FirstAnswer(sreq) ==
    \E k \in DOMAIN Reqs : {a \in asked : a[1] = sreq} = {sreq} \X Matches[Reqs[k]]

OneOnTheQueue ==
    [][\A a \in asked :
          RecvContDtl(a[1], a[2]) /\ FirstAnswer(a[1]) =>
              LET i == find(sbuf, "sreq", a[1]) IN
              i # 0 /\ sbuf[i].sdef = NoSdef]_vars
=============================================================================
