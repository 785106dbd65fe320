-------------------------------- MODULE PfTws --------------------------------
(***************************************************************************)
(* pf-tws.c: the daemon that subscribes to the accounts under management,  *)
(* one after the other, and publishes their positions.  A position is      *)
(* queued (pfa.c) with a pointer to the account's name in ctx->ac_names    *)
(* and the symbol of its instrument (Intern), and both are read when the   *)
(* queue is flushed.                                                       *)
(*                                                                         *)
(* The loop is that of module QuoTws.  A pointer into ac_names is the      *)
(* place of the name and whether the memory is still there: it is freed    *)
(* when a session lists the accounts anew.                                 *)
(*                                                                         *)
(* The broker is modelled from what the code expects of it: it lists the   *)
(* accounts once per session, each name of several with a comma after it,  *)
(* and answers the subscription made last with updates and one end.        *)
(***************************************************************************)
EXTENDS Naturals, Sequences, Tws, Intern

CONSTANTS
    Accounts,    \* the accounts there may be, in the order listed
    Listings,    \* how many of them a session may find under management
    None,
    Faults,      \* which of "sock" and "conn" may fail
    MaxPq,       \* bound: updates read before they are flushed
    MaxSubd      \* bound: subscriptions of a session

Names == {Accounts[k] : k \in DOMAIN Accounts}

\* With two names a session is told apart from the one before it.
ASSUME PfTwsAssumption ==
    /\ Accounts \in Seq(Names) /\ None \notin Names
    /\ Listings \subseteq 1 .. Len(Accounts) /\ Listings # {}
    /\ \A i, j \in DOMAIN Accounts : Accounts[i] = Accounts[j] => i = j
    /\ Sessions \in Nat \ {0, 1}
    /\ Faults \subseteq {"sock", "conn"}
    /\ MaxPq \in Nat /\ MaxSubd \in Nat

VARIABLES
    nac_names,   \* ctx->nac_names
    nex,         \* post_cb's static: a place in ac_names (0 for NULL), live or not
    pq,          \* the positions queue
    loop, ready, polled, old_st, timer, twsc,
    out,         \* the position published last in this flush
    listed,      \* the broker: has it listed the accounts
    cur, owed,   \* ... the account it reports on, is its end still to come
    subd,        \* history: what this session has subscribed to, in order
    fresh        \* history: was nex NULL when this session began

acVars == <<nac_names, nex>>
evVars == <<ready, polled, old_st, timer, twsc>>
broker == <<listed, cur, owed, subd, fresh>>
vars == <<priv, sess, sockok, next_oid, pos_names, pos_names_alz, given, nac_names, nex,
          pq, loop, ready, polled, old_st, timer, twsc, out, listed, cur, owed, subd,
          fresh>>

st == tws_state

Init == /\ twsInit
        /\ internInit
        /\ nac_names = 0
        /\ nex = [at |-> 0, live |-> FALSE]
        /\ pq = <<>>
        /\ loop = "prep" /\ ready = {} /\ polled = 0
        /\ old_st = "UNK" /\ timer = FALSE /\ twsc = FALSE
        /\ out = None
        /\ listed = FALSE /\ cur = None /\ owed = FALSE
        /\ subd = <<>> /\ fresh = TRUE

-----------------------------------------------------------------------------
(* prep_cb: look at the state, subscribe, send, and flush the positions.    *)

\* tws_sub_ac.  No name, TWS_ALL_ACCOUNTS, stands for the first account.
tws_sub_ac(a) == /\ cur' = a
                 /\ owed' = TRUE
                 /\ subd' = Append(subd, a)
                 /\ UNCHANGED <<listed, fresh>>

\* Slip: old_st is left alone while there is no session to talk to.
Noted_Sticky == IF st = "RDY" THEN st ELSE old_st

Noted == st

\* Slip: the queue is flushed in the ready state only.
Then_ReadyFlushes == IF st = "RDY" THEN "flush" ELSE "wait"

Then == IF st \in {"SUP", "RDY"} THEN "flush" ELSE "wait"

PrepCb ==
    /\ loop = "prep"
    /\ old_st' = Noted
    /\ timer' = (timer \/ st = "UNK")
    /\ loop' = Then
    /\ IF st = "RDY" /\ old_st # "RDY"
       THEN tws_sub_ac(Accounts[1])
       ELSE UNCHANGED broker
    /\ \/ UNCHANGED twsVars
       \/ "sock" \in Faults /\ st \in {"SUP", "RDY"} /\ SockBreaks
    /\ UNCHANGED <<symVars, acVars, pq, ready, polled, twsc, out>>

\* pfa.c: the queue's two operations, a turn of the loop in the second case.
pfaq_add(p) == pq' = Append(pq, p)

pfaq_pop == pq # <<>> /\ pq' = Tail(pq)

\* pfaq_flush: pq_flush_cb for one position.
FlushOne ==
    /\ loop = "flush"
    /\ pfaq_pop
    /\ out' = [pos |-> Head(pq), name |-> find_intern(Head(pq).sym)]
    /\ UNCHANGED <<twsVars, symVars, acVars, loop, evVars, broker>>

FlushDone ==
    /\ loop = "flush" /\ pq = <<>>
    /\ loop' = "wait"
    /\ out' = None
    /\ UNCHANGED <<twsVars, symVars, acVars, pq, evVars, broker>>

-----------------------------------------------------------------------------
(* libev: the poll, and the end of a round.                                 *)

Possible == {"other"} \cup (IF timer THEN {"reco"} ELSE {})
                      \cup (IF twsc THEN {"twsc"} ELSE {})

Poll(evs) ==
    /\ loop = "wait"
    /\ loop' = "poll"
    /\ ready' = evs
    /\ polled' = priv
    /\ UNCHANGED <<twsVars, symVars, acVars, pq, old_st, timer, twsc, out, broker>>

RoundDone ==
    /\ loop = "poll" /\ ready = {}
    /\ loop' = "prep"
    /\ UNCHANGED <<twsVars, symVars, acVars, pq, evVars, out, broker>>

Serve(e) == loop = "poll" /\ e \in ready /\ ready' = ready \ {e}

\* beef_cb reads and drops what comes in on the channel.
OtherCb ==
    /\ Serve("other")
    /\ UNCHANGED <<twsVars, symVars, acVars, pq, loop, polled, old_st, timer, twsc, out,
                   broker>>

-----------------------------------------------------------------------------
(* twsc_cb and reco_cb.                                                     *)

\* The peer has hung up, or there is nothing to read on what is now a
\* different socket, or the library has closed it.  The positions stay.
TwscHangup ==
    /\ Serve("twsc")
    /\ twsc' = FALSE
    /\ fini_tws
    /\ cur' = None /\ owed' = FALSE
    /\ UNCHANGED <<symVars, acVars, pq, loop, polled, old_st, timer, out, listed, subd,
                   fresh>>

RecoIdle ==
    /\ Serve("reco")
    /\ st \in {"SUP", "RDY"} \/ "conn" \in Faults
    /\ UNCHANGED <<twsVars, symVars, acVars, pq, loop, polled, old_st, timer, twsc, out,
                   broker>>

RecoConnect ==
    /\ Serve("reco")
    /\ st \in {"UNK", "DWN"}
    /\ init_tws
    /\ twsc' = TRUE
    /\ listed' = FALSE /\ cur' = None /\ owed' = FALSE /\ subd' = <<>>
    /\ fresh' = (nex.at = 0)
    /\ UNCHANGED <<symVars, acVars, pq, loop, polled, old_st, timer, out>>

TwscData ==
    /\ Serve("twsc")
    /\ sockok /\ polled = priv
    /\ loop' = "recv"
    /\ UNCHANGED <<twsVars, symVars, acVars, pq, polled, old_st, timer, twsc, out,
                   broker>>

RecvDone ==
    /\ loop = "recv"
    /\ loop' = "poll"
    /\ UNCHANGED twsVars \/ ("sock" \in Faults /\ SockBreaks)
    /\ UNCHANGED <<symVars, acVars, pq, evVars, out, broker>>

RecvValidId ==
    /\ loop = "recv"
    /\ next_oid = 0
    /\ nextValidId(1)
    /\ UNCHANGED <<symVars, acVars, pq, loop, evVars, out, broker>>

-----------------------------------------------------------------------------
(* post_cb.                                                                 *)

\* MNGD_AC: free the old list, copy the new one and cut it into names.
RecvMngdAc(n) ==
    /\ loop = "recv"
    /\ ~listed
    /\ listed' = TRUE
    /\ nac_names' = n
    /\ nex' = [nex EXCEPT !.live = FALSE]
    /\ pq' = [i \in DOMAIN pq |-> [pq[i] EXCEPT !.live = FALSE]]
    /\ UNCHANGED <<twsVars, symVars, loop, evVars, out, cur, owed, subd, fresh>>

find_ac_name(a) ==
    LET K == {k \in 1 .. nac_names : Accounts[k] = a} IN
    IF K = {} THEN 0 ELSE CHOOSE k \in K : TRUE

\* ACUP: queue a position of the account the broker reports on.
RecvAcup(src) ==
    /\ loop = "recv"
    /\ listed /\ cur # None
    /\ Len(pq) < MaxPq
    /\ intern_pos_name(src)
    /\ pfaq_add([ac |-> find_ac_name(cur), live |-> TRUE, sym |-> sym(src),
                  of |-> cur, src |-> src])
    /\ UNCHANGED <<twsVars, acVars, loop, evVars, out, broker>>

\* ACUP_END: where nex points, its first time to the first account.  If its
\* memory has been freed it may read as any of the names, when the new list
\* has been put in the same place, or as something else, here 0.
Places == IF nex.at = 0 THEN {1}
          ELSE IF nex.live THEN {nex.at}
          ELSE 0 .. nac_names

\* Slip: the first time it is the name itself, not the one after it.
After_First(p) == IF nex.at = 0 THEN p ELSE p + 1

After(p) == p + 1

AcupEnd == loop = "recv" /\ listed /\ owed /\ owed' = FALSE

\* Only one account, nothing to wrap around.
EndSingle ==
    /\ AcupEnd
    /\ nac_names <= 1
    /\ UNCHANGED <<twsVars, symVars, acVars, pq, loop, evVars, out, listed, cur, subd,
                   fresh>>

EndNext(p) ==
    /\ loop = "recv" /\ listed /\ owed
    /\ nac_names > 1
    /\ p \in Places \ {0}
    /\ After(p) <= nac_names
    /\ Len(subd) < MaxSubd
    /\ nex' = [at |-> After(p), live |-> nex.live \/ nex.at = 0]
    /\ tws_sub_ac(Accounts[After(p)])
    /\ UNCHANGED <<twsVars, symVars, nac_names, pq, loop, evVars, out>>

WrapTo(p) == 1

\* The last one: back to the first.
EndLast(p) ==
    /\ AcupEnd
    /\ nac_names > 1
    /\ p \in Places \ {0}
    /\ After(p) > nac_names
    /\ nex' = [at |-> WrapTo(p), live |-> TRUE]
    /\ UNCHANGED <<twsVars, symVars, nac_names, pq, loop, evVars, out, listed, cur, subd,
                   fresh>>

\* What is read is no account, the broker has nothing to report on it.
EndJunk ==
    /\ AcupEnd
    /\ nac_names > 1
    /\ 0 \in Places
    /\ cur' = None
    /\ UNCHANGED <<twsVars, symVars, acVars, pq, loop, evVars, out, listed, subd, fresh>>

-----------------------------------------------------------------------------

Next == \/ PrepCb \/ FlushOne \/ FlushDone
        \/ \E evs \in SUBSET Possible \ {{}} : Poll(evs)
        \/ RoundDone \/ OtherCb
        \/ TwscHangup \/ RecoIdle \/ RecoConnect
        \/ TwscData \/ RecvDone \/ RecvValidId
        \/ \E n \in Listings : RecvMngdAc(n)
        \/ \E src \in Strings : RecvAcup(src)
        \/ EndSingle \/ EndJunk
        \/ \E p \in DOMAIN Accounts : EndNext(p) \/ EndLast(p)

Spec == Init /\ [][Next]_vars

-----------------------------------------------------------------------------
(* Properties.                                                              *)

Positions == [ac : 0 .. Len(Accounts), live : BOOLEAN, sym : Nat, of : Names,
              src : Strings]

\* Types of the state.
TypeOK ==
    /\ priv \in 0 .. Sessions /\ sess \in 0 .. Sessions /\ polled \in 0 .. Sessions
    /\ sockok \in BOOLEAN /\ timer \in BOOLEAN /\ twsc \in BOOLEAN
    /\ next_oid \in Nat
    /\ pos_names \in Seq(Char \cup {NUL})
    /\ nac_names \in 0 .. Len(Accounts)
    /\ nex \in [at : 0 .. Len(Accounts), live : BOOLEAN]
    /\ pq \in Seq(Positions)
    /\ loop \in {"prep", "flush", "wait", "poll", "recv"}
    /\ ready \subseteq {"other", "reco", "twsc"}
    /\ old_st \in {"UNK", "SUP", "RDY", "DWN"}
    /\ listed \in BOOLEAN /\ owed \in BOOLEAN /\ fresh \in BOOLEAN
    /\ cur \in Names \cup {None}
    /\ subd \in Seq(Names)

\* What is published names the account and the instrument the position is of,
\* though both are only pointers since it was queued, the memory of the one is
\* freed by the next session and that of the other grows (pq_flush_cb).
PublishedRight ==
    out # None => /\ out.pos.ac # 0 /\ out.pos.live
                  /\ Accounts[out.pos.ac] = out.pos.of
                  /\ out.name = out.pos.src

\* A session that prep_cb has found ready has been asked for positions: no
\* sequence of losses and reconnects makes it miss the moment.  And the state
\* keeps its types.
ReadyAsked == TypeOK /\ (st = "RDY" /\ old_st = "RDY" => subd # <<>>)

\* The accounts are subscribed to in the order listed, each once, as long as
\* no earlier session has left a place in nex.
OnceInOrder == fresh => subd = SubSeq(Accounts, 1, Len(subd))

\* pf-tws.c:499, when there are more accounts: "last a/c, no further
\* subscriptions", that is, this session has subscribed to all of them.
LastIsLast ==
    [][\A p \in DOMAIN Accounts :
          EndLast(p) => \A k \in 1 .. nac_names :
                            \E i \in DOMAIN subd : subd[i] = Accounts[k]]_vars
=============================================================================
