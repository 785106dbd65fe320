-------------------------------- MODULE OxTws --------------------------------
(***************************************************************************)
(* ox-tws.c: keeps a session with the broker up, and does nothing with it   *)
(* yet.  Its timer is started when there is no session, or a broken one,   *)
(* and stops itself when it has set one up; it does not look whether that  *)
(* is still needed.                                                        *)
(***************************************************************************)
EXTENDS EvLoop

\* Slip: the timer is not started again for a broken session.
ox_prep_cb_Slip ==
    /\ loop = "prep"
    /\ timer' = (timer \/ st = "UNK")
    /\ loop' = "wait"
    /\ UNCHANGED <<twsVars, prog, ready, polled, twsc, done>>

ox_prep_cb ==
    /\ loop = "prep"
    /\ timer' = (timer \/ st \in {"UNK", "DWN"})
    /\ loop' = "wait"
    /\ UNCHANGED <<twsVars, prog, ready, polled, twsc, done>>

\* chck_cb: sends if there is a session to send on.
chck_cb ==
    /\ Serve("chck")
    /\ \/ UNCHANGED twsVars
       \/ st \in {"SUP", "RDY"} /\ "sock" \in Faults /\ SockBreaks
    /\ UNCHANGED <<prog, loop, polled, timer, twsc, done>>

\* tws_sock(): where the host is not found, what is freed was never set, and
\* the program may go down with it.
tws_sock_dies ==
    /\ Serve("reco")
    /\ "name" \in Faults
    /\ loop' = "gone"
    /\ UNCHANGED <<twsVars, prog, polled, timer, twsc, done>>

\* Slip: the timer is left running.
ox_reco_cb_Slip == Connect(TRUE)

ox_reco_cb == Connect(FALSE)

\* The id is noted, all other messages go to hooks that are NULL.
ox_recv == Data \/ RecvValidId(1) \/ RecvDone

oxNext ==
    \/ ox_prep_cb \/ chck_cb
    \/ Hangup \/ ox_recv
    \/ NoSock \/ tws_sock_dies \/ ox_reco_cb
    \/ Unloop \/ RoundDone \/ Leave
    \/ \E evs \in SUBSET Possible : Poll(evs)

-----------------------------------------------------------------------------

\* A session is set up only where there is none or a broken one, though the
\* timer callback of ox-tws.c does not ask: the timer never runs on beside a
\* session that is up.
OneSession == [][sess' # sess => st \in {"UNK", "DWN"}]_<<twsVars, evVars>>
=============================================================================
