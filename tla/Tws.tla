--------------------------------- MODULE Tws ---------------------------------
(***************************************************************************)
(* tws.cpp: the session with the broker's API as the daemons see it.  The  *)
(* operations are pieces of actions; the daemons' modules put them         *)
(* together.                                                               *)
(*                                                                         *)
(* The broker's client library is not part of the sources.  Whether its    *)
(* socket is still good and what it has received comes from outside; the   *)
(* handshake is folded into the wait for the first order id, since         *)
(* tws_state answers "setting up" for both.                                *)
(***************************************************************************)
EXTENDS Naturals

CONSTANT Sessions     \* names of sessions, 1 .. Sessions, used in turn

VARIABLES
    priv,        \* tws_s.priv: the session it is the wrapper of, 0 for NULL
    sess,        \* the session set up last
    sockok,      \* __sock_ok_p
    next_oid     \* __wrapper.next_oid, 0 until the broker has sent one

twsVars == <<priv, sess, sockok, next_oid>>

twsInit == /\ priv = 0
           /\ sess = 0
           /\ sockok = FALSE
           /\ next_oid = 0

tws_state == IF priv = 0 THEN "UNK"
             ELSE IF ~sockok THEN "DWN"
             ELSE IF next_oid = 0 THEN "SUP"
             ELSE "RDY"

init_tws == LET new == (sess % Sessions) + 1 IN
            /\ priv' = new
            /\ sess' = new
            /\ sockok' = TRUE
            /\ next_oid' = 0

fini_tws == /\ priv' = 0
            /\ sockok' = FALSE
            /\ next_oid' = 0
            /\ UNCHANGED sess

\* The library finds its socket broken, in tws_send or in tws_recv.
SockBreaks == /\ sockok' = FALSE
              /\ UNCHANGED <<priv, sess, next_oid>>

nextValidId(oid) == /\ next_oid' = oid
                    /\ UNCHANGED <<priv, sess, sockok>>

\* tws_req_sdef and tws_sub_quo draw the id of their request.
tws_ready_p == next_oid > 0

DrawOid == /\ tws_ready_p
           /\ next_oid' = next_oid + 1
           /\ UNCHANGED <<priv, sess, sockok>>
=============================================================================
