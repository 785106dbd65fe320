------------------------------- MODULE EvLoop -------------------------------
(***************************************************************************)
(* libev's loop as ibfx.c and ox-tws.c drive it: prepare callbacks, a poll, *)
(* the callbacks of what the poll has found in any order, and again, until  *)
(* a callback asks it to stop; a round that was begun is finished first.   *)
(* With it what the two have in common: the watcher on the broker's socket, *)
(* the timer that sets up sessions, and signals that end the program.      *)
(*                                                                         *)
(* The pieces leave the variables of the two programs alone.               *)
(***************************************************************************)
EXTENDS Tws

CONSTANT Faults   \* "conn": no address answers; "name": the host is not
                  \* found; "sock": the library breaks its socket

\* What a poll has found is told from what comes of the session after.
ASSUME EvLoopAssumption == Sessions \in Nat \ {0, 1}

VARIABLES
    prog,     \* which of the programs the process runs
    loop,     \* "prep", ..., "wait", "poll", "recv"; "over", "gone"
    ready,    \* found by the poll and not served yet
    polled,   \* the session of the poll
    timer,    \* the reconnection timer runs
    twsc,     \* the watcher is on a socket
    done      \* the loop was asked to stop

evVars == <<prog, loop, ready, polled, timer, twsc, done>>

Programs == {"ibfx", "ox-tws"}

evInit == /\ twsInit
          /\ prog \in Programs
          /\ loop = "prep"
          /\ ready = {} /\ polled = 0
          /\ timer = FALSE /\ twsc = FALSE /\ done = FALSE

st == tws_state

\* What a poll may find; ox-tws.c has a check callback in each round.
Possible == {"sig"} \cup (IF timer THEN {"reco"} ELSE {})
                    \cup (IF twsc THEN {"twsc"} ELSE {})
Always   == IF prog = "ox-tws" THEN {"chck"} ELSE {}

Poll(evs) ==
    /\ loop = "wait" /\ evs # {}
    /\ loop' = "poll"
    /\ ready' = evs \cup Always
    /\ polled' = priv
    /\ UNCHANGED <<twsVars, prog, timer, twsc, done>>

RoundDone ==
    /\ loop = "poll" /\ ready = {}
    /\ loop' = IF done THEN "over" ELSE "prep"
    /\ UNCHANGED <<twsVars, prog, ready, polled, timer, twsc, done>>

Serve(e) == loop = "poll" /\ e \in ready /\ ready' = ready \ {e}

\* sigint_cb, sigall_cb.
Unloop ==
    /\ Serve("sig")
    /\ done' = TRUE
    /\ UNCHANGED <<twsVars, prog, loop, polled, timer, twsc>>

-----------------------------------------------------------------------------
(* twsc_cb: the peer has hung up, or there is something to read.            *)

Hangup ==
    /\ Serve("twsc")
    /\ fini_tws
    /\ twsc' = FALSE
    /\ UNCHANGED <<prog, loop, polled, timer, done>>

Data ==
    /\ Serve("twsc")
    /\ sockok /\ polled = priv
    /\ loop' = "recv"
    /\ UNCHANGED <<twsVars, prog, polled, timer, twsc, done>>

\* The library has handled a message that does not touch it.
Handled == loop = "recv" /\ UNCHANGED <<twsVars, evVars>>

RecvValidId(oid) ==
    /\ loop = "recv" /\ next_oid = 0
    /\ nextValidId(oid)
    /\ UNCHANGED evVars

RecvDone ==
    /\ loop = "recv"
    /\ loop' = "poll"
    /\ UNCHANGED twsVars \/ ("sock" \in Faults /\ SockBreaks)
    /\ UNCHANGED <<prog, ready, polled, timer, twsc, done>>

-----------------------------------------------------------------------------
(* reco_cb.                                                                 *)

\* make_tws_sock(): no address answers, or the host is not found.
NoSock ==
    /\ Serve("reco")
    /\ Faults \cap {"conn", "name"} # {}
    /\ UNCHANGED <<twsVars, prog, loop, polled, timer, twsc, done>>

\* A new session on the watcher, whatever was there; the timer runs on or not.
Connect(again) ==
    /\ Serve("reco")
    /\ init_tws
    /\ twsc' = TRUE
    /\ timer' = again
    /\ UNCHANGED <<prog, loop, polled, done>>

\* Out of the loop: reco_cb(NULL).
Leave ==
    /\ loop = "over"
    /\ loop' = "gone"
    /\ fini_tws
    /\ twsc' = FALSE
    /\ UNCHANGED <<prog, ready, polled, timer, done>>
=============================================================================
