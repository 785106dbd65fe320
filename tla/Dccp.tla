--------------------------------- MODULE Dccp ---------------------------------
(***************************************************************************)
(* The server in quo-tws.c that gives out the definition behind an index   *)
(* (dccp_cb, dccp_data_cb), with websvc.c.  It has eight slots for         *)
(* connections and uses them in turn, closing what is in the way.  Two     *)
(* listening sockets share the slots; which of them a connection comes     *)
(* through makes no difference.                                            *)
(*                                                                         *)
(* Descriptors are numbers the system gives out again after a close, the   *)
(* lowest free one first.  A connection has a name of its own as well, the *)
(* order it was accepted in.  Which definition an index has is a matter of *)
(* module Sub; here it is a constant.                                      *)
(***************************************************************************)
EXTENDS Integers, Sequences, FiniteSets

CONSTANTS
    Slots,       \* countof(conns), 8
    Secdef,      \* index -> its definition, NoSdef if there is none yet
    NoSdef,
    Idx,         \* what a request may ask for, as strtol reads it
    Width,       \* 2^16, the values of websvc_s.secdef.idx
    None,
    MaxConn      \* bound: connections accepted

ASSUME DccpAssumption ==
    /\ Slots \in Nat \ {0} /\ Width \in Nat \ {0} /\ MaxConn \in Nat
    /\ DOMAIN Secdef \subseteq 1 .. (Width - 1)
    /\ Idx \subseteq Int

VARIABLES
    fd,          \* conns[].io->fd: 0 in the beginning, -1 after a close
    active,      \* the slots whose watcher is started
    next,        \* dccp_cb's static
    open,        \* the system: descriptor -> the connection behind it
    conn,        \* history: the connection last put into a slot
    nconn,       \* connections accepted so far
    loop,
    ready,       \* events to be served: "listen", or a slot and the
                 \* connection there was something to read from
    out          \* the answer last sent

dccpVars == <<fd, active, next, open, conn, nconn, loop, ready, out>>

SlotSet == 0 .. (Slots - 1)

DccpInit == /\ fd = [i \in SlotSet |-> 0]
        /\ active = {}
        /\ next = 0
        /\ open = [f \in {} |-> 0]
        /\ conn = [i \in SlotSet |-> 0]
        /\ nconn = 0
        /\ loop = "wait"
        /\ ready = {}
        /\ out = None

-----------------------------------------------------------------------------
(* ev_io_shut, and what it does to the system and to libev.                 *)

Without(f) == [g \in DOMAIN open \ {f} |-> open[g]]

\* Slip: the slot keeps the number.
Shut_KeepsFd(i) == [fd |-> fd,
                    active |-> active \ {i},
                    open |-> Without(fd[i]),
                    ready |-> {e \in ready : e[1] # i}]

\* Slip: an event that has not been served is served all the same.
Shut_KeepsEvent(i) == [fd |-> [fd EXCEPT ![i] = -1],
                       active |-> active \ {i},
                       open |-> Without(fd[i]),
                       ready |-> ready]

Shut(i) == [fd |-> [fd EXCEPT ![i] = -1],
            active |-> active \ {i},
            open |-> Without(fd[i]),
            ready |-> {e \in ready : e[1] # i}]

Same == [fd |-> fd, active |-> active, open |-> open, ready |-> ready]

-----------------------------------------------------------------------------
(* libev.                                                                   *)

Events == {<<-1, 0>>} \cup {<<i, conn[i]>> : i \in active}

Poll(evs) ==
    /\ loop = "wait"
    /\ loop' = "poll"
    /\ ready' = evs
    /\ out' = None
    /\ UNCHANGED <<fd, active, next, open, conn, nconn>>

RoundDone ==
    /\ loop = "poll" /\ ready = {}
    /\ loop' = "wait"
    /\ out' = None
    /\ UNCHANGED <<fd, active, next, open, conn, nconn, ready>>

-----------------------------------------------------------------------------
(* dccp_cb.                                                                 *)

\* Make way: what is in the next slot is closed before anything is accepted.
Cleared == IF fd[next] > 0 THEN Shut(next) ELSE Same

Lowest(used) == CHOOSE f \in 1 .. (Cardinality(used) + 1) :
                    f \notin used /\ \A g \in 1 .. (f - 1) : g \in used

\* Slip: the second round starts at 1, as if 0 were no slot.
After_FromOne == IF next + 1 < Slots THEN next + 1 ELSE 1

After == IF next + 1 < Slots THEN next + 1 ELSE 0

Accept ==
    LET c == Cleared
        s == Lowest(DOMAIN c.open)
    IN  /\ loop = "poll" /\ <<-1, 0>> \in ready
        /\ nconn < MaxConn
        /\ nconn' = nconn + 1
        /\ fd' = [c.fd EXCEPT ![next] = s]
        /\ active' = c.active \cup {next}
        /\ open' = [f \in DOMAIN c.open \cup {s} |->
                       IF f = s THEN nconn + 1 ELSE c.open[f]]
        /\ conn' = [conn EXCEPT ![next] = nconn + 1]
        /\ next' = After
        /\ ready' = c.ready \ {<<-1, 0>>}
        /\ out' = None
        /\ UNCHANGED loop

\* accept fails, or what was to be accepted is gone: the slot has been closed
\* by then, and next stays.
AcceptFails ==
    LET c == Cleared IN
    /\ loop = "poll" /\ <<-1, 0>> \in ready
    /\ fd' = c.fd /\ active' = c.active /\ open' = c.open
    /\ ready' = c.ready \ {<<-1, 0>>}
    /\ out' = None
    /\ UNCHANGED <<next, conn, nconn, loop>>

\* Going down: dccp_cb is called without a watcher.
GoingDown ==
    LET live == {i \in SlotSet : fd[i] > 0} IN
    /\ loop = "wait"
    /\ loop' = "down"
    /\ fd' = [i \in SlotSet |-> IF i \in live THEN -1 ELSE fd[i]]
    /\ active' = active \ live
    /\ open' = [f \in DOMAIN open \ {fd[i] : i \in live} |-> open[f]]
    /\ out' = None
    /\ UNCHANGED <<next, conn, nconn, ready>>

-----------------------------------------------------------------------------
(* dccp_data_cb, with websvc_from_request and websvc_secdef.                *)

\* The requests: "secdef" with an index, one that names none, another one
\* that begins with GET /, and one that is not understood.
Requests == [kind : {"secdef"}, idx : Idx]
            \cup [kind : {"noidx", "other", "unknown"}, idx : {0}]

\* What websvc_from_request may leave in voodoo, which is not initialised:
\* its type is set by a secdef only, its index by one that names it.
Parsed(r) ==
    CASE r.kind = "secdef" -> {[ty |-> "SECDEF", idx |-> r.idx % Width]}
      [] r.kind = "noidx" -> [ty : {"SECDEF"}, idx : 0 .. (Width - 1)]
      [] r.kind = "other" -> [ty : {"UNK", "SECDEF"}, idx : 0 .. (Width - 1)]
      [] r.kind = "unknown" -> {[ty |-> "UNK", idx |-> 0]}

websvc_secdef(u) == IF u \in DOMAIN Secdef THEN Secdef[u] ELSE NoSdef

\* The connection that is sent to, 0 for none.
Behind(i) == IF fd[i] \in DOMAIN open THEN open[fd[i]] ELSE 0

Serve(e) == loop = "poll" /\ e \in ready /\ e[1] >= 0

\* An answer, empty if there is no definition; the connection stays open.
DataAnswer(e, r) ==
    /\ Serve(e)
    /\ \E v \in Parsed(r) :
           /\ v.ty = "SECDEF"
           /\ out' = [req |-> r, from |-> e[2], to |-> Behind(e[1]),
                      sdef |-> websvc_secdef(v.idx)]
    /\ ready' = ready \ {e}
    /\ UNCHANGED <<fd, active, next, open, conn, nconn, loop>>

\* A request that is not understood, or nothing to read: close.
DataClose(e) ==
    LET c == Shut(e[1]) IN
    /\ Serve(e)
    /\ fd' = c.fd /\ active' = c.active /\ open' = c.open
    /\ ready' = c.ready \ {e}
    /\ out' = None
    /\ UNCHANGED <<next, conn, nconn, loop>>

-----------------------------------------------------------------------------

DccpNext ==
        \/ \E evs \in SUBSET Events \ {{}} : Poll(evs)
        \/ RoundDone
        \/ Accept \/ AcceptFails \/ GoingDown
        \/ \E e \in ready : \/ \E r \in Requests : DataAnswer(e, r)
                            \/ DataClose(e)

DccpSpec == DccpInit /\ [][DccpNext]_dccpVars

-----------------------------------------------------------------------------
(* Properties.                                                              *)

\* Every open connection is in one slot, the one it was accepted into, and a
\* slot holds no number of a connection that was closed: descriptors are
\* given out again, so closing twice would close someone else's, and one that
\* is forgotten stays open for ever.  Going down closes them all.
SlotsOwnFds ==
    /\ fd \in [SlotSet -> Int] /\ next \in SlotSet
    /\ conn \in [SlotSet -> 0 .. nconn]
    /\ active = {i \in SlotSet : fd[i] > 0}
    /\ \A i, j \in active : fd[i] = fd[j] => i = j
    /\ DOMAIN open = {fd[i] : i \in active}
    /\ \A i \in active : open[fd[i]] = conn[i]
    /\ loop = "down" => active = {}

\* An answer goes to the connection the request came from, though the slot
\* may have changed hands since the poll, and if the request names an index
\* of 16 bits, holds the definition of that index.
AnswersAsked ==
    out # None =>
        /\ out.from = out.to
        /\ out.req.kind = "secdef" /\ out.req.idx \in 0 .. (Width - 1) =>
               out.sdef = websvc_secdef(out.req.idx)

\* The connection closed to make way is the oldest there is, in whatever order
\* others were closed by their peers and attempts to accept failed.
EvictsOldest ==
    [][Accept \/ AcceptFails => \A i \in active : next \in active => conn[next] <= conn[i]]_dccpVars
=============================================================================
