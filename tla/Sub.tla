--------------------------------- MODULE Sub ---------------------------------
(***************************************************************************)
(* sub.c: the subscription queue.  sbuf holds the subscriptions of the     *)
(* running session; norm remembers for the life of the process which uidx, *)
(* the index quotes are published under, was given to which nick.          *)
(*                                                                         *)
(* The owner gets pointers to cells from the finders and writes through    *)
(* them: Resolve and Stamp are the writes quo-tws makes.  Every caller of  *)
(* subq_add passes a nick, the branch for a NULL one is left out.          *)
(***************************************************************************)
EXTENDS Naturals, Sequences

CONSTANTS
    Nick,        \* nicks
    Sdef,        \* security definitions, one per instrument
    NoSdef       \* sub_s.sdef == NULL

VARIABLES
    sbuf,        \* the subscriptions, a sequence of sub_s
    norm,        \* sequence of [nick, uidx]
    uidx         \* the static counter of subq_add

subVars == <<sbuf, norm, uidx>>

\* last_dsm: 0 and 1 mark a nick made up and one set by the user, any other
\* value is the second of the last brag.
Dsm == {"auto", "user", "bragged"}

Subs == [idx : Nat, uidx : Nat, sreq : Nat, last_dsm : Dsm,
         sdef : Sdef \cup {NoSdef}, nick : Nick]

\* find_cell, find_uidx, find_sreq, find_nick: the place of the first cell
\* whose field has the value, 0 if there is none.
find(lst, field, v) ==
    LET I == {i \in DOMAIN lst : lst[i][field] = v} IN
    IF I = {} THEN 0 ELSE CHOOSE i \in I : \A j \in I : i <= j

subInit == /\ sbuf = <<>>
           /\ norm = <<>>
           /\ uidx = 0

\* Slip: a known nick gets the counter instead of its own uidx.
subq_add_Counter(s) ==
    LET n == find(norm, "nick", s.nick) IN
    IF n # 0
    THEN /\ sbuf' = Append(sbuf, [s EXCEPT !.uidx = uidx])
         /\ UNCHANGED <<norm, uidx>>
    ELSE /\ uidx' = uidx + 1
         /\ norm' = Append(norm, [nick |-> s.nick, uidx |-> uidx + 1])
         /\ sbuf' = Append(sbuf, [s EXCEPT !.uidx = uidx + 1])

\* subq_add: a nick seen before has its uidx, a new one gets the next.
subq_add(s) ==
    LET n == find(norm, "nick", s.nick) IN
    IF n # 0
    THEN /\ sbuf' = Append(sbuf, [s EXCEPT !.uidx = norm[n].uidx])
         /\ UNCHANGED <<norm, uidx>>
    ELSE /\ uidx' = uidx + 1
         /\ norm' = Append(norm, [nick |-> s.nick, uidx |-> uidx + 1])
         /\ sbuf' = Append(sbuf, [s EXCEPT !.uidx = uidx + 1])

\* Slip: the registry is flushed along with the queue.
subq_flush_All == /\ sbuf' = <<>>
                  /\ norm' = <<>>
                  /\ uidx' = 0

\* subq_flush_cb pops every subscription and leaves norm untouched.
subq_flush == /\ sbuf' = <<>>
              /\ UNCHANGED <<norm, uidx>>

\* The owner fills in what a definition request has found (quo-tws.c pre_cb).
Resolve(i, idx, sdef, nick) ==
    /\ sbuf' = [sbuf EXCEPT ![i].idx = idx, ![i].sdef = sdef, ![i].nick = nick]
    /\ UNCHANGED <<norm, uidx>>

\* The owner notes when it announced the subscription (qq_flush_cb).
Stamp(i) == /\ sbuf' = [sbuf EXCEPT ![i].last_dsm = "bragged"]
            /\ UNCHANGED <<norm, uidx>>

\* The subscription added and what is filled in are read off the new state.
Add == /\ Len(sbuf') = Len(sbuf) + 1
       /\ sbuf'[Len(sbuf')] \in Subs
       /\ subq_add(sbuf'[Len(sbuf')])

FillIn(i) == LET s == sbuf'[i] IN
             /\ Len(sbuf') = Len(sbuf)
             /\ s \in Subs
             /\ Resolve(i, s.idx, s.sdef, s.nick)

SubNext == \/ Add
           \/ subq_flush
           \/ \E i \in DOMAIN sbuf : FillIn(i) \/ Stamp(i)

SubSpec == subInit /\ [][SubNext]_subVars

-----------------------------------------------------------------------------
(* Properties.                                                              *)

SubTypeOK == /\ sbuf \in Seq(Subs)
             /\ norm \in Seq([nick : Nick, uidx : Nat])
             /\ uidx \in Nat

\* In the registry a uidx was given to one nick and a nick got one uidx,
\* whatever sessions come and go: the counter is never behind and no nick is
\* entered twice (subq_add).  This is about the nick a subscription is added
\* with; what it is announced with later is its owner's business.
OneUidxPerNick ==
    \A i, j \in DOMAIN norm :
        (norm[i].nick = norm[j].nick \/ norm[i].uidx = norm[j].uidx) => i = j

\* Whatever is on the queue is published under a uidx that was given out.
UidxKnown ==
    \A i \in DOMAIN sbuf : \E n \in DOMAIN norm : sbuf[i].uidx = norm[n].uidx

\* An entry of the registry stays as it was made: subq_flush_cb and subq_add
\* never change or drop one, so a nick added again gets the uidx it had.
NeverReassigned ==
    [][\A i \in DOMAIN norm : i \in DOMAIN norm' /\ norm'[i] = norm[i]]_subVars
=============================================================================
