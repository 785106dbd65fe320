--------------------------------- MODULE Gq ---------------------------------
(***************************************************************************)
(* gq.c: the pool of equally sized cells under the quote, subscription and *)
(* position queues.  Cells are chained through their next pointer into     *)
(* singly linked lists with a first and a last pointer; memory comes from  *)
(* anonymous maps whose first cell is set aside as a book keeper so that   *)
(* fini_gq can unmap everything.                                           *)
(*                                                                         *)
(* A cell is its address, a positive number; an address is never reused    *)
(* (mmap is asked without MAP_FIXED, so a new map never overlaps one that  *)
(* is still there, and the branch of init_gq that extends a map in place   *)
(* is never taken).  `chain' is a history variable: the sequence of cells  *)
(* each list is meant to hold.  No guard and no pointer depends on it.     *)
(***************************************************************************)
EXTENDS Naturals, Sequences

CONSTANTS
    Users,       \* the lists of the owner (quoq_s.sbuf and .pbuf, ...)
    NNew,        \* nnew_members of init_gq, a constant in every caller
    MaxTop       \* bound: no map that would take the addresses beyond it

ASSUME GqAssumption == /\ NNew \in Nat \ {0}
                       /\ MaxTop \in Nat
                       /\ "free" \notin Users
                       /\ "book" \notin Users

NULL == 0

Names == Users \cup {"free", "book"}

VARIABLES
    i1st, ilst,  \* gq_ll_s, per list
    nxt,         \* gq_item_s.next, per cell
    z,           \* bk_item_s.z, per cell, in cells
    nitems,      \* gq_s.nitems
    hand,        \* cells popped and not pushed back yet
    sp, ep,      \* init_gq's loop over the new map
    mapped,      \* the cells that are mapped memory
    fini,        \* has fini_gq begun
    chain        \* history

vars == <<i1st, ilst, nxt, z, nitems, hand, sp, ep, mapped, fini, chain>>

top == ep - 1    \* the highest address used so far

Init == /\ i1st = [l \in Names |-> NULL]
        /\ ilst = [l \in Names |-> NULL]
        /\ nxt = <<>>
        /\ z = <<>>
        /\ nitems = 0
        /\ hand = {}
        /\ sp = 1 /\ ep = 1
        /\ mapped = {}
        /\ fini = FALSE
        /\ chain = [l \in Names |-> <<>>]

-----------------------------------------------------------------------------
(* The list primitives, on the pointers n of the cells.                     *)

gq_rinse(n, i) == [n EXCEPT ![i] = NULL]

\* Slip: the last pointer is not reset when the list runs empty.
gq_pop_head_KeepsLast(l) ==
    LET res == i1st[l] IN
    /\ i1st' = [i1st EXCEPT ![l] = nxt[res]]
    /\ nxt' = gq_rinse(nxt, res)
    /\ UNCHANGED ilst

gq_pop_head(l) ==
    LET res == i1st[l] IN
    /\ i1st' = [i1st EXCEPT ![l] = nxt[res]]
    /\ ilst' = IF nxt[res] = NULL THEN [ilst EXCEPT ![l] = NULL] ELSE ilst
    /\ nxt' = gq_rinse(nxt, res)

\* Slip: the last pointer does not move on to the new cell.
gq_push_tail_StaysPut(l, i) ==
    /\ nxt' = IF ilst[l] # NULL
              THEN [gq_rinse(nxt, i) EXCEPT ![ilst[l]] = i]
              ELSE gq_rinse(nxt, i)
    /\ i1st' = IF ilst[l] # NULL THEN i1st ELSE [i1st EXCEPT ![l] = i]
    /\ ilst' = IF ilst[l] # NULL THEN ilst ELSE [ilst EXCEPT ![l] = i]

gq_push_tail(l, i) ==
    /\ nxt' = IF ilst[l] # NULL
              THEN [gq_rinse(nxt, i) EXCEPT ![ilst[l]] = i]
              ELSE gq_rinse(nxt, i)
    /\ i1st' = IF ilst[l] # NULL THEN i1st ELSE [i1st EXCEPT ![l] = i]
    /\ ilst' = [ilst EXCEPT ![l] = i]

\* The cell is the first one of a fresh map, its memory reads 0.
gq_push_head(l, i, n) ==
    /\ nxt' = [n EXCEPT ![i] = i1st[l]]
    /\ i1st' = [i1st EXCEPT ![l] = i]
    /\ ilst' = IF i1st[l] # NULL THEN ilst ELSE [ilst EXCEPT ![l] = i]

-----------------------------------------------------------------------------
(* The operations.                                                          *)

Idle == sp = ep /\ ~fini

\* Slip: bk->z is set after nusz has been reduced by the book keeper's cell.
InitGq_LateBook ==
    LET nusz == nitems + NNew
        bk   == ep
        new  == bk .. (bk + nusz - 1)
    IN  /\ Idle
        /\ bk + nusz - 1 <= MaxTop
        /\ nitems' = nusz
        /\ gq_push_head("book", bk, [i \in 1 .. (bk + nusz - 1) |->
                                        IF i < bk THEN nxt[i] ELSE NULL])
        /\ z' = [i \in 1 .. (bk + nusz - 1) |->
                    IF i < bk THEN z[i] ELSE IF i = bk THEN nusz - 1 ELSE 0]
        /\ mapped' = mapped \cup new
        /\ sp' = bk + 1
        /\ ep' = bk + nusz
        /\ chain' = [chain EXCEPT !["book"] = <<bk>> \o @]
        /\ UNCHANGED <<hand, fini>>

\* init_gq up to its loop: the new map is as large as all of the pool before
\* it plus NNew cells, and nitems becomes its size.
InitGq ==
    LET nusz == nitems + NNew
        bk   == ep
        new  == bk .. (bk + nusz - 1)
    IN  /\ Idle
        /\ bk + nusz - 1 <= MaxTop
        /\ nitems' = nusz
        /\ gq_push_head("book", bk, [i \in 1 .. (bk + nusz - 1) |->
                                        IF i < bk THEN nxt[i] ELSE NULL])
        /\ z' = [i \in 1 .. (bk + nusz - 1) |->
                    IF i < bk THEN z[i] ELSE IF i = bk THEN nusz ELSE 0]
        /\ mapped' = mapped \cup new
        /\ sp' = bk + 1
        /\ ep' = bk + nusz
        /\ chain' = [chain EXCEPT !["book"] = <<bk>> \o @]
        /\ UNCHANGED <<hand, fini>>

\* Slip: the loop runs to sp <= ep.
FillFree_OneMore ==
    /\ sp <= ep
    /\ ~fini
    /\ gq_push_tail("free", sp)
    /\ sp' = sp + 1
    /\ chain' = [chain EXCEPT !["free"] = Append(@, sp)]
    /\ UNCHANGED <<z, nitems, hand, ep, mapped, fini>>

\* One turn of init_gq's loop.
FillFree ==
    /\ sp < ep
    /\ ~fini
    /\ gq_push_tail("free", sp)
    /\ sp' = sp + 1
    /\ chain' = [chain EXCEPT !["free"] = Append(@, sp)]
    /\ UNCHANGED <<z, nitems, hand, ep, mapped, fini>>

\* gq_pop_head of a list that is not empty; on an empty one it returns NULL
\* and changes nothing.
PopHead(l) ==
    /\ Idle
    /\ i1st[l] # NULL
    /\ gq_pop_head(l)
    /\ hand' = hand \cup {i1st[l]}
    /\ chain' = [chain EXCEPT ![l] = Tail(@)]
    /\ UNCHANGED <<z, nitems, sp, ep, mapped, fini>>

PushTail(l, i) ==
    /\ Idle
    /\ gq_push_tail(l, i)
    /\ hand' = hand \ {i}
    /\ chain' = [chain EXCEPT ![l] = Append(@, i)]
    /\ UNCHANGED <<z, nitems, sp, ep, mapped, fini>>

\* One turn of fini_gq's loop: pop a book keeper, unmap its map.
FiniMap ==
    LET bk == i1st["book"] IN
    /\ sp = ep
    /\ bk # NULL
    /\ gq_pop_head("book")
    /\ mapped' = mapped \ (bk .. (bk + z[bk] - 1))
    /\ fini' = TRUE
    /\ chain' = [chain EXCEPT !["book"] = Tail(@)]
    /\ UNCHANGED <<z, nitems, hand, sp, ep>>

\* ... and its end.
FiniGq ==
    /\ sp = ep
    /\ i1st["book"] = NULL
    /\ nitems # 0
    /\ fini' = TRUE
    /\ nitems' = 0
    /\ UNCHANGED <<i1st, ilst, nxt, z, hand, sp, ep, mapped, chain>>

Next == \/ InitGq
        \/ FillFree
        \/ \E l \in Users \cup {"free"} : PopHead(l)
        \/ \E l \in Users \cup {"free"}, i \in hand : PushTail(l, i)
        \/ FiniMap
        \/ FiniGq

Spec == Init /\ [][Next]_vars

-----------------------------------------------------------------------------
(* Properties.                                                              *)

ListOf(l) == {chain[l][k] : k \in DOMAIN chain[l]}

\* Types of the state (gq_s, gq_ll_s, gq_item_s, bk_item_s).
TypeOK ==
    /\ sp \in Nat \ {0} /\ ep \in Nat \ {0} /\ sp <= ep
    /\ nitems \in Nat
    /\ i1st \in [Names -> 0 .. top]
    /\ ilst \in [Names -> 0 .. top]
    /\ nxt \in [1 .. top -> 0 .. top]
    /\ z \in [1 .. top -> Nat]
    /\ hand \subseteq 1 .. (sp - 1)
    /\ mapped \subseteq 1 .. top
    /\ fini \in BOOLEAN
    /\ chain \in [Names -> Seq(1 .. (sp - 1))]

\* Following next from i1st meets exactly the cells put on the list, in that
\* order, and ends at ilst: no cell is lost by a stale last pointer or is on
\* the way of a list it was popped from (gq_pop_head, gq_push_tail and
\* gq_push_head together).
Linked(s, first, last, n) ==
    /\ s = <<>> => first = NULL /\ last = NULL
    /\ s # <<>> => /\ first = s[1]
                   /\ last = s[Len(s)]
                   /\ n[last] = NULL
    /\ \A k \in 1 .. (Len(s) - 1) : n[s[k]] = s[k + 1]

ChainOK == \A l \in Names : Linked(chain[l], i1st[l], ilst[l], nxt)

\* The book keepers found by fini_gq account for all the memory: at any time
\* the mapped cells are those of the maps whose book keeper is on the list.
BooksCover == mapped = UNION {b .. (b + z[b] - 1) : b \in ListOf("book")}

\* The pool of pointers behaves as lists of cells do: a list hands out its
\* cells first in, first out, and only init_gq brings in new ones.
Pool == INSTANCE CellPool WITH lists <- chain, Cells <- 1 .. MaxTop

PoolSpec == Pool!Spec
=============================================================================
