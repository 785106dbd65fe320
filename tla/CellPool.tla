------------------------------ MODULE CellPool ------------------------------
(***************************************************************************)
(* What a generic queue (gq.h) promises to the queues built on it: every   *)
(* cell is in one place at a time, a list hands cells out in the order     *)
(* they were put in, and cells enter the pool through the free list only.  *)
(* No pointers: a list is a sequence of cells.                             *)
(***************************************************************************)
EXTENDS Naturals, Sequences

CONSTANTS
    Users,         \* the lists the owner of the pool keeps, e.g. sbuf and pbuf
    Cells          \* the cells there may ever be

VARIABLES
    lists,         \* list name -> the cells on it, first to last
    hand           \* the cells popped by the owner and not yet put back

poolVars == <<lists, hand>>

Names == Users \cup {"free", "book"}

Known(i) == \/ i \in hand
            \/ \E l \in Names : \E k \in DOMAIN lists[l] : lists[l][k] = i

Init == /\ lists = [l \in Names |-> <<>>]
        /\ hand = {}

Take(l) == /\ lists[l] # <<>>
           /\ hand' = hand \cup {Head(lists[l])}
           /\ lists' = [lists EXCEPT ![l] = Tail(@)]

Give(l, i) == /\ i \in hand
              /\ hand' = hand \ {i}
              /\ lists' = [lists EXCEPT ![l] = Append(@, i)]

\* A cell never seen before is supplied to the owner.
Supply(i) == /\ ~Known(i)
             /\ lists' = [lists EXCEPT !["free"] = Append(@, i)]
             /\ UNCHANGED hand

\* The first cell of a new map keeps the books.
Keep(i) == /\ ~Known(i)
           /\ lists' = [lists EXCEPT !["book"] = <<i>> \o @]
           /\ UNCHANGED hand

\* Shutdown drops the book keepers, most recent map first.
Drop == /\ lists["book"] # <<>>
        /\ lists' = [lists EXCEPT !["book"] = Tail(@)]
        /\ UNCHANGED hand

Next == \/ \E l \in Users \cup {"free"} : Take(l)
        \/ \E l \in Users \cup {"free"}, i \in hand : Give(l, i)
        \/ \E i \in Cells : Supply(i) \/ Keep(i)
        \/ Drop

Spec == Init /\ [][Next]_poolVars
=============================================================================
