--------------------------------- MODULE Quo ---------------------------------
(***************************************************************************)
(* quo.c: the quote queue of quo-tws.  Ticks of the broker are queued on   *)
(* sbuf, a size tick is joined to a price, and a flush hands every quote   *)
(* to a callback and keeps the last one of each key on pbuf.               *)
(*                                                                         *)
(* A key (struct key_s) is the ticker id with the market side, suptyp; the *)
(* low bit of typ, subtyp, tells a price (0) from a size (1).  Lists of    *)
(* cells are sequences, as module Gq shows them to be.  The process is     *)
(* single threaded and the flush callback does not come back to the queue, *)
(* so nothing is added while a flush runs.                                 *)
(***************************************************************************)
EXTENDS Naturals, Sequences, FiniteSets

CONSTANTS
    Idx,         \* ticker ids
    Sup,         \* market sides (suptyp)
    Price, Size, \* key -> the encoded values its ticks may have
    NoQuote,     \* nothing has been flushed yet
    MaxSbuf      \* bound: no tick is queued behind that many

Keys == Idx \X Sup

Quotes == [idx : Idx, sup : Sup, sub : {0, 1}, p : Nat, q : Nat]

ASSUME QuoAssumption == /\ Price \in [Keys -> SUBSET Nat]
                        /\ Size \in [Keys -> SUBSET Nat]
                        /\ MaxSbuf \in Nat
                        /\ IsFiniteSet(Keys)
                        /\ NoQuote \notin Quotes

VARIABLES
    sbuf, pbuf,  \* quoq_s
    held,        \* how many cells are off the free list
    flushing,    \* inside quoq_flush_cb's loop
    out          \* the quote last given to the flush callback

vars == <<sbuf, pbuf, held, flushing, out>>

key(c) == <<c.idx, c.sup>>

\* Slip: the market side is not compared.
matches_q30_p_AnySide(c, k) == c.idx = k[1]

matches_q30_p(c, k) == c.idx = k[1] /\ c.sup = k[2]

\* The place of the first cell of the list that matches, 0 if there is none.
find_p_cell(lst, k) ==
    LET I == {i \in DOMAIN lst : matches_q30_p(lst[i], k)} IN
    IF I = {} THEN 0 ELSE CHOOSE i \in I : \A j \in I : i <= j

Init == /\ sbuf = <<>>
        /\ pbuf = <<>>
        /\ held = 0
        /\ flushing = FALSE
        /\ out = NoQuote

-----------------------------------------------------------------------------

\* quoq_add of a price: always a cell of its own, without a size.
AddPrice(k, p) ==
    /\ ~flushing
    /\ Len(sbuf) < MaxSbuf
    /\ sbuf' = Append(sbuf, [idx |-> k[1], sup |-> k[2], sub |-> 0, p |-> p, q |-> 0])
    /\ held' = held + 1
    /\ UNCHANGED <<pbuf, flushing, out>>

\* Slip: a size the cell has already is overwritten.
MergeSize_Always(k, q) ==
    LET i == find_p_cell(sbuf, k) IN
    /\ ~flushing
    /\ i # 0
    /\ sbuf' = [sbuf EXCEPT ![i].q = q]
    /\ UNCHANGED <<pbuf, held, flushing, out>>

\* Slip: a cell goes back to the free list although none was taken.
MergeSize_Frees(k, q) ==
    LET i == find_p_cell(sbuf, k) IN
    /\ ~flushing
    /\ i # 0
    /\ sbuf[i].q = 0
    /\ sbuf' = [sbuf EXCEPT ![i].q = q]
    /\ held' = held - 1
    /\ UNCHANGED <<pbuf, flushing, out>>

\* quoq_add of a size: if the first cell of the key on sbuf has no size yet
\* it gets this one ...
MergeSize(k, q) ==
    LET i == find_p_cell(sbuf, k) IN
    /\ ~flushing
    /\ i # 0
    /\ sbuf[i].q = 0
    /\ sbuf' = [sbuf EXCEPT ![i].q = q]
    /\ UNCHANGED <<pbuf, held, flushing, out>>

\* ... otherwise the size is queued with the price of that cell, or the one
\* on pbuf, or 0.
PriceFor(k) ==
    LET i == find_p_cell(sbuf, k)
        j == find_p_cell(pbuf, k)
    IN  IF i # 0 THEN sbuf[i].p ELSE IF j # 0 THEN pbuf[j].p ELSE 0

PushSize(k, q) ==
    LET i == find_p_cell(sbuf, k) IN
    /\ ~flushing
    /\ i # 0 => sbuf[i].q # 0
    /\ Len(sbuf) < MaxSbuf
    /\ sbuf' = Append(sbuf, [idx |-> k[1], sup |-> k[2], sub |-> 1,
                             p |-> PriceFor(k), q |-> q])
    /\ held' = held + 1
    /\ UNCHANGED <<pbuf, flushing, out>>

\* bang_qqq: the cell goes to pbuf as a price.
bang_qqq(c) == Append(pbuf, [c EXCEPT !.sub = 0])

\* Slip: pbuf is not searched for the key.
FlushOne_NoLookup ==
    LET c == Head(sbuf)
        j == 0
    IN  /\ sbuf # <<>>
        /\ sbuf' = Tail(sbuf)
        /\ flushing' = (Tail(sbuf) # <<>>)
        /\ out' = c
        /\ IF j # 0
           THEN pbuf' = [pbuf EXCEPT ![j] = c] /\ held' = held - 1
           ELSE pbuf' = bang_qqq(c) /\ held' = held

\* Slip: the flushed cell is not given back after its quote was copied.
FlushOne_Leaks ==
    LET c == Head(sbuf)
        j == find_p_cell(pbuf, key(c))
    IN  /\ sbuf # <<>>
        /\ sbuf' = Tail(sbuf)
        /\ flushing' = (Tail(sbuf) # <<>>)
        /\ out' = c
        /\ IF j # 0
           THEN pbuf' = [pbuf EXCEPT ![j] = c] /\ held' = held
           ELSE pbuf' = bang_qqq(c) /\ held' = held

\* One turn of quoq_flush_cb's loop: pop, call back, keep on pbuf.
FlushOne ==
    LET c == Head(sbuf)
        j == find_p_cell(pbuf, key(c))
    IN  /\ sbuf # <<>>
        /\ sbuf' = Tail(sbuf)
        /\ flushing' = (Tail(sbuf) # <<>>)
        /\ out' = c
        /\ IF j # 0
           THEN pbuf' = [pbuf EXCEPT ![j] = c] /\ held' = held - 1
           ELSE pbuf' = bang_qqq(c) /\ held' = held

Next == \/ \E k \in Keys : \E p \in Price[k] : AddPrice(k, p)
        \/ \E k \in Keys : \E q \in Size[k] : MergeSize(k, q)
        \/ \E k \in Keys : \E q \in Size[k] : PushSize(k, q)
        \/ FlushOne

Spec == Init /\ [][Next]_vars

-----------------------------------------------------------------------------
(* Properties.                                                              *)

\* Types of the state (quoq_s, quo_s).
TypeOK == /\ sbuf \in Seq(Quotes)
          /\ pbuf \in Seq(Quotes)
          /\ held \in Nat
          /\ flushing \in BOOLEAN
          /\ out \in Quotes \cup {NoQuote}

\* quoq_flush_cb keeps one cell per key on pbuf however many are flushed, and
\* every cell taken from the pool is on sbuf or pbuf: a process that runs for
\* months holds no more cells than it has keys plus what waits on sbuf.
OneCellPerKey ==
    \A i, j \in DOMAIN pbuf : key(pbuf[i]) = key(pbuf[j]) => i = j

CellsBounded == /\ held = Len(sbuf) + Len(pbuf)
                /\ held <= Cardinality(Keys) + Len(sbuf)

\* The price and the size a quote carries, on the queue, kept on pbuf or
\* handed out, are 0 or ticks of the very same key, whatever cells of other
\* keys lie around it.  (It says most when no two keys share a value.)
OfKey(c) == c.p \in Price[key(c)] \cup {0} /\ c.q \in Size[key(c)] \cup {0}

ValuesGenuine == /\ \A i \in DOMAIN sbuf : OfKey(sbuf[i])
                /\ \A i \in DOMAIN pbuf : OfKey(pbuf[i])
                /\ out # NoQuote => OfKey(out)

\* What the cells of C have in a field, in the order of the list.
column(lst, C, f) ==
    LET col[n \in 0 .. Len(lst)] == IF n = 0 THEN <<>>
                                    ELSE IF lst[n] \in C THEN Append(col[n - 1], lst[n][f])
                                    ELSE col[n - 1]
    IN  col[Len(lst)]

\* The queue keeps the promise of QuoteFeed.
PricesQueued(k) == column(sbuf, {c \in Quotes : key(c) = k /\ c.sub = 0}, "p")
SizesQueued(k)  == column(sbuf, {c \in Quotes : key(c) = k /\ c.q # 0}, "q")

Feed == INSTANCE QuoteFeed WITH prices <- [k \in Keys |-> PricesQueued(k)],
                                sizes <- [k \in Keys |-> SizesQueued(k)]

FeedSpec == Feed!Spec
=============================================================================
