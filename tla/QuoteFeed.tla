------------------------------ MODULE QuoteFeed ------------------------------
(***************************************************************************)
(* What the quote queue promises to the consumer of its flushes, whatever  *)
(* is merged on the way: every price tick of a market side comes out once  *)
(* and in order of arrival, and so does every size tick that is not 0.     *)
(***************************************************************************)
EXTENDS Naturals, Sequences

CONSTANTS Keys, Price, Size, NoQuote

VARIABLES
    prices,      \* key -> the prices yet to come out
    sizes,       \* key -> the sizes yet to come out
    out          \* the quote that came out last

feedVars == <<prices, sizes, out>>

Init == /\ prices = [k \in Keys |-> <<>>]
        /\ sizes = [k \in Keys |-> <<>>]
        /\ out = NoQuote

PriceIn(k, p) == /\ prices' = [prices EXCEPT ![k] = Append(@, p)]
                 /\ UNCHANGED <<sizes, out>>

SizeIn(k, q) == /\ sizes' = IF q = 0 THEN sizes ELSE [sizes EXCEPT ![k] = Append(@, q)]
                /\ UNCHANGED <<prices, out>>

\* A price comes out when the quote is of price type, and the next one due;
\* a size comes out when the quote's size is not 0.
Emit(k) ==
    /\ out' # NoQuote
    /\ <<out'.idx, out'.sup>> = k
    /\ IF out'.sub = 0
       THEN /\ prices[k] # <<>>
            /\ out'.p = Head(prices[k])
            /\ prices' = [prices EXCEPT ![k] = Tail(@)]
       ELSE UNCHANGED prices
    /\ IF out'.q # 0
       THEN /\ sizes[k] # <<>>
            /\ out'.q = Head(sizes[k])
            /\ sizes' = [sizes EXCEPT ![k] = Tail(@)]
       ELSE UNCHANGED sizes

Next == \E k \in Keys : \/ \E p \in Price[k] : PriceIn(k, p)
                        \/ \E q \in Size[k] : SizeIn(k, q)
                        \/ Emit(k)

Spec == Init /\ [][Next]_feedVars
=============================================================================
