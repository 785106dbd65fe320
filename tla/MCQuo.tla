------------------------------- MODULE MCQuo -------------------------------
(* The two sides of a ticker (or one side of two tickers): one with two     *)
(* prices, two sizes and the size 0, one with a price and a size of its own *)
(* to lie in between.                                                       *)
EXTENDS Quo, TLC

MCPrice == <<1, 0>> :> {1, 2} @@ <<1, 1>> :> {3}
MCSize  == <<1, 0>> :> {0, 4, 5} @@ <<1, 1>> :> {6}
=============================================================================
