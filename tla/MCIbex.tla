-------------------------------- MODULE MCIbex --------------------------------
(* Two currencies and a metal, and a table with room for two of them.       *)
EXTENDS Ibex

\* An amount of either sign, worth more than an ounce.
MCAmounts == {50, -50}
=============================================================================
