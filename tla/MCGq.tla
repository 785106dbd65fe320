-------------------------------- MODULE MCGq --------------------------------
(* A pool grown twice: maps of 2 and then of 4 cells, 4 of them to pass     *)
(* around between the free list and the two lists of the owner.             *)
EXTENDS Gq

MCUsers == {"sbuf", "pbuf"}
=============================================================================
