------------------------------- MODULE MCTools -------------------------------
(* Two pairs, and sessions that begin their ids with 1 or with 2.           *)
EXTENDS Tools

MCPairs == <<"EURUSD", "USDJPY">>
=============================================================================
