------------------------------- MODULE MCPfTws -------------------------------
(* Three accounts, and names of which one is the end of another.            *)
EXTENDS PfTws

MCAccounts == <<"a1", "a2", "a3">>
MCChar == {1, 2}
MCStrings == {<<1, 2>>, <<2>>, <<2, 2>>}
=============================================================================
