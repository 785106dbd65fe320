------------------------------ MODULE MCQuoTws ------------------------------
(* Two requests: one with a nick made up from the contract, for which the   *)
(* broker finds two instruments, and one with a nick the user has set.      *)
EXTENDS QuoTws

MCReqs == <<"r1", "r2">>
MCUserNick == [r1 |-> FALSE, r2 |-> TRUE]
MCReqNick == [r1 |-> "n1", r2 |-> "n2"]
MCMatches == [r1 |-> {"x", "y"}, r2 |-> {"z"}]
MCMatches1 == [r1 |-> {"x"}, r2 |-> {"z"}]
MCInstNick == [x |-> "nx", y |-> "ny", z |-> "nz"]
MCNick == {"n1", "n2", "nx", "ny", "nz"}
MCSdef == {"x", "y", "z"}

\* The case of the theorems about nicks.
ASSUME MCNicks == NicksApart
=============================================================================
