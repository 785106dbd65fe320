------------------------------- MODULE Parts -------------------------------
(***************************************************************************)
(* The parts that keep nothing another part sees: the server that gives    *)
(* out definitions, the reader of definitions, and the decimal numbers.    *)
(* One of them is looked at, the others stand still.                       *)
(***************************************************************************)
EXTENDS Dccp, Sdef, Dfp754

VARIABLE part
partsVars == <<part, dccpVars, sdefVars, dfpvars>>

PartsInit == /\ part \in {"dccp", "sdef", "dfp754"}
             /\ DccpInit /\ SdefInit /\ DfpInit

PartsNext ==
    /\ UNCHANGED part
    /\ \/ part = "dccp" /\ DccpNext /\ UNCHANGED <<sdefVars, dfpvars>>
       \/ part = "sdef" /\ SdefNext /\ UNCHANGED <<dccpVars, dfpvars>>
       \/ part = "dfp754" /\ DfpNext /\ UNCHANGED <<dccpVars, sdefVars>>

PartsSpec == PartsInit /\ [][PartsNext]_partsVars
=============================================================================
