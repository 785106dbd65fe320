-------------------------------- MODULE Tools --------------------------------
(***************************************************************************)
(* The two programs that only hold a session, ibfx and ox-tws: a process   *)
(* runs one of them.                                                       *)
(***************************************************************************)
EXTENDS Ibfx, OxTws

toolVars == <<twsVars, evVars, ibfxVars>>

ToolsInit == evInit /\ ibfxInit

Gone == loop = "gone" /\ UNCHANGED toolVars

ToolsNext == \/ prog = "ibfx" /\ ibfxNext
             \/ prog = "ox-tws" /\ oxNext /\ UNCHANGED ibfxVars
             \/ Gone

ToolsSpec == ToolsInit /\ [][ToolsNext]_toolVars

\* The process runs, but nothing says that a poll ever finds something, except
\* that a timer that runs goes off, so that again and again a poll finds it
\* expired; and an address that is tried again and again answers some time.
Works      == loop # "wait" /\ ToolsNext
TimerFires == \E evs \in SUBSET Possible : "reco" \in evs /\ Poll(evs) /\ UNCHANGED ibfxVars
Answers    == \/ prog = "ibfx" /\ ibfx_reco
              \/ prog = "ox-tws" /\ ox_reco_cb /\ UNCHANGED ibfxVars

ToolsLive == /\ ToolsSpec
             /\ WF_toolVars(Works)
             /\ SF_toolVars(TimerFires)
             /\ SF_toolVars(Answers)

\* A program without a session gets one, however often it has lost it, or it
\* has ended.
ComesBack == st \in {"UNK", "DWN"} ~> (st \in {"SUP", "RDY"} \/ loop = "gone")
=============================================================================
