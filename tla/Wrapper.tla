------------------------------- MODULE Wrapper -------------------------------
(***************************************************************************)
(* tws.cpp: the callback that each message of the broker's library ends    *)
(* in.  A program hooks up pre_cb, trd_cb, post_cb and infra_cb or leaves  *)
(* them NULL; a message for a hook that is NULL goes nowhere, and some     *)
(* messages call back nobody.                                              *)
(***************************************************************************)
LOCAL INSTANCE TLC

\* Slip: sizes are given out as prices.
PreTicks_Slip ==
    [tickPrice |-> "PRICE", tickSize |-> "PRICE", tickOptionComputation |-> "OPTION",
     tickGeneric |-> "GENERIC", tickString |-> "STRING", tickEFP |-> "EFP",
     tickSnapshotEnd |-> "SNAP_END", marketDataType |-> "MKT_DATA_TYPE"]

PreTicks ==
    [tickPrice |-> "PRICE", tickSize |-> "SIZE", tickOptionComputation |-> "OPTION",
     tickGeneric |-> "GENERIC", tickString |-> "STRING", tickEFP |-> "EFP",
     tickSnapshotEnd |-> "SNAP_END", marketDataType |-> "MKT_DATA_TYPE"]

PreRest ==
    [contractDetails |-> "CONT_DTL", bondContractDetails |-> "CONT_DTL",
     contractDetailsEnd |-> "CONT_DTL_END", fundamentalData |-> "FUND_DATA",
     updateMktDepth |-> "UPD_MKT_DEPTH", updateMktDepthL2 |-> "UPD_MKT_DEPTH",
     historicalData |-> "HIST_DATA", realtimeBar |-> "REALTIME_BAR"]

Trades ==
    [orderStatus |-> "ORD_STATUS", openOrder |-> "OPEN_ORD",
     openOrderEnd |-> "OPEN_ORD_END", execDetails |-> "EXEC_DTL",
     execDetailsEnd |-> "EXEC_DTL_END"]

\* updateAccountValue only with a currency and a value that is a number.
Posts ==
    [updateAccountValue |-> "ACUP", updatePortfolio |-> "ACUP",
     accountDownloadEnd |-> "ACUP_END", managedAccounts |-> "MNGD_AC"]

Infras ==
    [error |-> "ERROR", winError |-> "ERROR", connectionClosed |-> "CONN_CLOSED"]

\* nextValidId and currentTime are noted by the wrapper, the rest is dropped.
Silent1 == {"commissionReport", "position", "positionEnd", "accountSummary",
            "accountSummaryEnd"}
Silent2 == {"currentTime", "scannerParameters", "scannerData", "scannerDataEnd",
            "deltaNeutralValidation", "updateNewsBulletin", "receiveFA"}

Messages == DOMAIN (PreTicks @@ PreRest @@ Trades @@ Posts @@ Infras) \cup Silent1 \cup Silent2

\* The hook a message is for and what the hook is told.
Callback(m) ==
    CASE m \in DOMAIN PreTicks -> <<"pre", PreTicks[m]>>
      [] m \in DOMAIN PreRest  -> <<"pre", PreRest[m]>>
      [] m \in DOMAIN Trades   -> <<"trd", Trades[m]>>
      [] m \in DOMAIN Posts    -> <<"post", Posts[m]>>
      [] m \in DOMAIN Infras   -> <<"infra", Infras[m]>>
      [] OTHER -> <<"none", m>>
=============================================================================
