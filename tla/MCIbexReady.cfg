SPECIFICATION Spec
CONSTANTS
    Pairs = {"EURUSD", "GBPUSD", "XAUUSD"}
    XPairs = {"XAUUSD"}
    MaxInstrs = 2
    Amounts <- MCAmounts
    Lot = 20
    None = None
    Sessions = 2
    FirstOid = 1
    Faults = {"sock", "conn"}
    MaxOid = 3
\* without a session an order kills the process
CHECK_DEADLOCK FALSE
PROPERTY
    OrdersWhenReady
