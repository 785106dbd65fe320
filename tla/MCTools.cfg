SPECIFICATION ToolsLive
CONSTANTS
    Sessions = 2
    Faults = {"conn", "name", "sock"}
    Pairs <- MCPairs
    FirstOids = {1, 2}
    TableSize = 4
    None = None
INVARIANTS
    QuotesOfPairs
    PairsSubscribed
PROPERTIES
    OneSession
    ComesBack
