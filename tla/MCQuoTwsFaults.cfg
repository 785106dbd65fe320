SPECIFICATION Spec
CONSTANTS
    Reqs <- MCReqs
    UserNick <- MCUserNick
    ReqNick <- MCReqNick
    Matches <- MCMatches1
    InstNick <- MCInstNick
    Nick <- MCNick
    Sdef <- MCSdef
    NoSdef = NoSdef
    None = None
    Sessions = 2
    FirstOid = 1
    Junk = {0, 3}
    Beef = TRUE
    Faults = {"sock", "conn"}
    MaxQq = 1
    MaxSub = 2
INVARIANTS
    RoutedRight
