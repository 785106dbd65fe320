SPECIFICATION Spec
CONSTANTS
    Reqs <- MCReqs
    UserNick <- MCUserNick
    ReqNick <- MCReqNick
    Matches <- MCMatches
    InstNick <- MCInstNick
    Nick <- MCNick
    Sdef <- MCSdef
    NoSdef = NoSdef
    None = None
    Sessions = 3
    FirstOid = 1
    Junk = {99}
    Beef = TRUE
    Faults = {"file", "conn"}
    MaxQq = 2
    MaxSub = 5
INVARIANTS
    RoutedRight
    Announced
    SubscribedOnce
    IndexKeepsRequest
PROPERTIES
    IndexKeepsNick
    SubSpec
    NeverReassigned
