SPECIFICATION Spec
CONSTANTS
    Accounts <- MCAccounts
    Listings = {1, 3}
    Char <- MCChar
    Strings <- MCStrings
    NUL = 0
    None = None
    Sessions = 2
    Faults = {"sock", "conn"}
    MaxPq = 2
    MaxSubd = 4
INVARIANTS
    PublishedRight
    NamesKept
    NamesFit
    ReadyAsked
    OnceInOrder
