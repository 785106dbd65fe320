SPECIFICATION Spec
CONSTANTS
    Idx = {1}
    Sup = {0, 1}
    Price <- MCPrice
    Size <- MCSize
    NoQuote = NoQuote
    MaxSbuf = 3
INVARIANTS
    TypeOK
    OneCellPerKey
    CellsBounded
    ValuesGenuine
PROPERTY
    FeedSpec
