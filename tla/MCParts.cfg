SPECIFICATION PartsSpec
CONSTANTS
    Slots = 3
    Secdef <- MCSecdef
    NoSdef = NoSdef
    Idx <- MCIdx
    Width = 4
    None = None
    MaxConn = 6
    Decls <- MCDecls
    NsMax = 4
    Absent = Absent
    MaxElems = 7
    Dec64 = 1
    Dec32 = 1
    Hid32 = 8192
    Kept = 2
    MaxOps = 2
    Texts <- MCTexts
    Scales <- MCScales
    Quanta <- MCQuanta
\* the property about documents is about those only
CONSTRAINT
    Readable
\* going down ends the process; a document ends; so does a sum
CHECK_DEADLOCK FALSE
INVARIANTS
    SlotsOwnFds
    AnswersAsked
    RequestsRight
    PrintsRight
    SameInBoth
PROPERTY
    EvictsOldest
