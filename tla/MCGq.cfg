SPECIFICATION Spec
CONSTANTS
    Users <- MCUsers
    NNew = 2
    MaxTop = 6
INVARIANTS
    TypeOK
    ChainOK
    BooksCover
PROPERTY
    PoolSpec
\* fini_gq is the end of a pool
CHECK_DEADLOCK FALSE
