SPECIFICATION Spec
CONSTANTS
    MaxBlocks = 8
    MaxStmts = 4
    MaxDepth = 2
INVARIANTS
    TypeOK
    InsertBlockOpen
    BlocksTerminated
    PhisMatchPredecessors
    ResultWritten
CHECK_DEADLOCK FALSE
