SPECIFICATION Spec
CONSTANTS
    MaxBlocks = 8
    MaxStmts = 4
    MaxDepth = 2
INVARIANT
    ForTestsFirst
CHECK_DEADLOCK FALSE
