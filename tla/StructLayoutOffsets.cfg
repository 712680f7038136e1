SPECIFICATION LayoutSpec
CONSTANTS
    Types <- MCTypes
    MaxMembers = 3
    MaxArray = 2
INVARIANT
    CompiledCodeSeesMember
CHECK_DEADLOCK FALSE
