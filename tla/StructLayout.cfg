SPECIFICATION LayoutSpec
CONSTANTS
    Types <- MCTypes
    MaxMembers = 3
    MaxArray = 2
INVARIANTS
    LayoutTypeOK
    WritesInside
    MembersSeparate
CHECK_DEADLOCK FALSE
