SPECIFICATION Spec
CONSTANTS
    N = 3
    Cells = {x, y}
    Contents = {u, v}
INVARIANTS
    TypeOK
    FunctionSeesKscLayout
    CallerKeepsLayout
PROPERTIES
    PointersSpec
CHECK_DEADLOCK FALSE
