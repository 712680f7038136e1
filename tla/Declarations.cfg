SPECIFICATION Spec
CONSTANTS
    Names = {"a", "b"}
    Lists <- MCLists
    MaxDefs = 3
    MaxSize = 3
INVARIANTS
    TypeOK
    NamesMeanTheSame
    CheckedAsGenerated
    TypesKnown
CHECK_DEADLOCK FALSE
