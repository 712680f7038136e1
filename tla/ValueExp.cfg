SPECIFICATION Spec
CONSTANTS
    Structs <- MCStructs
    MembersOf <- MCMembersOf
    Variables <- MCVariables
    Functions <- MCFunctions
    ReturnOf <- MCReturnOf
    ArgumentsOf <- MCArgumentsOf
    MaxStack = 3
    MaxNodes = 5
INVARIANTS
    TypeOK
    PlainLowered
    TargetsHavePlaces
    EvaluatedOnce
CHECK_DEADLOCK FALSE
