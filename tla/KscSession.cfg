SPECIFICATION Spec
CONSTANTS
    Names <- MCNames
    Intrinsics <- MCIntrinsics
    ModuleTexts <- MCModuleTexts
    SharedTexts <- MCSharedTexts
    MaxCalls = 4
    Reinit = TRUE
INVARIANTS
    TypeOK
    CallsStayInModule
    HandlesOfOwnDefinitions
    NoCodeOfRefusedSources
    PointersComplete
    StopsExplained
PROPERTIES
    SharedDomainFrozen
    CallsReturn
CHECK_DEADLOCK FALSE
