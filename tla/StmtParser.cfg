SPECIFICATION Spec
CONSTANTS
    MaxTokens = 5
    MaxBody = 8
    Inputs <- MCInputs
INVARIANTS
    TypeOK
    AcceptsExactly
    TreesHoldBodies
    RefusalsHaveMessages
CHECK_DEADLOCK FALSE
