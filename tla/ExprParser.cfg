SPECIFICATION Spec
CONSTANTS
    MaxTokens = 7
    MaxShort = 4
    Leaves = {"v"}
    Numbers = {"1"}
    Arity <- MCArity
    Elements <- MCElements
    Ops = {"+", "*"}
    Prefixes = {"-"}
    Inputs <- MCInputs
INVARIANTS
    TypeOK
    AcceptsExactly
    TreesHoldExpressions
    RefusalsHaveMessages
CHECK_DEADLOCK FALSE
