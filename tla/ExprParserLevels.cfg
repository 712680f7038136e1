SPECIFICATION Spec
CONSTANTS
    MaxTokens = 7
    MaxShort = 3
    Leaves = {"v"}
    Numbers = {}
    Arity <- NoNames
    Elements <- NoNames
    Ops = {"-", "*"}
    Prefixes = {"-"}
    Inputs <- MCInputs
INVARIANTS
    OperatorsGrouped
CHECK_DEADLOCK FALSE
