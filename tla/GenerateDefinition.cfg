SPECIFICATION DefinitionSpec
CONSTANTS
    P = 2
    MaxSelfCalls = 2
    MaxIterations = 3
    Compute <- MCCompute
    Initial <- MCInitial
    Definitions <- MCDefinitions
    Names <- MCNames
    Inputs = {1, 2}
    MAX_NODES = 30
    MAX_DEPTH = 2
INVARIANTS
    MeaningKept
    JoinAdmissionIsExact
    SameOutcome
PROPERTIES
    BorrowsStay
CHECK_DEADLOCK FALSE
