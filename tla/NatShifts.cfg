SPECIFICATION Spec
CONSTANTS
    W = 4
    E = 3
    Depth = 3
INVARIANTS
    ShiftsReportOverflow
CHECK_DEADLOCK FALSE
