SPECIFICATION ModuleSpec
CONSTANTS
    N = 3
    T = 3
    Bodies <- MCBodies
    Modules <- MCModules
INVARIANTS
    NoInfiniteType
CHECK_DEADLOCK FALSE
