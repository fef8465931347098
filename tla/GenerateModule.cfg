SPECIFICATION ModuleSpec
CONSTANTS
    N = 3
    T = 3
    Bodies <- MCBodies
    Modules <- MCModules
INVARIANTS
    LeastFixpoint
    QuestionMarksTyped
    TypeVerdictsAreTrue
PROPERTIES
    GenerationEnds
CHECK_DEADLOCK FALSE
