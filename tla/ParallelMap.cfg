SPECIFICATION FairSpec
CONSTANTS
    MaxLen = 4
    Requests <- MCRequests
INVARIANTS
    ExclusiveSlots
    NoWorkerSurvives
    StopsAtFirstFailure
PROPERTIES
    KeepsPromise
    CallEnds
