SPECIFICATION Spec
CONSTANTS
    MaxCalls = 4
    Maximum = 6
    ChunkSizes <- MCChunkSizes
INVARIANTS
    OneCallAtATime
    AnswerIsLatest
    MessageKept
    ReadIsBounded
