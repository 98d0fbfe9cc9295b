\* Three ids, a path that allows one user action: the slot is contended, a
\* second executed action runs out of chunks.
CONSTANTS
    MaxId = 3
    MCMaxActions = 2
    MCPoses = 9
    ChunkCount <- MCChunkCount
    NoAction = NoAction
SPECIFICATION FairSpec
INVARIANTS
    NoActionLost
    MarksInOrder
    OneFate
    CleanBeforeNext
    ReportIsFinal
PROPERTIES
    ImplementsActionSlot
    AcceptedIsResolved
    ServerStops
