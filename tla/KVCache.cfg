\* The release window (12 frames, 6 sinks) and schedule (3 denoising forwards)
\* over the 16 chunks of the equivalence harness, in the host-cursor lane.
CONSTANTS
    Size = 12
    Sink = 6
    Timesteps = 3
    Blocks = 3
    ChunkCount = 16
    HostCursor = TRUE
SPECIFICATION Spec
INVARIANTS
    WindowInvariant
    CursorsAgree
    CrossCacheFilled
    OccupancyMatchesCache
PROPERTIES
    AttendsCleanHistory
    CleanPassMovesNoCursor
    BlocksRoll
