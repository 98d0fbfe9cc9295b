\* The configuration of both session harnesses: window 12, 6 sinks, 3 forwards,
\* 16 chunks or 20 prefix actions.  Three blocks, of which one to four are to be
\* replaced.  Up to three runs of the 14B model.
CONSTANTS
    Size = 12
    Sink = 6
    Timesteps = 3
    CacheBlocks = 2
    ChunkCount = 16
    PrefixActions = 20
    Poses = 121
    BlockCount = 3
    MaxRequested = 4
    MaxRepeat = 3
SPECIFICATION Spec
INVARIANTS
    LanesAgree
    BranchesMatch
    ProbeIsHonest
    NoColdGraph
    OriginalsRestored
    ReportIsWhole
