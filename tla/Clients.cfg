\* The benchmark with three actions and a chunk for the bootstrap and for each
\* of them; two page loads with two keys each.
CONSTANTS
    MaxId = 3
    ChunkCount = 4
    NoAction = NoAction
    MaxPages = 2
    MaxKeys = 2
    NoPage = NoPage
SPECIFICATION ClientsSpec
INVARIANTS
    NextActionAfterNextReady
    DuplicatesAreReal
PROPERTY BenchmarkAlwaysEnds
