\* Two chunks are enough: the overlapped schedule keeps no latent at all.
CONSTANTS
    ChunkCount = 2
    NoChunk = NoChunk
SPECIFICATION Spec
INVARIANT LatentsAreSaved
