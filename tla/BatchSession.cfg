\* Four chunks, every combination of the options.
CONSTANTS
    ChunkCount = 4
    NoChunk = NoChunk
SPECIFICATION Spec
INVARIANTS
    DecoderFollowsSession
    RowsAreWhole
    SuccessIsWhole
