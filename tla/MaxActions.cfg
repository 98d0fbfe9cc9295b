\* --max-actions 1 on the shortest path that does not cut the session.
CONSTANTS
    MaxId = 3
    MCMaxActions = 1
    MCPoses = 9
    ChunkCount <- MCChunkCount
    NoAction = NoAction
SPECIFICATION Spec
INVARIANT WithinMaxActions
