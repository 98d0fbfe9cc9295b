\* The frame counts of the code: 4 frames per latent, room for 8.
CONSTANTS
    LastAction = 2
    FrameMax = 4
    QueueMax = 8
SPECIFICATION FairSpec
INVARIANTS
    NewestFirstFrameKept
PROPERTIES
    FirstFramePublished
    KeepsOrder
