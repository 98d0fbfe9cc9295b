\* A page against buffers that two actions of three frames overflow, and a
\* page that never reads.
CONSTANTS
    Clients = {c1, c2}
    Attentive = {c1}
    LastAction = 1
    FrameCount = 3
    NoteMax = 1
    BusMax = 2
    OutMax = 2
    WireMax = 1
    TailMax = 2
SPECIFICATION MCSpec
INVARIANTS
    WakeUpComes
    MissesNothing
PROPERTIES
    ClientsInOrder
    ScreenGoesForward
    NewestIsShown
CHECK_DEADLOCK FALSE
