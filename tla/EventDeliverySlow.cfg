\* One page that reads slowly, one action, two notes.
CONSTANTS
    Clients = {c1}
    Attentive = {c1}
    LastAction = 0
    FrameCount = 1
    NoteMax = 2
    BusMax = 2
    OutMax = 2
    WireMax = 1
    TailMax = 2
SPECIFICATION FairSpec
PROPERTY FirstFrameSurvives
CHECK_DEADLOCK FALSE
