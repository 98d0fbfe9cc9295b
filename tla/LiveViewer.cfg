\* Four presses for two user actions, with the upscaler in between; no script,
\* or one of none to three keys.
CONSTANTS
    MaxPress = 4
    Available = 2
    Upscale = TRUE
    NoKey = NoKey
    NoScript = NoScript
SPECIFICATION FairSpec
INVARIANTS
    NewestKeyHeld
    ReportIsHonest
PROPERTIES
    KeyIsAnswered
    ImplementsActionSlot
