\* One press, one action.
CONSTANTS
    MaxPress = 1
    Available = 1
    Upscale = FALSE
    NoKey = NoKey
    NoScript = NoScript
SPECIFICATION Spec
INVARIANT QuitAtSafeBoundary
