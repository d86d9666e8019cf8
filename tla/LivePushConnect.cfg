SPECIFICATION Spec
CONSTANTS
    MaxOpens = 2
    MaxFrames = 0
    MaxAudio = 0
    BackCamera = FALSE
    Rotated = TRUE
    Null = Null
    Wild = Wild
    Garbage = {Null, Wild}
INVARIANT OnePusher
CHECK_DEADLOCK FALSE
