SPECIFICATION Spec
CONSTANTS
    MaxOpens = 1
    MaxFrames = 1
    MaxAudio = 1
    BackCamera = TRUE
    Rotated = TRUE
    Null = Null
    Wild = Wild
    Garbage = {Null, Wild}
INVARIANT ConfigurationFirst
CHECK_DEADLOCK FALSE
