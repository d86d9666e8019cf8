SPECIFICATION LiveSpec
CONSTANTS
    MaxOpens = 1
    MaxFrames = 1
    MaxAudio = 1
    BackCamera = TRUE
    Rotated = TRUE
    Null = Null
    Wild = Wild
    Garbage = {Null, Wild}
INVARIANTS   PacketsAccounted StaleNotSent
PROPERTIES StopEndsPusher
CHECK_DEADLOCK FALSE
