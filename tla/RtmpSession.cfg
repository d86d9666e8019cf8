SPECIFICATION LiveSpec
CONSTANTS
    MaxNoise = 2
    MaxInbox = 2
    MaxNest = 3
INVARIANTS  ResultMeetsItsCall NoStreamLeftBehind
PROPERTIES ConnectStreamReturns
CHECK_DEADLOCK FALSE
