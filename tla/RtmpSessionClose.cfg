SPECIFICATION Spec
CONSTANTS
    MaxNoise = 0
    MaxInbox = 1
    MaxNest = 3
INVARIANT HandleInvokeReturns
CHECK_DEADLOCK FALSE
