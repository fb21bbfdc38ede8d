SPECIFICATION Spec
CONSTANTS
    NumParts = 2
    Window <- FirstChunk
    MaxLanding = 2
    MaxRequests = 1
    MaxFaults = 0
INVARIANT CompleteIsWhole
CHECK_DEADLOCK FALSE
