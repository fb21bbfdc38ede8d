SPECIFICATION FairSpec
CONSTANTS
    NumParts = 2
    Window <- FirstChunk
    MaxLanding = 2
    MaxRequests = 2
    MaxFaults = 1
INVARIANTS TypeOK WholeFile
PROPERTIES Unblocked
CHECK_DEADLOCK FALSE
