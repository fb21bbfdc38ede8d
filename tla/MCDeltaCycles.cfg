SPECIFICATION FairSpec
CONSTANTS
    w1 = w1
    w2 = w2
    pr1 = pr1
    pr2 = pr2
    Workers = {w1, w2}
    Requisitions = {pr1}
    MaxAttempts = 2
    MaxFaults = 2
    Free = Free
INVARIANTS TypeOK OneCycle NoLostRequest
PROPERTIES Served PickedUp
