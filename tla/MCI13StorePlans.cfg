SPECIFICATION Spec
CONSTANTS
    b1 = b1
    b2 = b2
    mara = mara
    mseg = mseg
    m1 = m1
    m2 = m2
    Planned = {m1}
    Posted = {m1}
    Procs = {b1, b2}
    Tables = {mseg}
    Materials = {m1, m2}
    MaxVersion = 3
    MaxLoads = 0
    MaxDay = 2
    MaxFaults = 1
    StoredAtStart = TRUE
    ManualBuilds = TRUE
    LockLoss = FALSE
    None = None
CHECK_DEADLOCK FALSE
INVARIANTS PlansServed ServedWhole
