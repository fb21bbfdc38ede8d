SPECIFICATION FairSpec
CONSTANTS
    b1 = b1
    b2 = b2
    mara = mara
    mseg = mseg
    m1 = m1
    m2 = m2
    Planned = {}
    Posted = {}
    Procs = {b1, b2}
    Tables = {mseg}
    Materials = {m1}
    MaxVersion = 8
    MaxLoads = 2
    MaxDay = 1
    MaxFaults = 1
    StoredAtStart = TRUE
    ManualBuilds = FALSE
    LockLoss = FALSE
    None = None
CHECK_DEADLOCK FALSE
INVARIANTS TypeOK ServedWhole Fresh
PROPERTIES NeverBack UpToDate
