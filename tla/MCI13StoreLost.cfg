SPECIFICATION Spec
CONSTANTS
    b1 = b1
    b2 = b2
    mara = mara
    mseg = mseg
    m1 = m1
    m2 = m2
    Planned = {}
    Posted = {}
    Procs = {b1, b2}
    Tables = {mara, mseg}
    Materials = {m1}
    MaxVersion = 4
    MaxLoads = 0
    MaxDay = 1
    MaxFaults = 2
    StoredAtStart = FALSE
    ManualBuilds = TRUE
    LockLoss = TRUE
    None = None
CHECK_DEADLOCK FALSE
SYMMETRY Interchange
INVARIANTS OneReady
