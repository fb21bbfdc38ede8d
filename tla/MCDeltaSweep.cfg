SPECIFICATION FairSpec
CONSTANTS
    Sets <- PoSets
    Direct <- PoDirect
    Via <- PoVia
    Name <- PoName
    Events <- PoEvents
    Carrier <- PoCarrier
    Choices <- Verified
    EmptyAtStart = {}
    SeedMargin = 1
    LoadedOn = 1
    BadDays <- MistypedDays
    MaxDay = 2
    MaxPosted = 2
    MaxFaults = 1
    NoDay = NoDay
INVARIANTS TypeOK NoGap
PROPERTIES MarkForward Arrives
