SPECIFICATION FairSpec
CONSTANTS
    Tables = {"ekpo", "eket"}
    Owner = "ekpo"
    MaxPosted = 2
    MaxDay = 1
    MaxFaults = 1
    NoDay = NoDay
INVARIANTS TypeOK NoGap
PROPERTIES Heals
CHECK_DEADLOCK FALSE
