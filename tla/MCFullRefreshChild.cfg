SPECIFICATION Spec
CONSTANTS
    Tables = {"ekpo", "eket"}
    Owner = "ekpo"
    MaxPosted = 2
    MaxDay = 2
    MaxFaults = 1
    NoDay = NoDay
PROPERTIES SeedsFamily
CHECK_DEADLOCK FALSE
