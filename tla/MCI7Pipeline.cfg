SPECIFICATION FairSpec
CONSTANTS
    Instances = {i1, i2}
    NoOne = NoOne
    NumSteps = 2
    Later <- TwoStages
    Reads <- StageReads
    Retries = 1
    MaxLoads = 2
    Complete = {2}
    MaxKills = 1
INVARIANTS TypeOK Owned Published AttemptsEnd
PROPERTIES Settles CarriedOn SweptWhole
