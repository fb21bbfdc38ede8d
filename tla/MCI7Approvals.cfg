SPECIFICATION Spec
CONSTANTS
    Route <- TwoSteps
    Roles <- TwoRoles
    Requests = {r1, r2}
    Manual = TRUE
    MaxRows = 2
    MaxWork = 6
    MaxEdits = 1
SYMMETRY AnyRequest
INVARIANTS TypeOK FinalSigned LastWord SignedFigures LedgerTells VersionNames
PROPERTIES SignsOff
CHECK_DEADLOCK FALSE
