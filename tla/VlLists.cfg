CONSTANTS
    Null = Null
    NoRow = NoRow
    Hashes = {h}
    Urls = {u}
    Ids = {i1, i2}
    Reporters = {w1}
    Scanners = {s1}
    Editors = {e1}
    Verdicts <- UnknownAndFlagged
    Thresholds <- OrDisabled
    RescorePicks <- AnyPick
    PurgeScores = {0}
    MaxCrashes = 1
SPECIFICATION Spec
SYMMETRY IdSymmetry
CONSTRAINTS NoRestart NoRaces
ACTION_CONSTRAINT NoReportEnds
INVARIANTS TypeOK
PROPERTIES OperatorWins PinHeld
CHECK_DEADLOCK FALSE
