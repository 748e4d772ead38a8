CONSTANTS
    Null = Null
    NoRow = NoRow
    host = host
    block = block
    MaxTime = 3
    Duration <- MCDuration
    Window = 1
    StoredDays = 2
    Scores = {5, 50}
    Cidrs = {host}
    Hosts = {host}
    Overlap <- HostOnly
    Ids = {i1, i2}
    Reporters = {w1, w2}
    Scanners = {s1}
    Sweepers = {}
    Editors = {}
    Readers = {}
    SettingsChoices <- WithPromotion
    RescorePicks <- NoPicks
    PurgeScores = {}
    MaxReports = 3
    MaxCrashes = 0
SPECIFICATION Spec
SYMMETRY Symmetry
INVARIANTS TypeOK ExpiryBounded NoPermanentBlock
PROPERTIES ScoringNeverUndoes ReportCollapses
CHECK_DEADLOCK FALSE
