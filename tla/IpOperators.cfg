CONSTANTS
    Null = Null
    NoRow = NoRow
    host = host
    block = block
    MaxTime = 1
    Duration <- MCDuration
    Window = 1
    StoredDays = 2
    Scores = {5, 50}
    Cidrs = {host}
    Hosts = {host}
    Overlap <- HostOnly
    Ids = {i1}
    Reporters = {}
    Scanners = {s1}
    Sweepers = {}
    Editors = {e1}
    Readers = {}
    SettingsChoices <- AllSettings
    RescorePicks <- AnyPick
    PurgeScores = {5}
    MaxReports = 0
    MaxCrashes = 0
SPECIFICATION Spec
PROPERTIES PinHeldThroughScan ScoringNeverUndoes
