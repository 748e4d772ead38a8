CONSTANTS
    Null = Null
    NoRow = NoRow
    host = host
    block = block
    MaxTime = 2
    Duration <- MCDuration
    Window = 1
    StoredDays = 2
    Scores = {5, 90}
    Cidrs = {host, block}
    Hosts = {host}
    Overlap <- HostAndBlock
    Ids = {i1}
    Reporters = {w1}
    Scanners = {}
    Sweepers = {a1}
    Editors = {}
    Readers = {f1}
    SettingsChoices <- OnlyDefaults
    RescorePicks <- NoPicks
    PurgeScores = {5}
    MaxReports = 2
    MaxCrashes = 1
SPECIFICATION Spec
INVARIANTS FeedRespectsWhitelist
