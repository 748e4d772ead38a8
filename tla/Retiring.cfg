CONSTANTS
    Null = Null
    NoRow = NoRow
    host = host
    block = block
    MaxTime = 3
    Duration <- MCDuration
    Window = 1
    StoredDays = 2
    Scores = {5, 90}
    Cidrs = {host}
    Hosts = {host}
    Overlap <- HostOnly
    Ids = {i1, i2}
    Reporters = {w1, w2}
    Scanners = {}
    Sweepers = {}
    Editors = {}
    Readers = {}
    SettingsChoices <- OnlyDefaults
    RescorePicks <- NoPicks
    PurgeScores = {}
    MaxReports = 2
    MaxCrashes = 0
    Hashes = {h}
    Urls = {u}
    Verdicts <- UnknownAndFlagged
    Thresholds = {5}
    EntryIds = {j1, j2}
    Senders = {v1}
    Checkers = {c1}
    MalwareCounts = {0}
    Restarts = 1
SPECIFICATION FairBothSpec
PROPERTIES ExpiredRetired ReportsAnswered HiddenReturns
CHECK_DEADLOCK FALSE
