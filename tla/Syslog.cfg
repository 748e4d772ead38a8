CONSTANTS
    Null = Null
    Threads = {t1, t2}
    Collectors = {c1, c2}
    Choices <- NoActivity
    MaxRecords = 3
SPECIFICATION FairSpec
INVARIANTS TypeOK SentWhereConfigured
PROPERTIES OneLossPerFailure LoggingEnds
