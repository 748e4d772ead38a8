CONSTANTS
    Null = Null
    Threads = {t1}
    Collectors = {c1}
    Choices <- AllStreams
    MaxRecords = 1
SPECIFICATION FairSpec
PROPERTIES LoggingEnds
