CONSTANTS
    Null = Null
    Services = {s1}
    Threads = {t1, t2}
    Plans <- MCPlans
    BadPlans <- MCBadPlans
    DefaultPlan <- MCDefaultPlan
    MaxSaves = 2
    MaxCrashes = 1
SPECIFICATION FairSpec
INVARIANTS TypeOK SchedulesFollow StaleOnlyByRace
PROPERTIES ScheduleKept SavesEnd
CHECK_DEADLOCK FALSE
