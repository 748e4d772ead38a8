CONSTANTS
    Runners = {scheduler, r1}
    Scheduler = scheduler
    MaxTime = 3
    MaxRuns = 4
    MaxPartials = 1
    MaxStuck = 1
    Policies <- AllPolicies
SPECIFICATION BackupSpec
INVARIANTS BackupRemains
PROPERTIES AloneKeepsPromise
CHECK_DEADLOCK FALSE
