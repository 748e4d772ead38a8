CONSTANTS
    Null = Null
    AbuseKeys = {1, 2}
    VtKeys = {3}
    Registers = {"abuse", "hash", "url"}
    KeySettings <- AllOrAbuse
    Tasks = {t1, t2}
    Day = 1
    Cooldown = 1
    MaxRows = 2
    MaxTime = 1
    MaxDrops = 1
SPECIFICATION Spec
SYMMETRY TaskSymmetry
CONSTRAINT OneRegister
INVARIANTS TypeOK MarkersExpire RetiredOnlyIfRefused NoneOnlyAfterAll AbortsOnlyIfRefused
CHECK_DEADLOCK FALSE
