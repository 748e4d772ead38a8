CONSTANTS
    Null = Null
    Workers = {w1}
    Callers = {}
    Address = ip
    Limit = 1
    AddressLimit = 2
    Window = 1
    MaxCalls = 1
    MaxTime = 2
    Enabled <- QuotaOrTraffic
    ApiKeys = {k1, k2}
    Percent = 80
    Silence = 1
    Cooldown = 2
SPECIFICATION FairSpec
INVARIANTS TypeOK NoSilentCooldown
PROPERTIES MailsSpaced TroubleNoticed
