CONSTANTS
    Ids = {n1}
    Accounts = {a1, a2}
    Dispatchers = {d1, d2}
    Replayers = {}
    None = None
    MaxAttempts = 2
    PageLimit = 1
    LeaseSeconds = 2
    RetryBase = 1
    RetryCeiling = 2
    Transactional = FALSE
    MaxClock = 30
    MaxCrashes = 1
    RunSeconds = 1
    FreeTicks = 0
    MaxOwner = 3
    PageSize = 1
    FanoutClock = 1
    MaxChurn = 1
SPECIFICATION FairHalves
INVARIANTS EveryOwnerOnce
PROPERTIES AdvancesPassTheGuards OwnerAlertsSettle FanoutCompletes
