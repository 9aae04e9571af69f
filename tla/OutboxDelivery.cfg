CONSTANTS
    Ids = {n1, n2, n3}
    Accounts = {a1, a2}
    Dispatchers = {d1, d2}
    Replayers = {r1, r2}
    None = None
    MaxAttempts = 2
    PageLimit = 2
    LeaseSeconds = 2
    RetryBase = 1
    RetryCeiling = 2
    Transactional = FALSE
    MaxClock = 4
    MaxCrashes = 1
SPECIFICATION DeliverySpec
SYMMETRY Symmetry
INVARIANTS TypeOK DeliveredWasAccepted OneCallPerAttempt SettledIsAudited ReplayIsExactlyOnce
PROPERTIES TerminalIsFinal RetriesAreSpaced
