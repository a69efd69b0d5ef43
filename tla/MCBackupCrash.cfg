SPECIFICATION FairSpec
CONSTANTS
    MaxBackups = 2
    MaxSecond = 1
    MaxVariant = 0
    shop = shop
    crm = crm
    Stems = {shop, crm}
    Conns = {shop, crm}
    Ask <- AskMixed
    Workers = 2
    Admins = {admin}
    Reapers = {}
    Faults = {"store", "erase", "crash", "rot"}
    NoName = NoName
INVARIANTS
    TypeOK
    RunningHasWorker
PROPERTIES
    EveryRunEnds
    LedgerHolds
CHECK_DEADLOCK FALSE
