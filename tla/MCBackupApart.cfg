SPECIFICATION VerifySpec
CONSTANTS
    MaxBackups = 2
    MaxSecond = 0
    MaxVariant = 0
    shop = shop
    crm = crm
    Stems = {shop, crm}
    Conns = {shop, crm}
    Ask <- AskMixed
    Workers = 2
    Admins = {admin}
    Reapers = {reaper}
    Faults = {"setup", "dump", "move", "store", "deep", "unexpected", "rot"}
    NoName = NoName
    Checkers = {reader}
    CheckAnyRow = FALSE
INVARIANTS
    NoOrphanFile
    VerdictIsTrue
PROPERTY
    FailedIsFinal
CHECK_DEADLOCK FALSE
