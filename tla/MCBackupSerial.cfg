SPECIFICATION TurnSpec
CONSTANTS
    MaxBackups = 3
    MaxSecond = 0
    MaxVariant = 1
    shop = shop
    crm = crm
    Stems = {shop, crm}
    Conns = {shop, crm}
    Ask <- AskSame3
    Workers = 2
    Admins = {admin}
    Reapers = {reaper}
    Faults = {"move", "deep", "stuck"}
    NoName = NoName
INVARIANTS
    NamesNeverCollide
    SuccessHasItsDump
PROPERTY
    DeletesOnlyItsFile
CHECK_DEADLOCK FALSE
