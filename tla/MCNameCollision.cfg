SPECIFICATION Spec
CONSTANTS
    MaxBackups = 2
    MaxSecond = 0
    MaxVariant = 1
    shop = shop
    crm = crm
    Stems = {shop, crm}
    Conns = {shop, crm}
    Ask <- AskSame2
    Workers = 2
    Admins = {}
    Reapers = {}
    Faults = {}
    NoName = NoName
INVARIANTS
    NamesNeverCollide
CHECK_DEADLOCK FALSE
