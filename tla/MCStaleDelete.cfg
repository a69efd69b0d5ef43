SPECIFICATION Spec
CONSTANTS
    MaxBackups = 2
    MaxSecond = 0
    MaxVariant = 0
    shop = shop
    crm = crm
    Stems = {shop, crm}
    Conns = {shop, crm}
    Ask <- AskSame2
    Workers = 1
    Admins = {ann, bob}
    Reapers = {}
    Faults = {}
    NoName = NoName
PROPERTIES
    DeletesOnlyItsFile
CHECK_DEADLOCK FALSE
