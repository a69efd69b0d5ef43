SPECIFICATION ScriptSpec
CONSTANTS
    MaxBackups = 1
    MaxSecond = 0
    MaxVariant = 1
    shop = shop
    crm = crm
    Stems = {shop, crm}
    Conns = {shop, crm}
    Ask <- AskOne
    Workers = 2
    Admins = {}
    Reapers = {}
    Faults = {}
    NoName = NoName
PROPERTIES
    OnlyInterruptedRunsAreFailed
CHECK_DEADLOCK FALSE
