SPECIFICATION BackupSpec
CONSTANTS
    empty = empty
    even = even
    odd = odd
    orders = orders
    items = items
    Parts = {"dump", "layers", "chunks", "policy"}
    Tables = {orders, items}
    Engines = {"sqlite", "mysql", "postgresql", "mongodb"}
    MaxWrites = 3
    Damaged = Damaged
    Files = {empty, even, odd}
    Plain <- ThreeFiles
    ChunkSize = 2
    MaxFrames = 3
    Methods = {"none", "gzip", "zip"}
    Keys = {"k1", "k2"}
    MaxTaken = 4
    Horizon = 8
    TicksPerDay = 2
    DaysPerWeek = 2
    DaysPerMonth = 3
    Policies <- SomePolicies
INVARIANTS
    OneMoment
    WholeSelection
    WholeFileOrError
    RoundTrip
    DeepValidIsRestorable
    LayersProtectTheGap
    DeletesWhatNoRuleKeeps
    EarlierRunsLoseNothing
    NewestIsStored
CHECK_DEADLOCK FALSE
