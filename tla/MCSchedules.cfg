SPECIFICATION SchedulesSpec
CONSTANTS
    c1 = c1
    c2 = c2
    w1 = w1
    w2 = w2
    Parts = {"jobs", "rows", "connections"}
    Ids = {1, 2}
    Connections = {"shop"}
    Triggers = {"nightly", "hourly"}
    Clients = {c1}
    Workers = {w1, w2}
    MaxRequests = 3
    Together = FALSE
    StoreFails = TRUE
    Times <- OneTime
    Crons <- OneCron
    Words <- SomeWords
    LowerCase <- Capitals
    ScheduleBodies <- SomeScheduleBodies
    ConnectionIds = {1, 2}
    Jobs = {1}
    ConnectionBodies <- SomeConnectionBodies
    Overrides <- SomeOverrides
INVARIANTS
    JobsAgree
    RowsAreFixpoints
    PutTouchesOnlyItsFields
    SQLiteKeepsNothing
    RowDescribesItsDump
    LikeIntoLike
PROPERTIES
    StatusIsTheLastOne
    EnabledRuns
CHECK_DEADLOCK FALSE
