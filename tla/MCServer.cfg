SPECIFICATION ServerSpec
CONSTANTS
    c1 = c1
    c2 = c2
    t1 = t1
    t2 = t2
    k1 = k1
    k2 = k2
    server = server
    script = script
    j1 = j1
    j2 = j2
    j3 = j3
    Parts = {"users", "logins", "secrets", "pool"}
    Clients = {c1, c2}
    Ids = {1, 2, 3}
    Names = {"admin", "ann", "bob"}
    Admin = "admin"
    Together = FALSE
    Threads = {t1, t2}
    Keys = {k1, k2}
    MaxAttempts = 2
    Window = 2
    Processes = {server, script}
    MaxSecrets = 4
    StartTogether = FALSE
    Jobs = {j1, j2, j3}
    Workers = 1
    MaxPools = 4
INVARIANTS
    AtLeastOneAdmin
    SessionIsItsUsers
    FewGuesses
    Readable
    PoolsKeepTheirBound
PROPERTIES
    BlockEnds
CHECK_DEADLOCK FALSE
