SPECIFICATION FairSpec
CONSTANTS
    r1 = r1
    r2 = r2
    b1 = b1
    users = users
    orders = orders
    Restores = {r1, r2}
    Backups = {b1}
    Source <- FromOne
    Safety <- AllSafe
    Tables = {users, orders}
    Dumped = {users, orders}
    Listed = {users}
    Engines = {"sqlite", "mysql", "postgresql", "mongodb"}
    Overlap = FALSE
    Faults = {"setup", "safety", "tool", "store", "delete", "rot", "crash", "orphan", "locked"}
INVARIANTS
    OverwrittenIsKept
    AllOrNothing
PROPERTIES
    ContractHolds
    SuccessIsTheDump
    EveryRestoreEnds
CHECK_DEADLOCK FALSE
