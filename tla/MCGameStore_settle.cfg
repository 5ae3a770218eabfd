SPECIFICATION StoreSpec
CONSTANTS
    User = {1, 2}
    Room = {r1, r2}
    Game = {1, 2}
    None = None
    MaxMoves = 1
    Endings = {"draw"}
    WinMilestones = {1, 2}
    QuickWinMoves = 1
    MarathonMoves = 2
    Txn = {t1, t2}
INVARIANTS
    StoreInv
    RatingsMatchResults
    RecordsMatchResults
    NoSettlementDeadlock
PROPERTIES
    LedgerSpec
SYMMETRY StoreSymmetry
CHECK_DEADLOCK FALSE
