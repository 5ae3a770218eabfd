SPECIFICATION StoreSpec
CONSTANTS
    User = {1, 2, 3}
    Room = {r1}
    Game = {1, 2, 3}
    None = None
    MaxMoves = 1
    Endings = {}
    WinMilestones = {1}
    QuickWinMoves = 1
    MarathonMoves = 2
    Txn = {t1, t2}
INVARIANTS
    MovesMatchBoard
    OneSuccessor
PROPERTIES
    EndedIsFinal
    SeatsAreFinal
SYMMETRY StoreSymmetry
CHECK_DEADLOCK FALSE
