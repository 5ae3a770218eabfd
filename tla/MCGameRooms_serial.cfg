SPECIFICATION RoomsSpec
CONSTANTS
    User = {1, 2}
    Room = {r1}
    Game = {1}
    None = None
    MaxMoves = 1
    Endings = {}
    WinMilestones = {1}
    QuickWinMoves = 1
    MarathonMoves = 2
    Replica = {"p"}
    Socket = {1, 2, 3, 4}
    Home <- HomeOne
    Owner <- OwnerPair
    Task = {1, 2}
    Obj = {1, 2, 3, 4, 5}
    Events = {"create", "join", "disconnect", "restart"}
    Faults = FALSE
    SharedVotes = FALSE
INVARIANTS
    RoomsInv
    SeatsFollowSockets
    BothStarted
CHECK_DEADLOCK FALSE
