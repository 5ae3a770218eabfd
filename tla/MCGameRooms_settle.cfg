SPECIFICATION RoomsFairSpec
CONSTANTS
    User = {1, 2}
    Room = {r1}
    Game = {1}
    None = None
    MaxMoves = 1
    Endings = {"checkmate"}
    WinMilestones = {1}
    QuickWinMoves = 1
    MarathonMoves = 2
    Replica = {"p"}
    Socket = {1, 2}
    Home <- HomeOne
    Owner <- OwnerPair
    Task = {1, 2}
    Obj = {1, 2, 3, 4, 5}
    Events = {"create", "join", "move", "game_over"}
    Faults = TRUE
    SharedVotes = FALSE
INVARIANTS
    CacheNeverAhead
PROPERTIES
    TasksEnd
CHECK_DEADLOCK FALSE
