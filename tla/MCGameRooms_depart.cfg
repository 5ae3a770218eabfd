SPECIFICATION RoomsSpec
CONSTANTS
    User = {1, 2}
    Room = {r1}
    Game = {1, 2}
    None = None
    MaxMoves = 1
    Endings = {"checkmate"}
    WinMilestones = {1}
    QuickWinMoves = 1
    MarathonMoves = 2
    Replica = {"p"}
    Socket = {1, 2}
    Home <- HomeOne
    Owner <- OwnerPair
    Task = {1}
    Obj = {1, 2, 3}
    Events = {"create", "join", "move", "game_over", "resign", "leave", "restart", "accept", "expire"}
    Faults = TRUE
    SharedVotes = TRUE
INVARIANTS
    JoinedAreAttached
    RematchUnanimous
CHECK_DEADLOCK FALSE
