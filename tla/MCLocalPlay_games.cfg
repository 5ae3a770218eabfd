SPECIFICATION LocalSpec
CONSTANTS
    Lines <- Tried
    Seconds = 2
    MaxJobs = 2
INVARIANTS
    LocalInv
    MovesFollowRules
    LogExplainsBoard
    ComputerIsAsked
CHECK_DEADLOCK FALSE
