SPECIFICATION OnlineSpec
CONSTANTS
    Client = {"A", "B"}
    Host = "A"
    MaxMoves = 3
    MaxGames = 2
    MaxTrouble = 2
    MaxPackets = 0
INVARIANTS
    OnlineInv
    
PROPERTIES
    Recovers
CHECK_DEADLOCK FALSE
