SPECIFICATION Spec
CONSTANTS
    Op = {"http", "join", "room"}
    Room = {"r"}
    Kind <- OpKinds
    RoomOf <- OneRoom
    Cap <- SmallCap
    Global = 9
    MaxLag = 2
    None = None
INVARIANTS
    ShutdownInv
    DrainComplete
PROPERTIES
    ShutdownEnds
CHECK_DEADLOCK FALSE
