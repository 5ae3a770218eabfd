SPECIFICATION AvatarSpec
CONSTANTS
    Conn = {c1, c2}
    File = {f1, f2, f3, f4}
    None = None
INVARIANTS
    AvatarInv
    RowIsServed
PROPERTIES
    UploadsEnd
CHECK_DEADLOCK FALSE
