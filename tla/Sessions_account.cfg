SPECIFICATION SessionsSpec
CONSTANTS
    Browser = {b1}
    Conn = {c1, c2}
    MaxTokens = 3
    MaxLinks = 3
    MaxVersion = 1
    None = None
INVARIANTS
    SessionsInv
PROPERTIES
    SpentStaysSpent
    KnownCredentialsDie
    RequestsEnd
CHECK_DEADLOCK FALSE
