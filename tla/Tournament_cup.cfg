SPECIFICATION TournamentSpec
CONSTANTS
    User = {u1, u2, u3, u4}
    Creator = u1
    Conn = {c1, c2}
    MaxPlayers = 4
    None = None
INVARIANTS
    TournamentInv
PROPERTIES
    KnockOutPromise
    TransactionsEnd
CHECK_DEADLOCK FALSE
