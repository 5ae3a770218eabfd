SPECIFICATION StartupSpec
\* Four files stand for the nine of the repository: file 2 is
\* 006_add_game_board_fen, which assertMigrationsComplete does not name, 3 the
\* gate 007 and 4 the grants of 008.
CONSTANTS
    Runner = {r1, r2}
    Last = 4
    Asserted = {1, 3}
    Gate = 3
    Attempts = 2
    None = None
INVARIANTS
    StartupInv
PROPERTIES
    AdmittedHasItsClients
    FailedStartsEnd
    BecomesReady
