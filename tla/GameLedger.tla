----------------------------- MODULE GameLedger -----------------------------
(***************************************************************************)
(* What PostgreSQL promises about multiplayer games: the committed rows of *)
(* games, moves, scores, user_achievements and users.elo_rating, changed   *)
(* by one indivisible step per transaction of models/Game.js and           *)
(* socket/gameSocket.js.  GameStore (row locks, aborts) implements this    *)
(* specification; GameRooms uses these steps as its commits.               *)
(*                                                                         *)
(* A board is abstracted to whose turn it is and whether the game is over. *)
(* A rating is abstracted to the set of games whose outcome it includes,   *)
(* so that a lost or repeated update is visible.                           *)
(***************************************************************************)
EXTENDS Naturals, Sequences, FiniteSets

CONSTANTS
    User,            \* users.id
    Room,            \* room ids
    Game,            \* games.id, handed out in order (SERIAL)
    None,            \* SQL NULL
    MaxMoves,        \* bound on the moves of one game
    Endings,         \* the ends chess.js may report: checkmate, draw
    WinMilestones,   \* wins_5, wins_10, ... (first_win is milestone 1)
    QuickWinMoves,   \* quick_win: at most this many moves
    MarathonMoves    \* marathon: at least this many moves

Color == {"w", "b"}

ASSUME LedgerAssumption ==
    /\ User \subseteq Nat
    /\ Game \subseteq Nat
    /\ None \notin User /\ None \notin Room
    /\ None \notin Game /\ None \notin Color
    /\ MaxMoves \in Nat
    /\ Endings \subseteq {"checkmate", "draw"}
    /\ WinMilestones \subseteq Nat
    /\ QuickWinMoves \in Nat
    /\ MarathonMoves \in Nat

VARIABLES
    games,    \* the games table
    moves,    \* moves[g]: player_color of the rows of moves, by move_number
    elo,      \* elo[u]: games whose outcome users.elo_rating includes
    scores,   \* the scores table
    awards    \* the user_achievements table

ledgerVars == <<games, moves, elo, scores, awards>>

Status == {"absent", "in_progress", "finished", "abandoned"}
Board  == [turn : Color, over : {"no", "checkmate", "draw"}]
Result == {"none", "checkmate", "draw", "resign", "process_failure"}

\* home and prev are not columns: the room a game was created in (a room
\* object's own id, which a replica keeps after room_id is released) and the
\* finished game that a rematch replaced.
GameRow ==
    [status : Status, room : Room \cup {None}, home : Room \cup {None},
     white : User \cup {None}, black : User \cup {None}, board : Board,
     result : Result, winner : Color \cup {None}, prev : Game \cup {None}]

ScoreRow == [game : Game, user : User, moves : Nat, winner : BOOLEAN]

AwardKey == {"first_game", "wins", "quick_win", "marathon"} \X Nat

Other(c) == IF c = "w" THEN "b" ELSE "w"

StartBoard == [turn |-> "w", over |-> "no"]

NoGame ==
    [status |-> "absent", room |-> None, home |-> None, white |-> None,
     black |-> None, board |-> StartBoard, result |-> "none",
     winner |-> None, prev |-> None]

\* The row Game.create inserts.
NewRow(r, w, b, p) ==
    [NoGame EXCEPT !.status = "in_progress", !.room = r, !.home = r,
                   !.white = w, !.black = b, !.prev = p]

Seats(row) == {row.white, row.black} \ {None}

SeatOf(row, c) == IF c = "w" THEN row.white ELSE row.black

\* SERIAL primary key: the next id is the smallest unused one.
NextId(g) ==
    /\ games[g].status = "absent"
    /\ \A h \in Game : h < g => games[h].status # "absent"

\* UNIQUE (room_id): no row holds r.
RoomFree(r) == \A g \in Game : games[g].room # r

(***************************************************************************)
(* Wins of u among score rows S, and the achievements one settlement of n  *)
(* moves inserts for a player: `wins' counts the row just inserted.        *)
(***************************************************************************)
WinsIn(S, u) == Cardinality({s \in S : s.user = u /\ s.winner})

Earned(won, n, wins) ==
    {<<"first_game", 0>>}
      \cup (IF won THEN {<<"wins", k>> : k \in {m \in WinMilestones : wins >= m}}
                   ELSE {})
      \cup (IF won /\ n <= QuickWinMoves THEN {<<"quick_win", 0>>} ELSE {})
      \cup (IF n >= MarathonMoves THEN {<<"marathon", 0>>} ELSE {})

-----------------------------------------------------------------------------

LedgerInit ==
    /\ games = [g \in Game |-> NoGame]
    /\ moves = [g \in Game |-> <<>>]
    /\ elo = [u \in User |-> {}]
    /\ scores = {}
    /\ awards = [u \in User |-> {}]

\* Game.create: a new in_progress row holding room r, black seat empty.
Open(g, r, u) ==
    /\ NextId(g)
    /\ RoomFree(r)
    /\ games' = [games EXCEPT ![g] = NewRow(r, u, None, None)]
    /\ UNCHANGED <<moves, elo, scores, awards>>

\* Game.claimBlack: the empty black seat is claimed once.
Seat(g, u) ==
    /\ games[g].status = "in_progress"
    /\ games[g].black = None
    /\ games' = [games EXCEPT ![g].black = u]
    /\ UNCHANGED <<moves, elo, scores, awards>>

\* persistMoveAtomic: colour c moves; `over' is what chess.js finds after it.
Play(g, c, over) ==
    /\ games[g].status = "in_progress"
    /\ games[g].board = [turn |-> c, over |-> "no"]
    /\ games' = [games EXCEPT ![g].board = [turn |-> Other(c), over |-> over]]
    /\ moves' = [moves EXCEPT ![g] = Append(@, c)]
    /\ UNCHANGED <<elo, scores, awards>>

\* finalizeGameAtomic: result, ratings, scores and achievements of both
\* players, all or nothing.  n is the caller's move count; the CHECK on
\* scores.moves refuses 0.
Settle(g, result, winner, n) ==
    LET row  == games[g]
        rows == {[game |-> g, user |-> SeatOf(row, c), moves |-> n,
                  winner |-> (c = winner)] : c \in Color}
    IN  /\ row.status = "in_progress"
        /\ row.black # None
        /\ n > 0
        /\ games' = [games EXCEPT ![g].status = "finished",
                                  ![g].result = result, ![g].winner = winner]
        /\ elo' = [u \in User |-> IF u \in Seats(row) THEN elo[u] \cup {g}
                                                      ELSE elo[u]]
        /\ scores' = scores \cup rows
        /\ awards' = [u \in User |->
                        IF u \in Seats(row)
                        THEN awards[u] \cup
                             Earned(winner # None /\ SeatOf(row, winner) = u, n,
                                    WinsIn(scores \cup rows, u))
                        ELSE awards[u]]
        /\ UNCHANGED moves

\* Game.abandonMany: an unreadable live game is closed without a settlement.
Abandon(g) ==
    /\ games[g].status = "in_progress"
    /\ games' = [games EXCEPT ![g].status = "abandoned",
                              ![g].result = "process_failure"]
    /\ UNCHANGED <<moves, elo, scores, awards>>

\* accept_rematch: finished g gives its room to a new game with the seats
\* swapped.  Nothing asks whether g still holds the room: a caller with a
\* stale g is stopped by UNIQUE (room_id) alone.
Rematch(g, h) ==
    LET row == games[g]
    IN  /\ row.status = "finished"
        /\ NextId(h)
        /\ \A k \in Game \ {g} : games[k].room # row.home
        /\ games' = [games EXCEPT
                       ![g].room = None,
                       ![h] = NewRow(row.home, row.black, row.white, g)]
        /\ UNCHANGED <<moves, elo, scores, awards>>

LedgerNext ==
    \/ \E g \in Game, r \in Room, u \in User : Open(g, r, u)
    \/ \E g \in Game, u \in User : Seat(g, u) /\ u # games[g].white
    \/ \E g \in Game, c \in Color, over \in Endings \cup {"no"} :
          Play(g, c, over)
    \/ \E g \in Game, result \in {"checkmate", "draw", "resign"},
          winner \in Color \cup {None}, n \in 1..MaxMoves :
          Settle(g, result, winner, n)
    \/ \E g \in Game : Abandon(g)
    \/ \E g, h \in Game : Rematch(g, h)

LedgerSpec == LedgerInit /\ [][LedgerNext]_ledgerVars

-----------------------------------------------------------------------------

Finished(g) == games[g].status = "finished"

\* Every variable keeps the shape of its table.
LedgerTypeOK ==
    /\ games \in [Game -> GameRow]
    /\ moves \in [Game -> Seq(Color)]
    /\ elo \in [User -> SUBSET Game]
    /\ scores \subseteq ScoreRow
    /\ awards \in [User -> SUBSET AwardKey]

\* A user's rating includes exactly the finished games the user played: no
\* settlement is lost to a concurrent one, repeated, or half applied
\* (gameSocket.js finalizeGameAtomic).
RatingsMatchResults ==
    \A u \in User : elo[u] = {g \in Game : Finished(g) /\ u \in Seats(games[g])}

\* A finished game has exactly one score row per player, with the winner's
\* flag on the winner's row only; no other game has any
\* (gameSocket.js finalizeGameAtomic, UNIQUE (game_id, user_id)).
ScoresMatchResults ==
    /\ \A s \in scores :
          /\ Finished(s.game)
          /\ \E c \in Color : /\ s.user = SeatOf(games[s.game], c)
                              /\ s.winner = (c = games[s.game].winner)
    /\ \A g \in Game : Finished(g) =>
          \A u \in Seats(games[g]) :
             \E s \in scores : /\ s.game = g /\ s.user = u
                               /\ \A z \in scores : z.game = g /\ z.user = u
                                                      => z = s

\* A win milestone is held by exactly the users who have that many wins: two
\* games won at the same time both count (gameSocket.js finalizeGameAtomic).
AwardsMatchWins ==
    \A u \in User, k \in WinMilestones :
       k > 0 => (<<"wins", k>> \in awards[u] <=> WinsIn(scores, u) >= k)

\* Scores and milestones say what the results say: a settlement is applied
\* whole or not at all, and two that overlap both count.
RecordsMatchResults == ScoresMatchResults /\ AwardsMatchWins

\* The recorded moves alternate from white and the stored board is the one
\* after the last of them, whoever raced to record a move
\* (gameSocket.js persistMoveAtomic).
MovesMatchBoard ==
    \A g \in Game :
       /\ \A i \in 1..Len(moves[g]) :
             moves[g][i] = IF i % 2 = 1 THEN "w" ELSE "b"
       /\ games[g].board.turn = IF Len(moves[g]) % 2 = 0 THEN "w" ELSE "b"

\* At most one game holds a room (UNIQUE (room_id), 002_game_features.sql).
OneGamePerRoom ==
    \A g, h \in Game :
       games[g].room # None /\ games[g].room = games[h].room => g = h

\* Two replicas that reach the rematch quorum together start one game: a
\* finished game has at most one successor (gameSocket.js accept_rematch,
\* "exactly one wins").
OneSuccessor ==
    \A g, h \in Game :
       games[g].prev # None /\ games[g].prev = games[h].prev => g = h

\* A seat, once taken, is never given to anyone else: of simultaneous joins
\* on any replicas one wins (Game.claimBlack, "serialize - one wins").
SeatsAreFinal ==
    [][\A g \in Game :
         games[g].status # "absent" =>
           /\ games'[g].white = games[g].white
           /\ games[g].black \in {None, games'[g].black}]_ledgerVars

\* A game that has ended keeps its result, its players and its moves; only
\* its hold on the room may be given up, and only once.
EndedIsFinal ==
    [][\A g \in Game :
         games[g].status \in {"finished", "abandoned"} =>
           /\ moves'[g] = moves[g]
           /\ games'[g] = [games[g] EXCEPT !.room = games'[g].room]
           /\ games'[g].room \in {games[g].room, None}]_ledgerVars

=============================================================================
