-------------------------- MODULE GameLedgerProofs --------------------------
(***************************************************************************)
(* What GameLedger guarantees for any number of users, rooms and games.     *)
(* The properties rest on one inductive invariant, LedgerInv.               *)
(***************************************************************************)
EXTENDS GameLedger, FiniteSetTheorems, TLAPS

\* What a stored row says about itself: an unused id is blank, a game has two
\* different players as soon as it has two, and its room is the one it was
\* created in or none.
RowWellFormed(g) ==
    /\ games[g].status = "absent" => games[g] = NoGame /\ moves[g] = <<>>
    /\ games[g].status # "absent" =>
          /\ games[g].white \in User
          /\ games[g].white # games[g].black
          /\ games[g].home \in Room
          /\ games[g].room \in {games[g].home, None}
    /\ games[g].status = "finished" => games[g].black \in User

RowsWellFormed == \A g \in Game : RowWellFormed(g)

\* A room that was ever opened is held by some game for ever: only a rematch
\* releases it, and gives it to the next game in the same transaction.
RoomsStayHeld ==
    \A g \in Game : games[g].status # "absent" =>
       \E k \in Game : games[k].room = games[g].home

\* A game that was replaced by a rematch has given its room to it.
ReplacedAreReleased ==
    \A g, h \in Game : games[h].prev = g =>
       games[g].status # "absent" /\ games[g].room = None

LedgerInv ==
    /\ LedgerTypeOK
    /\ RowsWellFormed
    /\ RoomsStayHeld
    /\ ReplacedAreReleased
    /\ OneGamePerRoom
    /\ OneSuccessor

-----------------------------------------------------------------------------

\* A row Game.create inserts is a row of the games table.
LEMMA NewRowType ==
    ASSUME NEW r \in Room, NEW w \in User, NEW b \in User \cup {None},
           NEW p \in Game \cup {None}
    PROVE  NewRow(r, w, b, p) \in GameRow
BY DEF NewRow, NoGame, GameRow, Status, Board, Result, Color, StartBoard

\* The empty ledger satisfies the invariant.
LEMMA InitInv == LedgerInit => LedgerInv
<1> SUFFICES ASSUME LedgerInit PROVE LedgerInv
  OBVIOUS
<1> USE LedgerAssumption DEF LedgerInit
<1>1. NoGame \in GameRow
  BY DEF NoGame, GameRow, Status, Board, Result, Color, StartBoard
<1>2. LedgerTypeOK
  BY <1>1 DEF LedgerTypeOK
<1>3. RowsWellFormed /\ RoomsStayHeld
  BY DEF RowsWellFormed, RowWellFormed, RoomsStayHeld, NoGame
<1>4. ReplacedAreReleased /\ OneGamePerRoom /\ OneSuccessor
  BY DEF ReplacedAreReleased, OneGamePerRoom, OneSuccessor, NoGame
<1> QED
  BY <1>2, <1>3, <1>4 DEF LedgerInv

\* Game.create keeps the invariant: the id is unused and the room free.
LEMMA OpenInv ==
    ASSUME LedgerInv, NEW g \in Game, NEW r \in Room, NEW u \in User,
           Open(g, r, u)
    PROVE  LedgerInv'
<1> USE LedgerAssumption
<1> DEFINE row == NewRow(r, u, None, None)
<1>1. row \in GameRow
  BY NewRowType
<1>2. games[g] = NoGame /\ moves[g] = <<>>
  BY DEF LedgerInv, RowsWellFormed, RowWellFormed, Open, NextId
<1>3. games' = [games EXCEPT ![g] = row] /\ UNCHANGED <<moves, elo, scores, awards>>
  BY DEF Open
<1>4. /\ row.status = "in_progress" /\ row.white = u /\ row.black = None
      /\ row.home = r /\ row.room = r /\ row.prev = None
  BY DEF NewRow, NoGame
<1>5. LedgerTypeOK'
  BY <1>1, <1>3 DEF LedgerInv, LedgerTypeOK
<1> HIDE DEF row
<1>6. games \in [Game -> GameRow]
  BY DEF LedgerInv, LedgerTypeOK
<1>7. RowsWellFormed'
  BY <1>3, <1>4, <1>6 DEF LedgerInv, RowsWellFormed, RowWellFormed
<1>8. RoomsStayHeld'
  BY <1>2, <1>3, <1>4, <1>6 DEF LedgerInv, RoomsStayHeld, NoGame, RowsWellFormed, RowWellFormed
<1>9. ReplacedAreReleased'
  BY <1>2, <1>3, <1>4, <1>6 DEF LedgerInv, ReplacedAreReleased, NoGame
<1>10. OneGamePerRoom'
  BY <1>3, <1>4, <1>6 DEF LedgerInv, OneGamePerRoom, Open, RoomFree
<1>11. OneSuccessor'
  BY <1>3, <1>4, <1>6 DEF LedgerInv, OneSuccessor
<1> QED
  BY <1>5, <1>7, <1>8, <1>9, <1>10, <1>11 DEF LedgerInv

\* A step that leaves rooms, homes and predecessors of all games alone, and
\* creates none, keeps what the invariant says about rooms.
LEMMA RoomsFrame ==
    ASSUME LedgerInv,
           \A k \in Game :
              /\ games'[k].home = games[k].home
              /\ games'[k].room = games[k].room
              /\ games'[k].prev = games[k].prev
              /\ games'[k].status = "absent" <=> games[k].status = "absent"
    PROVE  RoomsStayHeld' /\ ReplacedAreReleased' /\ OneGamePerRoom' /\ OneSuccessor'
<1>1. RoomsStayHeld'
  <2> SUFFICES ASSUME NEW g \in Game, games'[g].status # "absent"
               PROVE  \E k \in Game : games'[k].room = games'[g].home
    BY DEF RoomsStayHeld
  <2>1. PICK k \in Game : games[k].room = games[g].home
    BY DEF LedgerInv, RoomsStayHeld
  <2> QED
    BY <2>1
<1>2. ReplacedAreReleased'
  BY DEF LedgerInv, ReplacedAreReleased
<1>3. OneGamePerRoom'
  BY DEF LedgerInv, OneGamePerRoom
<1>4. OneSuccessor'
  BY DEF LedgerInv, OneSuccessor
<1> QED
  BY <1>1, <1>2, <1>3, <1>4

\* claimBlack keeps the invariant: only the black seat changes.
LEMMA SeatInv ==
    ASSUME LedgerInv, NEW g \in Game, NEW u \in User,
           Seat(g, u), u # games[g].white
    PROVE  LedgerInv'
<1> USE LedgerAssumption
<1>1. games \in [Game -> GameRow]
  BY DEF LedgerInv, LedgerTypeOK
<1>2. /\ games' = [games EXCEPT ![g].black = u]
      /\ UNCHANGED <<moves, elo, scores, awards>>
  BY DEF Seat
<1>3. LedgerTypeOK'
  BY <1>1, <1>2 DEF LedgerInv, LedgerTypeOK, GameRow
<1>4. \A k \in Game : /\ games'[k].status = games[k].status
                      /\ games'[k].white = games[k].white
                      /\ games'[k].home = games[k].home
                      /\ games'[k].room = games[k].room
                      /\ games'[k].prev = games[k].prev
                      /\ k # g => games'[k] = games[k]
  BY <1>1, <1>2 DEF GameRow
<1>5. games[g].status = "in_progress" /\ games'[g].black = u
  BY <1>1, <1>2 DEF Seat, GameRow
<1>6. RowsWellFormed'
  BY <1>2, <1>4, <1>5 DEF LedgerInv, RowsWellFormed, RowWellFormed
<1>7. RoomsStayHeld' /\ ReplacedAreReleased' /\ OneGamePerRoom' /\ OneSuccessor'
  BY <1>4, RoomsFrame
<1> QED
  BY <1>3, <1>6, <1>7 DEF LedgerInv

\* persistMoveAtomic keeps the invariant: it touches the board and the moves.
LEMMA PlayInv ==
    ASSUME LedgerInv, NEW g \in Game, NEW c \in Color,
           NEW over \in Endings \cup {"no"}, Play(g, c, over)
    PROVE  LedgerInv'
<1> USE LedgerAssumption
<1>1. games \in [Game -> GameRow]
  BY DEF LedgerInv, LedgerTypeOK
<1> DEFINE board == [turn |-> Other(c), over |-> over]
<1>2. /\ games' = [games EXCEPT ![g].board = board]
      /\ moves' = [moves EXCEPT ![g] = Append(@, c)]
      /\ UNCHANGED <<elo, scores, awards>>
  BY DEF Play
<1>3. board \in Board
  BY DEF Other, Board, Color
<1> HIDE DEF board
<1>4. LedgerTypeOK'
  <2>1. games' \in [Game -> GameRow]
    <3>1. [games[g] EXCEPT !.board = board] \in GameRow
      BY <1>1, <1>3 DEF GameRow
    <3>2. games' = [games EXCEPT ![g] = [games[g] EXCEPT !.board = board]]
      BY <1>1, <1>2
    <3> QED
      BY <1>1, <3>1, <3>2
  <2>2. moves' \in [Game -> Seq(Color)]
    BY <1>2 DEF LedgerInv, LedgerTypeOK
  <2> QED
    BY <1>2, <2>1, <2>2 DEF LedgerInv, LedgerTypeOK
<1>5. \A k \in Game : /\ games'[k].status = games[k].status
                      /\ games'[k].white = games[k].white
                      /\ games'[k].black = games[k].black
                      /\ games'[k].home = games[k].home
                      /\ games'[k].room = games[k].room
                      /\ games'[k].prev = games[k].prev
                      /\ k # g => games'[k] = games[k] /\ moves'[k] = moves[k]
  BY <1>1, <1>2 DEF GameRow, LedgerInv, LedgerTypeOK
<1>6. games[g].status = "in_progress"
  BY DEF Play
<1>7. RowsWellFormed'
  BY <1>5, <1>6 DEF LedgerInv, RowsWellFormed, RowWellFormed
<1>8. RoomsStayHeld' /\ ReplacedAreReleased' /\ OneGamePerRoom' /\ OneSuccessor'
  BY <1>5, RoomsFrame
<1> QED
  BY <1>4, <1>7, <1>8 DEF LedgerInv

\* finalizeGameAtomic keeps the invariant; it ends a game with two players.
LEMMA SettleInv ==
    ASSUME LedgerInv, NEW g \in Game, NEW result \in Result,
           NEW winner \in Color \cup {None}, NEW n \in Nat,
           Settle(g, result, winner, n)
    PROVE  LedgerInv'
<1> USE LedgerAssumption
<1>1. games \in [Game -> GameRow]
  BY DEF LedgerInv, LedgerTypeOK
<1>2. /\ games' = [games EXCEPT ![g].status = "finished",
                              ![g].result = result, ![g].winner = winner]
      /\ UNCHANGED moves
  BY DEF Settle
<1>3. games[g].status = "in_progress" /\ games[g].black # None
  BY DEF Settle
<1>4. games[g].white \in User /\ games[g].black \in User
  BY <1>1, <1>3 DEF GameRow, LedgerInv, RowsWellFormed, RowWellFormed
<1>5. LedgerTypeOK'
  <2>1. games' \in [Game -> GameRow]
    <3> DEFINE row == [games[g] EXCEPT !.status = "finished", !.result = result,
                                       !.winner = winner]
    <3>1. games[g] \in GameRow /\ "finished" \in Status
      BY <1>1 DEF Status
    <3>2. row \in GameRow
      BY <3>1 DEF GameRow
    <3>3. games' = [games EXCEPT ![g] = row]
      BY <1>1, <1>2
    <3> QED
      BY <1>1, <3>2, <3>3
  <2>2. elo' \in [User -> SUBSET Game]
    BY DEF Settle, LedgerInv, LedgerTypeOK
  <2>3. scores' \subseteq ScoreRow
    <3> DEFINE rows == {[game |-> g, user |-> SeatOf(games[g], c), moves |-> n,
                         winner |-> (c = winner)] : c \in Color}
    <3>1. \A c \in Color : SeatOf(games[g], c) \in User
      BY <1>4 DEF SeatOf
    <3>2. ASSUME NEW c \in Color
          PROVE  [game |-> g, user |-> SeatOf(games[g], c), moves |-> n,
                  winner |-> (c = winner)] \in ScoreRow
      <4>1. (c = winner) \in BOOLEAN
        OBVIOUS
      <4> QED
        BY <3>1, <4>1, Zenon DEF ScoreRow
    <3>3. scores' = scores \cup rows
      BY DEF Settle
    <3>4. rows \subseteq ScoreRow
      BY <3>2
    <3> HIDE DEF rows
    <3> QED
      BY <3>3, <3>4 DEF LedgerInv, LedgerTypeOK
  <2>4. awards' \in [User -> SUBSET AwardKey]
    <3>1. ASSUME NEW won, NEW wins PROVE Earned(won, n, wins) \subseteq AwardKey
      BY DEF Earned, AwardKey
    <3> QED
      BY <3>1 DEF Settle, LedgerInv, LedgerTypeOK
  <2> QED
    BY <1>2, <2>1, <2>2, <2>3, <2>4 DEF LedgerInv, LedgerTypeOK
<1>6. \A k \in Game : /\ games'[k].white = games[k].white
                      /\ games'[k].black = games[k].black
                      /\ games'[k].home = games[k].home
                      /\ games'[k].room = games[k].room
                      /\ games'[k].prev = games[k].prev
                      /\ k # g => games'[k] = games[k]
                      /\ games'[k].status = IF k = g THEN "finished"
                                                    ELSE games[k].status
  BY <1>1, <1>2 DEF GameRow
<1>7. RowsWellFormed'
  <2> SUFFICES ASSUME NEW k \in Game PROVE RowWellFormed(k)'
    BY DEF RowsWellFormed
  <2>1. CASE k = g
    BY <1>3, <1>4, <1>6, <2>1 DEF LedgerInv, RowsWellFormed, RowWellFormed
  <2>2. CASE k # g
    <3>1. games'[k] = games[k] /\ moves'[k] = moves[k]
      BY <1>2, <1>6, <2>2
    <3> QED
      BY <3>1 DEF LedgerInv, RowsWellFormed, RowWellFormed
  <2> QED
    BY <2>1, <2>2
<1>8. RoomsStayHeld' /\ ReplacedAreReleased' /\ OneGamePerRoom' /\ OneSuccessor'
  BY <1>3, <1>6, RoomsFrame
<1> QED
  BY <1>5, <1>7, <1>8 DEF LedgerInv

\* abandonMany keeps the invariant: it ends a game and nothing else.
LEMMA AbandonInv ==
    ASSUME LedgerInv, NEW g \in Game, Abandon(g)
    PROVE  LedgerInv'
<1> USE LedgerAssumption
<1>1. games \in [Game -> GameRow]
  BY DEF LedgerInv, LedgerTypeOK
<1>2. /\ games' = [games EXCEPT ![g].status = "abandoned",
                              ![g].result = "process_failure"]
      /\ UNCHANGED <<moves, elo, scores, awards>>
  BY DEF Abandon
<1>3. games[g].status = "in_progress"
  BY DEF Abandon
<1>4. LedgerTypeOK'
  <2> DEFINE row == [games[g] EXCEPT !.status = "abandoned",
                                     !.result = "process_failure"]
  <2>1. "abandoned" \in Status /\ "process_failure" \in Result
    BY DEF Status, Result
  <2>2. row \in GameRow
    BY <1>1, <2>1 DEF GameRow
  <2>3. games' = [games EXCEPT ![g] = row]
    BY <1>1, <1>2
  <2> QED
    BY <1>1, <1>2, <2>2, <2>3 DEF LedgerInv, LedgerTypeOK
<1>5. \A k \in Game : /\ games'[k].white = games[k].white
                      /\ games'[k].black = games[k].black
                      /\ games'[k].home = games[k].home
                      /\ games'[k].room = games[k].room
                      /\ games'[k].prev = games[k].prev
                      /\ k # g => games'[k] = games[k]
                      /\ games'[k].status = IF k = g THEN "abandoned"
                                                    ELSE games[k].status
  BY <1>1, <1>2 DEF GameRow
<1>6. RowsWellFormed'
  <2> SUFFICES ASSUME NEW k \in Game PROVE RowWellFormed(k)'
    BY DEF RowsWellFormed
  <2>1. CASE k = g
    BY <1>5, <1>3, <2>1 DEF LedgerInv, RowsWellFormed, RowWellFormed
  <2>2. CASE k # g
    <3>1. games'[k] = games[k] /\ moves'[k] = moves[k]
      BY <1>2, <1>5, <2>2
    <3> QED
      BY <3>1 DEF LedgerInv, RowsWellFormed, RowWellFormed
  <2> QED
    BY <2>1, <2>2
<1>7. RoomsStayHeld' /\ ReplacedAreReleased' /\ OneGamePerRoom' /\ OneSuccessor'
  BY <1>5, <1>3, RoomsFrame
<1> QED
  BY <1>4, <1>6, <1>7 DEF LedgerInv

\* accept_rematch keeps the invariant.  UNIQUE (room_id) is what makes the
\* successor unique: were g replaced before, its room would be held by
\* another game (RoomsStayHeld) and the INSERT refused.
LEMMA RematchInv ==
    ASSUME LedgerInv, NEW g \in Game, NEW h \in Game, Rematch(g, h)
    PROVE  LedgerInv'
<1> USE LedgerAssumption
<1> DEFINE row == NewRow(games[g].home, games[g].black, games[g].white, g)
           old == [games[g] EXCEPT !.room = None]
<1>1. games \in [Game -> GameRow]
  BY DEF LedgerInv, LedgerTypeOK
<1>2. games[g].status = "finished" /\ games[h] = NoGame /\ moves[h] = <<>>
  BY DEF Rematch, NextId, LedgerInv, RowsWellFormed, RowWellFormed
<1>3. /\ games[g].white \in User /\ games[g].black \in User
      /\ games[g].white # games[g].black /\ games[g].home \in Room
      /\ games[g].room \in {games[g].home, None}
  BY <1>2 DEF LedgerInv, RowsWellFormed, RowWellFormed
<1>4. g # h
  BY <1>2 DEF NoGame
<1>5. /\ games' = [games EXCEPT ![g] = old, ![h] = row]
      /\ UNCHANGED <<moves, elo, scores, awards>>
  BY <1>1 DEF Rematch
<1>6. row \in GameRow
  BY <1>3, NewRowType
<1>7. old \in GameRow
  BY <1>1 DEF GameRow
<1>8. /\ row.status = "in_progress" /\ row.white = games[g].black
      /\ row.black = games[g].white /\ row.room = games[g].home
      /\ row.home = games[g].home /\ row.prev = g
  BY DEF NewRow, NoGame
<1>9. /\ old.status = "finished" /\ old.white = games[g].white
      /\ old.black = games[g].black /\ old.room = None
      /\ old.home = games[g].home /\ old.prev = games[g].prev
  BY <1>1, <1>2 DEF GameRow
<1> HIDE DEF row, old
<1>10. games'[g] = old /\ games'[h] = row
       /\ \A k \in Game \ {g, h} : games'[k] = games[k]
  BY <1>1, <1>4, <1>5
<1>11. LedgerTypeOK'
  BY <1>1, <1>4, <1>5, <1>6, <1>7 DEF LedgerInv, LedgerTypeOK
<1>12. RowsWellFormed'
  <2> SUFFICES ASSUME NEW k \in Game PROVE RowWellFormed(k)'
    BY DEF RowsWellFormed
  <2>1. CASE k = g
    BY <1>3, <1>9, <1>10, <2>1 DEF RowWellFormed
  <2>2. CASE k = h
    BY <1>3, <1>8, <1>10, <2>2 DEF RowWellFormed
  <2>3. CASE k \notin {g, h}
    BY <1>5, <1>10, <2>3 DEF LedgerInv, RowsWellFormed, RowWellFormed
  <2> QED
    BY <2>1, <2>2, <2>3
<1>13. \A k \in Game \ {g} : games[k].room # games[g].home
  BY DEF Rematch
<1>14. \A k \in Game : games[k].prev # g
  <2> SUFFICES ASSUME NEW k \in Game, games[k].prev = g PROVE FALSE
    OBVIOUS
  <2>1. games[g].room = None
    BY DEF LedgerInv, ReplacedAreReleased
  <2>2. PICK q \in Game : games[q].room = games[g].home
    BY <1>2 DEF LedgerInv, RoomsStayHeld
  <2> QED
    BY <1>3, <1>13, <2>1, <2>2
<1>15. RoomsStayHeld'
  <2> SUFFICES ASSUME NEW k \in Game, games'[k].status # "absent"
               PROVE  \E q \in Game : games'[q].room = games'[k].home
    BY DEF RoomsStayHeld
  <2>1. CASE games'[k].home = games[g].home
    BY <1>8, <1>10, <2>1
  <2>2. CASE games'[k].home # games[g].home
    <3>1. k \notin {g, h}
      BY <1>8, <1>9, <1>10, <2>2
    <3>2. games'[k] = games[k]
      BY <1>10, <3>1
    <3>3. PICK q \in Game : games[q].room = games[k].home
      BY <3>2 DEF LedgerInv, RoomsStayHeld
    <3>4. games[k].home \in Room
      BY <3>2 DEF LedgerInv, RowsWellFormed, RowWellFormed
    <3>5. q # g
      BY <1>3, <2>2, <3>2, <3>3, <3>4
    <3>6. q # h
      BY <1>2, <3>3, <3>4 DEF NoGame
    <3> QED
      BY <1>10, <3>2, <3>3, <3>5, <3>6
  <2> QED
    BY <2>1, <2>2
<1>16. ReplacedAreReleased'
  <2> SUFFICES ASSUME NEW x \in Game, NEW y \in Game, games'[y].prev = x
               PROVE  games'[x].status # "absent" /\ games'[x].room = None
    BY DEF ReplacedAreReleased
  <2>1. CASE y = h
    BY <1>8, <1>9, <1>10, <2>1
  <2>2. CASE y # h
    <3>1. games[y].prev = x
      BY <1>9, <1>10, <2>2
    <3>2. games[x].status # "absent" /\ games[x].room = None
      BY <3>1 DEF LedgerInv, ReplacedAreReleased
    <3>3. x # h /\ x # g
      BY <1>2, <1>14, <3>1, <3>2 DEF NoGame
    <3> QED
      BY <1>10, <3>2, <3>3
  <2> QED
    BY <2>1, <2>2
<1>17. OneGamePerRoom'
  BY <1>3, <1>8, <1>9, <1>10, <1>13 DEF LedgerInv, OneGamePerRoom
<1>18. OneSuccessor'
  BY <1>8, <1>9, <1>10, <1>14 DEF LedgerInv, OneSuccessor
<1> QED
  BY <1>11, <1>12, <1>15, <1>16, <1>17, <1>18 DEF LedgerInv

\* Every transaction keeps the invariant.
LEMMA NextInv == LedgerInv /\ [LedgerNext]_ledgerVars => LedgerInv'
<1> SUFFICES ASSUME LedgerInv, [LedgerNext]_ledgerVars PROVE LedgerInv'
  OBVIOUS
<1> USE LedgerAssumption
<1>1. ASSUME NEW g \in Game, NEW r \in Room, NEW u \in User, Open(g, r, u)
      PROVE  LedgerInv'
  BY <1>1, OpenInv
<1>2. ASSUME NEW g \in Game, NEW u \in User, Seat(g, u), u # games[g].white
      PROVE  LedgerInv'
  BY <1>2, SeatInv
<1>3. ASSUME NEW g \in Game, NEW c \in Color,
             NEW over \in Endings \cup {"no"}, Play(g, c, over)
      PROVE  LedgerInv'
  BY <1>3, PlayInv
<1>4. ASSUME NEW g \in Game, NEW result \in {"checkmate", "draw", "resign"},
             NEW winner \in Color \cup {None}, NEW n \in 1..MaxMoves,
             Settle(g, result, winner, n)
      PROVE  LedgerInv'
  <2>1. result \in Result /\ n \in Nat
    BY DEF Result
  <2> QED
    BY <1>4, <2>1, SettleInv
<1>5. ASSUME NEW g \in Game, Abandon(g) PROVE LedgerInv'
  BY <1>5, AbandonInv
<1>6. ASSUME NEW g \in Game, NEW h \in Game, Rematch(g, h) PROVE LedgerInv'
  BY <1>6, RematchInv
<1>7. CASE UNCHANGED ledgerVars
  BY <1>7 DEF ledgerVars, LedgerInv, LedgerTypeOK, RowsWellFormed, RowWellFormed,
              RoomsStayHeld, ReplacedAreReleased, OneGamePerRoom, OneSuccessor
<1> QED
  BY <1>1, <1>2, <1>3, <1>4, <1>5, <1>6, <1>7 DEF LedgerNext

\* The ledger's invariant holds whatever transactions commit, in any order.
THEOREM LedgerInvariant == LedgerSpec => []LedgerInv
  BY InitInv, NextInv, PTL DEF LedgerSpec

\* Every table keeps its shape (the columns and CHECKs of the migrations).
THEOREM LedgerTypeCorrect == LedgerSpec => []LedgerTypeOK
<1>1. LedgerInv => LedgerTypeOK
  BY DEF LedgerInv
<1> QED
  BY <1>1, LedgerInvariant, PTL

\* However many replicas race for a rematch, no room is held by two games and
\* no finished game is replaced twice (gameSocket.js accept_rematch).
THEOREM RematchSafe == LedgerSpec => [](OneGamePerRoom /\ OneSuccessor)
<1>1. LedgerInv => OneGamePerRoom /\ OneSuccessor
  BY DEF LedgerInv
<1> QED
  BY <1>1, LedgerInvariant, PTL

-----------------------------------------------------------------------------
(***************************************************************************)
(* The changes one transaction can make to game k.                         *)
(***************************************************************************)
Same(k) == games'[k] = games[k] /\ moves'[k] = moves[k]

Opened(k) ==
    \E r \in Room, w \in User, b \in User \cup {None}, p \in Game \cup {None} :
       /\ games[k] = NoGame /\ games'[k] = NewRow(r, w, b, p)
       /\ moves[k] = <<>> /\ moves'[k] = <<>>

Seated(k) ==
    /\ games[k].status = "in_progress" /\ games[k].black = None
    /\ \E u \in User : games'[k] = [games[k] EXCEPT !.black = u]
    /\ moves'[k] = moves[k]

Played(k) ==
    \E c \in Color, over \in Endings \cup {"no"} :
       /\ games[k].status = "in_progress" /\ games[k].board.turn = c
       /\ games'[k] = [games[k] EXCEPT !.board = [turn |-> Other(c), over |-> over]]
       /\ moves'[k] = Append(moves[k], c)

Settled(k) ==
    /\ games[k].status = "in_progress" /\ games[k].black # None
    /\ \E result \in Result, winner \in Color \cup {None} :
          games'[k] = [games[k] EXCEPT !.status = "finished",
                          !.result = result, !.winner = winner]
    /\ moves'[k] = moves[k]

Abandoned(k) ==
    /\ games[k].status = "in_progress"
    /\ games'[k] = [games[k] EXCEPT !.status = "abandoned",
                                    !.result = "process_failure"]
    /\ moves'[k] = moves[k]

Released(k) ==
    /\ games[k].status = "finished"
    /\ games'[k] = [games[k] EXCEPT !.room = None]
    /\ moves'[k] = moves[k]

\* Every transaction leaves a game alone or makes one of these changes to it.
LEMMA RowSteps ==
    ASSUME LedgerInv, LedgerNext, NEW k \in Game
    PROVE  \/ Same(k) \/ Opened(k) \/ Seated(k) \/ Played(k)
           \/ Settled(k) \/ Abandoned(k) \/ Released(k)
<1> USE LedgerAssumption
<1>1. games \in [Game -> GameRow] /\ moves \in [Game -> Seq(Color)]
  BY DEF LedgerInv, LedgerTypeOK
<1>2. \A g \in Game : games[g].status = "absent" => games[g] = NoGame /\ moves[g] = <<>>
  BY DEF LedgerInv, RowsWellFormed, RowWellFormed
<1>3. ASSUME NEW g \in Game, NEW r \in Room, NEW u \in User, Open(g, r, u)
      PROVE  Same(k) \/ Opened(k)
  <2>1. /\ games' = [games EXCEPT ![g] = NewRow(r, u, None, None)]
        /\ moves' = moves /\ games[g].status = "absent"
    BY <1>3 DEF Open, NextId
  <2>2. CASE k = g
    BY <1>1, <1>2, <2>1, <2>2 DEF Opened
  <2>3. CASE k # g
    BY <1>1, <2>1, <2>3 DEF Same
  <2> QED
    BY <2>2, <2>3
<1>4. ASSUME NEW g \in Game, NEW u \in User, Seat(g, u)
      PROVE  Same(k) \/ Seated(k)
  BY <1>1, <1>4 DEF Seat, Same, Seated
<1>5. ASSUME NEW g \in Game, NEW c \in Color,
             NEW over \in Endings \cup {"no"}, Play(g, c, over)
      PROVE  Same(k) \/ Played(k)
  <2> DEFINE board == [turn |-> Other(c), over |-> over]
  <2>1. /\ games' = [games EXCEPT ![g].board = board]
        /\ moves' = [moves EXCEPT ![g] = Append(moves[g], c)]
        /\ games[g].status = "in_progress"
    BY <1>5 DEF Play
  <2>2. games[g].board.turn = c
    BY <1>5 DEF Play
  <2>3. CASE k = g
    <3>1. games'[k] = [games[k] EXCEPT !.board = board]
      BY <1>1, <2>1, <2>3
    <3>2. moves'[k] = Append(moves[k], c)
      BY <1>1, <2>1, <2>3
    <3> QED
      BY <2>1, <2>2, <2>3, <3>1, <3>2 DEF Played
  <2>4. CASE k # g
    BY <1>1, <2>1, <2>4 DEF Same
  <2> QED
    BY <2>3, <2>4
<1>6. ASSUME NEW g \in Game, NEW result \in Result,
             NEW winner \in Color \cup {None}, NEW n,
             Settle(g, result, winner, n)
      PROVE  Same(k) \/ Settled(k)
  <2>1. /\ games' = [games EXCEPT ![g].status = "finished",
                              ![g].result = result, ![g].winner = winner]
        /\ moves' = moves /\ games[g].status = "in_progress"
        /\ games[g].black # None
    BY <1>6 DEF Settle
  <2> QED
    BY <1>1, <2>1 DEF Same, Settled
<1>7. ASSUME NEW g \in Game, Abandon(g)
      PROVE  Same(k) \/ Abandoned(k)
  BY <1>1, <1>7 DEF Abandon, Same, Abandoned
<1>8. ASSUME NEW g \in Game, NEW h \in Game, Rematch(g, h)
      PROVE  Same(k) \/ Opened(k) \/ Released(k)
  <2> DEFINE row == NewRow(games[g].home, games[g].black, games[g].white, g)
  <2>1. /\ games' = [games EXCEPT ![g].room = None, ![h] = row]
        /\ moves' = moves /\ games[g].status = "finished"
        /\ games[h].status = "absent"
    BY <1>8 DEF Rematch, NextId
  <2>2. games[g].home \in Room /\ games[g].black \in User /\ games[g].white \in User
    BY <2>1 DEF LedgerInv, RowsWellFormed, RowWellFormed
  <2>3. CASE k = h
    <3>1. games'[k] = row
      BY <1>1, <2>1, <2>3
    <3> QED
      BY <1>2, <2>1, <2>2, <2>3, <3>1 DEF Opened
  <2>4. CASE k = g /\ k # h
    BY <1>1, <2>1, <2>4 DEF Released
  <2>5. CASE k # g /\ k # h
    BY <1>1, <2>1, <2>5 DEF Same
  <2> QED
    BY <2>3, <2>4, <2>5
<1>9. \A result \in {"checkmate", "draw", "resign"} : result \in Result
  BY DEF Result
<1> QED
  BY <1>3, <1>4, <1>5, <1>6, <1>7, <1>8, <1>9 DEF LedgerNext

\* A game that has ended keeps its result, its players and its moves; it may
\* only release its room, once (gameSocket.js, status = 'in_progress' guards).
THEOREM EndedStaysEnded == LedgerSpec => EndedIsFinal
<1> DEFINE Kept == \A g \in Game :
         games[g].status \in {"finished", "abandoned"} =>
           /\ moves'[g] = moves[g]
           /\ games'[g] = [games[g] EXCEPT !.room = games'[g].room]
           /\ games'[g].room \in {games[g].room, None}
<1>1. LedgerInv /\ [LedgerNext]_ledgerVars => [Kept]_ledgerVars
  <2> SUFFICES ASSUME LedgerInv, LedgerNext, NEW g \in Game,
                      games[g].status \in {"finished", "abandoned"}
               PROVE  /\ moves'[g] = moves[g]
                      /\ games'[g] = [games[g] EXCEPT !.room = games'[g].room]
                      /\ games'[g].room \in {games[g].room, None}
    OBVIOUS
  <2>1. games[g] \in GameRow
    BY DEF LedgerInv, LedgerTypeOK
  <2>2. Same(g) \/ Released(g)
    <3>1. ~Opened(g)
      BY DEF Opened, NoGame
    <3>2. ~Seated(g) /\ ~Played(g) /\ ~Settled(g) /\ ~Abandoned(g)
      BY DEF Seated, Played, Settled, Abandoned
    <3> QED
      BY <3>1, <3>2, RowSteps
  <2>3. CASE Same(g)
    BY <2>1, <2>3 DEF Same, GameRow
  <2>4. CASE Released(g)
    BY <2>1, <2>4 DEF Released, GameRow
  <2> QED
    BY <2>2, <2>3, <2>4
<1> QED
  BY <1>1, LedgerInvariant, PTL DEF LedgerSpec, EndedIsFinal

\* A seat, once taken, stays with its player (Game.claimBlack).
THEOREM SeatsStayTaken == LedgerSpec => SeatsAreFinal
<1> DEFINE Kept == \A g \in Game :
         games[g].status # "absent" =>
           /\ games'[g].white = games[g].white
           /\ games[g].black \in {None, games'[g].black}
<1>1. LedgerInv /\ [LedgerNext]_ledgerVars => [Kept]_ledgerVars
  <2> SUFFICES ASSUME LedgerInv, LedgerNext, NEW g \in Game,
                      games[g].status # "absent"
               PROVE  /\ games'[g].white = games[g].white
                      /\ games[g].black \in {None, games'[g].black}
    OBVIOUS
  <2>1. games[g] \in GameRow
    BY DEF LedgerInv, LedgerTypeOK
  <2>2. \/ Same(g) \/ Seated(g) \/ Played(g)
        \/ Settled(g) \/ Abandoned(g) \/ Released(g)
    BY RowSteps DEF Opened, NoGame
  <2>3. CASE Seated(g)
    BY <2>1, <2>3 DEF Seated, GameRow
  <2>4. CASE Same(g) \/ Played(g) \/ Settled(g) \/ Abandoned(g) \/ Released(g)
    BY <2>1, <2>4 DEF Same, Played, Settled, Abandoned, Released, GameRow
  <2> QED
    BY <2>2, <2>3, <2>4
<1> QED
  BY <1>1, LedgerInvariant, PTL DEF LedgerSpec, SeatsAreFinal

\* Odd and even alternate.
LEMMA Parity ==
    ASSUME NEW n \in Nat
    PROVE  \/ n % 2 = 0 /\ (n + 1) % 2 = 1
           \/ n % 2 = 1 /\ (n + 1) % 2 = 0
  OBVIOUS

\* The colour on turn after n moves makes move n + 1 and passes the turn.
LEMMA TurnPasses ==
    ASSUME NEW n \in Nat, NEW c, c = IF n % 2 = 0 THEN "w" ELSE "b"
    PROVE  /\ c = IF (n + 1) % 2 = 1 THEN "w" ELSE "b"
           /\ Other(c) = IF (n + 1) % 2 = 0 THEN "w" ELSE "b"
<1>1. CASE n % 2 = 0 /\ (n + 1) % 2 = 1
  BY <1>1 DEF Other
<1>2. CASE n % 2 = 1 /\ (n + 1) % 2 = 0
  BY <1>2 DEF Other
<1> QED
  BY <1>1, <1>2, Parity

\* Recorded moves and stored board agree: the parity of the number of moves
\* tells whose turn it is (gameSocket.js persistMoveAtomic).
THEOREM MovesAgreeWithBoard == LedgerSpec => []MovesMatchBoard
<1> DEFINE Agree(row, ms) ==
         /\ \A i \in 1..Len(ms) : ms[i] = IF i % 2 = 1 THEN "w" ELSE "b"
         /\ row.board.turn = IF Len(ms) % 2 = 0 THEN "w" ELSE "b"
<1>1. LedgerInit => MovesMatchBoard
  BY DEF LedgerInit, MovesMatchBoard, NoGame, StartBoard
<1>2. LedgerInv /\ MovesMatchBoard /\ [LedgerNext]_ledgerVars => MovesMatchBoard'
  <2> SUFFICES ASSUME LedgerInv, MovesMatchBoard, LedgerNext, NEW k \in Game
               PROVE  Agree(games'[k], moves'[k])
    BY DEF MovesMatchBoard, ledgerVars
  <2>1. games[k] \in GameRow /\ moves[k] \in Seq(Color)
    BY DEF LedgerInv, LedgerTypeOK
  <2>2. Agree(games[k], moves[k])
    BY DEF MovesMatchBoard
  <2>3. CASE Opened(k)
    BY <2>3 DEF Opened, NewRow, NoGame, StartBoard
  <2>4. CASE Played(k)
    <3>1. PICK c \in Color, over \in Endings \cup {"no"} :
             /\ games[k].board.turn = c
             /\ games'[k] = [games[k] EXCEPT !.board = [turn |-> Other(c), over |-> over]]
             /\ moves'[k] = Append(moves[k], c)
      BY <2>4 DEF Played
    <3>2. games'[k].board.turn = Other(c)
      BY <2>1, <3>1 DEF GameRow
    <3>3. /\ Len(moves'[k]) = Len(moves[k]) + 1
          /\ \A i \in 1..Len(moves[k]) : moves'[k][i] = moves[k][i]
          /\ moves'[k][Len(moves[k]) + 1] = c
          /\ Len(moves[k]) \in Nat
      BY <2>1, <3>1
    <3>4. c = IF Len(moves[k]) % 2 = 0 THEN "w" ELSE "b"
      BY <2>2, <3>1
    <3>5. /\ c = IF (Len(moves[k]) + 1) % 2 = 1 THEN "w" ELSE "b"
          /\ Other(c) = IF (Len(moves[k]) + 1) % 2 = 0 THEN "w" ELSE "b"
      BY <3>3, <3>4, TurnPasses
    <3>6. ASSUME NEW i \in 1..Len(moves'[k])
          PROVE  moves'[k][i] = IF i % 2 = 1 THEN "w" ELSE "b"
      <4>1. CASE i \in 1..Len(moves[k])
        BY <2>2, <3>3, <4>1
      <4>2. CASE i = Len(moves[k]) + 1
        BY <3>3, <3>5, <4>2
      <4> QED
        BY <3>3, <4>1, <4>2
    <3> QED
      BY <3>2, <3>3, <3>5, <3>6
  <2>5. CASE Same(k) \/ Seated(k) \/ Settled(k) \/ Abandoned(k) \/ Released(k)
    <3>1. games'[k].board = games[k].board /\ moves'[k] = moves[k]
      BY <2>1, <2>5 DEF Same, Seated, Settled, Abandoned, Released, GameRow
    <3> QED
      BY <2>2, <3>1
  <2> QED
    BY <2>3, <2>4, <2>5, RowSteps
<1> QED
  BY <1>1, <1>2, LedgerInvariant, PTL DEF LedgerSpec

\* A finished game stays finished and keeps its two players.
LEMMA FinishedKept ==
    ASSUME LedgerInv, LedgerNext, NEW k \in Game, Finished(k)
    PROVE  /\ Finished(k)' /\ games'[k].white = games[k].white
           /\ games'[k].black = games[k].black
           /\ games'[k].winner = games[k].winner
<1>1. games[k] \in GameRow
  BY DEF LedgerInv, LedgerTypeOK
<1>2. ~Opened(k)
  BY DEF Opened, NoGame, Finished
<1>3. ~Seated(k) /\ ~Played(k) /\ ~Settled(k) /\ ~Abandoned(k)
  BY DEF Seated, Played, Settled, Abandoned, Finished
<1>4. Same(k) \/ Released(k)
  BY <1>2, <1>3, RowSteps
<1> QED
  BY <1>1, <1>4 DEF Same, Released, Finished, GameRow

\* A transaction other than a settlement finishes no game and touches no
\* rating, score or achievement.
LEMMA OnlySettleFinishes ==
    ASSUME LedgerInv, LedgerNext,
           ~\E g \in Game, result \in {"checkmate", "draw", "resign"},
              winner \in Color \cup {None}, n \in 1..MaxMoves :
              Settle(g, result, winner, n)
    PROVE  /\ UNCHANGED <<elo, scores, awards>>
           /\ \A k \in Game : Finished(k)' => Finished(k)
<1>1. games \in [Game -> GameRow]
  BY DEF LedgerInv, LedgerTypeOK
<1>2. ASSUME NEW g \in Game, NEW r \in Room, NEW u \in User, Open(g, r, u)
      PROVE  /\ UNCHANGED <<elo, scores, awards>>
             /\ \A k \in Game : Finished(k)' => Finished(k)
  BY <1>1, <1>2 DEF Open, NewRow, NoGame, Finished
<1>3. ASSUME NEW g \in Game, NEW u \in User, Seat(g, u)
      PROVE  /\ UNCHANGED <<elo, scores, awards>>
             /\ \A k \in Game : Finished(k)' => Finished(k)
  BY <1>1, <1>3 DEF Seat, Finished, GameRow
<1>4. ASSUME NEW g \in Game, NEW c \in Color,
             NEW over \in Endings \cup {"no"}, Play(g, c, over)
      PROVE  /\ UNCHANGED <<elo, scores, awards>>
             /\ \A k \in Game : Finished(k)' => Finished(k)
  BY <1>1, <1>4 DEF Play, Finished, GameRow
<1>5. ASSUME NEW g \in Game, Abandon(g)
      PROVE  /\ UNCHANGED <<elo, scores, awards>>
             /\ \A k \in Game : Finished(k)' => Finished(k)
  BY <1>1, <1>5 DEF Abandon, Finished, GameRow
<1>6. ASSUME NEW g \in Game, NEW h \in Game, Rematch(g, h)
      PROVE  /\ UNCHANGED <<elo, scores, awards>>
             /\ \A k \in Game : Finished(k)' => Finished(k)
  <2>1. /\ games' = [games EXCEPT ![g].room = None,
               ![h] = NewRow(games[g].home, games[g].black, games[g].white, g)]
        /\ UNCHANGED <<elo, scores, awards>>
    BY <1>6 DEF Rematch
  <2> QED
    BY <1>1, <2>1 DEF NewRow, NoGame, Finished, GameRow
<1> QED
  BY <1>2, <1>3, <1>4, <1>5, <1>6 DEF LedgerNext

\* Ratings include exactly the finished games: no settlement is lost, none
\* counts twice, none is half applied (gameSocket.js finalizeGameAtomic).
THEOREM RatingsAgree == LedgerSpec => []RatingsMatchResults
<1>1. LedgerInit => RatingsMatchResults
  BY DEF LedgerInit, RatingsMatchResults, NoGame, Finished
<1>2. LedgerInv /\ RatingsMatchResults /\ [LedgerNext]_ledgerVars
        => RatingsMatchResults'
  <2> SUFFICES ASSUME LedgerInv, RatingsMatchResults, LedgerNext, NEW u \in User
               PROVE  elo'[u] = {k \in Game : Finished(k)' /\ u \in Seats(games'[k])}
    BY DEF RatingsMatchResults, ledgerVars, Finished
  <2>1. elo[u] = {k \in Game : Finished(k) /\ u \in Seats(games[k])}
    BY DEF RatingsMatchResults
  <2>2. \A k \in Game : Finished(k) => Finished(k)' /\ Seats(games'[k]) = Seats(games[k])
    BY FinishedKept DEF Seats
  <2>3. ASSUME NEW g \in Game, NEW result \in {"checkmate", "draw", "resign"},
               NEW winner \in Color \cup {None}, NEW n \in 1..MaxMoves,
               Settle(g, result, winner, n)
        PROVE  elo'[u] = {k \in Game : Finished(k)' /\ u \in Seats(games'[k])}
    <3>1. games \in [Game -> GameRow]
      BY DEF LedgerInv, LedgerTypeOK
    <3>2. games' = [games EXCEPT ![g].status = "finished",
                              ![g].result = result, ![g].winner = winner]
      BY <2>3 DEF Settle
    <3>3. elo'[u] = IF u \in Seats(games[g]) THEN elo[u] \cup {g} ELSE elo[u]
      BY <2>3 DEF Settle
    <3>4. Finished(g)' /\ Seats(games'[g]) = Seats(games[g])
      BY <3>1, <3>2 DEF Finished, Seats, GameRow
    <3>5. \A k \in Game \ {g} : games'[k] = games[k]
      BY <3>1, <3>2
    <3>6. \A k \in Game \ {g} : Finished(k)' <=> Finished(k)
      BY <3>5 DEF Finished
    <3>7. \A k \in Game : Finished(k)' /\ u \in Seats(games'[k])
                           <=> \/ Finished(k) /\ u \in Seats(games[k])
                               \/ k = g /\ u \in Seats(games[g])
      BY <2>2, <3>4, <3>5, <3>6
    <3> QED
      BY <2>1, <3>3, <3>7
  <2>4. CASE ~\E g \in Game, result \in {"checkmate", "draw", "resign"},
                winner \in Color \cup {None}, n \in 1..MaxMoves :
                Settle(g, result, winner, n)
    <3>1. elo' = elo /\ \A k \in Game : Finished(k)' => Finished(k)
      BY <2>4, OnlySettleFinishes
    <3> QED
      BY <2>1, <2>2, <3>1
  <2> QED
    BY <2>3, <2>4
<1> QED
  BY <1>1, <1>2, LedgerInvariant, PTL DEF LedgerSpec

-----------------------------------------------------------------------------

\* The rows finalizeGameAtomic inserts into scores for game g.
ScoreRows(g, winner, n) ==
    {[game |-> g, user |-> SeatOf(games[g], c), moves |-> n,
      winner |-> (c = winner)] : c \in Color}

\* One more winning row of a player is one more win.
LEMMA OneMoreWin ==
    ASSUME NEW S, IsFiniteSet(S), NEW T, NEW u, NEW s, s \notin S,
           \A z : z \in T /\ z.user = u /\ z.winner
                     <=> (z \in S /\ z.user = u /\ z.winner) \/ z = s
    PROVE  WinsIn(T, u) = WinsIn(S, u) + 1
<1> DEFINE A == {z \in S : z.user = u /\ z.winner}
           B == {z \in T : z.user = u /\ z.winner}
<1>1. IsFiniteSet(A)
  BY FS_Subset
<1>2. B = A \cup {s} /\ s \notin A
  BY Zenon
<1> HIDE DEF A, B
<1>3. Cardinality(B) = Cardinality(A) + 1
  BY <1>1, <1>2, FS_AddElement
<1> QED
  BY <1>3 DEF WinsIn, A, B

\* A settlement earns the milestone of k wins exactly when the player won and
\* now has that many.
LEMMA MilestoneEarned ==
    ASSUME NEW won \in BOOLEAN, NEW n, NEW wins, NEW k \in WinMilestones
    PROVE  <<"wins", k>> \in Earned(won, n, wins) <=> won /\ wins >= k
<1> DEFINE won_keys == {<<"wins", m>> : m \in {m \in WinMilestones : wins >= m}}
<1>1. <<"wins", k>> \in won_keys <=> wins >= k
  OBVIOUS
<1>2. /\ <<"wins", k>> # <<"first_game", 0>>
      /\ <<"wins", k>> # <<"quick_win", 0>>
      /\ <<"wins", k>> # <<"marathon", 0>>
  OBVIOUS
<1> HIDE DEF won_keys
<1>3. CASE won
  <2>1. Earned(won, n, wins) = {<<"first_game", 0>>} \cup won_keys
          \cup (IF n <= QuickWinMoves THEN {<<"quick_win", 0>>} ELSE {})
          \cup (IF n >= MarathonMoves THEN {<<"marathon", 0>>} ELSE {})
    BY <1>3 DEF Earned, won_keys
  <2> QED
    BY <1>1, <1>2, <1>3, <2>1
<1>4. CASE ~won
  <2>1. Earned(won, n, wins) = {<<"first_game", 0>>}
          \cup (IF n >= MarathonMoves THEN {<<"marathon", 0>>} ELSE {})
    BY <1>4 DEF Earned
  <2> QED
    BY <1>2, <1>4, <2>1
<1> QED
  BY <1>3, <1>4

\* Wins are counted in finitely many rows.
LEMMA WinsType ==
    ASSUME NEW S, IsFiniteSet(S), NEW u
    PROVE  WinsIn(S, u) \in Nat
<1>1. IsFiniteSet({s \in S : s.user = u /\ s.winner})
  BY FS_Subset
<1> QED
  BY <1>1, FS_CardinalityType DEF WinsIn

\* The rows of a settlement add one win for the winner and none for anyone
\* else: the game had no score rows before.
LEMMA SettledScores ==
    ASSUME LedgerInv, ScoresMatchResults, IsFiniteSet(scores), NEW g \in Game,
           games[g].status = "in_progress", games[g].black # None,
           NEW winner \in Color \cup {None}, NEW n, NEW u \in User
    PROVE  /\ IsFiniteSet(scores \cup ScoreRows(g, winner, n))
           /\ winner # None /\ SeatOf(games[g], winner) = u =>
                WinsIn(scores \cup ScoreRows(g, winner, n), u) = WinsIn(scores, u) + 1
           /\ ~(winner # None /\ SeatOf(games[g], winner) = u) =>
                WinsIn(scores \cup ScoreRows(g, winner, n), u) = WinsIn(scores, u)
<1> DEFINE Row(c) == [game |-> g, user |-> SeatOf(games[g], c), moves |-> n,
                      winner |-> (c = winner)]
           rows == ScoreRows(g, winner, n)
           won == winner # None /\ SeatOf(games[g], winner) = u
<1> USE LedgerAssumption
<1>1. games[g].white # games[g].black
  BY DEF LedgerInv, RowsWellFormed, RowWellFormed
<1>2. rows = {Row("w"), Row("b")}
  BY DEF ScoreRows, Color
<1>3. IsFiniteSet(rows)
  <2>1. rows = {Row("w")} \cup {Row("b")}
    BY <1>2
  <2> QED
    <3>1. IsFiniteSet({Row("w")}) /\ IsFiniteSet({Row("b")})
      BY FS_Singleton, Zenon
    <3> HIDE DEF Row, rows
    <3> QED
      BY <2>1, <3>1, FS_Union
<1>4. IsFiniteSet(scores \cup rows)
  BY <1>3, FS_Union
<1>5. \A c \in Color : Row(c).game = g /\ Row(c).user = SeatOf(games[g], c)
                       /\ (Row(c).winner <=> c = winner)
  OBVIOUS
<1>6. \A s \in scores : s.game # g
  BY DEF ScoresMatchResults, Finished
<1>7. \A c \in Color : Row(c) \notin scores
  BY <1>5, <1>6, Zenon
<1>8. \A c \in Color, d \in Color : SeatOf(games[g], c) = SeatOf(games[g], d) => c = d
  BY <1>1 DEF Color, SeatOf
<1>9. WinsIn(scores, u) \in Nat
  BY WinsType
<1>10. \A z : z \in rows <=> \E c \in Color : z = Row(c)
  BY DEF ScoreRows
<1> HIDE DEF Row, rows
<1>11. CASE won
  <2>1. winner \in Color
    BY <1>11
  <2>2. \A z : z \in scores \cup rows /\ z.user = u /\ z.winner
               <=> (z \in scores /\ z.user = u /\ z.winner) \/ z = Row(winner)
    <3>1. \A c \in Color : Row(c).user = u /\ Row(c).winner <=> c = winner
      BY <1>5, <1>11, <2>1
    <3>2. \A z \in rows : z.user = u /\ z.winner <=> z = Row(winner)
      <4> SUFFICES ASSUME NEW c \in Color
                   PROVE  Row(c).user = u /\ Row(c).winner <=> Row(c) = Row(winner)
        BY <1>10, Zenon
      <4>1. Row(c) = Row(winner) => c = winner
        BY <1>5, <1>8, <2>1
      <4> QED
        BY <3>1, <4>1
    <3>3. Row(winner) \in rows
      BY <1>10, <2>1
    <3> QED
      BY <3>2, <3>3
  <2>3. WinsIn(scores \cup rows, u) = WinsIn(scores, u) + 1
    BY <1>7, <2>1, <2>2, OneMoreWin
  <2> QED
    BY <1>4, <1>11, <2>3 DEF rows
<1>12. CASE ~won
  <2>1. \A z : z \in scores \cup rows /\ z.user = u /\ z.winner
               <=> z \in scores /\ z.user = u /\ z.winner
    <3>1. \A c \in Color : ~(Row(c).user = u /\ Row(c).winner)
      BY <1>5, <1>12
    <3>2. \A z \in rows : ~(z.user = u /\ z.winner)
      BY <1>10, <3>1, Zenon
    <3> QED
      BY <3>2
  <2>2. WinsIn(scores \cup rows, u) = WinsIn(scores, u)
    <3>1. {z \in scores \cup rows : z.user = u /\ z.winner}
             = {z \in scores : z.user = u /\ z.winner}
      BY <2>1, Zenon
    <3> QED
      BY <3>1, Zenon DEF WinsIn
  <2> QED
    BY <1>4, <1>9, <1>12, <2>2 DEF rows
<1> QED
  BY <1>11, <1>12

\* What the records theorem needs beside its statement: only finitely many
\* scores were inserted, so that wins can be counted.
RecordsInv == RecordsMatchResults /\ IsFiniteSet(scores)

\* Any other transaction keeps the records: it finishes no game and leaves
\* the finished ones their players and their winner.
LEMMA RecordsFrame ==
    ASSUME LedgerInv, RecordsInv, LedgerNext,
           ~\E g \in Game, result \in {"checkmate", "draw", "resign"},
              winner \in Color \cup {None}, n \in 1..MaxMoves :
              Settle(g, result, winner, n)
    PROVE  RecordsInv'
<1>1. /\ scores' = scores /\ awards' = awards
      /\ \A k \in Game : Finished(k)' => Finished(k)
  BY OnlySettleFinishes
<1>2. \A k \in Game : Finished(k) =>
         /\ Finished(k)' /\ games'[k].winner = games[k].winner
         /\ Seats(games'[k]) = Seats(games[k])
         /\ \A c \in Color : SeatOf(games'[k], c) = SeatOf(games[k], c)
  BY FinishedKept DEF Seats, SeatOf
<1>3. \A s \in scores : s.game \in Game
  BY DEF LedgerInv, LedgerTypeOK, ScoreRow
<1>4. ScoresMatchResults
  BY DEF RecordsInv, RecordsMatchResults
<1>5. \A s \in scores :
        /\ Finished(s.game)'
        /\ \E c \in Color : /\ s.user = SeatOf(games'[s.game], c)
                            /\ s.winner = (c = games'[s.game].winner)
  <2> SUFFICES ASSUME NEW s \in scores
               PROVE  /\ Finished(s.game)'
                      /\ \E c \in Color : /\ s.user = SeatOf(games'[s.game], c)
                                          /\ s.winner = (c = games'[s.game].winner)
    OBVIOUS
  <2>1. /\ Finished(s.game)
        /\ \E c \in Color : /\ s.user = SeatOf(games[s.game], c)
                            /\ s.winner = (c = games[s.game].winner)
    BY <1>4 DEF ScoresMatchResults
  <2>2. /\ Finished(s.game)' /\ games'[s.game].winner = games[s.game].winner
        /\ \A c \in Color : SeatOf(games'[s.game], c) = SeatOf(games[s.game], c)
    BY <1>2, <1>3, <2>1
  <2> QED
    BY <2>1, <2>2, Zenon
<1>6. \A k \in Game : Finished(k)' =>
        \A u \in Seats(games'[k]) :
           \E s \in scores : /\ s.game = k /\ s.user = u
                             /\ \A z \in scores : z.game = k /\ z.user = u => z = s
  BY <1>1, <1>2, <1>4 DEF ScoresMatchResults
<1>7. ScoresMatchResults'
  <2>1. scores' = scores
    BY <1>1
  <2> QED
    BY <2>1, <1>5, <1>6 DEF ScoresMatchResults
<1>8. AwardsMatchWins'
  BY <1>1 DEF RecordsInv, RecordsMatchResults, AwardsMatchWins
<1> QED
  BY <1>1, <1>7, <1>8 DEF RecordsInv, RecordsMatchResults

\* A settlement keeps the records: it adds one row per player of a game that
\* had none, and milestones for the winner's new number of wins.
LEMMA SettleRecords ==
    ASSUME LedgerInv, RecordsInv, NEW g \in Game,
           NEW result \in {"checkmate", "draw", "resign"},
           NEW winner \in Color \cup {None}, NEW n \in 1..MaxMoves,
           Settle(g, result, winner, n), LedgerNext
    PROVE  RecordsInv'
<1> USE LedgerAssumption
<1> DEFINE Row(c) == [game |-> g, user |-> SeatOf(games[g], c), moves |-> n,
                      winner |-> (c = winner)]
           rows == ScoreRows(g, winner, n)
<1>1. games \in [Game -> GameRow] /\ games[g].status = "in_progress"
      /\ games[g].black # None
  BY DEF LedgerInv, LedgerTypeOK, Settle
<1>2. /\ games' = [games EXCEPT ![g].status = "finished",
                              ![g].result = result, ![g].winner = winner]
      /\ scores' = scores \cup rows
  BY DEF Settle, ScoreRows
<1>3. /\ Finished(g)' /\ games'[g].winner = winner
      /\ \A c \in Color : SeatOf(games'[g], c) = SeatOf(games[g], c)
      /\ Seats(games'[g]) = Seats(games[g])
      /\ \A k \in Game \ {g} : games'[k] = games[k]
  BY <1>1, <1>2 DEF Finished, GameRow, SeatOf, Seats
<1>4. /\ games[g].white # games[g].black /\ games[g].white \in User
      /\ games[g].black \in User
  BY <1>1 DEF LedgerInv, RowsWellFormed, RowWellFormed, GameRow
<1>5. \A c \in Color : Row(c).game = g /\ Row(c).user = SeatOf(games[g], c)
                       /\ Row(c).winner = (c = winner)
  OBVIOUS
<1>6. \A z : z \in rows <=> \E c \in Color : z = Row(c)
  BY DEF ScoreRows
<1>7. \A s \in scores : s.game # g
  BY <1>1 DEF RecordsInv, RecordsMatchResults, ScoresMatchResults, Finished
<1> HIDE DEF Row, rows
<1>8. ScoresMatchResults'
  <2>1. ASSUME NEW s \in scores'
        PROVE  /\ Finished(s.game)'
               /\ \E c \in Color : /\ s.user = SeatOf(games'[s.game], c)
                                   /\ s.winner = (c = games'[s.game].winner)
    <3>1. CASE s \in scores
      <4>1. s.game \in Game /\ s.game # g
        BY <1>7, <3>1 DEF LedgerInv, LedgerTypeOK, ScoreRow
      <4>2. games'[s.game] = games[s.game]
        BY <1>3, <4>1
      <4>3. /\ Finished(s.game)
            /\ \E c \in Color : /\ s.user = SeatOf(games[s.game], c)
                                /\ s.winner = (c = games[s.game].winner)
        BY <3>1 DEF RecordsInv, RecordsMatchResults, ScoresMatchResults
      <4> QED
        BY <4>2, <4>3, Zenon DEF Finished
    <3>2. CASE s \in rows
      <4>1. PICK c \in Color : s = Row(c)
        BY <1>6, <3>2
      <4>2. s.game = g /\ s.user = SeatOf(games'[g], c)
            /\ s.winner = (c = games'[g].winner)
        BY <1>3, <1>5, <4>1, Zenon
      <4> QED
        BY <1>3, <4>2, Zenon
    <3> QED
      BY <1>2, <3>1, <3>2
  <2>2. ASSUME NEW k \in Game, Finished(k)', NEW u \in Seats(games'[k])
        PROVE  \E s \in scores' : /\ s.game = k /\ s.user = u
                                  /\ \A z \in scores' : z.game = k /\ z.user = u
                                                          => z = s
    <3>1. CASE k = g
      <4>1. PICK c \in Color : u = SeatOf(games[g], c)
        BY <1>3, <2>2, <3>1 DEF Seats, SeatOf, Color
      <4>2. Row(c) \in scores' /\ Row(c).game = g /\ Row(c).user = u
        BY <1>2, <1>5, <1>6, <4>1
      <4>3. ASSUME NEW z \in scores', z.game = g, z.user = u PROVE z = Row(c)
        <5>1. PICK d \in Color : z = Row(d)
          BY <1>2, <1>6, <1>7, <4>3
        <5>2. SeatOf(games[g], d) = SeatOf(games[g], c)
          BY <1>5, <4>1, <4>3, <5>1
        <5>3. d = c
          BY <1>4, <5>2 DEF SeatOf, Color
        <5> QED
          BY <5>1, <5>3
      <4> QED
        BY <3>1, <4>2, <4>3
    <3>2. CASE k # g
      <4>1. games'[k] = games[k] /\ Finished(k)
        BY <1>3, <2>2, <3>2 DEF Finished
      <4>2. PICK s \in scores : /\ s.game = k /\ s.user = u
                                /\ \A z \in scores : z.game = k /\ z.user = u
                                                       => z = s
        BY <2>2, <4>1 DEF RecordsInv, RecordsMatchResults, ScoresMatchResults
      <4>3. \A z \in scores' : z.game = k => z \in scores
        BY <1>2, <1>5, <1>6, <3>2
      <4> QED
        BY <1>2, <4>2, <4>3
    <3> QED
      BY <3>1, <3>2
  <2>3. \A s \in scores' :
          /\ Finished(s.game)'
          /\ \E c \in Color : /\ s.user = SeatOf(games'[s.game], c)
                              /\ s.winner = (c = games'[s.game].winner)
    BY <2>1, Zenon
  <2>4. \A k \in Game : Finished(k)' =>
          \A u \in Seats(games'[k]) :
             \E s \in scores' : /\ s.game = k /\ s.user = u
                                /\ \A z \in scores' : z.game = k /\ z.user = u
                                                        => z = s
    BY <2>2, Zenon
  <2> QED
    BY <2>3, <2>4, Zenon DEF ScoresMatchResults, Finished
<1>9. AwardsMatchWins'
  <2> SUFFICES ASSUME NEW u \in User, NEW k \in WinMilestones, k > 0
               PROVE  <<"wins", k>> \in awards'[u] <=> WinsIn(scores', u) >= k
    BY DEF AwardsMatchWins
  <2> DEFINE won == winner # None /\ SeatOf(games[g], winner) = u
             key == <<"wins", k>>
  <2>1. WinsIn(scores', u) = WinsIn(scores, u) + IF won THEN 1 ELSE 0
    <3>1. ScoresMatchResults /\ IsFiniteSet(scores)
      BY DEF RecordsInv, RecordsMatchResults
    <3>2. scores' = scores \cup ScoreRows(g, winner, n)
      BY <1>2 DEF rows
    <3>3. /\ won => WinsIn(scores', u) = WinsIn(scores, u) + 1
          /\ ~won => WinsIn(scores', u) = WinsIn(scores, u)
      <4>1. games[g].status = "in_progress" /\ games[g].black # None
        BY <1>1
      <4> HIDE LedgerAssumption
      <4> QED
        BY <3>1, <3>2, <4>1, SettledScores
    <3>4. WinsIn(scores, u) \in Nat
      BY <3>1, WinsType
    <3> QED
      BY <3>3, <3>4
  <2>2. key \in awards[u] <=> WinsIn(scores, u) >= k
    BY DEF RecordsInv, RecordsMatchResults, AwardsMatchWins
  <2>3. WinsIn(scores, u) \in Nat /\ WinsIn(scores', u) \in Nat /\ k \in Nat
    BY <2>1, WinsType DEF RecordsInv
  <2>4. awards'[u] = IF u \in Seats(games[g])
                     THEN awards[u] \cup Earned(won, n, WinsIn(scores', u))
                     ELSE awards[u]
    BY <1>2 DEF Settle, ScoreRows, rows
  <2>5. key \in Earned(won, n, WinsIn(scores', u))
          <=> won /\ WinsIn(scores', u) >= k
    BY MilestoneEarned
  <2>6. won => u \in Seats(games[g])
    BY <1>4 DEF SeatOf, Seats, Color
  <2> QED
    BY <2>1, <2>2, <2>3, <2>4, <2>5, <2>6
<1>10. IsFiniteSet(scores')
  <2>1. games[g].white \in User
    BY <1>4
  <2> QED
    BY <1>1, <1>2, <2>1, SettledScores DEF RecordsInv, RecordsMatchResults, rows
<1> QED
  BY <1>8, <1>9, <1>10 DEF RecordsInv, RecordsMatchResults

\* The empty tables agree.
LEMMA RecordsInit == LedgerInit => RecordsInv
<1> SUFFICES ASSUME LedgerInit PROVE RecordsInv
  OBVIOUS
<1>1. IsFiniteSet(scores)
  BY FS_EmptySet DEF LedgerInit
<1>2. ScoresMatchResults
  BY DEF LedgerInit, ScoresMatchResults, Finished, NoGame
<1>3. \A u \in User : WinsIn(scores, u) = 0
  <2>1. \A u : {s \in {} : s.user = u /\ s.winner} = {}
    OBVIOUS
  <2> QED
    BY <2>1, FS_EmptySet DEF LedgerInit, WinsIn
<1>4. AwardsMatchWins
  <2>1. \A u \in User : awards[u] = {}
    BY DEF LedgerInit
  <2>2. \A k \in WinMilestones : k \in Nat
    BY LedgerAssumption
  <2> QED
    BY <1>3, <2>1, <2>2 DEF AwardsMatchWins
<1> QED
  BY <1>1, <1>2, <1>4 DEF RecordsInv, RecordsMatchResults

\* Every transaction keeps the records.
LEMMA RecordsNext ==
    LedgerInv /\ RecordsInv /\ [LedgerNext]_ledgerVars => RecordsInv'
<1> SUFFICES ASSUME LedgerInv, RecordsInv, [LedgerNext]_ledgerVars
             PROVE  RecordsInv'
  OBVIOUS
<1>1. ASSUME NEW g \in Game, NEW result \in {"checkmate", "draw", "resign"},
             NEW winner \in Color \cup {None}, NEW n \in 1..MaxMoves,
             Settle(g, result, winner, n)
      PROVE  RecordsInv'
  BY <1>1, SettleRecords DEF LedgerNext
<1>2. CASE /\ LedgerNext
           /\ ~\E g \in Game, result \in {"checkmate", "draw", "resign"},
                 winner \in Color \cup {None}, n \in 1..MaxMoves :
                 Settle(g, result, winner, n)
  BY <1>2, RecordsFrame
<1>3. CASE UNCHANGED ledgerVars
  BY <1>3 DEF ledgerVars, RecordsInv, RecordsMatchResults, ScoresMatchResults,
              AwardsMatchWins, Finished
<1> QED
  BY <1>1, <1>2, <1>3

\* Scores and milestones say what the results say, whatever transactions
\* commit: a settlement is applied whole or not at all and two that overlap
\* both count (gameSocket.js finalizeGameAtomic).
THEOREM RecordsAgree == LedgerSpec => []RecordsMatchResults
<1>1. RecordsInv => RecordsMatchResults
  BY DEF RecordsInv
<1> QED
  BY <1>1, RecordsInit, RecordsNext, LedgerInvariant, PTL DEF LedgerSpec

=============================================================================
