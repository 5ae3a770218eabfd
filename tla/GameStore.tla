------------------------------ MODULE GameStore ------------------------------
(***************************************************************************)
(* The transactions of models/Game.js and socket/gameSocket.js as          *)
(* PostgreSQL runs them for any number of replicas: each takes row locks   *)
(* one at a time, decides on what it read under them, and commits or rolls *)
(* back.  Callers are arbitrary: whatever a replica's cache says, any of   *)
(* these transactions may be started, with a move count read earlier.      *)
(* Uncommitted writes stay inside the transaction (READ COMMITTED), so a   *)
(* transaction writes the tables in its commit step.                       *)
(***************************************************************************)
EXTENDS GameLedger

CONSTANT Txn         \* pool connections that may be in a transaction

ASSUME TxnAssumption == None \notin Txn /\ IsFiniteSet(Txn)

VARIABLES
    txn,        \* the transaction each connection runs
    gameLock,   \* exclusive lock on a games row
    userLock,   \* FOR UPDATE lock on a users row
    userShare   \* FOR KEY SHARE locks foreign keys take on a users row

lockVars  == <<txn, gameLock, userLock, userShare>>
storeVars == <<ledgerVars, lockVars>>

Idle ==
    [kind |-> "none", step |-> "idle", game |-> None, user |-> None,
     color |-> None, result |-> "none", n |-> 0, board |-> StartBoard,
     elo |-> [u \in User |-> {}], wins |-> [u \in User |-> 0]]

TxnRow ==
    [kind   : {"none", "claim", "move", "final", "rematch"},
     step   : {"idle", "wait_game", "holding", "lock_users", "share"},
     game   : Game \cup {None}, user : User \cup {None},
     color  : Color \cup {None}, result : Result, n : Nat, board : Board,
     elo    : [User -> SUBSET Game], wins : [User -> Nat]]

StoreInit ==
    /\ LedgerInit
    /\ txn = [t \in Txn |-> Idle]
    /\ gameLock = [g \in Game |-> None]
    /\ userLock = [u \in User |-> None]
    /\ userShare = [u \in User |-> {}]

Holds(t) == {u \in User : userLock[u] = t}

Shares(t) == {u \in User : t \in userShare[u]}

\* COMMIT and ROLLBACK alike release every lock and return the connection.
Release(t) ==
    /\ txn' = [txn EXCEPT ![t] = Idle]
    /\ gameLock' = [g \in Game |-> IF gameLock[g] = t THEN None ELSE gameLock[g]]
    /\ userLock' = [u \in User |-> IF userLock[u] = t THEN None ELSE userLock[u]]
    /\ userShare' = [u \in User |-> userShare[u] \ {t}]

Begin(t, request) ==
    /\ txn[t].step = "idle"
    /\ txn' = [txn EXCEPT ![t] = [request EXCEPT !.step = "wait_game"]]
    /\ UNCHANGED <<ledgerVars, gameLock, userLock, userShare>>

-----------------------------------------------------------------------------
(* What callers ask for.  Their own checks (join_room, make_move, resign)  *)
(* ran against an earlier snapshot of the row.                             *)

BeginClaim(t, g, u) ==
    /\ games[g].status # "absent"
    /\ u # games[g].white
    /\ Begin(t, [Idle EXCEPT !.kind = "claim", !.game = g, !.user = u])

BeginMove(t, g, c) ==
    /\ games[g].black # None
    /\ Len(moves[g]) < MaxMoves
    /\ Begin(t, [Idle EXCEPT !.kind = "move", !.game = g, !.color = c])

\* The cached board says who won; a resignation names the opponent.
BeginFinal(t, g, result, winner, n) ==
    /\ games[g].black # None
    /\ n <= Len(moves[g])
    /\ CASE result = "checkmate" -> /\ games[g].board.over = "checkmate"
                                    /\ winner = Other(games[g].board.turn)
         [] result = "draw"      -> /\ games[g].board.over = "draw"
                                    /\ winner = None
         [] result = "resign"    -> winner # None
    /\ Begin(t, [Idle EXCEPT !.kind = "final", !.game = g, !.color = winner,
                             !.result = result, !.n = n])

BeginRematch(t, g) ==
    /\ games[g].status = "finished"
    /\ Begin(t, [Idle EXCEPT !.kind = "rematch", !.game = g])

-----------------------------------------------------------------------------
(* The first statement locks the games row and decides on what it finds:   *)
(* SELECT ... FOR UPDATE, or an UPDATE whose WHERE names the status.       *)

\* Bug: claimBlack forgets that the seat may be taken.
AdmittedTakenSeat(t) ==
    LET row == games[txn[t].game]
    IN  CASE txn[t].kind = "move"    -> /\ row.status = "in_progress"
                                        /\ row.board.turn = txn[t].color
          [] txn[t].kind = "rematch" -> row.status = "finished"
          [] OTHER                   -> row.status = "in_progress"

\* Bug: persistMoveAtomic forgets that the game may have ended.
AdmittedLateMove(t) ==
    LET row == games[txn[t].game]
    IN  CASE txn[t].kind = "claim"   -> /\ row.status = "in_progress"
                                        /\ row.black = None
          [] txn[t].kind = "move"    -> row.board.turn = txn[t].color
          [] txn[t].kind = "final"   -> row.status = "in_progress"
          [] txn[t].kind = "rematch" -> row.status = "finished"

Admitted(t) ==
    LET row == games[txn[t].game]
    IN  CASE txn[t].kind = "claim"   -> /\ row.status = "in_progress"
                                        /\ row.black = None
          [] txn[t].kind = "move"    -> /\ row.status = "in_progress"
                                        /\ row.board.turn = txn[t].color
          [] txn[t].kind = "final"   -> row.status = "in_progress"
          [] txn[t].kind = "rematch" -> row.status = "finished"

NextStep(kind) ==
    CASE kind = "move"  -> "holding"
      [] kind = "final" -> "lock_users"
      [] OTHER          -> "share"

\* Bug: the row is read without FOR UPDATE.
LockGamePlainRead(t) ==
    LET g == txn[t].game
    IN  /\ txn[t].step = "wait_game"
        /\ Admitted(t)
        /\ txn' = [txn EXCEPT ![t].step = NextStep(txn[t].kind),
                              ![t].board = games[g].board]
        /\ UNCHANGED <<ledgerVars, gameLock, userLock, userShare>>

LockGame(t) ==
    LET g == txn[t].game
    IN  /\ txn[t].step = "wait_game"
        /\ gameLock[g] = None
        /\ Admitted(t)
        /\ gameLock' = [gameLock EXCEPT ![g] = t]
        /\ txn' = [txn EXCEPT ![t].step = NextStep(txn[t].kind),
                              ![t].board = games[g].board]
        /\ UNCHANGED <<ledgerVars, userLock, userShare>>

\* Seat taken, game over, wrong turn: the transaction ends without a write.
Refuse(t) ==
    /\ txn[t].step = "wait_game"
    /\ gameLock[txn[t].game] = None
    /\ ~Admitted(t)
    /\ Release(t)
    /\ UNCHANGED ledgerVars

(***************************************************************************)
(* SELECT id, elo_rating ... ORDER BY id FOR UPDATE: the two users rows    *)
(* are locked in id order, and read once they are locked.                  *)
(***************************************************************************)
\* Bug: the rows are locked white first, not in id order.
NextUserWhiteFirst(t) ==
    LET row == games[txn[t].game]
    IN  IF row.white \in Holds(t) THEN row.black ELSE row.white

NextUser(t) ==
    CHOOSE u \in Seats(games[txn[t].game]) \ Holds(t) :
        \A v \in Seats(games[txn[t].game]) \ Holds(t) : u <= v

\* Bug: the ratings are read without FOR UPDATE.
LockUserPlainRead(t) ==
    /\ txn[t].step = "lock_users"
    /\ txn' = [txn EXCEPT
                 ![t].elo = elo,
                 ![t].wins = [v \in User |-> WinsIn(scores, v)],
                 ![t].step = "holding"]
    /\ UNCHANGED <<ledgerVars, gameLock, userLock, userShare>>

LockUser(t) ==
    LET u == NextUser(t)
    IN  /\ txn[t].step = "lock_users"
        /\ userLock[u] = None
        /\ userShare[u] = {}
        /\ userLock' = [userLock EXCEPT ![u] = t]
        /\ txn' = [txn EXCEPT
                     ![t].elo[u] = elo[u],
                     ![t].wins[u] = WinsIn(scores, u),
                     ![t].step = IF Cardinality(Holds(t)) = 1 THEN "holding"
                                                              ELSE "lock_users"]
        /\ UNCHANGED <<ledgerVars, gameLock, userShare>>

\* The users a games row being written refers to, in statement order:
\* claimBlack sets black; a rematch inserts white, then updates black.
Referenced(t) ==
    IF txn[t].kind = "claim" THEN <<txn[t].user>>
    ELSE <<games[txn[t].game].black, games[txn[t].game].white>>

\* The foreign key of the seat just written takes FOR KEY SHARE on its user.
ShareUser(t) ==
    LET refs == Referenced(t)
        u    == refs[Cardinality(Shares(t)) + 1]
    IN  /\ txn[t].step = "share"
        /\ userLock[u] = None
        /\ userShare' = [userShare EXCEPT ![u] = @ \cup {t}]
        /\ txn' = [txn EXCEPT ![t].step =
                     IF Cardinality(Shares(t)) + 1 = Len(refs) THEN "holding"
                                                               ELSE "share"]
        /\ UNCHANGED <<ledgerVars, gameLock, userLock>>

-----------------------------------------------------------------------------
(* Commits.                                                                *)

CommitClaim(t) ==
    /\ txn[t].kind = "claim" /\ txn[t].step = "holding"
    /\ games' = [games EXCEPT ![txn[t].game].black = txn[t].user]
    /\ Release(t)
    /\ UNCHANGED <<moves, elo, scores, awards>>

\* The board written is computed from the board read under the lock; the
\* move number is one more than the largest recorded.
CommitMove(t, over) ==
    LET g == txn[t].game
    IN  /\ txn[t].kind = "move" /\ txn[t].step = "holding"
        /\ txn[t].board.over = "no"
        /\ games' = [games EXCEPT ![g].board =
                       [turn |-> Other(txn[t].board.turn), over |-> over]]
        /\ moves' = [moves EXCEPT ![g] = Append(@, txn[t].color)]
        /\ Release(t)
        /\ UNCHANGED <<elo, scores, awards>>

\* chess.js refuses the move: null, nothing written.
RejectMove(t) ==
    /\ txn[t].kind = "move" /\ txn[t].step = "holding"
    /\ Release(t)
    /\ UNCHANGED ledgerVars

\* Bug: only the winner's score is inserted.
CommitFinalWinnerOnly(t) ==
    LET g   == txn[t].game
        row == games[g]
        win == txn[t].color
    IN  /\ txn[t].kind = "final" /\ txn[t].step = "holding"
        /\ txn[t].n > 0 /\ win # None
        /\ games' = [games EXCEPT ![g].status = "finished",
                                  ![g].result = txn[t].result,
                                  ![g].winner = win]
        /\ scores' = scores \cup {[game |-> g, user |-> SeatOf(row, win),
                                   moves |-> txn[t].n, winner |-> TRUE]}
        /\ Release(t)
        /\ UNCHANGED <<moves, elo, awards>>

\* Ratings are written from the values read; ON CONFLICT DO NOTHING on a
\* score, or the CHECK on its move count, fails the transaction instead.
CommitFinal(t) ==
    LET g    == txn[t].game
        row  == games[g]
        n    == txn[t].n
        win  == txn[t].color
        rows == {[game |-> g, user |-> SeatOf(row, c), moves |-> n,
                  winner |-> (c = win)] : c \in Color}
        Won(u) == win # None /\ SeatOf(row, win) = u
    IN  /\ txn[t].kind = "final" /\ txn[t].step = "holding"
        /\ n > 0
        /\ ~\E s \in scores : s.game = g
        /\ games' = [games EXCEPT ![g].status = "finished",
                                  ![g].result = txn[t].result,
                                  ![g].winner = win]
        /\ elo' = [u \in User |-> IF u \in Seats(row)
                                  THEN txn[t].elo[u] \cup {g} ELSE elo[u]]
        /\ scores' = scores \cup rows
        /\ awards' = [u \in User |->
                        IF u \in Seats(row)
                        THEN awards[u] \cup
                             Earned(Won(u), n, txn[t].wins[u] +
                                               IF Won(u) THEN 1 ELSE 0)
                        ELSE awards[u]]
        /\ Release(t)
        /\ UNCHANGED moves

\* Bug: games.room_id loses its UNIQUE constraint.
CommitRematchNotUnique(t, h) ==
    LET g   == txn[t].game
        row == games[g]
    IN  /\ txn[t].kind = "rematch" /\ txn[t].step = "holding"
        /\ NextId(h)
        /\ games' = [games EXCEPT
                       ![g].room = None,
                       ![h] = NewRow(row.home, row.black, row.white, g)]
        /\ Release(t)
        /\ UNCHANGED <<moves, elo, scores, awards>>

CommitRematch(t, h) ==
    LET g   == txn[t].game
        row == games[g]
    IN  /\ txn[t].kind = "rematch" /\ txn[t].step = "holding"
        /\ NextId(h)
        /\ \A k \in Game \ {g} : games[k].room # row.home
        /\ games' = [games EXCEPT
                       ![g].room = None,
                       ![h] = NewRow(row.home, row.black, row.white, g)]
        /\ Release(t)
        /\ UNCHANGED <<moves, elo, scores, awards>>

\* ROLLBACK: a statement error (CHECK, UNIQUE, timeout), a deadlock victim, a
\* lost connection or a crashed replica.
Abort(t) ==
    /\ txn[t].step # "idle"
    /\ Release(t)
    /\ UNCHANGED ledgerVars

\* Single-statement transactions.
Create(g, r, u) ==
    /\ userLock[u] = None
    /\ Open(g, r, u)
    /\ UNCHANGED lockVars

AbandonMany(g) ==
    /\ gameLock[g] = None
    /\ Abandon(g)
    /\ UNCHANGED lockVars

StoreNext ==
    \/ \E t \in Txn :
         \/ \E g \in Game, u \in User : BeginClaim(t, g, u)
         \/ \E g \in Game, c \in Color : BeginMove(t, g, c)
         \/ \E g \in Game, result \in {"checkmate", "draw", "resign"},
               winner \in Color \cup {None}, n \in 0..MaxMoves :
               BeginFinal(t, g, result, winner, n)
         \/ \E g \in Game : BeginRematch(t, g)
         \/ LockGame(t) \/ Refuse(t) \/ LockUser(t) \/ ShareUser(t)
         \/ CommitClaim(t)
         \/ \E over \in Endings \cup {"no"} : CommitMove(t, over)
         \/ RejectMove(t) \/ CommitFinal(t)
         \/ \E h \in Game : CommitRematch(t, h)
         \/ Abort(t)
    \/ \E g \in Game, r \in Room, u \in User : Create(g, r, u)
    \/ \E g \in Game : AbandonMany(g)

StoreSpec == StoreInit /\ [][StoreNext]_storeVars

-----------------------------------------------------------------------------

\* Every transaction record and lock table keeps its shape.
StoreTypeOK ==
    /\ LedgerTypeOK
    /\ txn \in [Txn -> TxnRow]
    /\ gameLock \in [Game -> Txn \cup {None}]
    /\ userLock \in [User -> Txn \cup {None}]
    /\ userShare \in [User -> SUBSET Txn]

\* The transactions t waits for at its next statement.
BlockedBy(t) ==
    CASE txn[t].step = "wait_game" ->
           {gameLock[txn[t].game]} \ {None}
      [] txn[t].step = "lock_users" ->
           ({userLock[NextUser(t)]} \cup userShare[NextUser(t)]) \ {None}
      [] txn[t].step = "share" ->
           {userLock[Referenced(t)[Cardinality(Shares(t)) + 1]]} \ {None}
      [] OTHER -> {}

\* No set of joins, moves and settlements waits on itself: however games
\* share players, settling them concurrently cannot deadlock, because the
\* users rows are locked in id order (gameSocket.js finalizeGameAtomic).
\* Rematches are left out: see the README on their foreign-key locks.
NoSettlementDeadlock ==
    \A S \in SUBSET {t \in Txn : txn[t].kind # "rematch"} :
       S # {} => \E t \in S : BlockedBy(t) \cap S = {}

\* A decision made under a row lock still holds at commit: the row a
\* transaction is about to write is the row it read (Game.claimBlack,
\* persistMoveAtomic, finalizeGameAtomic).
DecisionsStillHold ==
    \A t \in Txn : txn[t].step \in {"holding", "lock_users", "share"} =>
       LET row == games[txn[t].game]
       IN  /\ gameLock[txn[t].game] = t
           /\ Admitted(t)
           /\ row.board = txn[t].board
           /\ txn[t].kind = "final" =>
                \A u \in Holds(t) : txn[t].elo[u] = elo[u]

\* The store keeps its shape, and what a transaction decided under its locks is
\* still true of the rows when it commits.
StoreInv == StoreTypeOK /\ DecisionsStillHold

=============================================================================
