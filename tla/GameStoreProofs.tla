-------------------------- MODULE GameStoreProofs ---------------------------
(***************************************************************************)
(* GameStore implements GameLedger: whatever the row locks, refusals and   *)
(* rollbacks do in between, a transaction changes the committed tables in  *)
(* its commit step only, and that step is a step of the ledger.            *)
(***************************************************************************)
EXTENDS GameStore, GameLedgerProofs

\* A transaction past its first statement, which holds its games row.
Past == {"holding", "lock_users", "share"}

Row(t) == games[txn[t].game]

\* What a transaction was asked for, and which steps its kind has.
RequestOK(t) ==
    /\ txn[t].step = "idle" <=> txn[t].kind = "none"
    /\ txn[t].step # "idle" => txn[t].game \in Game /\ Row(t).status # "absent"
    /\ txn[t].kind = "claim" => /\ txn[t].user \in User
                                /\ txn[t].user # Row(t).white
    /\ txn[t].kind = "final" => /\ Row(t).black # None
                                /\ txn[t].n <= MaxMoves
                                /\ txn[t].result \in {"checkmate", "draw", "resign"}
    /\ txn[t].step = "lock_users" => txn[t].kind = "final"
    /\ txn[t].step = "share" => txn[t].kind \in {"claim", "rematch"}

\* What it decided under the lock of its games row is still so.
DecisionOK(t) ==
    txn[t].step \in Past =>
       /\ gameLock[txn[t].game] = t
       /\ Admitted(t)
       /\ Row(t).board = txn[t].board

\* What a settlement read of a users row it locked is still so, and it has
\* locked the rows of both players, in id order, before it commits.
UsersOK(t) ==
    /\ \A u \in Holds(t) : /\ txn[t].elo[u] = elo[u]
                           /\ txn[t].wins[u] = WinsIn(scores, u)
    /\ Holds(t) # {} => /\ txn[t].kind = "final"
                        /\ txn[t].step \in {"lock_users", "holding"}
    /\ txn[t].step = "lock_users" =>
          /\ Holds(t) \subseteq Seats(Row(t)) /\ Holds(t) # Seats(Row(t))
          /\ \A u \in Holds(t), v \in Seats(Row(t)) \ Holds(t) : u < v
    /\ txn[t].kind = "final" /\ txn[t].step = "holding" =>
          Holds(t) = Seats(Row(t))

\* Who may hold which lock at all.
OwnersOK(t) ==
    /\ \A g \in Game : gameLock[g] = t => txn[t].step \in Past
    /\ Shares(t) # {} => /\ txn[t].kind \in {"claim", "rematch"}
                         /\ txn[t].kind = "claim" => txn[t].step = "holding"

TxnOK(t) == RequestOK(t) /\ DecisionOK(t) /\ UsersOK(t) /\ OwnersOK(t)

StoreIInv ==
    /\ LedgerInv
    /\ RecordsInv
    /\ StoreTypeOK
    /\ \A t \in Txn : TxnOK(t)

-----------------------------------------------------------------------------

\* The lock tables keep their shape.
LocksTypeOK ==
    /\ txn \in [Txn -> TxnRow]
    /\ gameLock \in [Game -> Txn \cup {None}]
    /\ userLock \in [User -> Txn \cup {None}]
    /\ userShare \in [User -> SUBSET Txn]

\* A game in the table keeps its players, and its id is never reused.
LEMMA RowsStay ==
    ASSUME LedgerInv, [LedgerNext]_ledgerVars, NEW g \in Game,
           games[g].status # "absent"
    PROVE  /\ games'[g].status # "absent"
           /\ games'[g].white = games[g].white
           /\ games[g].black # None => games'[g].black = games[g].black
<1>1. games[g] \in GameRow
  BY DEF LedgerInv, LedgerTypeOK
<1>2. CASE UNCHANGED ledgerVars
  BY <1>2 DEF ledgerVars
<1>3. CASE LedgerNext
  <2>1. \/ Same(g) \/ Seated(g) \/ Played(g)
        \/ Settled(g) \/ Abandoned(g) \/ Released(g)
    BY <1>3, RowSteps DEF Opened, NoGame
  <2>2. CASE Same(g) \/ Seated(g)
    BY <1>1, <2>2 DEF Same, Seated, GameRow
  <2>3. CASE Played(g) \/ Settled(g) \/ Abandoned(g) \/ Released(g)
    BY <1>1, <2>3 DEF Played, Settled, Abandoned, Released, GameRow
  <2> QED
    BY <2>1, <2>2, <2>3
<1> QED
  BY <1>2, <1>3

\* Transaction x keeps its invariant while others run: they leave its locks
\* alone, its games row once it holds it, and the users rows it holds.
LEMMA Undisturbed ==
    ASSUME StoreIInv, [LedgerNext]_ledgerVars, NEW x \in Txn,
           txn'[x] = txn[x], Holds(x)' = Holds(x), Shares(x)' = Shares(x),
           \A g \in Game : gameLock'[g] = x <=> gameLock[g] = x,
           txn[x].step \in Past => games'[txn[x].game] = games[txn[x].game],
           \A u \in Holds(x) : /\ elo'[u] = elo[u]
                               /\ WinsIn(scores', u) = WinsIn(scores, u)
    PROVE  TxnOK(x)'
<1>1. TxnOK(x) /\ LedgerInv
  BY DEF StoreIInv
<1>2. txn[x].step # "idle" =>
         /\ txn[x].game \in Game
         /\ Row(x)'.status # "absent" /\ Row(x)'.white = Row(x).white
         /\ Row(x).black # None => Row(x)'.black = Row(x).black
  BY <1>1, RowsStay DEF TxnOK, RequestOK, Row
<1>3. RequestOK(x)'
  BY <1>1, <1>2 DEF TxnOK, RequestOK, Row
<1>4. DecisionOK(x)'
  BY <1>1, <1>2 DEF TxnOK, RequestOK, DecisionOK, Row, Admitted, Past
<1>5. UsersOK(x)'
  <2>1. txn[x].kind = "final" => Seats(Row(x)') = Seats(Row(x))
    BY <1>1, <1>2 DEF TxnOK, RequestOK, Seats
  <2>2. \A u \in Holds(x) : /\ txn[x].elo[u] = elo[u]
                            /\ txn[x].wins[u] = WinsIn(scores, u)
    BY <1>1 DEF TxnOK, UsersOK
  <2> QED
    BY <1>1, <2>1, <2>2 DEF TxnOK, RequestOK, UsersOK, Row
<1>6. OwnersOK(x)'
  BY <1>1 DEF TxnOK, OwnersOK
<1> QED
  BY <1>3, <1>4, <1>5, <1>6 DEF TxnOK

\* A connection outside a transaction has a well-formed record.
LEMMA IdleType == Idle \in TxnRow
BY DEF Idle, TxnRow, Result, Board, StartBoard, Color

\* COMMIT and ROLLBACK give up the locks of one transaction and no other's.
LEMMA ReleaseOK ==
    ASSUME StoreIInv, NEW t \in Txn, Release(t)
    PROVE  /\ TxnOK(t)' /\ LocksTypeOK'
           /\ \A x \in Txn \ {t} :
                /\ txn'[x] = txn[x]
                /\ Holds(x)' = Holds(x) /\ Shares(x)' = Shares(x)
                /\ \A g \in Game : gameLock'[g] = x <=> gameLock[g] = x
<1>1. LocksTypeOK
  BY DEF StoreIInv, StoreTypeOK, LocksTypeOK
<1>2. /\ txn' = [txn EXCEPT ![t] = Idle]
      /\ gameLock' = [g \in Game |-> IF gameLock[g] = t THEN None ELSE gameLock[g]]
      /\ userLock' = [u \in User |-> IF userLock[u] = t THEN None ELSE userLock[u]]
      /\ userShare' = [u \in User |-> userShare[u] \ {t}]
  BY DEF Release
<1>3. LocksTypeOK'
  BY <1>1, <1>2, IdleType DEF LocksTypeOK
<1>4. txn'[t] = Idle /\ Holds(t)' = {} /\ Shares(t)' = {}
      /\ \A g \in Game : gameLock'[g] # t
  BY <1>1, <1>2, TxnAssumption DEF LocksTypeOK, Holds, Shares
<1>5. TxnOK(t)'
  BY <1>4 DEF TxnOK, RequestOK, DecisionOK, UsersOK, OwnersOK, Idle, Past
<1>6. ASSUME NEW x \in Txn \ {t}
      PROVE  /\ txn'[x] = txn[x]
             /\ Holds(x)' = Holds(x) /\ Shares(x)' = Shares(x)
             /\ \A g \in Game : gameLock'[g] = x <=> gameLock[g] = x
  BY <1>1, <1>2, TxnAssumption DEF LocksTypeOK, Holds, Shares
<1> QED
  BY <1>3, <1>5, <1>6

\* What every step is shown to do: it is a step of the ledger or leaves the
\* tables alone, and every transaction keeps its invariant.
StepOK ==
    /\ [LedgerNext]_ledgerVars
    /\ LocksTypeOK'
    /\ \A x \in Txn : TxnOK(x)'

\* A transaction that ends without a write: refused, rejected or rolled back.
LEMMA GiveUpOK ==
    ASSUME StoreIInv, NEW t \in Txn, Release(t), UNCHANGED ledgerVars
    PROVE  StepOK
<1>1. games' = games /\ elo' = elo /\ scores' = scores
  BY DEF ledgerVars
<1>2. ASSUME NEW x \in Txn \ {t} PROVE TxnOK(x)'
  BY <1>1, ReleaseOK, Undisturbed
<1> QED
  BY <1>2, ReleaseOK DEF StepOK

\* BEGIN: the request is about a game that exists; no lock is taken yet.
LEMMA BeginOK ==
    ASSUME StoreIInv, NEW t \in Txn, NEW req \in TxnRow, Begin(t, req),
           req.kind # "none", req.game \in Game,
           games[req.game].status # "absent",
           req.kind = "claim" => /\ req.user \in User
                                 /\ req.user # games[req.game].white,
           req.kind = "final" => /\ games[req.game].black # None
                                 /\ req.n <= MaxMoves
                                 /\ req.result \in {"checkmate", "draw", "resign"}
    PROVE  StepOK
<1> DEFINE new == [req EXCEPT !.step = "wait_game"]
<1>1. LocksTypeOK /\ TxnOK(t)
  BY DEF StoreIInv, StoreTypeOK, LocksTypeOK
<1>2. /\ txn[t].step = "idle" /\ txn' = [txn EXCEPT ![t] = new]
      /\ UNCHANGED <<ledgerVars, gameLock, userLock, userShare>>
  BY DEF Begin
<1>3. games' = games /\ elo' = elo /\ scores' = scores
  BY <1>2 DEF ledgerVars
<1>4. /\ new \in TxnRow /\ new.step = "wait_game" /\ new.kind = req.kind
      /\ new.game = req.game /\ new.user = req.user /\ new.n = req.n
      /\ new.result = req.result
  BY DEF TxnRow
<1> HIDE DEF new
<1>5. txn'[t] = new
  BY <1>1, <1>2 DEF LocksTypeOK
<1>6. /\ \A x : Holds(x)' = Holds(x) /\ Shares(x)' = Shares(x)
      /\ gameLock' = gameLock
  BY <1>2 DEF Holds, Shares
<1>7. LocksTypeOK'
  BY <1>1, <1>2, <1>4 DEF LocksTypeOK
<1>8. Holds(t) = {} /\ Shares(t) = {} /\ \A g \in Game : gameLock[g] # t
  BY <1>1, <1>2 DEF TxnOK, RequestOK, UsersOK, OwnersOK, Past
<1>9. TxnOK(t)'
  BY <1>3, <1>4, <1>5, <1>6, <1>8
  DEF TxnOK, RequestOK, DecisionOK, UsersOK, OwnersOK, Row, Past
<1>10. ASSUME NEW x \in Txn \ {t} PROVE TxnOK(x)'
  <2>1. txn'[x] = txn[x]
    BY <1>1, <1>2 DEF LocksTypeOK
  <2> QED
    BY <1>2, <1>3, <1>6, <2>1, Undisturbed
<1> QED
  BY <1>2, <1>7, <1>9, <1>10 DEF StepOK

\* The first statement of a transaction takes its games row.
LEMMA LockGameOK ==
    ASSUME StoreIInv, NEW t \in Txn, LockGame(t)
    PROVE  StepOK
<1> DEFINE g == txn[t].game
           new == [txn[t] EXCEPT !.step = NextStep(txn[t].kind),
                                 !.board = games[g].board]
<1>1. LocksTypeOK /\ TxnOK(t) /\ games \in [Game -> GameRow]
  BY DEF StoreIInv, StoreTypeOK, LocksTypeOK, LedgerTypeOK
<1>2. /\ txn[t].step = "wait_game" /\ gameLock[g] = None /\ Admitted(t)
      /\ gameLock' = [gameLock EXCEPT ![g] = t]
      /\ txn' = [txn EXCEPT ![t] = new]
      /\ UNCHANGED <<ledgerVars, userLock, userShare>>
  BY <1>1 DEF LockGame, LocksTypeOK
<1>3. games' = games /\ elo' = elo /\ scores' = scores
  BY <1>2 DEF ledgerVars
<1>4. txn[t] \in TxnRow /\ g \in Game /\ games[g] \in GameRow
  BY <1>1, <1>2 DEF LocksTypeOK, TxnOK, RequestOK
<1>5. /\ NextStep(txn[t].kind) \in Past
      /\ NextStep(txn[t].kind) = "lock_users" => txn[t].kind = "final"
      /\ txn[t].kind = "final" => NextStep(txn[t].kind) = "lock_users"
      /\ NextStep(txn[t].kind) = "share" => txn[t].kind \in {"claim", "rematch"}
  BY <1>1, <1>2, <1>4 DEF NextStep, Past, TxnRow, TxnOK, RequestOK
<1>6. /\ new \in TxnRow /\ new.step = NextStep(txn[t].kind)
      /\ new.kind = txn[t].kind /\ new.board = games[g].board
      /\ new.game = g /\ new.user = txn[t].user /\ new.n = txn[t].n
      /\ new.result = txn[t].result /\ new.color = txn[t].color
  BY <1>4, <1>5 DEF TxnRow, GameRow, Past
<1> HIDE DEF new
<1>7. txn'[t] = new /\ gameLock'[g] = t
  BY <1>1, <1>2, <1>4 DEF LocksTypeOK
<1>8. \A x : Holds(x)' = Holds(x) /\ Shares(x)' = Shares(x)
  BY <1>2 DEF Holds, Shares
<1>9. LocksTypeOK'
  BY <1>1, <1>2, <1>6 DEF LocksTypeOK
<1>10. Holds(t) = {} /\ (Shares(t) # {} => txn[t].kind = "rematch")
  BY <1>1, <1>2 DEF TxnOK, UsersOK, OwnersOK
<1>11. TxnOK(t)'
  <2>1. RequestOK(t)'
    BY <1>1, <1>2, <1>3, <1>4, <1>5, <1>6, <1>7 DEF TxnOK, RequestOK, Row, Past
  <2>2. DecisionOK(t)'
    BY <1>2, <1>3, <1>6, <1>7 DEF DecisionOK, Admitted, Row
  <2>3. Seats(games[g]) # {}
    <3>1. games[g].white \in User
      BY <1>1, <1>2, <1>4 DEF StoreIInv, LedgerInv, RowsWellFormed, RowWellFormed, TxnOK, RequestOK, Row
    <3> QED
      BY <3>1, LedgerAssumption DEF Seats
  <2>4. UsersOK(t)'
    BY <1>3, <1>5, <1>6, <1>7, <1>8, <1>10, <2>3 DEF UsersOK, Row, Past
  <2>5. OwnersOK(t)'
    BY <1>5, <1>6, <1>7, <1>8, <1>10 DEF OwnersOK
  <2> QED
    BY <2>1, <2>2, <2>4, <2>5 DEF TxnOK
<1>12. ASSUME NEW x \in Txn \ {t} PROVE TxnOK(x)'
  <2>1. txn'[x] = txn[x] /\ \A h \in Game : gameLock'[h] = x <=> gameLock[h] = x
    BY <1>1, <1>2, <1>4, TxnAssumption DEF LocksTypeOK
  <2> QED
    BY <1>2, <1>3, <1>8, <2>1, Undisturbed
<1> QED
  BY <1>2, <1>9, <1>11, <1>12 DEF StepOK

\* The next users row a settlement locks is the smaller of those it lacks.
LEMMA NextUserOK ==
    ASSUME StoreIInv, NEW t \in Txn, txn[t].step = "lock_users"
    PROVE  /\ NextUser(t) \in Seats(Row(t)) \ Holds(t)
           /\ NextUser(t) \in User
           /\ \A v \in Seats(Row(t)) \ Holds(t) : NextUser(t) <= v
           /\ Seats(Row(t)) = {Row(t).white, Row(t).black}
           /\ Row(t).white # Row(t).black
<1>1. TxnOK(t) /\ LedgerInv
  BY DEF StoreIInv
<1>2. txn[t].game \in Game /\ Row(t).status # "absent" /\ Row(t).black # None
  BY <1>1 DEF TxnOK, RequestOK
<1>3. Row(t).white \in User /\ Row(t).black \in User /\ Row(t).white # Row(t).black
  BY <1>1, <1>2 DEF LedgerInv, LedgerTypeOK, GameRow, RowsWellFormed, RowWellFormed, Row
<1>4. Seats(Row(t)) = {Row(t).white, Row(t).black}
  BY <1>3, LedgerAssumption DEF Seats
<1> DEFINE Left == Seats(Row(t)) \ Holds(t)
<1>5. Left # {} /\ Left \subseteq {Row(t).white, Row(t).black}
  BY <1>1, <1>4 DEF TxnOK, UsersOK
<1>6. \E u \in Left : \A v \in Left : u <= v
  <2>1. Row(t).white \in Nat /\ Row(t).black \in Nat
    BY <1>3, LedgerAssumption
  <2> HIDE DEF Left
  <2> QED
    BY <1>5, <2>1
<1>7. NextUser(t) = CHOOSE u \in Left : \A v \in Left : u <= v
  BY DEF NextUser, Row
<1> HIDE DEF Left
<1>8. NextUser(t) \in Left /\ \A v \in Left : NextUser(t) <= v
  BY <1>6, <1>7
<1> QED
  BY <1>3, <1>4, <1>5, <1>8 DEF Left

\* A settlement locks and reads one users row.
LEMMA LockUserOK ==
    ASSUME StoreIInv, NEW t \in Txn, LockUser(t)
    PROVE  StepOK
<1> DEFINE u == NextUser(t)
           step == IF Cardinality(Holds(t)) = 1 THEN "holding" ELSE "lock_users"
           new == [txn[t] EXCEPT !.elo[u] = elo[u],
                                 !.wins[u] = WinsIn(scores, u), !.step = step]
<1>1. LocksTypeOK /\ TxnOK(t) /\ elo \in [User -> SUBSET Game]
  BY DEF StoreIInv, StoreTypeOK, LocksTypeOK, LedgerTypeOK
<1>2. /\ txn[t].step = "lock_users" /\ userLock[u] = None
      /\ userLock' = [userLock EXCEPT ![u] = t]
      /\ txn' = [txn EXCEPT ![t] = new]
      /\ UNCHANGED <<ledgerVars, gameLock, userShare>>
  <2>1. txn' = [txn EXCEPT ![t].elo[u] = elo[u],
                           ![t].wins[u] = WinsIn(scores, u), ![t].step = step]
    BY DEF LockUser
  <2>2. txn \in [Txn -> TxnRow]
    BY <1>1 DEF LocksTypeOK
  <2>3. txn' = [txn EXCEPT ![t] = new]
    <3> DEFINE a == elo[u]
               b == WinsIn(scores, u)
    <3> HIDE DEF u, step, a, b
    <3>1. txn' = [txn EXCEPT ![t].elo[u] = a, ![t].wins[u] = b, ![t].step = step]
      BY <2>1 DEF a, b
    <3>2. txn' = [txn EXCEPT ![t] = [txn[t] EXCEPT !.elo[u] = a, !.wins[u] = b,
                                                   !.step = step]]
      BY <2>2, <3>1 DEF TxnRow
    <3> QED
      BY <3>2 DEF a, b
  <2> QED
    BY <2>3 DEF LockUser
<1>3. /\ games' = games /\ elo' = elo /\ scores' = scores
      /\ gameLock' = gameLock /\ userShare' = userShare
  BY <1>2 DEF ledgerVars
<1>4. /\ u \in Seats(Row(t)) \ Holds(t) /\ u \in User
      /\ \A v \in Seats(Row(t)) \ Holds(t) : u <= v
      /\ Seats(Row(t)) = {Row(t).white, Row(t).black}
      /\ Row(t).white # Row(t).black
  BY <1>2, NextUserOK
<1>5. WinsIn(scores, u) \in Nat
  BY WinsType DEF StoreIInv, RecordsInv
<1>6. txn[t] \in TxnRow /\ txn[t].kind = "final" /\ txn[t].game \in Game
  BY <1>1, <1>2 DEF LocksTypeOK, TxnOK, RequestOK
<1>7. step \in {"holding", "lock_users"}
  OBVIOUS
<1> HIDE DEF u, step
<1>8. /\ new \in TxnRow /\ new.step = step
      /\ new.kind = txn[t].kind /\ new.board = txn[t].board
      /\ new.game = txn[t].game /\ new.user = txn[t].user /\ new.n = txn[t].n
      /\ new.result = txn[t].result /\ new.color = txn[t].color
      /\ new.elo = [txn[t].elo EXCEPT ![u] = elo[u]]
      /\ new.wins = [txn[t].wins EXCEPT ![u] = WinsIn(scores, u)]
  BY <1>1, <1>4, <1>5, <1>6, <1>7 DEF TxnRow
<1> HIDE DEF new
<1>9. txn'[t] = new /\ LocksTypeOK'
  BY <1>1, <1>2, <1>4, <1>8 DEF LocksTypeOK
<1>10. Holds(t)' = Holds(t) \cup {u} /\ \A x : Shares(x)' = Shares(x)
  BY <1>1, <1>2, <1>4 DEF LocksTypeOK, Holds, Shares
<1>11. Row(t)' = Row(t)
  BY <1>3, <1>8, <1>9 DEF Row
<1>12. TxnOK(t)'
  <2>1. RequestOK(t)'
    BY <1>1, <1>2, <1>6, <1>7, <1>8, <1>9, <1>11 DEF TxnOK, RequestOK
  <2>2. DecisionOK(t)'
    BY <1>1, <1>2, <1>3, <1>8, <1>9, <1>11 DEF TxnOK, DecisionOK, Admitted, Row, Past
  <2>3. OwnersOK(t)'
    BY <1>1, <1>2, <1>3, <1>6, <1>7, <1>8, <1>9, <1>10 DEF TxnOK, OwnersOK, Past
  <2>4. ASSUME NEW v \in Holds(t)'
        PROVE  new.elo[v] = elo[v] /\ new.wins[v] = WinsIn(scores, v)
    <3>1. txn[t].elo \in [User -> SUBSET Game] /\ txn[t].wins \in [User -> Nat]
      BY <1>6 DEF TxnRow
    <3>2. v \in User
      BY <2>4 DEF Holds
    <3>3. CASE v = u
      BY <1>4, <1>8, <3>1, <3>3
    <3>4. CASE v # u
      <4>1. v \in Holds(t)
        BY <1>10, <2>4, <3>4
      <4>2. txn[t].elo[v] = elo[v] /\ txn[t].wins[v] = WinsIn(scores, v)
        BY <1>1, <4>1 DEF TxnOK, UsersOK
      <4> QED
        BY <1>8, <3>1, <3>2, <3>4, <4>2
    <3> QED
      BY <3>3, <3>4
  <2>5. /\ Holds(t) \subseteq Seats(Row(t))
        /\ \A a \in Holds(t), v \in Seats(Row(t)) \ Holds(t) : a < v
    BY <1>1, <1>2 DEF TxnOK, UsersOK
  <2>6. CASE step = "holding"
    <3>1. Cardinality(Holds(t)) = 1
      BY <2>6 DEF step
    <3>2. Holds(t) # {}
      BY <3>1, FS_EmptySet
    <3>3. Holds(t)' = Seats(Row(t))
      BY <1>4, <1>10, <2>5, <3>2
    <3> QED
      BY <1>3, <1>6, <1>8, <1>9, <1>11, <2>1, <2>2, <2>3, <2>4, <2>6, <3>3
      DEF TxnOK, UsersOK
  <2>7. CASE step = "lock_users"
    <3>1. Cardinality(Holds(t)) # 1
      BY <2>7 DEF step
    <3>2. Holds(t) = {}
      <4>1. Holds(t) \in {{}, {Row(t).white}, {Row(t).black}}
        BY <1>4, <2>5
      <4> QED
        BY <3>1, <4>1, FS_Singleton
    <3>3. Holds(t)' = {u} /\ {u} # Seats(Row(t))
      BY <1>4, <1>10, <3>2
    <3>4. \A v \in Seats(Row(t)) \ {u} : u < v
      <4>1. Seats(Row(t)) \subseteq Nat
        <5>1. Row(t).white \in User \cup {None} /\ Row(t).black \in User \cup {None}
          BY <1>6 DEF StoreIInv, LedgerInv, LedgerTypeOK, GameRow, Row
        <5> QED
          BY <5>1, LedgerAssumption DEF Seats
      <4> QED
        BY <1>4, <3>2, <4>1
    <3> QED
      BY <1>3, <1>4, <1>6, <1>8, <1>9, <1>11, <2>1, <2>2, <2>3, <2>4, <2>7, <3>3, <3>4
      DEF TxnOK, UsersOK
  <2> QED
    BY <1>7, <2>6, <2>7
<1>13. ASSUME NEW x \in Txn \ {t} PROVE TxnOK(x)'
  <2>1. txn'[x] = txn[x]
    BY <1>1, <1>2 DEF LocksTypeOK
  <2>2. Holds(x)' = Holds(x)
    BY <1>1, <1>2, <1>4, TxnAssumption DEF LocksTypeOK, Holds
  <2> QED
    BY <1>2, <1>3, <1>10, <2>1, <2>2, Undisturbed
<1> QED
  BY <1>2, <1>9, <1>12, <1>13 DEF StepOK

\* A foreign key takes a share lock on a users row.
LEMMA ShareUserOK ==
    ASSUME StoreIInv, NEW t \in Txn, ShareUser(t)
    PROVE  StepOK
<1> DEFINE refs == Referenced(t)
           u == refs[Cardinality(Shares(t)) + 1]
           step == IF Cardinality(Shares(t)) + 1 = Len(refs) THEN "holding"
                                                             ELSE "share"
           new == [txn[t] EXCEPT !.step = step]
<1>1. LocksTypeOK /\ TxnOK(t)
  BY DEF StoreIInv, StoreTypeOK, LocksTypeOK
<1>2. /\ txn[t].step = "share"
      /\ userShare' = [userShare EXCEPT ![u] = userShare[u] \cup {t}]
      /\ txn' = [txn EXCEPT ![t] = new]
      /\ UNCHANGED <<ledgerVars, gameLock, userLock>>
  BY <1>1 DEF ShareUser, LocksTypeOK
<1>3. /\ games' = games /\ elo' = elo /\ scores' = scores
      /\ gameLock' = gameLock /\ userLock' = userLock
  BY <1>2 DEF ledgerVars
<1>4. txn[t] \in TxnRow /\ txn[t].kind \in {"claim", "rematch"}
  BY <1>1, <1>2 DEF LocksTypeOK, TxnOK, RequestOK
<1>5. step \in {"holding", "share"}
  OBVIOUS
<1>6. txn[t].kind = "claim" => step = "holding"
  <2> SUFFICES ASSUME txn[t].kind = "claim" PROVE step = "holding"
    OBVIOUS
  <2>1. Shares(t) = {}
    BY <1>1, <1>2 DEF TxnOK, OwnersOK
  <2>2. Cardinality(Shares(t)) = 0
    BY <2>1, FS_EmptySet
  <2>3. refs = <<txn[t].user>>
    BY DEF Referenced
  <2>4. Len(refs) = 1
    BY <2>3
  <2> QED
    BY <2>2, <2>4
<1> HIDE DEF u, step
<1>7. /\ new \in TxnRow /\ new.step = step
      /\ new.kind = txn[t].kind /\ new.board = txn[t].board
      /\ new.game = txn[t].game /\ new.user = txn[t].user /\ new.n = txn[t].n
      /\ new.result = txn[t].result /\ new.color = txn[t].color
  BY <1>4, <1>5 DEF TxnRow
<1> HIDE DEF new
<1>8. txn'[t] = new /\ LocksTypeOK' /\ \A x : Holds(x)' = Holds(x)
  BY <1>1, <1>2, <1>7 DEF LocksTypeOK, Holds
<1>9. \A x \in Txn \ {t} : Shares(x)' = Shares(x)
  BY <1>1, <1>2 DEF LocksTypeOK, Shares
<1>10. Holds(t) = {}
  BY <1>1, <1>2, <1>4 DEF TxnOK, UsersOK
<1>11. TxnOK(t)'
  <2>1. RequestOK(t)'
    BY <1>1, <1>2, <1>3, <1>4, <1>5, <1>7, <1>8 DEF TxnOK, RequestOK, Row
  <2>2. DecisionOK(t)'
    BY <1>1, <1>2, <1>3, <1>7, <1>8 DEF TxnOK, DecisionOK, Admitted, Row, Past
  <2>3. UsersOK(t)'
    BY <1>4, <1>5, <1>7, <1>8, <1>10 DEF UsersOK
  <2>4. OwnersOK(t)'
    BY <1>1, <1>2, <1>3, <1>4, <1>5, <1>6, <1>7, <1>8 DEF TxnOK, OwnersOK, Past
  <2> QED
    BY <2>1, <2>2, <2>3, <2>4 DEF TxnOK
<1>12. ASSUME NEW x \in Txn \ {t} PROVE TxnOK(x)'
  <2>1. txn'[x] = txn[x]
    BY <1>1, <1>2 DEF LocksTypeOK
  <2> QED
    BY <1>2, <1>3, <1>8, <1>9, <2>1, Undisturbed
<1> QED
  BY <1>2, <1>8, <1>11, <1>12 DEF StepOK

\* Two transactions never hold the same games row.
LEMMA RowsApart ==
    ASSUME StoreIInv, NEW t \in Txn, NEW x \in Txn, x # t,
           txn[t].step \in Past, txn[x].step \in Past
    PROVE  /\ txn[x].game # txn[t].game /\ txn[x].game \in Game
           /\ games[txn[x].game].status # "absent"
<1>1. TxnOK(t) /\ TxnOK(x)
  BY DEF StoreIInv
<1> QED
  BY <1>1 DEF TxnOK, DecisionOK, RequestOK, Row, Past

\* A commit that is a ledger step, and changes no row others hold.
LEMMA CommitOK ==
    ASSUME StoreIInv, NEW t \in Txn, Release(t), LedgerNext,
           \A x \in Txn \ {t} : txn[x].step \in Past =>
              games'[txn[x].game] = games[txn[x].game],
           \A x \in Txn \ {t} : \A u \in Holds(x) :
              elo'[u] = elo[u] /\ WinsIn(scores', u) = WinsIn(scores, u)
    PROVE  StepOK
<1>1. ASSUME NEW x \in Txn \ {t} PROVE TxnOK(x)'
  <2>1. /\ txn'[x] = txn[x]
        /\ Holds(x)' = Holds(x) /\ Shares(x)' = Shares(x)
        /\ \A g \in Game : gameLock'[g] = x <=> gameLock[g] = x
    BY ReleaseOK
  <2>2. txn[x].step \in Past => games'[txn[x].game] = games[txn[x].game]
    OBVIOUS
  <2>3. \A u \in Holds(x) : /\ elo'[u] = elo[u]
                            /\ WinsIn(scores', u) = WinsIn(scores, u)
    OBVIOUS
  <2> QED
    BY <2>1, <2>2, <2>3, Undisturbed
<1> QED
  BY <1>1, ReleaseOK DEF StepOK

\* claimBlack commits a Seat step.
LEMMA CommitClaimOK ==
    ASSUME StoreIInv, NEW t \in Txn, CommitClaim(t)
    PROVE  StepOK
<1> DEFINE g == txn[t].game
<1>1. TxnOK(t) /\ games \in [Game -> GameRow]
  BY DEF StoreIInv, StoreTypeOK, LedgerTypeOK
<1>2. /\ txn[t].kind = "claim" /\ txn[t].step = "holding"
      /\ games' = [games EXCEPT ![g].black = txn[t].user]
      /\ Release(t) /\ UNCHANGED <<moves, elo, scores, awards>>
  BY DEF CommitClaim
<1>3. /\ g \in Game /\ games[g].status = "in_progress" /\ games[g].black = None
      /\ txn[t].user \in User /\ txn[t].user # games[g].white
  BY <1>1, <1>2 DEF TxnOK, RequestOK, DecisionOK, Admitted, Row, Past
<1>4. Seat(g, txn[t].user)
  BY <1>2, <1>3 DEF Seat
<1>5. LedgerNext
  BY <1>3, <1>4 DEF LedgerNext
<1>6. ASSUME NEW x \in Txn \ {t}, txn[x].step \in Past
      PROVE  games'[txn[x].game] = games[txn[x].game]
  <2>1. txn[x].game # g /\ txn[x].game \in Game
    BY <1>2, <1>6, RowsApart DEF Past
  <2> QED
    BY <1>1, <1>2, <2>1
<1> QED
  BY <1>2, <1>5, <1>6, CommitOK

\* persistMoveAtomic commits a Play step: the board it read is the board it
\* replaces.
LEMMA CommitMoveOK ==
    ASSUME StoreIInv, NEW t \in Txn, NEW over \in Endings \cup {"no"},
           CommitMove(t, over)
    PROVE  StepOK
<1> DEFINE g == txn[t].game
           c == txn[t].color
           board == [turn |-> Other(txn[t].board.turn), over |-> over]
<1>1. TxnOK(t) /\ games \in [Game -> GameRow] /\ txn[t] \in TxnRow
  BY DEF StoreIInv, StoreTypeOK, LedgerTypeOK
<1>2. /\ txn[t].kind = "move" /\ txn[t].step = "holding"
      /\ txn[t].board.over = "no"
      /\ games' = [games EXCEPT ![g].board = board]
      /\ moves' = [moves EXCEPT ![g] = Append(@, c)]
      /\ Release(t) /\ UNCHANGED <<elo, scores, awards>>
  BY DEF CommitMove
<1>3. /\ g \in Game /\ games[g].status = "in_progress"
      /\ games[g].board.turn = c /\ games[g].board = txn[t].board
  BY <1>1, <1>2 DEF TxnOK, RequestOK, DecisionOK, Admitted, Row, Past
<1>4. games[g].board \in Board
  BY <1>1, <1>3 DEF GameRow
<1>5. c \in Color /\ games[g].board = [turn |-> c, over |-> "no"]
  BY <1>2, <1>3, <1>4 DEF Board
<1>6. board = [turn |-> Other(c), over |-> over]
  BY <1>3
<1>7. Play(g, c, over)
  BY <1>2, <1>3, <1>5, <1>6 DEF Play
<1>8. LedgerNext
  BY <1>3, <1>5, <1>7 DEF LedgerNext
<1> HIDE DEF board
<1>9. ASSUME NEW x \in Txn \ {t}, txn[x].step \in Past
      PROVE  games'[txn[x].game] = games[txn[x].game]
  <2>1. txn[x].game # g /\ txn[x].game \in Game
    BY <1>2, <1>9, RowsApart DEF Past
  <2> QED
    BY <1>1, <1>2, <2>1
<1> QED
  BY <1>2, <1>8, <1>9, CommitOK

\* accept_rematch commits a Rematch step.
LEMMA CommitRematchOK ==
    ASSUME StoreIInv, NEW t \in Txn, NEW h \in Game, CommitRematch(t, h)
    PROVE  StepOK
<1> DEFINE g == txn[t].game
           new == NewRow(games[g].home, games[g].black, games[g].white, g)
<1>1. TxnOK(t) /\ games \in [Game -> GameRow]
  BY DEF StoreIInv, StoreTypeOK, LedgerTypeOK
<1>2. /\ txn[t].kind = "rematch" /\ txn[t].step = "holding" /\ NextId(h)
      /\ games' = [games EXCEPT ![g].room = None, ![h] = new]
      /\ \A k \in Game \ {g} : games[k].room # games[g].home
      /\ Release(t) /\ UNCHANGED <<moves, elo, scores, awards>>
  BY DEF CommitRematch
<1>3. g \in Game /\ games[g].status = "finished"
  BY <1>1, <1>2 DEF TxnOK, RequestOK, DecisionOK, Admitted, Row, Past
<1>4. Rematch(g, h)
  BY <1>2, <1>3 DEF Rematch
<1>5. LedgerNext
  BY <1>3, <1>4 DEF LedgerNext
<1> HIDE DEF new
<1>6. ASSUME NEW x \in Txn \ {t}, txn[x].step \in Past
      PROVE  games'[txn[x].game] = games[txn[x].game]
  <2>1. txn[x].game # g /\ txn[x].game \in Game /\ txn[x].game # h
    BY <1>2, <1>6, RowsApart DEF Past, NextId
  <2> QED
    BY <1>1, <1>2, <2>1
<1> QED
  BY <1>2, <1>5, <1>6, CommitOK

\* finalizeGameAtomic commits a Settle step: the ratings and wins it read are
\* still those of the tables, because it holds both users rows.
LEMMA CommitFinalOK ==
    ASSUME StoreIInv, NEW t \in Txn, CommitFinal(t)
    PROVE  StepOK
<1> DEFINE g == txn[t].game
           n == txn[t].n
           win == txn[t].color
           rows == ScoreRows(g, win, n)
           Won(u) == win # None /\ SeatOf(games[g], win) = u
<1>1. TxnOK(t) /\ games \in [Game -> GameRow] /\ txn[t] \in TxnRow
  BY DEF StoreIInv, StoreTypeOK, LedgerTypeOK
<1>2. txn[t].kind = "final" /\ txn[t].step = "holding" /\ n > 0 /\ Release(t)
  BY DEF CommitFinal
<1>3. /\ games' = [games EXCEPT ![g].status = "finished",
                               ![g].result = txn[t].result, ![g].winner = win]
      /\ elo' = [u \in User |-> IF u \in Seats(games[g])
                                THEN txn[t].elo[u] \cup {g} ELSE elo[u]]
      /\ scores' = scores \cup rows
      /\ awards' = [u \in User |->
                      IF u \in Seats(games[g])
                      THEN awards[u] \cup
                           Earned(Won(u), n, txn[t].wins[u] +
                                             IF Won(u) THEN 1 ELSE 0)
                      ELSE awards[u]]
      /\ UNCHANGED moves
  BY DEF CommitFinal, ScoreRows
<1>4. /\ g \in Game /\ games[g].status = "in_progress" /\ games[g].black # None
      /\ txn[t].result \in {"checkmate", "draw", "resign"}
      /\ n \in 1..MaxMoves /\ win \in Color \cup {None}
  BY <1>1, <1>2, LedgerAssumption
  DEF TxnOK, RequestOK, DecisionOK, Admitted, Row, Past, TxnRow
<1>5. Holds(t) = Seats(games[g])
  BY <1>1, <1>2 DEF TxnOK, UsersOK, Row
<1>6. \A u \in Seats(games[g]) : /\ txn[t].elo[u] = elo[u]
                                 /\ txn[t].wins[u] = WinsIn(scores, u)
  BY <1>1, <1>5 DEF TxnOK, UsersOK
<1>7. ASSUME NEW u \in User
      PROVE  /\ WinsIn(scores, u) \in Nat
             /\ WinsIn(scores \cup rows, u) = WinsIn(scores, u) + IF Won(u) THEN 1 ELSE 0
  <2>1. LedgerInv /\ ScoresMatchResults /\ IsFiniteSet(scores)
    BY DEF StoreIInv, RecordsInv, RecordsMatchResults
  <2> HIDE DEF g, n, win
  <2>2. /\ g \in Game /\ games[g].status = "in_progress"
        /\ games[g].black # None /\ win \in Color \cup {None}
    BY <1>4
  <2>3. /\ win # None /\ SeatOf(games[g], win) = u =>
             WinsIn(scores \cup ScoreRows(g, win, n), u) = WinsIn(scores, u) + 1
        /\ ~(win # None /\ SeatOf(games[g], win) = u) =>
             WinsIn(scores \cup ScoreRows(g, win, n), u) = WinsIn(scores, u)
    BY <2>1, <2>2, SettledScores
  <2>4. WinsIn(scores, u) \in Nat
    BY <2>1, WinsType
  <2> QED
    BY <2>3, <2>4 DEF g, n, win
<1> HIDE DEF rows, Won
<1>8. elo' = [u \in User |-> IF u \in Seats(games[g]) THEN elo[u] \cup {g} ELSE elo[u]]
  BY <1>3, <1>6
<1>9. awards' = [u \in User |->
                   IF u \in Seats(games[g])
                   THEN awards[u] \cup Earned(Won(u), n, WinsIn(scores \cup rows, u))
                   ELSE awards[u]]
  BY <1>3, <1>6, <1>7
<1>10. Settle(g, txn[t].result, win, n)
  BY <1>2, <1>3, <1>4, <1>8, <1>9 DEF Settle, rows, ScoreRows, Won
<1>11. LedgerNext
  BY <1>4, <1>10 DEF LedgerNext
<1>12. ASSUME NEW x \in Txn \ {t}, txn[x].step \in Past
       PROVE  games'[txn[x].game] = games[txn[x].game]
  <2>1. txn[x].game # g /\ txn[x].game \in Game
    BY <1>2, <1>12, RowsApart DEF Past
  <2> QED
    BY <1>1, <1>3, <2>1
<1>13. ASSUME NEW x \in Txn \ {t}, NEW u \in Holds(x)
       PROVE  elo'[u] = elo[u] /\ WinsIn(scores', u) = WinsIn(scores, u)
  <2>1. u \in User /\ u \notin Seats(games[g])
    BY <1>5 DEF Holds
  <2>2. ~Won(u)
    <3>1. u # None /\ None \notin Color
      BY <2>1, LedgerAssumption
    <3> QED
      BY <1>4, <2>1, <3>1 DEF Won, SeatOf, Seats
  <2>3. WinsIn(scores \cup rows, u) = WinsIn(scores, u)
    <3>1. /\ WinsIn(scores, u) \in Nat
          /\ WinsIn(scores \cup rows, u) = WinsIn(scores, u) + IF Won(u) THEN 1 ELSE 0
      BY <1>7, <2>1
    <3> QED
      BY <2>2, <3>1
  <2> QED
    BY <1>3, <2>1, <2>3
<1> QED
  BY <1>2, <1>11, <1>12, <1>13, CommitOK

\* The single-statement transactions take no row another one holds.
LEMMA StatementOK ==
    ASSUME StoreIInv, UNCHANGED lockVars, LedgerNext,
           UNCHANGED <<elo, scores>>,
           \A x \in Txn : txn[x].step \in Past =>
              games'[txn[x].game] = games[txn[x].game]
    PROVE  StepOK
<1>1. LocksTypeOK
  BY DEF StoreIInv, StoreTypeOK, LocksTypeOK
<1>2. txn' = txn /\ gameLock' = gameLock /\ userLock' = userLock
      /\ userShare' = userShare
  BY DEF lockVars
<1>3. LocksTypeOK'
  BY <1>1, <1>2 DEF LocksTypeOK
<1>4. ASSUME NEW x \in Txn PROVE TxnOK(x)'
  <2>1. Holds(x)' = Holds(x) /\ Shares(x)' = Shares(x)
    BY <1>2 DEF Holds, Shares
  <2> QED
    BY <1>2, <2>1, Undisturbed
<1> QED
  BY <1>3, <1>4 DEF StepOK

\* Game.create is an Open step of the ledger.
LEMMA CreateOK ==
    ASSUME StoreIInv, NEW g \in Game, NEW r \in Room, NEW u \in User,
           Create(g, r, u)
    PROVE  StepOK
<1>1. Open(g, r, u) /\ UNCHANGED lockVars
  BY DEF Create
<1>2. games \in [Game -> GameRow] /\ \A x \in Txn : TxnOK(x)
  BY DEF StoreIInv, StoreTypeOK, LedgerTypeOK
<1>3. /\ games' = [games EXCEPT ![g] = NewRow(r, u, None, None)]
      /\ UNCHANGED <<elo, scores>> /\ games[g].status = "absent"
  BY <1>1 DEF Open, NextId
<1>4. ASSUME NEW x \in Txn, txn[x].step \in Past
      PROVE  games'[txn[x].game] = games[txn[x].game]
  <2>1. txn[x].game \in Game /\ txn[x].game # g
    BY <1>2, <1>3, <1>4 DEF TxnOK, RequestOK, Row, Past
  <2> QED
    BY <1>2, <1>3, <2>1
<1>5. LedgerNext
  BY <1>1 DEF LedgerNext
<1> QED
  BY <1>1, <1>3, <1>4, <1>5, StatementOK

\* abandonMany is an Abandon step: it waits for the row like any other.
LEMMA AbandonManyOK ==
    ASSUME StoreIInv, NEW g \in Game, AbandonMany(g)
    PROVE  StepOK
<1>1. Abandon(g) /\ UNCHANGED lockVars /\ gameLock[g] = None
  BY DEF AbandonMany
<1>2. games \in [Game -> GameRow] /\ \A x \in Txn : TxnOK(x)
  BY DEF StoreIInv, StoreTypeOK, LedgerTypeOK
<1>3. /\ games' = [games EXCEPT ![g].status = "abandoned",
                               ![g].result = "process_failure"]
      /\ UNCHANGED <<elo, scores>>
  BY <1>1 DEF Abandon
<1>4. ASSUME NEW x \in Txn, txn[x].step \in Past
      PROVE  games'[txn[x].game] = games[txn[x].game]
  <2>1. txn[x].game \in Game /\ txn[x].game # g
    BY <1>1, <1>2, <1>4, TxnAssumption DEF TxnOK, RequestOK, DecisionOK, Past
  <2> QED
    BY <1>2, <1>3, <2>1
<1>5. LedgerNext
  BY <1>1 DEF LedgerNext
<1> QED
  BY <1>1, <1>3, <1>4, <1>5, StatementOK

\* Every step of the store is a step of the ledger and keeps the invariant.
LEMMA StoreStep == StoreIInv /\ [StoreNext]_storeVars => StepOK
<1> SUFFICES ASSUME StoreIInv, [StoreNext]_storeVars PROVE StepOK
  OBVIOUS
<1>1. ASSUME NEW t \in Txn, NEW g \in Game, NEW u \in User, BeginClaim(t, g, u)
      PROVE  StepOK
  <2> DEFINE req == [Idle EXCEPT !.kind = "claim", !.game = g, !.user = u]
  <2>1. /\ req \in TxnRow /\ req.kind = "claim" /\ req.game = g /\ req.user = u
    BY IdleType DEF TxnRow
  <2>2. Begin(t, req) /\ games[g].status # "absent" /\ u # games[g].white
    BY <1>1 DEF BeginClaim
  <2> HIDE DEF req
  <2> QED
    BY <2>1, <2>2, BeginOK
<1>2. ASSUME NEW t \in Txn, NEW g \in Game, NEW c \in Color, BeginMove(t, g, c)
      PROVE  StepOK
  <2> DEFINE req == [Idle EXCEPT !.kind = "move", !.game = g, !.color = c]
  <2>1. /\ req \in TxnRow /\ req.kind = "move" /\ req.game = g
    BY IdleType DEF TxnRow
  <2>2. Begin(t, req) /\ games[g].black # None
    BY <1>2 DEF BeginMove
  <2>3. games[g].status # "absent"
    BY <2>2 DEF StoreIInv, LedgerInv, RowsWellFormed, RowWellFormed, NoGame
  <2> HIDE DEF req
  <2> QED
    BY <2>1, <2>2, <2>3, BeginOK
<1>3. ASSUME NEW t \in Txn, NEW g \in Game,
             NEW result \in {"checkmate", "draw", "resign"},
             NEW winner \in Color \cup {None}, NEW n \in 0..MaxMoves,
             BeginFinal(t, g, result, winner, n)
      PROVE  StepOK
  <2> DEFINE req == [Idle EXCEPT !.kind = "final", !.game = g, !.color = winner,
                                 !.result = result, !.n = n]
  <2>1. result \in Result /\ n \in Nat /\ n <= MaxMoves
    BY LedgerAssumption DEF Result
  <2>2. /\ req \in TxnRow /\ req.kind = "final" /\ req.game = g
        /\ req.result = result /\ req.n = n
    BY <2>1, IdleType DEF TxnRow
  <2>3. Begin(t, req) /\ games[g].black # None
    BY <1>3 DEF BeginFinal
  <2>4. games[g].status # "absent"
    BY <2>3 DEF StoreIInv, LedgerInv, RowsWellFormed, RowWellFormed, NoGame
  <2> HIDE DEF req
  <2> QED
    BY <2>1, <2>2, <2>3, <2>4, BeginOK
<1>4. ASSUME NEW t \in Txn, NEW g \in Game, BeginRematch(t, g)
      PROVE  StepOK
  <2> DEFINE req == [Idle EXCEPT !.kind = "rematch", !.game = g]
  <2>1. /\ req \in TxnRow /\ req.kind = "rematch" /\ req.game = g
    BY IdleType DEF TxnRow
  <2>2. Begin(t, req) /\ games[g].status # "absent"
    BY <1>4 DEF BeginRematch
  <2> HIDE DEF req
  <2> QED
    BY <2>1, <2>2, BeginOK
<1>5. ASSUME NEW t \in Txn, Refuse(t) \/ RejectMove(t) \/ Abort(t)
      PROVE  StepOK
  <2>1. Release(t) /\ UNCHANGED ledgerVars
    BY <1>5 DEF Refuse, RejectMove, Abort
  <2> QED
    BY <2>1, GiveUpOK
<1>6. CASE UNCHANGED storeVars
  <2>1. UNCHANGED ledgerVars /\ UNCHANGED lockVars
    BY <1>6 DEF storeVars
  <2>2. games' = games /\ elo' = elo /\ scores' = scores
    BY <2>1 DEF ledgerVars
  <2>3. txn' = txn /\ gameLock' = gameLock /\ userLock' = userLock
        /\ userShare' = userShare
    BY <2>1 DEF lockVars
  <2>4. LocksTypeOK'
    BY <2>3 DEF StoreIInv, StoreTypeOK, LocksTypeOK
  <2>5. ASSUME NEW x \in Txn PROVE TxnOK(x)'
    <3>1. Holds(x)' = Holds(x) /\ Shares(x)' = Shares(x)
      BY <2>3 DEF Holds, Shares
    <3> QED
      BY <2>1, <2>2, <2>3, <3>1, Undisturbed
  <2> QED
    BY <2>1, <2>4, <2>5 DEF StepOK
<1> QED
  BY <1>1, <1>2, <1>3, <1>4, <1>5, <1>6, LockGameOK, LockUserOK, ShareUserOK,
     CommitClaimOK, CommitMoveOK, CommitFinalOK, CommitRematchOK, CreateOK,
     AbandonManyOK
  DEF StoreNext

\* The empty store satisfies the invariant.
LEMMA StoreInitOK == StoreInit => StoreIInv
<1> SUFFICES ASSUME StoreInit PROVE StoreIInv
  OBVIOUS
<1>1. LedgerInv /\ RecordsInv
  BY InitInv, RecordsInit DEF StoreInit
<1>2. /\ txn = [t \in Txn |-> Idle] /\ gameLock = [g \in Game |-> None]
      /\ userLock = [u \in User |-> None] /\ userShare = [u \in User |-> {}]
  BY DEF StoreInit
<1>3. StoreTypeOK
  BY <1>1, <1>2, IdleType DEF StoreTypeOK, LedgerInv
<1>4. ASSUME NEW t \in Txn PROVE TxnOK(t)
  <2>1. txn[t] = Idle /\ Holds(t) = {} /\ Shares(t) = {}
        /\ \A g \in Game : gameLock[g] # t
    BY <1>2, TxnAssumption DEF Holds, Shares
  <2> QED
    BY <2>1 DEF TxnOK, RequestOK, DecisionOK, UsersOK, OwnersOK, Idle, Past
<1> QED
  BY <1>1, <1>3, <1>4 DEF StoreIInv

\* Every step keeps the invariant, the ledger's part of it included.
LEMMA StoreNextOK ==
    StoreIInv /\ [StoreNext]_storeVars => StoreIInv' /\ [LedgerNext]_ledgerVars
<1> SUFFICES ASSUME StoreIInv, [StoreNext]_storeVars
             PROVE  StoreIInv' /\ [LedgerNext]_ledgerVars
  OBVIOUS
<1>1. [LedgerNext]_ledgerVars /\ LocksTypeOK' /\ \A x \in Txn : TxnOK(x)'
  BY StoreStep DEF StepOK
<1>2. LedgerInv' /\ RecordsInv'
  BY <1>1, NextInv, RecordsNext DEF StoreIInv
<1>3. StoreTypeOK'
  BY <1>1, <1>2 DEF StoreTypeOK, LocksTypeOK, LedgerInv
<1> QED
  BY <1>1, <1>2, <1>3 DEF StoreIInv

\* The inductive invariant holds however replicas, locks, refusals and
\* rollbacks interleave.
THEOREM StoreInvariant == StoreSpec => []StoreIInv
  BY StoreInitOK, StoreNextOK, PTL DEF StoreSpec

\* What a transaction decided under its row locks is still true of the rows
\* when it commits (Game.claimBlack, persistMoveAtomic, finalizeGameAtomic).
THEOREM StoreSafe == StoreSpec => []StoreInv
<1>1. StoreIInv => StoreInv
  <2> SUFFICES ASSUME StoreIInv, NEW t \in Txn,
                      txn[t].step \in {"holding", "lock_users", "share"}
               PROVE  /\ gameLock[txn[t].game] = t
                      /\ Admitted(t)
                      /\ games[txn[t].game].board = txn[t].board
                      /\ txn[t].kind = "final" =>
                           \A u \in Holds(t) : txn[t].elo[u] = elo[u]
    BY DEF StoreInv, StoreIInv, DecisionsStillHold
  <2>1. TxnOK(t)
    BY DEF StoreIInv
  <2> QED
    BY <2>1 DEF TxnOK, DecisionOK, UsersOK, Past, Row
<1> QED
  BY <1>1, StoreInvariant, PTL

\* The row-level store implements the ledger: a transaction takes effect whole
\* in its commit, as one step on the committed tables, or not at all.
THEOREM StoreImplementsLedger == StoreSpec => LedgerSpec
<1>1. StoreInit => LedgerInit
  BY DEF StoreInit
<1> QED
  BY <1>1, StoreNextOK, StoreInvariant, PTL DEF StoreSpec, LedgerSpec

\* So what is proved of the ledger holds of the store: ratings, scores and
\* milestones match the results, moves match boards, rooms and rematches are
\* unique, seats and endings are final, for any number of replicas.
THEOREM StoreResults ==
    StoreSpec => /\ [](RatingsMatchResults /\ RecordsMatchResults)
                 /\ [](MovesMatchBoard /\ OneGamePerRoom /\ OneSuccessor)
                 /\ SeatsAreFinal /\ EndedIsFinal
  BY StoreImplementsLedger, RatingsAgree, RecordsAgree, MovesAgreeWithBoard,
     RematchSafe, SeatsStayTaken, EndedStaysEnded, PTL

\* A function with values in Nat has a maximum on a finite set: the point with
\* the fewest larger ones.
LEMMA FiniteMaximum ==
    ASSUME NEW L, IsFiniteSet(L), L # {}, NEW f \in [L -> Nat]
    PROVE  \E m \in L : \A x \in L : f[x] <= f[m]
<1> DEFINE Above(x) == {y \in L : f[y] > f[x]}
           Counts == {Cardinality(Above(x)) : x \in L}
           Less == {ss \in Nat \X Nat : ss[1] < ss[2]}
<1>1. \A x \in L : IsFiniteSet(Above(x)) /\ Cardinality(Above(x)) \in Nat
  BY FS_Subset, FS_CardinalityType
<1>2. Counts \subseteq Nat /\ Counts # {}
  BY <1>1
<1>3. IsWellFoundedOn(Less, Nat)
  BY NatLessThanWellFounded DEF OpToRel
<1>4. \E c \in Counts : \A d \in Counts : ~(<<d, c>> \in Less)
  <2> HIDE DEF Counts, Less
  <2> QED
    BY <1>2, <1>3, WFMin
<1>5. PICK m \in L : \A d \in Counts : ~(<<d, Cardinality(Above(m))>> \in Less)
  BY <1>4
<1>6. ASSUME NEW x \in L, f[x] > f[m] PROVE FALSE
  <2>1. Above(x) \subseteq Above(m) /\ x \in Above(m) /\ x \notin Above(x)
    BY <1>6
  <2>2. Cardinality(Above(x)) <= Cardinality(Above(m))
        /\ Cardinality(Above(x)) # Cardinality(Above(m))
    <3> DEFINE A == Above(x)
               B == Above(m)
    <3>1. IsFiniteSet(B) /\ A \in SUBSET B /\ A # B
      BY <1>1, <2>1
    <3> HIDE DEF A, B
    <3>2. Cardinality(A) <= Cardinality(B) /\ Cardinality(A) # Cardinality(B)
      BY <3>1, FS_Subset
    <3> QED
      BY <3>2 DEF A, B
  <2>3. Cardinality(Above(x)) < Cardinality(Above(m))
    BY <1>1, <2>2
  <2>4. Cardinality(Above(x)) \in Counts /\ Cardinality(Above(x)) \in Nat
        /\ Cardinality(Above(m)) \in Nat
    BY <1>1
  <2> HIDE DEF Above, Counts
  <2>5. <<Cardinality(Above(x)), Cardinality(Above(m))>> \in Less
    BY <2>3, <2>4
  <2> QED
    BY <1>5, <2>4, <2>5
<1>7. \A x \in L : f[x] \in Nat /\ f[m] \in Nat
  OBVIOUS
<1> QED
  BY <1>6, <1>7

\* Of any set of waiting joins, moves and settlements, the settlement that
\* wants the largest user id waits for nobody of the set; without settlements,
\* no users row is locked and only holders of games rows are waited for.
LEMMA NoCircularWait == StoreIInv => NoSettlementDeadlock
<1> SUFFICES ASSUME StoreIInv,
                    NEW S \in SUBSET {t \in Txn : txn[t].kind # "rematch"},
                    S # {}
             PROVE  \E t \in S : BlockedBy(t) \cap S = {}
  BY DEF NoSettlementDeadlock
<1>1. \A t \in S : t \in Txn /\ TxnOK(t) /\ txn[t].kind # "rematch"
                   /\ txn[t] \in TxnRow
  BY DEF StoreIInv, StoreTypeOK
<1> DEFINE L == {t \in S : txn[t].step = "lock_users"}
\* A connection that is idle or about to commit waits for nobody.
<1>2. CASE \E t \in S : txn[t].step \in {"idle", "holding"}
  <2>1. PICK t \in S : txn[t].step \in {"idle", "holding"}
    BY <1>2
  <2>2. BlockedBy(t) = {}
    BY <2>1 DEF BlockedBy
  <2> QED
    BY <2>2
<1>3. CASE ~\E t \in S : txn[t].step \in {"idle", "holding"}
  <2>1. \A t \in S : txn[t].step \in {"wait_game", "lock_users", "share"}
    BY <1>1, <1>3 DEF TxnRow
  <2>2. \A t \in S : Holds(t) # {} => t \in L
    BY <1>1, <1>3 DEF TxnOK, UsersOK
  <2>3. \A t \in S : Shares(t) = {}
    BY <1>1, <1>3 DEF TxnOK, OwnersOK
  <2>4. \A t \in S, g \in Game : gameLock[g] = t => txn[t].step \in {"lock_users", "share"}
    BY <1>1, <1>3 DEF TxnOK, OwnersOK, Past
  <2>5. \A t \in Txn, u \in User : /\ userLock[u] = t => u \in Holds(t)
                                   /\ t \in userShare[u] => u \in Shares(t)
    BY DEF Holds, Shares
  <2>6. CASE L # {}
    <3>1. \A t \in L : /\ NextUser(t) \in Seats(Row(t)) \ Holds(t)
                       /\ NextUser(t) \in User /\ NextUser(t) \in Nat
      BY <1>1, NextUserOK, LedgerAssumption
    <3>2. IsFiniteSet(L)
      BY TxnAssumption, FS_Subset
    <3> DEFINE f == [t \in L |-> NextUser(t)]
    <3>3. f \in [L -> Nat] /\ \A t \in L : f[t] = NextUser(t)
      BY <3>1
    <3> HIDE DEF f
    <3>4. PICK m \in L : \A x \in L : f[x] <= f[m]
      BY <2>6, <3>2, <3>3, FiniteMaximum
    <3>5. ASSUME NEW b \in BlockedBy(m), b \in S PROVE FALSE
      <4> DEFINE u == NextUser(m)
      <4>1. b = userLock[u] \/ b \in userShare[u]
        BY <3>5 DEF BlockedBy
      <4>2. u \in User /\ b \in Txn
        BY <1>1, <3>1, <3>5
      <4>3. b \notin userShare[u]
        BY <2>3, <2>5, <3>5, <4>2
      <4>4. u \in Holds(b) /\ b \in L
        BY <2>2, <2>5, <3>5, <4>1, <4>2, <4>3
      <4>5. u < NextUser(b)
        BY <1>1, <3>1, <4>4 DEF TxnOK, UsersOK
      <4>6. NextUser(b) <= u
        BY <3>3, <3>4, <4>4
      <4> QED
        BY <3>1, <4>4, <4>5, <4>6
    <3> QED
      BY <3>5
  <2>7. CASE L = {} /\ \E t \in S : txn[t].step = "share"
    <3>1. PICK t \in S : txn[t].step = "share"
      BY <2>7
    <3> DEFINE u == Referenced(t)[Cardinality(Shares(t)) + 1]
    <3>2. txn[t].kind = "claim"
      BY <1>1, <3>1 DEF TxnOK, RequestOK
    <3>3. u = txn[t].user
      <4>1. Cardinality(Shares(t)) = 0
        BY <2>3, FS_EmptySet
      <4>2. Referenced(t) = <<txn[t].user>>
        BY <3>2 DEF Referenced
      <4> QED
        BY <4>1, <4>2
    <3>4. u \in User
      BY <1>1, <3>2, <3>3 DEF TxnOK, RequestOK
    <3>5. BlockedBy(t) \subseteq {userLock[u]}
      BY <3>1 DEF BlockedBy
    <3>6. userLock[u] \notin S
      BY <1>1, <2>2, <2>5, <2>7, <3>4
    <3> QED
      BY <3>5, <3>6
  <2>8. CASE \A t \in S : txn[t].step = "wait_game"
    <3>1. PICK t \in S : TRUE
      OBVIOUS
    <3>2. BlockedBy(t) \subseteq {gameLock[txn[t].game]} /\ txn[t].game \in Game
      BY <1>1, <2>8 DEF BlockedBy, TxnOK, RequestOK
    <3>3. gameLock[txn[t].game] \notin S
      BY <2>4, <2>8, <3>2
    <3> QED
      BY <3>2, <3>3
  <2> QED
    BY <2>1, <2>6, <2>7, <2>8
<1> QED
  BY <1>2, <1>3

\* No set of joins, moves and settlements waits on itself: users rows are
\* locked in id order (gameSocket.js finalizeGameAtomic, ORDER BY id FOR UPDATE).
THEOREM SettlementsNeverDeadlock == StoreSpec => []NoSettlementDeadlock
  BY NoCircularWait, StoreInvariant, PTL

=============================================================================
