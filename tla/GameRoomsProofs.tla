-------------------------- MODULE GameRoomsProofs ---------------------------
(***************************************************************************)
(* What the room caches and socket handlers of GameRooms guarantee for any *)
(* number of replicas, sockets, rooms and handler runs in flight, whatever *)
(* fails, drops or restarts.                                               *)
(***************************************************************************)
EXTENDS GameRooms, GameLedgerProofs

-----------------------------------------------------------------------------
(* Shapes.                                                                 *)

Phases == {"idle", "queued", "hydrating", "read", "tx", "txdone", "presence",
           "settle", "settled", "unvote", "vote", "count", "quorum", "rematch",
           "rematched", "clear"}

Kinds == {"none", "create", "join", "move", "game_over", "resign", "accept",
          "leave", "disconnect"}

RoomObj ==
    [status : {"freed", "dead", "fault", "waiting", "playing", "finished"},
     game : Game \cup {None}, white : User \cup {None}, black : User \cup {None},
     board : Board, n : Nat, att : [User -> Socket \cup {None}],
     tail : Task \cup {None}]

TaskRow ==
    [pc : Phases, kind : Kinds, sock : Socket \cup {None}, room : Room \cup {None},
     ref : Obj \cup {None}, live : Obj \cup {None}, pred : Task \cup {None},
     snap : RoomObj, res : {"none", "no", "checkmate", "draw", "resign"},
     out : {"none", "ok", "no", "failed"}]

Flight == [state : {"no", "sent", "back"}, snap : RoomObj, waiters : Seq(Task)]

ShapesOK ==
    /\ heap \in [Obj -> RoomObj]
    /\ entry \in [Replica -> [Room -> Obj \cup {None}]]
    /\ inflight \in [Replica -> [Room -> Flight]]
    /\ task \in [Task -> TaskRow]
    /\ conn \subseteq Socket
    /\ joined \in [Room -> SUBSET Socket]
    /\ started \in [Socket -> Game \cup {None}]
    /\ votes \in [Game -> SUBSET User]
    /\ voted \in [Game -> SUBSET User]

-----------------------------------------------------------------------------
(* What the caches and handlers know of the database.                      *)

\* The object o shows a stage that its game has reached: everything it says
\* of players, moves and the end is or was true of the row.
Behind(o) ==
    /\ o.game \in Game
    /\ games[o.game].status # "absent"
    /\ o.white = games[o.game].white
    /\ o.black \in {None, games[o.game].black}
    /\ o.n <= Len(moves[o.game])
    /\ o.status = "finished" => Finished(o.game) /\ o.black # None
    /\ o.status = "playing" => o.black # None
    /\ o.board.over # "no" => o.black # None

ObjOK(o) == Live(o) => Behind(o)

\* The cells a cache or a handler run refers to hold a room.
CellsOK ==
    /\ \A o \in Obj : /\ ObjOK(heap[o])
                      /\ heap[o].status \in {"freed", "waiting", "playing", "finished"}
    /\ \A p \in Replica, r \in Room : entry[p][r] # None =>
          /\ Live(heap[entry[p][r]])
          /\ games[heap[entry[p][r]].game].home = r
    /\ \A t \in Task :
          /\ task[t].ref # None => /\ Live(heap[task[t].ref])
                                   /\ games[heap[task[t].ref].game].home = task[t].room
          /\ task[t].live # None => Live(heap[task[t].live])

\* A snapshot of room r, in a task or a hydration.
SnapOK(o, r) == Live(o) => Behind(o) /\ games[o.game].home = r

\* A run that waits for the hydration of room r at replica p.
Awaits(k, p, r) == k.pc = "hydrating" /\ Home[k.sock] = p /\ k.room = r

FlightOK(f, p, r) ==
    /\ f.state # "no" => f.waiters # <<>>
    /\ f.state = "back" => SnapOK(f.snap, r)
    /\ \A i \in 1..Len(f.waiters) : Awaits(task[f.waiters[i]], p, r)

FlightsOK == \A p \in Replica, r \in Room : FlightOK(inflight[p][r], p, r)

UserOf(k) == Owner[k.sock]

\* A run has a socket, a room, and the references its step uses.
RunShape(k) ==
    /\ k.pc = "idle" => k = NoTask
    /\ k.pc # "idle" => k.sock \in Socket /\ k.room \in Room /\ k.kind # "none"
    /\ k.pc = "hydrating" => k.kind = "join" /\ k.ref = None
    /\ k.pc \in {"queued", "read"} => k.ref # None /\ k.kind # "create"
    /\ k.pc \in {"tx", "txdone"} => k.kind \in {"create", "join", "move"}
    /\ k.pc \in {"idle", "hydrating", "queued", "read"} => k.live = None
    /\ k.kind = "create" =>
          k.pc \in {"tx", "txdone"} /\ k.ref = None /\ k.live = None
    /\ k.kind # "create" /\ k.pc \notin {"idle", "hydrating", "queued", "read"} =>
          k.live # None

\* A run that waits for its refresh or for its insert.
RunReads(k) ==
    /\ k.pc = "read" => k.kind # "disconnect" /\ SnapOK(k.snap, k.room)
    /\ k.kind = "create" => k.snap = [Blank EXCEPT !.game = k.snap.game]
    /\ k.kind = "create" /\ k.pc = "txdone" /\ k.out = "ok" =>
          /\ k.snap.game \in Game
          /\ games[k.snap.game].status # "absent"
          /\ games[k.snap.game].white = UserOf(k)
          /\ games[k.snap.game].home = k.room

\* A run on its refreshed object o has checked what its next step relies on.
RunPlays(k, o) ==
    /\ k.live # None => games[o.game].home = k.room
    /\ k.kind = "join" /\ k.pc = "tx" => o.white # UserOf(k)
    /\ k.kind = "join" /\ k.pc = "txdone" /\ k.out = "ok" =>
          games[o.game].black = UserOf(k)
    /\ k.kind = "move" /\ k.pc \in {"tx", "txdone"} => o.black # None
    /\ k.kind = "move" /\ k.pc = "txdone" =>
          k.res \in {"no", "checkmate", "draw"} /\ o.n < Len(moves[o.game])
    /\ k.pc \in {"settle", "settled"} =>
          o.black # None /\ k.res \in {"checkmate", "draw", "resign"}
    /\ k.pc = "settled" /\ k.out = "ok" => Finished(o.game)

\* A vote is a player's; at the quorum both have voted.
RunVotes(k, o) ==
    /\ k.pc \in {"vote", "count", "quorum"} =>
          o.status = "finished" /\ UserOf(k) \in Seats(games[o.game])
    /\ k.pc = "quorum" /\ k.out = "ok" => voted[o.game] = Seats(games[o.game])

\* The copied players are those of the game that is replaced, then, swapped,
\* those of the new one.
RunRematches(k) ==
    /\ k.pc = "rematch" =>
          /\ k.snap.status = "finished" /\ Behind(k.snap)
          /\ games[k.snap.game].home = k.room
          /\ voted[k.snap.game] = Seats(games[k.snap.game])
    /\ k.pc = "rematched" =>
          /\ k.snap.game \in Game /\ games[k.snap.game].status # "absent"
          /\ games[k.snap.game].home = k.room
          /\ games[k.snap.game].white = k.snap.black
          /\ games[k.snap.game].black = k.snap.white
          /\ k.snap.white # None /\ k.snap.black # None
    /\ k.pc = "clear" => k.snap.game \in Game

RunOK(k, o) ==
    /\ RunShape(k) /\ RunReads(k) /\ RunPlays(k, o)
    /\ RunVotes(k, o) /\ RunRematches(k)

RunsOK == \A t \in Task : RunOK(task[t], heap[task[t].live])

\* A run that works on its own refreshed object; the detach of a disconnect
\* works on the one it finds in the cache.
Owns(k) == k.live # None /\ k.pc # "unvote"

ObjectsApart ==
    \A t, q \in Task :
       Owns(task[t]) /\ Owns(task[q]) /\ task[t].live = task[q].live => t = q

-----------------------------------------------------------------------------
(* Rows and votes.                                                         *)

PlayOK ==
    \A g \in Game : /\ Len(moves[g]) <= MaxMoves
                    /\ games[g].board.over # "no" => games[g].black # None

VotesOK ==
    /\ \A g \in Game : votes[g] \subseteq voted[g] /\ voted[g] \subseteq Seats(games[g])
    /\ \A h \in Game : games[h].prev # None =>
          /\ Finished(games[h].prev)
          /\ games[h].black # None
          /\ Seats(games[h]) = Seats(games[games[h].prev])
          /\ voted[games[h].prev] = Seats(games[h])

RoomsIInv ==
    /\ LedgerInv
    /\ ShapesOK
    /\ CellsOK
    /\ FlightsOK
    /\ RunsOK
    /\ ObjectsApart
    /\ PlayOK
    /\ VotesOK

-----------------------------------------------------------------------------
(* Rows only grow.                                                         *)

Grows ==
    \A g \in Game : games[g].status # "absent" =>
       /\ games'[g].status # "absent"
       /\ games'[g].white = games[g].white
       /\ games'[g].home = games[g].home
       /\ games'[g].prev = games[g].prev
       /\ games[g].black \in {None, games'[g].black}
       /\ Len(moves[g]) <= Len(moves'[g])
       /\ Finished(g) => Finished(g)'

\* Whatever commits, what was true of a row's players, moves and end stays so.
LEMMA LedgerGrows ==
    ASSUME LedgerInv, [LedgerNext]_ledgerVars
    PROVE  Grows /\ LedgerInv'
<1> USE LedgerAssumption
<1>1. LedgerInv'
  BY NextInv
<1>2. games \in [Game -> GameRow] /\ moves \in [Game -> Seq(Color)]
  BY DEF LedgerInv, LedgerTypeOK
<1>3. CASE UNCHANGED ledgerVars
  BY <1>1, <1>2, <1>3 DEF ledgerVars, Grows, Finished
<1>4. ASSUME LedgerNext, NEW g \in Game, games[g].status # "absent"
      PROVE  /\ games'[g].status # "absent"
             /\ games'[g].white = games[g].white
             /\ games'[g].home = games[g].home
             /\ games'[g].prev = games[g].prev
             /\ games[g].black \in {None, games'[g].black}
             /\ Len(moves[g]) <= Len(moves'[g])
             /\ Finished(g) => Finished(g)'
  <2>0. games[g] \in GameRow /\ moves[g] \in Seq(Color) /\ Len(moves[g]) \in Nat
    BY <1>2
  <2>1. CASE Same(g)
    BY <1>4, <2>0, <2>1 DEF Same, Finished
  <2>2. CASE Opened(g)
    BY <1>4, <2>2 DEF Opened, NoGame
  <2>3. CASE Seated(g)
    BY <2>0, <2>3 DEF Seated, GameRow, Finished
  <2>4. CASE Played(g)
    <3>1. PICK c \in Color, over \in Endings \cup {"no"} :
             /\ games[g].status = "in_progress"
             /\ games'[g] = [games[g] EXCEPT !.board = [turn |-> Other(c), over |-> over]]
             /\ moves'[g] = Append(moves[g], c)
      BY <2>4, Zenon DEF Played
    <3>2. Len(moves'[g]) = Len(moves[g]) + 1
      BY <2>0, <3>1
    <3> QED
      BY <2>0, <3>1, <3>2 DEF GameRow, Finished
  <2>5. CASE Settled(g)
    BY <2>0, <2>5 DEF Settled, GameRow, Finished
  <2>6. CASE Abandoned(g)
    BY <2>0, <2>6 DEF Abandoned, GameRow, Finished
  <2>7. CASE Released(g)
    BY <2>0, <2>7 DEF Released, GameRow, Finished
  <2> QED
    BY <1>4, RowSteps, <2>1, <2>2, <2>3, <2>4, <2>5, <2>6, <2>7
<1> QED
  BY <1>1, <1>3, <1>4 DEF Grows

\* What an object says of its game stays true.
LEMMA BehindGrows ==
    ASSUME LedgerInv, Grows, LedgerInv', NEW o \in RoomObj, Behind(o)
    PROVE  Behind(o)' /\ (games[o.game].home)' = games[o.game].home
<1>1. /\ o.game \in Game /\ games[o.game].status # "absent"
      /\ moves \in [Game -> Seq(Color)] /\ (moves \in [Game -> Seq(Color)])'
  BY DEF Behind, LedgerInv, LedgerTypeOK
<1>2. Len(moves[o.game]) \in Nat /\ Len(moves'[o.game]) \in Nat /\ o.n \in Nat
  BY <1>1 DEF RoomObj
<1> QED
  BY <1>1, <1>2 DEF Grows, Behind, Finished

\* The players of a game with both seats taken stay its players.
LEMMA SeatsGrow ==
    ASSUME Grows, NEW g \in Game, games[g].status # "absent"
    PROVE  /\ Seats(games[g]) \subseteq Seats(games'[g])
           /\ games[g].black # None => Seats(games[g]) = Seats(games'[g])
BY DEF Grows, Seats

\* A finished game has both players.
LEMMA FinishedHasBoth ==
    ASSUME LedgerInv, NEW g \in Game, games[g].status = "finished"
    PROVE  games[g].black \in User /\ games[g].white \in User /\ games[g].black # None
BY LedgerAssumption DEF LedgerInv, RowsWellFormed, RowWellFormed

VotedGrows == \A g \in Game : voted[g] \subseteq voted'[g] /\ voted'[g] \subseteq Seats(games'[g])

\* What a run has checked stays true while others act.
LEMMA RunGrows ==
    ASSUME LedgerInv, Grows, LedgerInv', VotedGrows,
           NEW k \in TaskRow, NEW o, RunOK(k, o),
           k.live # None => o \in RoomObj /\ Live(o) /\ Behind(o)
    PROVE  RunOK(k, o)'
<1> USE LedgerAssumption
<1>1. \A g \in Game : games[g].status = "finished" =>
         /\ games'[g].status = "finished"
         /\ Seats(games[g]) = Seats(games'[g])
         /\ voted[g] = Seats(games[g]) => voted'[g] = Seats(games'[g])
  <2> SUFFICES ASSUME NEW g \in Game, games[g].status = "finished"
               PROVE  /\ games'[g].status = "finished"
                      /\ Seats(games[g]) = Seats(games'[g])
                      /\ voted[g] = Seats(games[g]) => voted'[g] = Seats(games'[g])
    OBVIOUS
  <2>1. Seats(games[g]) = Seats(games'[g])
    BY FinishedHasBoth, SeatsGrow
  <2>2. games'[g].status = "finished"
    BY DEF Grows, Finished
  <2>3. voted[g] \subseteq voted'[g] /\ voted'[g] \subseteq Seats(games'[g])
    BY Zenon DEF VotedGrows
  <2>4. ASSUME voted[g] = Seats(games[g]) PROVE voted'[g] = Seats(games'[g])
    BY <2>1, <2>3, <2>4, Zenon
  <2> QED
    BY <2>1, <2>2, <2>4
<1>2. k.live # None => Behind(o)' /\ (games[o.game].home)' = games[o.game].home
  BY BehindGrows
<1>3. ASSUME NEW r, SnapOK(k.snap, r) PROVE SnapOK(k.snap, r)'
  <2>1. k.snap \in RoomObj
    BY DEF TaskRow
  <2> QED
    BY <1>3, <2>1, BehindGrows DEF SnapOK
<1>4. Behind(k.snap) => Behind(k.snap)' /\ (games[k.snap.game].home)' = games[k.snap.game].home
  BY BehindGrows DEF TaskRow
<1>5. /\ moves \in [Game -> Seq(Color)] /\ (moves \in [Game -> Seq(Color)])'
  BY DEF LedgerInv, LedgerTypeOK
<1>6. \A g \in Game : Len(moves[g]) \in Nat /\ Len(moves'[g]) \in Nat
  BY <1>5
<1>7. k.live # None => o.n \in Nat
  BY DEF RoomObj
<1>8. RunShape(k)' /\ RunReads(k)'
  BY <1>3 DEF RunOK, RunShape, RunReads, UserOf, Grows
<1>9. RunPlays(k, o)'
  <2>1. k.pc \in {"settle", "settled"} \/ (k.kind \in {"join", "move"} /\ k.pc \in {"tx", "txdone"})
           => k.live # None /\ o.game \in Game
    BY DEF RunOK, RunShape, Behind
  <2>2. k.pc = "txdone" => UserOf(k) \in User /\ UserOf(k) # None
    BY RoomsAssumption DEF RunOK, RunShape, UserOf
  <2>3. ASSUME k.live # None
        PROVE  /\ games'[o.game].home = games[o.game].home
               /\ games[o.game].black \in {None, games'[o.game].black}
               /\ Len(moves[o.game]) <= Len(moves'[o.game])
               /\ Finished(o.game) => Finished(o.game)'
               /\ Len(moves[o.game]) \in Nat /\ Len(moves'[o.game]) \in Nat
    BY <1>6, <2>3, Zenon DEF Behind, Grows
  <2> QED
    BY <1>7, <2>1, <2>2, <2>3 DEF RunOK, RunPlays, UserOf
<1>10. RunVotes(k, o)'
  <2>1. k.pc \in {"vote", "count", "quorum"} =>
           o.game \in Game /\ games[o.game].status = "finished"
    BY DEF RunOK, RunShape, RunVotes, Behind, Finished
  <2> QED
    BY <1>1, <2>1 DEF RunOK, RunVotes, UserOf
<1>11. RunRematches(k)'
  <2>1. k.pc = "rematch" =>
           k.snap.game \in Game /\ games[k.snap.game].status = "finished"
    BY DEF RunOK, RunRematches, Behind, Finished
  <2> QED
    BY <1>1, <1>4, <2>1, Zenon DEF RunOK, RunRematches, Grows
<1> QED
  BY <1>8, <1>9, <1>10, <1>11 DEF RunOK

Core(o) == <<o.status, o.game, o.white, o.black, o.board, o.n>>

\* Links of the chain are all that a record with another tail or predecessor
\* differs in.
LEMMA TailOnly ==
    ASSUME NEW o \in RoomObj, NEW z \in Task \cup {None}, NEW x, x = [o EXCEPT !.tail = z]
    PROVE  x \in RoomObj /\ Core(x) = Core(o) /\ x.att = o.att /\ x.tail = z
<1>1. /\ x.status = o.status /\ x.game = o.game /\ x.white = o.white /\ x.tail = z
      /\ x.black = o.black /\ x.board = o.board /\ x.n = o.n /\ x.att = o.att
  BY DEF RoomObj
<1>2. x \in RoomObj
  BY DEF RoomObj
<1> QED
  BY <1>1, <1>2 DEF Core

\* A run that is unlinked from its predecessor is otherwise the same.
LEMMA PredOnly ==
    ASSUME NEW k \in TaskRow, NEW j, j \in {k, [k EXCEPT !.pred = None]}
    PROVE  /\ j.pc = k.pc /\ j.kind = k.kind /\ j.sock = k.sock /\ j.room = k.room
           /\ j.ref = k.ref /\ j.live = k.live /\ j.snap = k.snap /\ j.res = k.res
           /\ j.out = k.out /\ j \in TaskRow
BY DEF TaskRow

\* A run does not look at an object's sockets or chain, nor at its own place
\* on the chain.
LEMMA RunCore ==
    ASSUME NEW k \in TaskRow, NEW j, j \in {k, [k EXCEPT !.pred = None]},
           NEW o, NEW x, k.live # None => Core(x) = Core(o)
    PROVE  /\ RunOK(k, o) => RunOK(j, x)
           /\ RunOK(k, o)' => RunOK(j, x)'
<1>1. k.live # None =>
         /\ x.status = o.status /\ x.game = o.game /\ x.white = o.white
         /\ x.black = o.black /\ x.board = o.board /\ x.n = o.n
  BY DEF Core
<1>2. /\ j.pc = k.pc /\ j.kind = k.kind /\ j.sock = k.sock /\ j.room = k.room
      /\ j.ref = k.ref /\ j.live = k.live /\ j.snap = k.snap /\ j.res = k.res
      /\ j.out = k.out
  BY PredOnly
<1>3. k = NoTask => j = NoTask
  BY DEF NoTask
<1>4. RunShape(k) => RunShape(j)
  BY <1>2, <1>3 DEF RunShape
<1>5. RunShape(k) /\ k.live = None =>
         /\ k.pc \notin {"settle", "settled", "vote", "count", "quorum"}
         /\ k.kind \in {"join", "move"} => k.pc \notin {"tx", "txdone"}
  BY DEF RunShape
<1>6. ASSUME RunOK(k, o) PROVE RunOK(j, x)
  BY <1>1, <1>2, <1>4, <1>5, <1>6 DEF RunOK, RunReads, RunPlays, RunVotes, RunRematches, UserOf
<1>7. ASSUME RunOK(k, o)' PROVE RunOK(j, x)'
  <2>1. RunShape(k) /\ RunReads(k)' /\ RunPlays(k, o)' /\ RunVotes(k, o)' /\ RunRematches(k)'
    BY <1>7 DEF RunOK, RunShape
  <2>2. RunShape(j)' /\ RunReads(j)' /\ RunPlays(j, x)' /\ RunVotes(j, x)' /\ RunRematches(j)'
    BY <1>1, <1>2, <1>4, <1>5, <2>1 DEF RunShape, RunReads, RunPlays, RunVotes, RunRematches, UserOf
  <2> QED
    BY <2>2 DEF RunOK
<1> QED
  BY <1>6, <1>7

\* A run without an object of its own.
LEMMA RunFar ==
    ASSUME LedgerInv, Grows, LedgerInv', VotedGrows,
           NEW k \in TaskRow, NEW j, j \in {k, [k EXCEPT !.pred = None]},
           NEW o, RunOK(k, o), k.live = None
    PROVE  \A x : RunOK(j, x)'
<1> SUFFICES ASSUME NEW x PROVE RunOK(j, x)'
  OBVIOUS
<1>1. RunOK(k, o)'
  BY RunGrows
<1> QED
  BY <1>1, RunCore

-----------------------------------------------------------------------------
(* One run takes a step.                                                   *)

Reached(o) ==
    \/ \E p \in Replica, r \in Room : entry[p][r] = o
    \/ \E t \in Task : o \in {task[t].ref, task[t].live}

\* Run t becomes k, the objects become h and the caches en, up to the chain
\* links that a finished run takes out and the collection of unused objects.
Moves(t, k, h, en) ==
    /\ task' = [q \in Task |-> IF q = t THEN k ELSE task'[q]]
    /\ \A q \in Task \ {t} : task'[q] \in {task[q], [task[q] EXCEPT !.pred = None]}
    /\ entry' = en
    /\ heap' = [o \in Obj |-> heap'[o]]
    /\ \A o \in Obj : heap'[o] \in {h[o], [h[o] EXCEPT !.tail = None], Blank}
    /\ \A o \in Obj : Reached(o)' => heap'[o] \in {h[o], [h[o] EXCEPT !.tail = None]}

\* An Update that replaces one run moves it.
LEMMA UpdateMoves ==
    ASSUME NEW t \in Task, NEW h, NEW tk, NEW en, Update(h, tk, en),
           tk = [q \in Task |-> IF q = t THEN tk[t] ELSE task[q]]
    PROVE  Moves(t, tk[t], h, en)
<1>1. task' = tk /\ entry' = en
  BY DEF Update
<1>2. heap' = [o \in Obj |->
                  IF \/ \E p \in Replica, r \in Room : en[p][r] = o
                     \/ \E q \in Task : o \in {tk[q].ref, tk[q].live}
                  THEN h[o] ELSE Blank]
  BY DEF Update
<1>3. \A o \in Obj : Reached(o)' => heap'[o] = h[o]
  BY <1>1, <1>2 DEF Reached
<1>4. \A o \in Obj : heap'[o] \in {h[o], Blank}
  BY <1>2
<1>5. heap' = [o \in Obj |-> heap'[o]]
  BY <1>2
<1> QED
  BY <1>1, <1>3, <1>4, <1>5 DEF Moves

\* The end of a run moves it to NoTask and unlinks it from the chain.
LEMMA FinishMoves ==
    ASSUME NEW t \in Task, NEW h, NEW en, Finish(t, h, en)
    PROVE  Moves(t, NoTask, h, en)
<1> DEFINE hh == [o \in Obj |-> IF h[o].tail = t THEN [h[o] EXCEPT !.tail = None]
                                                 ELSE h[o]]
           tk == [q \in Task |-> IF q = t THEN NoTask
                           ELSE IF task[q].pred = t
                                THEN [task[q] EXCEPT !.pred = None]
                                ELSE task[q]]
<1>1. Update(hh, tk, en)
  BY DEF Finish
<1> HIDE DEF hh, tk
<1>2. task' = tk /\ entry' = en
  BY <1>1 DEF Update
<1>3. heap' = [o \in Obj |->
                  IF \/ \E p \in Replica, r \in Room : en[p][r] = o
                     \/ \E q \in Task : o \in {tk[q].ref, tk[q].live}
                  THEN hh[o] ELSE Blank]
  BY <1>1 DEF Update
<1>4. \A o \in Obj : Reached(o)' => heap'[o] = hh[o]
  BY <1>2, <1>3 DEF Reached
<1>5. \A o \in Obj : heap'[o] \in {hh[o], Blank}
  BY <1>3
<1>6. heap' = [o \in Obj |-> heap'[o]]
  BY <1>3
<1>7. \A o \in Obj : hh[o] \in {h[o], [h[o] EXCEPT !.tail = None]}
  BY DEF hh
<1>8. \A q \in Task \ {t} : tk[q] \in {task[q], [task[q] EXCEPT !.pred = None]}
  BY DEF tk
<1>9. tk = [q \in Task |-> IF q = t THEN NoTask ELSE tk[q]]
  BY DEF tk
<1> QED
  BY <1>2, <1>4, <1>5, <1>6, <1>7, <1>8, <1>9 DEF Moves

\* A step that only changes the run moves it.
LEMMA StepMoves ==
    ASSUME NEW t \in Task, NEW k, task' = [task EXCEPT ![t] = k],
           task \in [Task -> TaskRow], heap \in [Obj -> RoomObj],
           heap' = heap, entry' = entry
    PROVE  Moves(t, k, heap, entry)
BY Zenon DEF Moves

\* The objects a step of t writes: its own and new ones.  Others may lose a
\* socket or get a longer chain.
Writes(t, h) ==
    \A o \in Obj :
       \/ Core(h[o]) = Core(heap[o])
       \/ /\ heap[o].status = "freed"
          /\ Live(h[o]) /\ Behind(h[o])'
       \/ /\ Owns(task[t]) /\ o = task[t].live
          /\ Live(h[o]) /\ Behind(h[o])'
          /\ (games[h[o].game].home)' = games[heap[o].game].home

\* The caches keep their objects, lose them, or get new ones of their room.
Caches(h, en) ==
    \A p \in Replica, r \in Room :
       \/ en[p][r] \in {None, entry[p][r]}
       \/ /\ en[p][r] \in Obj /\ heap[en[p][r]].status = "freed"
          /\ Live(h[en[p][r]]) /\ (games[h[en[p][r]].game].home)' = r

\* A step of one run keeps everything the caches and the other runs rely on.
LEMMA MovesOK ==
    ASSUME RoomsIInv, [LedgerNext]_ledgerVars, VotedGrows,
           NEW t \in Task, NEW k \in TaskRow, NEW h \in [Obj -> RoomObj],
           NEW en \in [Replica -> [Room -> Obj \cup {None}]],
           Moves(t, k, h, en), Writes(t, h), Caches(h, en),
           task[t].pc # "hydrating",
           RunOK(k, h[k.live])',
           k.ref # None => Live(h[k.ref]) /\ (games[h[k.ref].game].home)' = k.room,
           k.live # None => Live(h[k.live]),
           Owns(k) => \/ heap[k.live].status = "freed"
                      \/ Owns(task[t]) /\ k.live = task[t].live
    PROVE  /\ LedgerInv' /\ CellsOK' /\ RunsOK' /\ ObjectsApart'
           /\ inflight' = inflight => FlightsOK'
           /\ heap' \in [Obj -> RoomObj] /\ task' \in [Task -> TaskRow]
           /\ entry' \in [Replica -> [Room -> Obj \cup {None}]]
<1> USE LedgerAssumption, RoomsAssumption
<1>1. Grows /\ LedgerInv' /\ LedgerInv
  BY LedgerGrows DEF RoomsIInv
<1>2. /\ heap \in [Obj -> RoomObj] /\ task \in [Task -> TaskRow]
      /\ entry \in [Replica -> [Room -> Obj \cup {None}]]
      /\ inflight \in [Replica -> [Room -> Flight]]
  BY DEF RoomsIInv, ShapesOK
<1>3. \A o \in Obj : /\ Live(heap[o]) => Behind(heap[o])
                     /\ heap[o].status \in {"freed", "waiting", "playing", "finished"}
  BY DEF RoomsIInv, CellsOK, ObjOK
<1>4. ASSUME NEW o \in Obj
      PROVE  /\ Live(h[o]) => Behind(h[o])'
             /\ h[o].status \in {"freed", "waiting", "playing", "finished"}
             /\ Live(heap[o]) => /\ Live(h[o])
                                 /\ (games[h[o].game].home)' = games[heap[o].game].home
  <2>1. CASE Core(h[o]) = Core(heap[o])
    <3>1. /\ h[o].status = heap[o].status /\ h[o].game = heap[o].game
          /\ h[o].white = heap[o].white /\ h[o].black = heap[o].black
          /\ h[o].board = heap[o].board /\ h[o].n = heap[o].n
      BY <2>1 DEF Core
    <3>2. Live(h[o]) <=> Live(heap[o])
      BY <3>1 DEF Live
    <3>3. Live(heap[o]) => Behind(h[o])
      BY <1>3, <3>1 DEF Behind
    <3>4. h[o] \in RoomObj
      OBVIOUS
    <3> QED
      BY <1>1, <1>3, <3>1, <3>2, <3>3, <3>4, BehindGrows
  <2>2. CASE heap[o].status = "freed" /\ Live(h[o]) /\ Behind(h[o])'
    BY <2>2 DEF Live
  <2>3. CASE /\ Live(h[o]) /\ Behind(h[o])'
             /\ (games[h[o].game].home)' = games[heap[o].game].home
    BY <2>3 DEF Live
  <2> QED
    BY <2>1, <2>2, <2>3 DEF Writes
<1>5. ASSUME NEW o \in Obj
      PROVE  /\ heap'[o] \in RoomObj
             /\ heap'[o] = Blank \/ Core(heap'[o]) = Core(h[o])
             /\ Reached(o)' => Core(heap'[o]) = Core(h[o])
  <2>1. Blank \in RoomObj
    BY DEF Blank, RoomObj, StartBoard, Board, Color
  <2>2. /\ Core([h[o] EXCEPT !.tail = None]) = Core(h[o])
        /\ [h[o] EXCEPT !.tail = None] \in RoomObj
    BY TailOnly
  <2> QED
    BY <2>1, <2>2, Zenon DEF Moves
<1>6. heap' \in [Obj -> RoomObj]
  BY <1>5 DEF Moves
<1>7. ASSUME NEW q \in Task, q # t
      PROVE  /\ task'[q] \in {task[q], [task[q] EXCEPT !.pred = None]}
             /\ task'[q] \in TaskRow
             /\ task'[q].ref = task[q].ref /\ task'[q].live = task[q].live
             /\ task'[q].pc = task[q].pc /\ task'[q].sock = task[q].sock
             /\ task'[q].room = task[q].room /\ task'[q].kind = task[q].kind
  <2>1. task'[q] \in {task[q], [task[q] EXCEPT !.pred = None]} /\ task[q] \in TaskRow
    BY <1>2, <1>7 DEF Moves
  <2> QED
    BY <2>1, PredOnly
<1>8. task'[t] = k
  BY DEF Moves
<1>9. task' \in [Task -> TaskRow]
  BY <1>7, <1>8 DEF Moves
<1>10. entry' = en
  BY DEF Moves
<1>11. ASSUME NEW o \in Obj, Reached(o)', Live(h[o])
       PROVE  Live(heap'[o]) /\ heap'[o].game = h[o].game /\ Behind(heap[o])'
  <2>1. /\ heap'[o].status = h[o].status /\ heap'[o].game = h[o].game
        /\ heap'[o].white = h[o].white /\ heap'[o].black = h[o].black
        /\ heap'[o].board = h[o].board /\ heap'[o].n = h[o].n
    BY <1>5, <1>11 DEF Core
  <2>2. Behind(h[o])'
    BY <1>4, <1>11
  <2> QED
    BY <1>11, <2>1, <2>2 DEF Live, Behind
<1>12. CellsOK'
  <2>1. ASSUME NEW o \in Obj
        PROVE  /\ ObjOK(heap[o])'
               /\ heap'[o].status \in {"freed", "waiting", "playing", "finished"}
    <3>1. CASE heap'[o] = Blank
      BY <3>1 DEF ObjOK, Live, Blank
    <3>2. CASE Core(heap'[o]) = Core(h[o])
      <4>1. /\ heap'[o].status = h[o].status /\ heap'[o].game = h[o].game
            /\ heap'[o].white = h[o].white /\ heap'[o].black = h[o].black
            /\ heap'[o].board = h[o].board /\ heap'[o].n = h[o].n
        BY <3>2 DEF Core
      <4> QED
        BY <1>4, <4>1 DEF ObjOK, Live, Behind
    <3> QED
      BY <1>5, <3>1, <3>2
  <2>2. ASSUME NEW p \in Replica, NEW r \in Room, entry'[p][r] # None
        PROVE  /\ Live(heap'[entry'[p][r]])
               /\ (games[heap[entry[p][r]].game].home)' = r
    <3>1. en[p][r] \in Obj /\ Reached(en[p][r])'
      BY <1>10, <2>2 DEF Reached
    <3>2. Live(h[en[p][r]]) /\ (games[h[en[p][r]].game].home)' = r
      <4>1. CASE en[p][r] = entry[p][r]
        <5>1. Live(heap[en[p][r]]) /\ games[heap[en[p][r]].game].home = r
          BY <1>10, <2>2, <4>1 DEF RoomsIInv, CellsOK
        <5> QED
          BY <1>4, <3>1, <5>1
      <4> QED
        BY <1>10, <2>2, <4>1 DEF Caches
    <3> QED
      BY <1>10, <1>11, <3>1, <3>2
  <2>3. ASSUME NEW q \in Task
        PROVE  /\ task'[q].ref # None =>
                     /\ Live(heap'[task'[q].ref])
                     /\ (games[heap[task[q].ref].game].home = task[q].room)'
               /\ task'[q].live # None => Live(heap'[task'[q].live])
    <3>1. /\ task'[q].ref # None => task'[q].ref \in Obj /\ Reached(task[q].ref)'
          /\ task'[q].live # None => task'[q].live \in Obj /\ Reached(task[q].live)'
      BY <1>9 DEF Reached, TaskRow
    <3>2. /\ task'[q].ref # None => /\ Live(h[task'[q].ref])
                                    /\ games'[h[task'[q].ref].game].home = task'[q].room
          /\ task'[q].live # None => Live(h[task'[q].live])
      <4>1. CASE q = t
        BY <1>8, <4>1
      <4>2. CASE q # t
        <5>1. /\ task[q].ref # None => /\ Live(heap[task[q].ref])
                                       /\ games[heap[task[q].ref].game].home = task[q].room
              /\ task[q].live # None => Live(heap[task[q].live])
          BY DEF RoomsIInv, CellsOK
        <5> QED
          BY <1>4, <1>7, <3>1, <4>2, <5>1
      <4> QED
        BY <4>1, <4>2
    <3> QED
      BY <1>11, <3>1, <3>2
  <2> QED
    BY <2>1, <2>2, <2>3 DEF CellsOK
<1>13. RunsOK'
  <2> SUFFICES ASSUME NEW q \in Task PROVE RunOK(task[q], heap[task[q].live])'
    BY DEF RunsOK
  <2>1. /\ task'[q].live # None => task'[q].live \in Obj /\ Reached(task[q].live)'
    BY <1>9 DEF Reached, TaskRow
  <2>2. CASE q = t
    <3>1. k.live # None => Core(heap'[k.live]) = Core(h[k.live])
      BY <1>5, <1>8, <2>1, <2>2
    <3>2. RunOK(k, heap[k.live])'
      BY <3>1, RunCore, Zenon
    <3> QED
      BY <1>8, <2>2, <3>2
  <2>3. CASE q # t
    <3>1. RunOK(task[q], heap[task[q].live])
      BY DEF RoomsIInv, RunsOK
    <3>2. ASSUME task[q].live # None
          PROVE  RunOK(task[q], heap[task[q].live])'
      <4> DEFINE l == task[q].live
      <4>0. l \in Obj /\ Live(heap[l]) /\ Behind(heap[l])
        BY <1>2, <1>3, <3>2 DEF RoomsIInv, CellsOK, TaskRow
      <4>1. Core(heap'[l]) = Core(h[l])
        BY <1>5, <1>7, <2>1, <2>3, <3>2
      <4>2. CASE Core(h[l]) = Core(heap[l])
        <5>1. RunOK(task'[q], heap'[l])
          <6>1. /\ Core(heap'[l]) = Core(heap[l]) /\ task[q] \in TaskRow
                /\ task'[q] \in {task[q], [task[q] EXCEPT !.pred = None]}
            BY <1>2, <1>7, <2>3, <4>1, <4>2
          <6> QED
            BY <3>1, <6>1, RunCore
        <5>2. /\ heap'[l] \in RoomObj /\ Live(heap'[l]) /\ Behind(heap'[l])
          <6>1. /\ heap'[l].status = heap[l].status /\ heap'[l].game = heap[l].game
                /\ heap'[l].white = heap[l].white /\ heap'[l].black = heap[l].black
                /\ heap'[l].board = heap[l].board /\ heap'[l].n = heap[l].n
            BY <4>1, <4>2 DEF Core
          <6> QED
            BY <4>0, <1>5, <6>1 DEF Live, Behind
        <5> QED
          BY <1>1, <1>7, <2>3, <5>1, <5>2, RunGrows
      <4>3. CASE Core(h[l]) # Core(heap[l])
        <5>1. heap[l].status # "freed"
          BY <4>0 DEF Live
        <5>2. Owns(task[t]) /\ l = task[t].live
          BY <4>0, <4>3, <5>1 DEF Writes
        <5>3. task[q].pc = "unvote"
          BY <2>3, <3>2, <5>2 DEF RoomsIInv, ObjectsApart, Owns
        <5>4. task'[q].live # None /\ task'[q].pc = "unvote" /\ task'[q].room = task[q].room
              /\ task'[q].kind = task[q].kind /\ task'[q].sock = task[q].sock
          BY <1>2, <1>7, <2>3, <3>2, <5>3 DEF TaskRow
        <5>5. games'[heap'[l].game].home = task[q].room
          <6>1. games[heap[l].game].home = task[q].room
            BY <3>1, <3>2 DEF RunOK, RunPlays
          <6>2. games'[h[l].game].home = games[heap[l].game].home
            BY <1>4, <4>0
          <6>3. heap'[l].game = h[l].game
            BY <4>1 DEF Core
          <6> QED
            BY <6>1, <6>2, <6>3
        <5>6. RunShape(task'[q])
          BY <3>1, <3>2, <5>3, <5>4, <1>7, <2>3, RoomsAssumption DEF RunOK, RunShape
        <5>7. RunReads(task[q])' /\ RunVotes(task[q], heap[task[q].live])' /\ RunRematches(task[q])'
          BY <5>4, <5>6 DEF RunReads, RunVotes, RunRematches, RunShape
        <5>8. RunPlays(task[q], heap[task[q].live])'
          <6>1. (heap[task[q].live])' = heap'[l]
            BY <1>7, <2>3
          <6> QED
            BY <5>4, <5>5, <6>1 DEF RunPlays
        <5> QED
          BY <5>6, <5>7, <5>8 DEF RunOK, RunShape
      <4> QED
        BY <4>2, <4>3
    <3>3. ASSUME task[q].live = None
          PROVE  RunOK(task[q], heap[task[q].live])'
      <4> DEFINE o == heap[task[q].live]
      <4>1. RunOK(task[q], o)
        BY <3>1
      <4>2. task[q] \in TaskRow /\ task'[q] \in {task[q], [task[q] EXCEPT !.pred = None]}
        BY <1>2, <1>7, <2>3
      <4>3. \A x : RunOK(task[q], x)'
        <5> HIDE DEF o
        <5> QED
          BY <1>1, <3>3, <4>1, <4>2, RunFar
      <4> QED
        BY <4>3
    <3> QED
      BY <1>7, <2>3, <3>2, <3>3
  <2> QED
    BY <2>2, <2>3
<1>14. ObjectsApart'
  <2> SUFFICES ASSUME NEW q \in Task, NEW z \in Task, Owns(task'[q]), Owns(task'[z]),
                      task'[q].live = task'[z].live, q # z
               PROVE  FALSE
    BY DEF ObjectsApart, Owns
  <2>1. ASSUME NEW x \in Task, x # t, Owns(task'[x])
        PROVE  Owns(task[x]) /\ task[x].live = task'[x].live
               /\ task[x].live \in Obj /\ heap[task[x].live].status # "freed"
    <3>1. Owns(task[x]) /\ task[x].live = task'[x].live /\ task[x].live # None
      BY <1>7, <2>1 DEF Owns
    <3>2. task[x].live \in Obj
      BY <1>2, <3>1 DEF TaskRow
    <3>3. Live(heap[task[x].live])
      BY <3>1 DEF RoomsIInv, CellsOK
    <3> QED
      BY <3>1, <3>2, <3>3 DEF Live
  <2>2. q # t \/ z # t
    OBVIOUS
  <2>3. CASE q # t /\ z # t
    BY <2>1, <2>3 DEF RoomsIInv, ObjectsApart
  <2>4. ASSUME NEW x \in Task, x # t, Owns(task'[x]), Owns(k), task'[x].live = k.live
        PROVE  FALSE
    BY <2>1, <2>4 DEF RoomsIInv, ObjectsApart
  <2> QED
    BY <1>8, <2>3, <2>4
<1>15. ASSUME inflight' = inflight PROVE FlightsOK'
  <2> SUFFICES ASSUME NEW p \in Replica, NEW r \in Room
               PROVE  FlightOK(inflight[p][r], p, r)'
    BY DEF FlightsOK
  <2>1. PICK f : f = inflight[p][r]
    OBVIOUS
  <2>2. f \in Flight /\ FlightOK(f, p, r)
    BY <1>2, <2>1 DEF RoomsIInv, FlightsOK
  <2>3. ASSUME NEW i \in 1..Len(f.waiters) PROVE Awaits(task'[f.waiters[i]], p, r)
    <3>1. f.waiters[i] \in Task /\ Awaits(task[f.waiters[i]], p, r)
      BY <2>2 DEF Flight, FlightOK
    <3>2. f.waiters[i] # t
      BY <3>1 DEF Awaits
    <3> QED
      BY <1>7, <3>1, <3>2, Zenon DEF Awaits
  <2>4. FlightOK(f, p, r)'
    <3>1. f.state = "back" => SnapOK(f.snap, r)'
      BY <1>1, <2>2, BehindGrows DEF SnapOK, Flight, FlightOK
    <3> QED
      BY <2>2, <2>3, <3>1 DEF FlightOK
  <2> QED
    BY <1>15, <2>1, <2>4
<1> QED
  BY <1>1, <1>6, <1>9, <1>10, <1>12, <1>13, <1>14, <1>15

-----------------------------------------------------------------------------
(* Steps that commit nothing.                                              *)

Quiet ==
    /\ UNCHANGED <<ledgerVars, voted, inflight>>
    /\ votes' \in [Game -> SUBSET User] /\ \A g \in Game : votes'[g] \subseteq votes[g]
    /\ conn' \subseteq Socket
    /\ joined' \in [Room -> SUBSET Socket]
    /\ started' \in [Socket -> Game \cup {None}]

\* Writes and Caches, when no row changes.
WritesNow(t, h) ==
    \A o \in Obj :
       \/ Core(h[o]) = Core(heap[o])
       \/ /\ heap[o].status = "freed"
          /\ Live(h[o]) /\ Behind(h[o])
       \/ /\ Owns(task[t]) /\ o = task[t].live
          /\ Live(h[o]) /\ Behind(h[o])
          /\ games[h[o].game].home = games[heap[o].game].home

CachesNow(h, en) ==
    \A p \in Replica, r \in Room :
       \/ en[p][r] \in {None, entry[p][r]}
       \/ /\ en[p][r] \in Obj /\ heap[en[p][r]].status = "freed"
          /\ Live(h[en[p][r]]) /\ games[h[en[p][r]].game].home = r

\* Without a commit or a vote, what is said of rows stays as it is.
LEMMA SameRows ==
    ASSUME UNCHANGED <<ledgerVars, voted>>
    PROVE  /\ \A o : Behind(o)' <=> Behind(o)
           /\ \A k, o : RunOK(k, o) => RunOK(k, o)'
           /\ \A o, r : SnapOK(o, r)' <=> SnapOK(o, r)
<1>1. games' = games /\ moves' = moves /\ voted' = voted
  BY DEF ledgerVars
<1>2. ASSUME NEW o PROVE Behind(o)' <=> Behind(o)
  BY <1>1 DEF Behind, Finished
<1>3. ASSUME NEW o, NEW r PROVE SnapOK(o, r)' <=> SnapOK(o, r)
  BY <1>1, <1>2 DEF SnapOK
<1>4. ASSUME NEW k, NEW o, RunOK(k, o) PROVE RunOK(k, o)'
  <2>1. RunShape(k)'
    BY <1>4 DEF RunOK, RunShape
  <2>2. RunReads(k)'
    BY <1>1, <1>3, <1>4 DEF RunOK, RunReads, UserOf
  <2>3. RunPlays(k, o)'
    BY <1>1, <1>4 DEF RunOK, RunPlays, UserOf, Finished
  <2>4. RunVotes(k, o)'
    BY <1>1, <1>4 DEF RunOK, RunVotes, UserOf
  <2>5. RunRematches(k)'
    BY <1>1, <1>2, <1>4 DEF RunOK, RunRematches
  <2> QED
    BY <2>1, <2>2, <2>3, <2>4, <2>5 DEF RunOK
<1> QED
  BY <1>2, <1>3, <1>4

\* The rows and the cast votes stay, so what is said of them does.
LEMMA QuietRows ==
    ASSUME RoomsIInv, UNCHANGED <<ledgerVars, voted>>,
           votes' \in [Game -> SUBSET User], \A g \in Game : votes'[g] \subseteq votes[g]
    PROVE  LedgerInv' /\ PlayOK' /\ VotesOK' /\ VotedGrows
<1>1. /\ games' = games /\ moves' = moves /\ elo' = elo /\ scores' = scores
      /\ awards' = awards /\ voted' = voted
  BY DEF ledgerVars
<1>2. LedgerInv'
  BY LedgerGrows DEF RoomsIInv
<1>3. PlayOK'
  BY <1>1 DEF RoomsIInv, PlayOK
<1>4. VotesOK'
  BY <1>1 DEF RoomsIInv, VotesOK, Finished
<1>5. VotedGrows
  BY <1>1 DEF RoomsIInv, VotesOK, VotedGrows
<1> QED
  BY <1>2, <1>3, <1>4, <1>5

\* A step of one run that commits nothing keeps the invariant.
LEMMA QuietOK ==
    ASSUME RoomsIInv, Quiet,
           NEW t \in Task, NEW k \in TaskRow, NEW h \in [Obj -> RoomObj],
           NEW en \in [Replica -> [Room -> Obj \cup {None}]],
           Moves(t, k, h, en), WritesNow(t, h), CachesNow(h, en),
           task[t].pc # "hydrating",
           RunOK(k, h[k.live]),
           k.ref # None => Live(h[k.ref]) /\ games[h[k.ref].game].home = k.room,
           k.live # None => Live(h[k.live]),
           Owns(k) => \/ heap[k.live].status = "freed"
                      \/ Owns(task[t]) /\ k.live = task[t].live
    PROVE  RoomsIInv'
<1>1. LedgerInv' /\ PlayOK' /\ VotesOK' /\ VotedGrows
  BY QuietRows DEF Quiet
<1>2. Writes(t, h) /\ Caches(h, en)
  <2>1. games' = games /\ \A o : Behind(o)' <=> Behind(o)
    BY SameRows DEF Quiet, ledgerVars
  <2>2. Writes(t, h)
    BY <2>1 DEF Writes, WritesNow
  <2>3. Caches(h, en)
    BY <2>1 DEF Caches, CachesNow
  <2> QED
    BY <2>2, <2>3
<1>3. RunOK(k, h[k.live])'
  BY SameRows DEF Quiet
<1>4. /\ [LedgerNext]_ledgerVars /\ inflight' = inflight
      /\ k.ref # None => Live(h[k.ref]) /\ (games[h[k.ref].game].home)' = k.room
  BY DEF Quiet, ledgerVars
<1>5. /\ LedgerInv' /\ CellsOK' /\ FlightsOK' /\ RunsOK' /\ ObjectsApart'
      /\ heap' \in [Obj -> RoomObj] /\ task' \in [Task -> TaskRow]
      /\ entry' \in [Replica -> [Room -> Obj \cup {None}]]
  BY <1>1, <1>2, <1>3, <1>4, MovesOK
<1>6. ShapesOK'
  BY <1>5 DEF RoomsIInv, ShapesOK, Quiet
<1> QED
  BY <1>1, <1>5, <1>6 DEF RoomsIInv

\* A run that is over asks for nothing.
LEMMA RunOver ==
    /\ NoTask \in TaskRow /\ NoTask.ref = None /\ NoTask.live = None
    /\ \A o : RunOK(NoTask, o) /\ RunOK(NoTask, o)'
<1> USE LedgerAssumption
<1>1. Blank \in RoomObj
  BY DEF Blank, RoomObj, StartBoard, Board, Color
<1>2. NoTask \in TaskRow /\ NoTask.ref = None /\ NoTask.live = None
  BY <1>1 DEF NoTask, TaskRow, Phases, Kinds
<1>3. /\ NoTask.pc = "idle" /\ NoTask.kind = "none" /\ NoTask.out = "none"
      /\ NoTask.ref = None /\ NoTask.live = None
  BY DEF NoTask
<1>4. ASSUME NEW o PROVE RunOK(NoTask, o) /\ RunOK(NoTask, o)'
  BY <1>3 DEF RunOK, RunShape, RunReads, RunPlays, RunVotes, RunRematches
<1> QED
  BY <1>2, <1>4

\* A run ends without a commit.
LEMMA FinishOK ==
    ASSUME RoomsIInv, Quiet, NEW t \in Task, task[t].pc # "hydrating",
           NEW h \in [Obj -> RoomObj],
           NEW en \in [Replica -> [Room -> Obj \cup {None}]],
           Finish(t, h, en), WritesNow(t, h), CachesNow(h, en)
    PROVE  RoomsIInv'
<1>1. Moves(t, NoTask, h, en)
  BY FinishMoves
<1>2. /\ NoTask \in TaskRow /\ NoTask.ref = None /\ NoTask.live = None
      /\ RunOK(NoTask, h[NoTask.live])
  BY RunOver
<1>3. ~Owns(NoTask)
  BY <1>2 DEF Owns
<1> QED
  BY <1>1, <1>2, <1>3, QuietOK

\* The cell of a new object was not in use.
LEMMA NewCell ==
    ASSUME CellFree
    PROVE  NewObj \in Obj /\ heap[NewObj].status = "freed"
BY DEF CellFree, NewObj

\* What t may change in an entry of the cache: its own.
LEMMA EntryTypes ==
    ASSUME RoomsIInv, NEW t \in Task, task[t].pc # "idle"
    PROVE  /\ task[t] \in TaskRow /\ S(t) \in Socket /\ P(t) \in Replica /\ R(t) \in Room
           /\ U(t) \in User
           /\ U(t) = UserOf(task[t])
           /\ entry \in [Replica -> [Room -> Obj \cup {None}]]
           /\ Cached(t) \in Obj \cup {None}
           /\ \A o \in Obj \cup {None} :
                 /\ SetEntry(t, o) \in [Replica -> [Room -> Obj \cup {None}]]
                 /\ SetEntry(t, o)[P(t)][R(t)] = o
                 /\ \A p \in Replica, r \in Room :
                       SetEntry(t, o)[p][r] = IF p = P(t) /\ r = R(t) THEN o ELSE entry[p][r]
<1>1. /\ task[t] \in TaskRow /\ task[t].sock \in Socket /\ task[t].room \in Room
      /\ entry \in [Replica -> [Room -> Obj \cup {None}]]
  BY DEF RoomsIInv, ShapesOK, RunsOK, RunOK, RunShape
<1> QED
  BY <1>1, RoomsAssumption DEF P, R, S, U, UserOf, SetEntry, Cached

\* A new object of the run's room goes into its cache.
LEMMA FreshCell ==
    ASSUME RoomsIInv, CellFree, NEW t \in Task, task[t].pc # "idle",
           NEW o \in RoomObj, Live(o), Behind(o), games[o.game].home = R(t),
           NEW h, h = [heap EXCEPT ![NewObj] = o]
    PROVE  /\ NewObj \in Obj /\ heap[NewObj].status = "freed"
           /\ h \in [Obj -> RoomObj] /\ h[NewObj] = o
           /\ \A x \in Obj \ {NewObj} : h[x] = heap[x]
           /\ WritesNow(t, h)
           /\ SetEntry(t, NewObj) \in [Replica -> [Room -> Obj \cup {None}]]
           /\ CachesNow(h, SetEntry(t, NewObj))
<1>1. NewObj \in Obj /\ heap[NewObj].status = "freed"
  BY NewCell
<1>2. heap \in [Obj -> RoomObj]
  BY DEF RoomsIInv, ShapesOK
<1>3. h \in [Obj -> RoomObj] /\ h[NewObj] = o /\ \A x \in Obj \ {NewObj} : h[x] = heap[x]
  BY <1>1, <1>2
<1>4. WritesNow(t, h)
  BY <1>1, <1>3 DEF WritesNow
<1>5. CachesNow(h, SetEntry(t, NewObj))
  BY <1>1, <1>3, EntryTypes DEF CachesNow
<1> QED
  BY <1>1, <1>3, <1>4, <1>5, EntryTypes

\* A handler that ends on its refreshed object keeps the invariant.
LEMMA ReturnOK ==
    ASSUME RoomsIInv, Quiet, NEW t \in Task, task[t].pc \notin {"idle", "hydrating"},
           NEW o \in RoomObj, Live(o), Behind(o), games[o.game].home = R(t),
           Return(t, o)
    PROVE  RoomsIInv'
<1> DEFINE h == [heap EXCEPT ![NewObj] = o]
           en == SetEntry(t, NewObj)
<1>1. CellFree /\ Finish(t, h, en)
  BY DEF Return
<1>2. /\ h \in [Obj -> RoomObj] /\ WritesNow(t, h) /\ CachesNow(h, en)
      /\ en \in [Replica -> [Room -> Obj \cup {None}]]
  BY <1>1, FreshCell, Zenon
<1> HIDE DEF h, en
<1> QED
  BY <1>1, <1>2, FinishOK

\* An eviction only takes an entry out.
LEMMA EvictedCaches ==
    ASSUME RoomsIInv, NEW t \in Task, task[t].pc # "idle", NEW h,
           NEW en \in [Replica -> [Room -> Obj \cup {None}]], CachesNow(h, en)
    PROVE  /\ Evicted(t, h, en) \in [Replica -> [Room -> Obj \cup {None}]]
           /\ CachesNow(h, Evicted(t, h, en))
<1>1. P(t) \in Replica /\ R(t) \in Room
  BY EntryTypes
<1>2. Evicted(t, h, en) \in [Replica -> [Room -> Obj \cup {None}]]
  BY <1>1 DEF Evicted
<1>3. \A p \in Replica, r \in Room : Evicted(t, h, en)[p][r] \in {None, en[p][r]}
  BY <1>1 DEF Evicted
<1> QED
  BY <1>2, <1>3 DEF CachesNow

\* So does one that throws, with the eviction in join_room's catch.
LEMMA ThrowOK ==
    ASSUME RoomsIInv, Quiet, NEW t \in Task, task[t].pc \notin {"idle", "hydrating"},
           NEW o \in RoomObj, Live(o), Behind(o), games[o.game].home = R(t),
           Throw(t, o)
    PROVE  RoomsIInv'
<1> DEFINE h == [heap EXCEPT ![NewObj] = o]
           en == SetEntry(t, NewObj)
           ev == Evicted(t, h, en)
<1>1. CellFree /\ Finish(t, h, ev)
  BY DEF Throw
<1>2. /\ h \in [Obj -> RoomObj] /\ WritesNow(t, h) /\ CachesNow(h, en)
      /\ en \in [Replica -> [Room -> Obj \cup {None}]]
  BY <1>1, FreshCell, Zenon
<1>3. ev \in [Replica -> [Room -> Obj \cup {None}]] /\ CachesNow(h, ev)
  <2> HIDE DEF h, en
  <2> QED
    BY <1>2, EvictedCaches
<1> HIDE DEF h, en, ev
<1> QED
  BY <1>1, <1>2, <1>3, FinishOK

\* A handler that goes on with its refreshed object keeps the invariant,
\* if that object supports its next step.
LEMMA ProceedOK ==
    ASSUME RoomsIInv, Quiet, NEW t \in Task, task[t].pc \notin {"idle", "hydrating"},
           NEW o \in RoomObj, Live(o), Behind(o), games[o.game].home = R(t),
           NEW pc, NEW res, ProceedWith(t, o, pc, res),
           LET k == [task[t] EXCEPT !.pc = pc, !.live = NewObj, !.snap = Blank, !.res = res]
           IN  k \in TaskRow /\ RunOK(k, o)
    PROVE  RoomsIInv'
<1> DEFINE h == [heap EXCEPT ![NewObj] = o]
           en == SetEntry(t, NewObj)
           k == [task[t] EXCEPT !.pc = pc, !.live = NewObj, !.snap = Blank, !.res = res]
           tk == [task EXCEPT ![t].pc = pc, ![t].live = NewObj, ![t].snap = Blank,
                           ![t].res = res]
<1>0. task \in [Task -> TaskRow] /\ heap \in [Obj -> RoomObj]
  BY DEF RoomsIInv, ShapesOK
<1>1. CellFree /\ Update(h, tk, en)
  BY DEF ProceedWith
<1>2. /\ h \in [Obj -> RoomObj] /\ WritesNow(t, h) /\ CachesNow(h, en)
      /\ en \in [Replica -> [Room -> Obj \cup {None}]]
      /\ NewObj \in Obj /\ heap[NewObj].status = "freed" /\ h[NewObj] = o
      /\ \A x \in Obj \ {NewObj} : h[x] = heap[x]
  <2>1. h = [heap EXCEPT ![NewObj] = o]
    OBVIOUS
  <2>2. o \in RoomObj /\ Live(o) /\ Behind(o) /\ games[o.game].home = R(t) /\ task[t].pc # "idle"
    OBVIOUS
  <2> HIDE DEF h
  <2>3. /\ NewObj \in Obj /\ heap[NewObj].status = "freed" /\ h[NewObj] = o
        /\ \A x \in Obj \ {NewObj} : h[x] = heap[x]
    BY <1>0, <1>1, <2>1, NewCell
  <2>4. h \in [Obj -> RoomObj] /\ WritesNow(t, h) /\ CachesNow(h, en)
    BY <1>1, <2>1, <2>2, FreshCell, Zenon
  <2>5. en \in [Replica -> [Room -> Obj \cup {None}]]
    BY <1>1, <2>1, <2>2, FreshCell, Zenon
  <2> QED
    BY <2>3, <2>4, <2>5
<1>3. tk[t] = k /\ tk = [q \in Task |-> IF q = t THEN tk[t] ELSE task[q]]
  BY <1>0, Zenon
<1>4. /\ k \in TaskRow /\ RunOK(k, o) /\ k.live = NewObj /\ k.ref = task[t].ref
      /\ k.room = task[t].room
  BY <1>0 DEF TaskRow
<1>5. k.ref # None => Live(h[k.ref]) /\ games[h[k.ref].game].home = k.room
  <2>1. k.ref # None => /\ k.ref \in Obj /\ Live(heap[k.ref])
                        /\ games[heap[k.ref].game].home = k.room
    BY <1>0, <1>4 DEF RoomsIInv, CellsOK, TaskRow
  <2>2. k.ref # None => k.ref # NewObj
    BY <1>2, <2>1 DEF Live
  <2> QED
    BY <1>2, <2>1, <2>2
<1> HIDE DEF h, en, k, tk
<1>6. Moves(t, k, h, en)
  BY <1>1, <1>3, UpdateMoves
<1> QED
  BY <1>2, <1>4, <1>5, <1>6, QuietOK

\* The refreshed object shows the snapshot, with sockets of its players only.
LEMMA RefreshedOK ==
    ASSUME RoomsIInv, NEW t \in Task, task[t].pc = "read", Live(task[t].snap)
    PROVE  /\ Refreshed(t) \in RoomObj
           /\ Live(Refreshed(t)) /\ Behind(Refreshed(t))
           /\ games[Refreshed(t).game].home = R(t)
           /\ Core(Refreshed(t)) = Core(task[t].snap)
           /\ Current(t) \in Obj
           /\ Refreshed(t).att = [u \in User |-> IF u \in Players(task[t].snap)
                                     THEN heap[Current(t)].att[u] ELSE None]
           /\ Refreshed(t).tail = heap[Current(t)].tail
           /\ Players(Refreshed(t)) = Players(task[t].snap)
<1> DEFINE o == Refreshed(t)
           s == task[t].snap
           c == Current(t)
<1>1. task[t] \in TaskRow /\ s \in RoomObj /\ heap \in [Obj -> RoomObj]
  BY DEF RoomsIInv, ShapesOK, TaskRow
<1>2. /\ task[t].ref \in Obj
      /\ SnapOK(s, task[t].room)
  BY <1>1, Zenon DEF RoomsIInv, RunsOK, RunOK, RunShape, RunReads, TaskRow
<1>3. c \in Obj
  BY <1>2, EntryTypes DEF Current
<1>4. heap[c].att \in [User -> Socket \cup {None}] /\ heap[c].tail \in Task \cup {None}
  BY <1>1, <1>3 DEF RoomObj
<1>5. o = [s EXCEPT !.att = [u \in User |-> IF u \in Players(s) THEN heap[c].att[u] ELSE None],
                    !.tail = heap[c].tail]
  BY DEF Refreshed
<1> HIDE DEF o, s, c
<1>6. /\ o \in RoomObj
      /\ o.att = [u \in User |-> IF u \in Players(s) THEN heap[c].att[u] ELSE None]
      /\ o.tail = heap[c].tail
      /\ o.status = s.status /\ o.game = s.game /\ o.white = s.white
      /\ o.black = s.black /\ o.board = s.board /\ o.n = s.n
  BY <1>1, <1>4, <1>5, Zenon DEF RoomObj
<1>7. Live(s) /\ Behind(s) /\ games[s.game].home = R(t)
  BY <1>2 DEF SnapOK, R, s
<1>8. Live(o) /\ Behind(o) /\ games[o.game].home = R(t) /\ Core(o) = Core(s)
      /\ Players(o) = Players(s)
  BY <1>6, <1>7 DEF Live, Behind, Core, Players
<1> QED
  BY <1>3, <1>6, <1>8 DEF o, s, c

-----------------------------------------------------------------------------
(* Queries.                                                                *)

\* The shapes of an unused cell and of the answers that carry no room.
LEMMA BlankOK ==
    /\ Blank \in RoomObj /\ Blank.status = "freed" /\ Blank.tail = None
    /\ Blank.att = [u \in User |-> None]
    /\ [Blank EXCEPT !.status = "dead"] \in RoomObj
    /\ Fault \in RoomObj /\ Fault.status = "fault" /\ ~Live(Fault)
    /\ ~Live(Blank) /\ ~Live([Blank EXCEPT !.status = "dead"])
BY DEF Blank, Fault, RoomObj, StartBoard, Board, Color, Live

\* A materialized row shows the row as it is.
LEMMA MaterializeOK ==
    ASSUME RoomsIInv, NEW g \in Game, games[g].status \in {"in_progress", "finished"}
    PROVE  /\ Materialize(g) \in RoomObj /\ Live(Materialize(g))
           /\ Behind(Materialize(g)) /\ Materialize(g).game = g
           /\ Materialize(g).tail = None
           /\ Materialize(g).att = [u \in User |-> None]
           /\ Players(Materialize(g)) = Seats(games[g])
<1> USE LedgerAssumption
<1> DEFINE row == games[g]
           m == Materialize(g)
<1>1. /\ LedgerInv /\ games \in [Game -> GameRow] /\ moves \in [Game -> Seq(Color)]
  BY DEF RoomsIInv, LedgerInv, LedgerTypeOK
<1>2. /\ row \in GameRow /\ Len(moves[g]) \in Nat
      /\ row.white \in User \cup {None} /\ row.black \in User \cup {None}
      /\ row.board \in Board
  BY <1>1 DEF GameRow
<1>3. row.status = "finished" => row.black # None
  BY <1>1, FinishedHasBoth
<1>4. row.board.over # "no" => row.black # None
  BY DEF RoomsIInv, PlayOK
<1> DEFINE st == IF row.status = "finished" THEN "finished"
                 ELSE IF row.black = None THEN "waiting" ELSE "playing"
<1>5. m = [Blank EXCEPT !.status = st, !.game = g, !.white = row.white,
                        !.black = row.black, !.board = row.board, !.n = Len(moves[g])]
  BY DEF Materialize
<1>6. /\ st \in {"waiting", "playing", "finished"}
      /\ st = "finished" <=> row.status = "finished"
      /\ st = "playing" => row.black # None
  OBVIOUS
<1> HIDE DEF m, st
<1>9. /\ m \in RoomObj
      /\ m.status = st /\ m.game = g /\ m.white = row.white /\ m.black = row.black
      /\ m.board = row.board /\ m.n = Len(moves[g]) /\ m.tail = None
      /\ m.att = [u \in User |-> None]
  BY <1>2, <1>5, <1>6, BlankOK, ZenonT(60) DEF RoomObj
<1>7. Live(m) /\ m.game = g /\ m.tail = None /\ m.att = [u \in User |-> None]
  BY <1>6, <1>9 DEF Live
<1>8. Behind(m) /\ Players(m) = Seats(row)
  BY <1>2, <1>3, <1>4, <1>6, <1>9 DEF Behind, Finished, Players, Seats
<1> QED
  BY <1>7, <1>8, <1>9 DEF m

\* The snapshot of a room is one of the game that holds it.
LEMMA SnapshotOK ==
    ASSUME RoomsIInv, NEW r \in Room
    PROVE  /\ Snapshot(r) \in RoomObj /\ SnapOK(Snapshot(r), r)
           /\ Snapshot(r).tail = None /\ Snapshot(r).att = [u \in User |-> None]
           /\ Live(Snapshot(r)) => /\ Snapshot(r).game \in Game
                                   /\ games[Snapshot(r).game].room = r
                                   /\ Players(Snapshot(r)) = Seats(games[Snapshot(r).game])
           /\ Snapshot(r).status \in {"dead", "waiting", "playing", "finished"}
           /\ r \in Recoverable => Live(Snapshot(r))
<1> USE LedgerAssumption
<1>1. CASE \E g \in Game : /\ games[g].room = r
                           /\ games[g].status \in {"in_progress", "finished"}
  <2>1. PICK g \in Game : /\ games[g].room = r
                          /\ games[g].status \in {"in_progress", "finished"}
    BY <1>1
  <2> DEFINE c == CHOOSE x \in Game : games[x].room = r
  <2>2. c \in Game /\ games[c].room = r
    BY <2>1
  <2> HIDE DEF c
  <2>3. c = g
    BY <2>1, <2>2, Zenon DEF RoomsIInv, LedgerInv, OneGamePerRoom
  <2>4. games[g].home = r
    BY <2>1 DEF RoomsIInv, LedgerInv, RowsWellFormed, RowWellFormed
  <2>5. Snapshot(r) = Materialize(c)
    BY <1>1, Zenon DEF Snapshot, c
  <2>6. Materialize(g).status \in {"dead", "waiting", "playing", "finished"}
    BY <2>1, MaterializeOK DEF Live
  <2>7. Snapshot(r) = Materialize(g)
    BY <2>3, <2>5
  <2>8. /\ Snapshot(r) \in RoomObj /\ Live(Snapshot(r))
        /\ Behind(Snapshot(r)) /\ Snapshot(r).game = g
        /\ Snapshot(r).tail = None
        /\ Snapshot(r).att = [u \in User |-> None]
        /\ Players(Snapshot(r)) = Seats(games[g])
    BY <2>1, <2>7, MaterializeOK, Zenon
  <2> QED
    BY <2>1, <2>4, <2>6, <2>7, <2>8 DEF SnapOK
<1>2. CASE ~\E g \in Game : /\ games[g].room = r
                            /\ games[g].status \in {"in_progress", "finished"}
  <2>1. Snapshot(r) = [Blank EXCEPT !.status = "dead"]
    BY <1>2 DEF Snapshot
  <2>2. /\ Snapshot(r) \in RoomObj /\ ~Live(Snapshot(r)) /\ Snapshot(r).tail = None
        /\ Snapshot(r).att = [u \in User |-> None] /\ Snapshot(r).status = "dead"
    BY <2>1, BlankOK DEF Blank
  <2>3. r \notin Recoverable
    BY <1>2 DEF Recoverable
  <2> QED
    BY <2>2, <2>3 DEF SnapOK
<1> QED
  BY <1>1, <1>2

\* Whatever a query of room r answers is behind the database.
LEMMA QueryOK ==
    ASSUME RoomsIInv, NEW r \in Room, NEW snap \in QueryResults(r)
    PROVE  /\ snap \in RoomObj /\ SnapOK(snap, r)
           /\ snap.tail = None /\ snap.att = [u \in User |-> None]
           /\ Live(snap) => /\ snap.game \in Game /\ games[snap.game].room = r
                            /\ Players(snap) = Seats(games[snap.game])
<1>1. CASE snap = Snapshot(r)
  BY <1>1, SnapshotOK
<1>2. CASE snap = Fault
  <2>1. snap.tail = None /\ snap.att = [u \in User |-> None]
    BY <1>2 DEF Fault, Blank
  <2> QED
    BY <1>2, <2>1, BlankOK DEF SnapOK
<1> QED
  BY <1>1, <1>2 DEF QueryResults

\* A step that leaves rows, votes, hydrations and sockets alone is quiet.
LEMMA QuietFrame ==
    ASSUME RoomsIInv, UNCHANGED <<ledgerVars, inflight, conn, joined, started, votes, voted>>
    PROVE  Quiet
BY DEF RoomsIInv, ShapesOK, Quiet

\* Objects and caches that stay as they are satisfy what a step may write.
LEMMA KeptAll ==
    ASSUME RoomsIInv, NEW t
    PROVE  /\ WritesNow(t, heap) /\ heap \in [Obj -> RoomObj]
           /\ CachesNow(heap, entry) /\ entry \in [Replica -> [Room -> Obj \cup {None}]]
BY DEF RoomsIInv, ShapesOK, WritesNow, CachesNow

\* A run goes on without touching an object or a cache.
LEMMA StepOK ==
    ASSUME RoomsIInv, Quiet, NEW t \in Task, task[t].pc # "hydrating",
           NEW k \in TaskRow, task' = [task EXCEPT ![t] = k], UNCHANGED <<heap, entry>>,
           RunOK(k, heap[k.live]), k.ref \in {None, task[t].ref}, k.room = task[t].room,
           k.live \in {None, task[t].live}, Owns(k) => Owns(task[t])
    PROVE  RoomsIInv'
<1>1. task \in [Task -> TaskRow] /\ heap \in [Obj -> RoomObj]
  BY DEF RoomsIInv, ShapesOK
<1>2. Moves(t, k, heap, entry)
  BY <1>1, StepMoves, Zenon
<1>3. /\ task[t].ref # None => /\ Live(heap[task[t].ref])
                               /\ games[heap[task[t].ref].game].home = task[t].room
      /\ task[t].live # None => Live(heap[task[t].live])
  BY DEF RoomsIInv, CellsOK
<1>4. Owns(k) => k.live = task[t].live
  BY DEF Owns
<1> QED
  BY <1>2, <1>3, <1>4, KeptAll, QuietOK

-----------------------------------------------------------------------------
(* The handlers, step by step.                                             *)

\* What a run in progress may rely on.
LEMMA RunFacts ==
    ASSUME RoomsIInv, NEW t \in Task
    PROVE  /\ task[t] \in TaskRow /\ task \in [Task -> TaskRow]
           /\ heap \in [Obj -> RoomObj]
           /\ RunShape(task[t]) /\ RunReads(task[t])
           /\ RunPlays(task[t], heap[task[t].live])
           /\ RunVotes(task[t], heap[task[t].live]) /\ RunRematches(task[t])
           /\ task[t].ref # None => /\ task[t].ref \in Obj /\ Live(heap[task[t].ref])
                                    /\ heap[task[t].ref] \in RoomObj
                                    /\ games[heap[task[t].ref].game].home = task[t].room
           /\ task[t].live # None => /\ task[t].live \in Obj /\ Live(heap[task[t].live])
                                     /\ heap[task[t].live] \in RoomObj
                                     /\ Behind(heap[task[t].live])
BY DEF RoomsIInv, ShapesOK, RunsOK, RunOK, CellsOK, ObjOK, TaskRow

\* The refresh query reads a snapshot that is behind the database.
LEMMA RefreshQueryOK ==
    ASSUME RoomsIInv, NEW t \in Task, RefreshQuery(t)
    PROVE  RoomsIInv'
<1>1. Quiet /\ UNCHANGED <<heap, entry>>
  BY QuietFrame DEF RefreshQuery
<1>2. PICK snap \in QueryResults(R(t)) :
         task' = [task EXCEPT ![t].pc = "read", ![t].snap = snap]
  BY Zenon DEF RefreshQuery
<1> DEFINE k == [task[t] EXCEPT !.pc = "read", !.snap = snap]
<1>3. /\ task[t].pc = "queued" /\ task[t].kind # "disconnect" /\ R(t) \in Room
      /\ snap \in RoomObj /\ SnapOK(snap, task[t].room)
  BY EntryTypes, QueryOK DEF RefreshQuery, R
<1>4. /\ k \in TaskRow /\ k.pc = "read" /\ k.snap = snap /\ k.kind = task[t].kind
      /\ k.sock = task[t].sock /\ k.room = task[t].room /\ k.ref = task[t].ref
      /\ k.live = task[t].live /\ task' = [task EXCEPT ![t] = k]
  BY <1>2, <1>3, RunFacts, ZenonT(60) DEF TaskRow, Phases
<1> HIDE DEF k
<1>5. /\ k.sock \in Socket /\ k.room \in Room /\ k.kind \notin {"none", "create"}
      /\ k.ref # None /\ k.live = None
  BY <1>3, <1>4, RunFacts DEF RunShape
<1>6. RunOK(k, heap[k.live]) /\ ~Owns(k)
  BY <1>3, <1>4, <1>5
     DEF RunOK, RunShape, RunReads, RunPlays, RunVotes, RunRematches, Owns
<1> QED
  BY <1>1, <1>3, <1>4, <1>5, <1>6, StepOK, Zenon

\* A room without truth is kept in the cache or dropped.
LEMMA DroppedEntry ==
    ASSUME RoomsIInv, NEW t \in Task, task[t].pc # "idle", NEW h
    PROVE  /\ SetEntry(t, None) \in [Replica -> [Room -> Obj \cup {None}]]
           /\ CachesNow(h, SetEntry(t, None))
           /\ CachesNow(h, entry)
           /\ EntryWithoutTruth(t) \in [Replica -> [Room -> Obj \cup {None}]]
           /\ CachesNow(h, EntryWithoutTruth(t))
BY EntryTypes DEF CachesNow, EntryWithoutTruth

\* A handler that finds no truth ends.
LEMMA NoTruthOK ==
    ASSUME RoomsIInv, NEW t \in Task, NoTruth(t)
    PROVE  RoomsIInv'
<1>1. Quiet /\ task[t].pc = "read" /\ Finish(t, heap, EntryWithoutTruth(t))
  BY QuietFrame DEF NoTruth
<1> QED
  BY <1>1, KeptAll, DroppedEntry, FinishOK

\* The Socket.IO room of the run gains or loses its socket.
LEMMA JoinedTypes ==
    ASSUME RoomsIInv, NEW t \in Task, task[t].pc # "idle"
    PROVE  /\ joined \in [Room -> SUBSET Socket]
           /\ [joined EXCEPT ![R(t)] = @ \cup {S(t)}] \in [Room -> SUBSET Socket]
           /\ [joined EXCEPT ![R(t)] = @ \ {S(t)}] \in [Room -> SUBSET Socket]
<1>1. joined \in [Room -> SUBSET Socket] /\ S(t) \in Socket /\ R(t) \in Room
  BY EntryTypes DEF RoomsIInv, ShapesOK
<1> QED
  BY <1>1

\* The created room is cached as the row was inserted.
LEMMA CreateDoneOK ==
    ASSUME RoomsIInv, NEW t \in Task, CreateDone(t)
    PROVE  RoomsIInv'
<1> USE LedgerAssumption
<1> DEFINE o == [task[t].snap EXCEPT !.status = "waiting", !.white = U(t),
                                  !.att[U(t)] = S(t)]
<1>1. task[t].kind = "create" /\ task[t].pc = "txdone"
  BY DEF CreateDone
<1>2. Quiet
  <2>1. joined' \in {joined, [joined EXCEPT ![R(t)] = @ \cup {S(t)}]}
    BY DEF CreateDone
  <2> QED
    BY <1>1, <2>1, JoinedTypes DEF CreateDone, Quiet, RoomsIInv, ShapesOK
<1>3. CASE task[t].out = "ok"
  <2>1. Return(t, o)
    BY <1>3 DEF CreateDone
  <2> DEFINE g == task[t].snap.game
  <2>2. /\ g \in Game /\ games[g].status # "absent" /\ games[g].white = U(t)
        /\ games[g].home = R(t) /\ task[t].snap = [Blank EXCEPT !.game = g]
    BY <1>1, <1>3, RunFacts DEF RunReads, U, UserOf, R
  <2>3. U(t) \in User /\ S(t) \in Socket
    BY <1>1, EntryTypes
  <2>4. /\ o \in RoomObj /\ o.status = "waiting" /\ o.white = U(t) /\ o.black = None
        /\ o.game = g /\ o.n = 0 /\ o.board = StartBoard
    BY <2>2, <2>3, BlankOK, Zenon DEF RoomObj, Blank
  <2>5. Len(moves[g]) \in Nat
    BY <2>2 DEF RoomsIInv, LedgerInv, LedgerTypeOK
  <2> HIDE DEF o, g
  <2>6. Live(o) /\ Behind(o) /\ games[o.game].home = R(t)
    BY <2>2, <2>4, <2>5 DEF Live, Behind, StartBoard
  <2> QED
    BY <1>1, <1>2, <2>1, <2>4, <2>6, ReturnOK
<1>4. CASE task[t].out # "ok"
  <2>1. Finish(t, heap, entry)
    BY <1>4 DEF CreateDone
  <2> QED
    BY <1>1, <1>2, <2>1, KeptAll, FinishOK
<1> QED
  BY <1>3, <1>4

\* What the run that goes on with a refreshed object looks like.
Going(t, pc, res) ==
    [task[t] EXCEPT !.pc = pc, !.live = NewObj, !.snap = Blank, !.res = res]

\* A run that goes on with an object that supports its step is well-formed.
LEMMA GoingOK ==
    ASSUME RoomsIInv, NEW t \in Task, CellFree, task[t].pc = "read",
           NEW pc \in Phases, NEW res \in {"none", "no", "checkmate", "draw", "resign"}
    PROVE  LET k == Going(t, pc, res)
           IN  /\ k \in TaskRow /\ k.pc = pc /\ k.res = res /\ k.live = NewObj
               /\ k.live # None
               /\ k.kind = task[t].kind /\ k.sock = task[t].sock /\ k.room = task[t].room
               /\ k.ref = task[t].ref /\ k.snap = Blank /\ k.out = task[t].out
               /\ k.kind # "create" /\ k.kind # "none" /\ k.kind # "disconnect"
               /\ k.sock \in Socket /\ k.room \in Room
               /\ k.room = R(t) /\ UserOf(k) = U(t)
<1> DEFINE k == Going(t, pc, res)
<1>1. task[t] \in TaskRow /\ NewObj \in Obj /\ Blank \in RoomObj
  BY RunFacts, BlankOK, NewCell
<1>2. /\ k \in TaskRow /\ k.pc = pc /\ k.res = res /\ k.live = NewObj
      /\ k.kind = task[t].kind /\ k.sock = task[t].sock /\ k.room = task[t].room
      /\ k.ref = task[t].ref /\ k.snap = Blank /\ k.out = task[t].out
  BY <1>1, ZenonT(60) DEF Going, TaskRow
<1> HIDE DEF k
<1>3. /\ task[t].kind # "create" /\ task[t].kind # "none" /\ task[t].kind # "disconnect"
      /\ task[t].sock \in Socket /\ task[t].room \in Room
  BY RunFacts, Zenon DEF RunShape, RunReads
<1> QED
  BY <1>1, <1>2, <1>3, RoomsAssumption DEF R, U, UserOf, k

\* A run goes on with its refreshed object, having checked what the step needs.
LEMMA ProceedsOK ==
    ASSUME RoomsIInv, Quiet, NEW t \in Task, task[t].pc = "read",
           NEW o \in RoomObj, Live(o), Behind(o), games[o.game].home = R(t),
           NEW pc \in {"tx", "presence", "settle", "unvote", "vote"},
           NEW res \in {"none", "no", "checkmate", "draw", "resign"},
           ProceedWith(t, o, pc, res),
           pc = "tx" => \/ task[t].kind = "join" /\ o.white # U(t)
                        \/ task[t].kind = "move" /\ o.black # None,
           pc = "settle" => o.black # None /\ res \in {"checkmate", "draw", "resign"},
           pc = "vote" => o.status = "finished" /\ U(t) \in Seats(games[o.game])
    PROVE  RoomsIInv'
<1> DEFINE k == Going(t, pc, res)
<1>1. CellFree
  BY DEF ProceedWith
<1>2. pc \in Phases
  BY DEF Phases
<1>3. /\ k \in TaskRow /\ k.pc = pc /\ k.res = res /\ k.live = NewObj
      /\ k.live # None
      /\ k.kind = task[t].kind /\ k.sock = task[t].sock /\ k.room = task[t].room
      /\ k.ref = task[t].ref /\ k.snap = Blank /\ k.out = task[t].out
      /\ k.kind # "create" /\ k.kind # "none" /\ k.kind # "disconnect"
      /\ k.sock \in Socket /\ k.room \in Room
      /\ k.room = R(t) /\ UserOf(k) = U(t)
  BY <1>1, <1>2, GoingOK
<1> HIDE DEF k
<1>4. RunShape(k) /\ RunReads(k) /\ RunRematches(k)
  BY <1>3 DEF RunShape, RunReads, RunRematches
<1>5. RunPlays(k, o) /\ RunVotes(k, o)
  BY <1>3 DEF RunPlays, RunVotes
<1>6. k \in TaskRow /\ RunOK(k, o)
  BY <1>3, <1>4, <1>5 DEF RunOK
<1> QED
  BY <1>6, ProceedOK, Zenon DEF k, Going

\* Objects that agree but for sockets and chain say the same of the game.
LEMMA CoreSame ==
    ASSUME NEW x, NEW o, Core(x) = Core(o)
    PROVE  /\ x.status = o.status /\ x.game = o.game /\ x.white = o.white
           /\ x.black = o.black /\ x.board = o.board /\ x.n = o.n
           /\ Live(x) <=> Live(o)
           /\ Behind(x) <=> Behind(o)
           /\ Players(x) = Players(o)
<1>1. /\ x.status = o.status /\ x.game = o.game /\ x.white = o.white
      /\ x.black = o.black /\ x.board = o.board /\ x.n = o.n
  BY DEF Core
<1> QED
  BY <1>1 DEF Live, Behind, Players

\* The object a handler decides on, also with a socket set or cleared.
LEMMA DecideOn ==
    ASSUME RoomsIInv, NEW t \in Task, task[t].pc = "read", Live(task[t].snap)
    PROVE  /\ task[t].pc \notin {"idle", "hydrating"}
           /\ Refreshed(t) \in RoomObj /\ Live(Refreshed(t)) /\ Behind(Refreshed(t))
           /\ games[Refreshed(t).game].home = R(t)
           /\ U(t) \in User /\ S(t) \in Socket
           /\ Attached(Refreshed(t), S(t)) => U(t) \in Seats(games[Refreshed(t).game])
           /\ \A s \in Socket \cup {None} :
                 LET x == [Refreshed(t) EXCEPT !.att[U(t)] = s]
                 IN  /\ x \in RoomObj /\ Live(x) /\ Behind(x) /\ games[x.game].home = R(t)
                     /\ Core(x) = Core(Refreshed(t))
<1> DEFINE o == Refreshed(t)
<1>1. /\ o \in RoomObj /\ Live(o) /\ Behind(o)
      /\ games[o.game].home = R(t)
      /\ o.att = [u \in User |-> IF u \in Players(task[t].snap)
                                     THEN heap[Current(t)].att[u] ELSE None]
      /\ Players(o) = Players(task[t].snap)
  BY RefreshedOK
<1>2. U(t) \in User /\ S(t) \in Socket /\ U(t) = Owner[S(t)]
  BY EntryTypes DEF U, S
<1>3. None \notin Socket
  BY RoomsAssumption
<1> HIDE DEF o
<1>4. Attached(o, S(t)) => U(t) \in Players(o)
  BY <1>1, <1>2, <1>3 DEF Attached
<1>5. Players(o) \subseteq Seats(games[o.game])
  BY <1>1 DEF Behind, Players, Seats
<1>6. ASSUME NEW s \in Socket \cup {None}
      PROVE  LET x == [o EXCEPT !.att[U(t)] = s]
             IN  /\ x \in RoomObj /\ Live(x) /\ Behind(x) /\ games[x.game].home = R(t)
                 /\ Core(x) = Core(o)
  <2> DEFINE x == [o EXCEPT !.att[U(t)] = s]
  <2>0. x = [o EXCEPT !.att[U(t)] = s] /\ o \in RoomObj /\ U(t) \in User
    BY <1>1, <1>2
  <2> HIDE DEF x
  <2>1. x \in RoomObj /\ Core(x) = Core(o)
    <3>1. /\ x.status = o.status /\ x.game = o.game /\ x.white = o.white
          /\ x.black = o.black /\ x.board = o.board /\ x.n = o.n
      BY <2>0 DEF RoomObj
    <3>2. x \in RoomObj
      BY <2>0 DEF RoomObj
    <3> QED
      BY <3>1, <3>2 DEF Core
  <2>2. Live(x) /\ Behind(x) /\ games[x.game].home = R(t)
    BY <1>1, <2>1, CoreSame
  <2> QED
    BY <2>1, <2>2 DEF x
<1> QED
  BY <1>1, <1>2, <1>4, <1>5, <1>6 DEF o

\* A returning player is attached to the refreshed object.
LEMMA JoinReconnectOK ==
    ASSUME RoomsIInv, NEW t \in Task, JoinReconnect(t)
    PROVE  RoomsIInv'
<1> DEFINE o == Refreshed(t)
           a == [o EXCEPT !.att[U(t)] = S(t)]
<1>1. task[t].pc = "read" /\ Live(task[t].snap)
  BY DEF JoinReconnect, Decides
<1>2. Quiet
  BY <1>1, JoinedTypes DEF JoinReconnect, Quiet, RoomsIInv, ShapesOK
<1>3. a \in RoomObj /\ Live(a) /\ Behind(a) /\ games[a.game].home = R(t)
  BY <1>1, DecideOn
<1>4. Return(t, a) \/ ProceedWith(t, a, "presence", "none")
  BY DEF JoinReconnect, Proceed
<1> HIDE DEF a
<1> QED
  BY <1>1, <1>2, <1>3, <1>4, ReturnOK, ProceedsOK

\* A refused join leaves the refreshed object.
LEMMA JoinRefusedOK ==
    ASSUME RoomsIInv, NEW t \in Task, JoinRefused(t)
    PROVE  RoomsIInv'
<1>1. task[t].pc = "read" /\ Live(task[t].snap) /\ Throw(t, Refreshed(t)) /\ Quiet
  BY QuietFrame DEF JoinRefused, Decides
<1> QED
  BY <1>1, DecideOn, ThrowOK

\* A claim is made for someone who is not white.
LEMMA JoinClaimOK ==
    ASSUME RoomsIInv, NEW t \in Task, JoinClaim(t)
    PROVE  RoomsIInv'
<1>1. /\ task[t].pc = "read" /\ Live(task[t].snap) /\ task[t].kind = "join"
      /\ ProceedWith(t, Refreshed(t), "tx", "none") /\ Quiet
      /\ U(t) \notin Players(Refreshed(t))
  BY QuietFrame DEF JoinClaim, Decides, Proceed
<1>2. U(t) # None
  BY <1>1, DecideOn, LedgerAssumption
<1>3. Refreshed(t).white # U(t)
  BY <1>1, <1>2 DEF Players
<1> QED
  BY <1>1, <1>3, DecideOn, ProceedsOK

\* A refused move leaves the refreshed object.
LEMMA MoveRefusedOK ==
    ASSUME RoomsIInv, NEW t \in Task, MoveRefused(t)
    PROVE  RoomsIInv'
<1>1. task[t].pc = "read" /\ Live(task[t].snap) /\ Return(t, Refreshed(t)) /\ Quiet
  BY QuietFrame DEF MoveRefused, Decides
<1> QED
  BY <1>1, DecideOn, ReturnOK

\* A move is tried on an object with both players.
LEMMA MoveDecideOK ==
    ASSUME RoomsIInv, NEW t \in Task, MoveDecide(t)
    PROVE  RoomsIInv'
<1>1. /\ task[t].pc = "read" /\ Live(task[t].snap) /\ task[t].kind = "move"
      /\ ProceedWith(t, Refreshed(t), "tx", "none") /\ Quiet
      /\ Refreshed(t).status = "playing"
  BY QuietFrame DEF MoveDecide, Decides, Proceed
<1>2. Refreshed(t).black # None
  BY <1>1, DecideOn DEF Behind
<1> QED
  BY <1>1, <1>2, DecideOn, ProceedsOK

\* game_over settles only a board that is over.
LEMMA GameOverDecideOK ==
    ASSUME RoomsIInv, NEW t \in Task, GameOverDecide(t)
    PROVE  RoomsIInv'
<1> DEFINE o == Refreshed(t)
<1>1. /\ task[t].pc = "read" /\ Live(task[t].snap) /\ Quiet
      /\ \/ ProceedWith(t, o, "settle", o.board.over) /\ o.board.over # "no"
         \/ Return(t, o)
  BY QuietFrame DEF GameOverDecide, Decides
<1>2. /\ o \in RoomObj /\ Live(o) /\ Behind(o) /\ games[o.game].home = R(t)
  BY <1>1, DecideOn
<1> HIDE DEF o
<1>3. o.board.over \in {"no", "checkmate", "draw"}
  BY <1>2 DEF RoomObj, Board
<1>4. o.board.over # "no" => o.black # None
  BY <1>2 DEF Behind
<1> QED
  BY <1>1, <1>2, <1>3, <1>4, ReturnOK, ProceedsOK

\* A resignation settles only a game in play.
LEMMA ResignDecideOK ==
    ASSUME RoomsIInv, NEW t \in Task, ResignDecide(t)
    PROVE  RoomsIInv'
<1> DEFINE o == Refreshed(t)
<1>1. /\ task[t].pc = "read" /\ Live(task[t].snap) /\ Quiet
      /\ \/ ProceedWith(t, o, "settle", "resign") /\ o.status = "playing"
         \/ Return(t, o)
  BY QuietFrame DEF ResignDecide, Decides
<1>2. /\ o \in RoomObj /\ Live(o) /\ Behind(o) /\ games[o.game].home = R(t)
  BY <1>1, DecideOn
<1> HIDE DEF o
<1>3. o.status = "playing" => o.black # None
  BY <1>2 DEF Behind
<1> QED
  BY <1>1, <1>2, <1>3, ReturnOK, ProceedsOK

\* A leave settles a game in play, or detaches the player.
LEMMA LeaveDecideOK ==
    ASSUME RoomsIInv, NEW t \in Task, LeaveDecide(t)
    PROVE  RoomsIInv'
<1> DEFINE o == Refreshed(t)
           d == Detach(o, S(t))
<1>1. /\ task[t].pc = "read" /\ Live(task[t].snap) /\ Quiet
      /\ \/ ProceedWith(t, o, "settle", "resign") /\ o.status = "playing"
         \/ ProceedWith(t, d, "unvote", "none")
         \/ Return(t, o)
  BY QuietFrame DEF LeaveDecide, Decides, Proceed
<1>2. /\ o \in RoomObj /\ Live(o) /\ Behind(o) /\ games[o.game].home = R(t)
  BY <1>1, DecideOn
<1>3. /\ d \in RoomObj /\ Live(d) /\ Behind(d) /\ games[d.game].home = R(t)
  BY <1>1, DecideOn DEF Detach, U, S
<1> HIDE DEF o, d
<1>4. o.status = "playing" => o.black # None
  BY <1>2 DEF Behind
<1> QED
  BY <1>1, <1>2, <1>3, <1>4, ReturnOK, ProceedsOK

\* A vote is a player's, on a finished game.
LEMMA AcceptDecideOK ==
    ASSUME RoomsIInv, NEW t \in Task, AcceptDecide(t)
    PROVE  RoomsIInv'
<1> DEFINE o == Refreshed(t)
<1>1. /\ task[t].pc = "read" /\ Live(task[t].snap) /\ Quiet
      /\ \/ ProceedWith(t, o, "vote", "none") /\ o.status = "finished" /\ Attached(o, S(t))
         \/ Return(t, o)
  BY QuietFrame DEF AcceptDecide, Decides, Proceed
<1>2. /\ o \in RoomObj /\ Live(o) /\ Behind(o) /\ games[o.game].home = R(t)
      /\ Attached(o, S(t)) => U(t) \in Seats(games[o.game])
  BY <1>1, DecideOn
<1> HIDE DEF o
<1> QED
  BY <1>1, <1>2, ReturnOK, ProceedsOK

\* One cell is overwritten: only its sockets, or by the run whose object it is.
LEMMA OneWrite ==
    ASSUME RoomsIInv, NEW t \in Task, NEW l \in Obj, NEW h \in [Obj -> RoomObj],
           \/ Core(h[l]) = Core(heap[l])
           \/ /\ Owns(task[t]) /\ l = task[t].live /\ Live(h[l]) /\ Behind(h[l])
              /\ games[h[l].game].home = games[heap[l].game].home,
           \A o \in Obj : o # l => h[o] = heap[o]
    PROVE  /\ WritesNow(t, h) /\ CachesNow(h, entry)
           /\ \A o \in Obj : Live(heap[o]) =>
                 Live(h[o]) /\ games[h[o].game].home = games[heap[o].game].home
<1>1. WritesNow(t, h)
  BY DEF WritesNow
<1>2. CachesNow(h, entry)
  BY DEF CachesNow
<1>3. Live(heap[l]) => Live(h[l]) /\ games[h[l].game].home = games[heap[l].game].home
  BY CoreSame
<1> QED
  BY <1>1, <1>2, <1>3

\* A run goes on after writing objects.
LEMMA WriteOK ==
    ASSUME RoomsIInv, Quiet, NEW t \in Task, task[t].pc # "hydrating",
           NEW h \in [Obj -> RoomObj], WritesNow(t, h),
           \A o \in Obj : Live(heap[o]) =>
              Live(h[o]) /\ games[h[o].game].home = games[heap[o].game].home,
           NEW k \in TaskRow, Update(h, [task EXCEPT ![t] = k], entry),
           RunOK(k, h[k.live]), k.ref = task[t].ref, k.room = task[t].room,
           k.live # None => Live(h[k.live]),
           Owns(k) => Owns(task[t]) /\ k.live = task[t].live
    PROVE  RoomsIInv'
<1> DEFINE tk == [task EXCEPT ![t] = k]
<1>0. task \in [Task -> TaskRow]
  BY RunFacts
<1>1. tk[t] = k /\ tk = [q \in Task |-> IF q = t THEN tk[t] ELSE task[q]]
  BY <1>0, Zenon
<1>2. Update(h, tk, entry)
  OBVIOUS
<1> HIDE DEF tk
<1>3. Moves(t, k, h, entry)
  BY <1>1, <1>2, UpdateMoves
<1>4. k.ref # None => Live(h[k.ref]) /\ games[h[k.ref].game].home = k.room
  BY RunFacts
<1>5. CachesNow(h, entry) /\ entry \in [Replica -> [Room -> Obj \cup {None}]]
  BY DEF CachesNow, RoomsIInv, ShapesOK
<1> QED
  BY <1>3, <1>4, <1>5, QuietOK

\* The second player is shown after the claim has committed.
LEMMA JoinSeatedOK ==
    ASSUME RoomsIInv, NEW t \in Task, JoinSeated(t)
    PROVE  RoomsIInv'
<1> USE LedgerAssumption
<1> DEFINE l == task[t].live
           o == heap[l]
           x == [o EXCEPT !.black = U(t), !.status = "playing", !.att[U(t)] = S(t)]
           k == [task[t] EXCEPT !.pc = "presence"]
           h == [heap EXCEPT ![l] = x]
<1>1. task[t].kind = "join" /\ task[t].pc = "txdone"
  BY DEF JoinSeated
<1>2. Quiet
  <2>1. joined' \in {joined, [joined EXCEPT ![R(t)] = @ \cup {S(t)}]}
    BY DEF JoinSeated
  <2> QED
    BY <1>1, <2>1, JoinedTypes DEF JoinSeated, Quiet, RoomsIInv, ShapesOK
<1>3. CASE task[t].out = "ok"
  <2>0. task[t] \in TaskRow /\ task \in [Task -> TaskRow] /\ heap \in [Obj -> RoomObj]
    BY RunFacts
  <2>1. /\ l \in Obj /\ l # None /\ o \in RoomObj /\ Live(o) /\ Behind(o)
        /\ task[t].sock \in Socket /\ task[t].room \in Room
        /\ games[o.game].black = U(t) /\ games[o.game].home = task[t].room
    BY <1>1, <1>3, RunFacts, RoomsAssumption DEF RunShape, RunPlays, U, UserOf
  <2>2. U(t) \in User /\ S(t) \in Socket
    BY <1>1, EntryTypes
  <2>3. /\ x \in RoomObj /\ x.status = "playing" /\ x.black = U(t) /\ x.game = o.game
        /\ x.white = o.white /\ x.n = o.n /\ x.board = o.board
    BY <2>1, <2>2, Zenon DEF RoomObj
  <2>4. Live(x) /\ Behind(x)
    <3> HIDE DEF x, o
    <3> QED
      BY <2>1, <2>2, <2>3 DEF Live, Behind
  <2>5. Owns(task[t])
    BY <1>1, <2>1 DEF Owns
  <2>6. /\ k \in TaskRow /\ k.pc = "presence" /\ k.kind = "join" /\ k.live = l
        /\ k.sock = task[t].sock /\ k.room = task[t].room /\ k.ref = task[t].ref
    BY <1>1, <2>0 DEF TaskRow, Phases
  <2>7. Update(h, [task EXCEPT ![t] = k], entry)
    <3>1. h = [heap EXCEPT ![l].black = U(t), ![l].status = "playing",
                                       ![l].att[U(t)] = S(t)]
      BY <2>0, <2>1, Zenon
    <3>2. [task EXCEPT ![t] = k] = Step(t, "presence")
      BY <2>0 DEF Step
    <3> QED
      BY <1>3, <3>1, <3>2, Zenon DEF JoinSeated
  <2>8. h = [heap EXCEPT ![l] = x] /\ l = task[t].live /\ o = heap[l]
    OBVIOUS
  <2> HIDE DEF x, k, h, l, o
  <2>11. /\ h \in [Obj -> RoomObj] /\ h[l] = x /\ \A z \in Obj : z # l => h[z] = heap[z]
         /\ games[h[l].game].home = games[heap[l].game].home
    BY <2>0, <2>1, <2>3, <2>8
  <2>9. RunOK(k, x)
    BY <2>1, <2>3, <2>6
       DEF RunOK, RunShape, RunReads, RunPlays, RunVotes, RunRematches, UserOf
  <2>10. /\ h \in [Obj -> RoomObj] /\ h[l] = x /\ WritesNow(t, h)
         /\ \A z \in Obj : Live(heap[z]) =>
               Live(h[z]) /\ games[h[z].game].home = games[heap[z].game].home
    BY <2>1, <2>4, <2>5, <2>8, <2>11, OneWrite, ZenonT(60)
  <2> QED
    BY <1>1, <1>2, <2>4, <2>5, <2>6, <2>7, <2>9, <2>10, WriteOK DEF l
<1>4. CASE task[t].out # "ok"
  <2>1. Finish(t, heap, Evicted(t, heap, entry))
    BY <1>4 DEF JoinSeated
  <2> QED
    BY <1>1, <1>2, <2>1, KeptAll, EvictedCaches, FinishOK
<1> QED
  BY <1>3, <1>4

\* The presence answer ends the join.
LEMMA JoinPresenceOK ==
    ASSUME RoomsIInv, NEW t \in Task, JoinPresence(t)
    PROVE  RoomsIInv'
<1> DEFINE o == heap[task[t].live]
<1>1. task[t].kind = "join" /\ task[t].pc = "presence" /\ Finish(t, heap, entry)
  BY DEF JoinPresence
<1>2. o.game \in Game
  BY <1>1, RunFacts DEF RunShape, Behind
<1>3. started' \in [Socket -> Game \cup {None}]
  <2>1. GameStart(R(t), o.game) \/ started' = started
    BY DEF JoinPresence
  <2>2. started \in [Socket -> Game \cup {None}]
    BY DEF RoomsIInv, ShapesOK
  <2> QED
    BY <1>2, <2>1, <2>2 DEF GameStart
<1>4. Quiet
  BY <1>3 DEF JoinPresence, Quiet, RoomsIInv, ShapesOK
<1> QED
  BY <1>1, <1>4, KeptAll, FinishOK

\* The object follows a move that is recorded.
LEMMA MoveDoneOK ==
    ASSUME RoomsIInv, NEW t \in Task, MoveDone(t)
    PROVE  RoomsIInv'
<1> USE LedgerAssumption
<1> DEFINE l == task[t].live
           o == heap[l]
           over == task[t].res
           x == [o EXCEPT !.board = [turn |-> Other(ColorIn(o, S(t))), over |-> over],
                          !.n = o.n + 1]
           k == [task[t] EXCEPT !.pc = "settle"]
           h == [heap EXCEPT ![l] = x]
<1>1. task[t].kind = "move" /\ task[t].pc = "txdone"
  BY DEF MoveDone
<1>2. Quiet
  BY QuietFrame DEF MoveDone
<1>3. task[t] \in TaskRow /\ task \in [Task -> TaskRow] /\ heap \in [Obj -> RoomObj]
  BY RunFacts
<1>4. /\ l \in Obj /\ l # None /\ o \in RoomObj /\ Live(o) /\ Behind(o)
      /\ task[t].sock \in Socket /\ task[t].room \in Room
      /\ over \in {"no", "checkmate", "draw"} /\ o.n < Len(moves[o.game])
      /\ o.black # None /\ games[o.game].home = task[t].room
  BY <1>1, RunFacts DEF RunShape, RunPlays
<1>5. /\ x \in RoomObj /\ x.status = o.status /\ x.black = o.black /\ x.game = o.game
      /\ x.white = o.white /\ x.n = o.n + 1
  <2> DEFINE b == [turn |-> Other(ColorIn(o, S(t))), over |-> over]
  <2>1. b \in Board
    BY <1>4 DEF Board, Other, ColorIn, Color
  <2>2. x = [o EXCEPT !.board = b, !.n = o.n + 1] /\ o \in RoomObj /\ o.n + 1 \in Nat
    BY <1>4 DEF RoomObj
  <2> HIDE DEF b, x, o
  <2> QED
    BY <2>1, <2>2, Zenon DEF RoomObj
<1>6. o.n \in Nat /\ Len(moves[o.game]) \in Nat
  <2>1. o.n \in Nat
    BY <1>4 DEF RoomObj
  <2>2. o.game \in Game /\ moves \in [Game -> Seq(Color)]
    BY <1>4 DEF Behind, RoomsIInv, LedgerInv, LedgerTypeOK
  <2>3. moves[o.game] \in Seq(Color)
    BY <2>2
  <2> QED
    BY <2>1, <2>3
<1>7. Live(x) /\ Behind(x)
  <2> HIDE DEF x, o
  <2> QED
    BY <1>4, <1>5, <1>6 DEF Live, Behind
<1>8. Owns(task[t])
  BY <1>1, <1>4 DEF Owns
<1>9. h = [heap EXCEPT ![l].board = [turn |-> Other(ColorIn(o, S(t))), over |-> over],
                       ![l].n = @ + 1]
  BY <1>3, <1>4, Zenon
<1>10. /\ h = [heap EXCEPT ![l] = x] /\ l = task[t].live
       /\ games[x.game].home = games[heap[l].game].home
  BY <1>5
<1>11. /\ h \in [Obj -> RoomObj] /\ h[l] = x /\ WritesNow(t, h) /\ CachesNow(h, entry)
       /\ \A z \in Obj : Live(heap[z]) =>
             Live(h[z]) /\ games[h[z].game].home = games[heap[z].game].home
  <2> HIDE DEF x, h
  <2>1. h \in [Obj -> RoomObj] /\ h[l] = x /\ \A z \in Obj : z # l => h[z] = heap[z]
    BY <1>3, <1>4, <1>5, <1>10
  <2>2. /\ Live(h[l]) /\ Behind(h[l]) /\ Owns(task[t]) /\ l \in Obj
        /\ games[h[l].game].home = games[heap[l].game].home /\ l = task[t].live
    BY <1>4, <1>7, <1>8, <1>10, <2>1
  <2> HIDE DEF l
  <2> QED
    BY <2>1, <2>2, OneWrite
<1>12. CASE over = "no"
  <2>1. Finish(t, h, entry)
    <3> HIDE DEF h
    <3> QED
      BY <1>9, <1>12 DEF MoveDone
  <2> HIDE DEF h
  <2> QED
    BY <1>1, <1>2, <1>11, <2>1, KeptAll, FinishOK
<1>13. CASE over # "no"
  <2>1. Update(h, Step(t, "settle"), entry)
    <3> HIDE DEF h
    <3> QED
      BY <1>9, <1>13 DEF MoveDone
  <2>2. [task EXCEPT ![t] = k] = Step(t, "settle")
    BY <1>3 DEF Step
  <2>3. /\ k \in TaskRow /\ k.pc = "settle" /\ k.kind = "move" /\ k.live = l
        /\ k.sock = task[t].sock /\ k.room = task[t].room /\ k.ref = task[t].ref
        /\ k.res = over
    BY <1>1, <1>3 DEF TaskRow, Phases
  <2> HIDE DEF x, k, h, l, o, over
  <2>4. RunOK(k, x)
    BY <1>4, <1>5, <1>13, <2>3
       DEF RunOK, RunShape, RunReads, RunPlays, RunVotes, RunRematches, UserOf
  <2> QED
    BY <1>1, <1>2, <1>7, <1>8, <1>11, <2>1, <2>2, <2>3, <2>4, WriteOK DEF l
<1> QED
  BY <1>12, <1>13

\* A detached object is otherwise the same.
LEMMA DetachOK ==
    ASSUME NEW o \in RoomObj, NEW s \in Socket
    PROVE  /\ Detach(o, s) \in RoomObj /\ Core(Detach(o, s)) = Core(o)
           /\ Detach(o, s).tail = o.tail
           /\ Detach(o, s).att = [o.att EXCEPT ![Owner[s]] = None]
<1> DEFINE x == Detach(o, s)
<1>0. x = [o EXCEPT !.att = [o.att EXCEPT ![Owner[s]] = None]] /\ Owner[s] \in User
  BY RoomsAssumption DEF Detach
<1> HIDE DEF x
<1>1. /\ x.status = o.status /\ x.game = o.game /\ x.white = o.white /\ x.tail = o.tail
      /\ x.black = o.black /\ x.board = o.board /\ x.n = o.n
      /\ x.att = [o.att EXCEPT ![Owner[s]] = None]
  BY <1>0 DEF RoomObj
<1>2. x \in RoomObj
  BY <1>0 DEF RoomObj
<1>3. Core(x) = Core(o)
  BY <1>1 DEF Core
<1> QED
  BY <1>1, <1>2, <1>3 DEF x

\* The object after a settlement shows an end only when it is committed.
LEMMA AfterSettleOK ==
    ASSUME RoomsIInv, NEW t \in Task, task[t].pc = "settled"
    PROVE  LET l == task[t].live
               h == AfterSettle(t)
           IN  /\ l \in Obj /\ Owns(task[t]) /\ S(t) \in Socket
               /\ h \in [Obj -> RoomObj]
               /\ \A o \in Obj : o # l => h[o] = heap[o]
               /\ Live(h[l]) /\ Behind(h[l]) /\ h[l].game = heap[l].game
               /\ h[l].tail = heap[l].tail /\ h[l].att = heap[l].att
<1> DEFINE l == task[t].live
           o == heap[l]
           h == AfterSettle(t)
<1>1. /\ l \in Obj /\ l # None /\ o \in RoomObj /\ Live(o) /\ Behind(o) /\ S(t) \in Socket
      /\ o.black # None
      /\ task[t].out = "ok" => Finished(o.game)
      /\ heap \in [Obj -> RoomObj]
  BY RunFacts, EntryTypes, Zenon DEF RunShape, RunPlays
<1>2. Owns(task[t])
  BY <1>1 DEF Owns
<1>3. CASE task[t].out = "ok"
  <2>1. h = [heap EXCEPT ![l].status = "finished"]
    BY <1>3 DEF AfterSettle
  <2> HIDE DEF h
  <2>2. /\ h \in [Obj -> RoomObj] /\ \A z \in Obj : z # l => h[z] = heap[z]
        /\ h[l] = [o EXCEPT !.status = "finished"]
    BY <1>1, <2>1, Zenon DEF RoomObj
  <2>3. /\ h[l].status = "finished" /\ h[l].game = o.game /\ h[l].white = o.white
        /\ h[l].black = o.black /\ h[l].board = o.board /\ h[l].n = o.n
        /\ h[l].tail = o.tail /\ h[l].att = o.att
    BY <1>1, <2>2 DEF RoomObj
  <2>4. Live(h[l]) /\ Behind(h[l])
    BY <1>1, <1>3, <2>3 DEF Live, Behind
  <2> QED
    BY <1>1, <1>2, <2>2, <2>3, <2>4 DEF h
<1>4. CASE task[t].out # "ok"
  BY <1>1, <1>2, <1>4 DEF AfterSettle
<1> QED
  BY <1>3, <1>4

\* The object is finished only when the settlement committed.
LEMMA SettleDoneOK ==
    ASSUME RoomsIInv, NEW t \in Task, SettleDone(t)
    PROVE  RoomsIInv'
<1> DEFINE l == task[t].live
           h == AfterSettle(t)
<1>1. task[t].pc = "settled" /\ Quiet /\ Finish(t, h, entry)
  BY QuietFrame DEF SettleDone
<1>2. /\ l \in Obj /\ Owns(task[t]) /\ h \in [Obj -> RoomObj]
      /\ \A o \in Obj : o # l => h[o] = heap[o]
      /\ Live(h[l]) /\ Behind(h[l]) /\ h[l].game = heap[l].game
  BY <1>1, AfterSettleOK
<1>3. games[h[l].game].home = games[heap[l].game].home /\ l = task[t].live
  BY <1>2
<1> HIDE DEF l, h
<1>4. WritesNow(t, h) /\ CachesNow(h, entry)
  BY <1>2, <1>3, OneWrite
<1> QED
  BY <1>1, <1>2, <1>4, KeptAll, FinishOK

\* A blind leave detaches the object the run was queued with.
LEMMA LeaveBlindOK ==
    ASSUME RoomsIInv, NEW t \in Task, LeaveBlind(t)
    PROVE  RoomsIInv'
<1> DEFINE l == task[t].ref
           d == [heap EXCEPT ![l] = Detach(@, S(t))]
           h == IF Attached(heap[l], S(t)) THEN d ELSE heap
<1>1. task[t].pc = "read" /\ Finish(t, h, EntryWithoutTruth(t))
  BY DEF LeaveBlind
<1>2. Quiet
  <2>1. joined' \in {joined, [joined EXCEPT ![R(t)] = @ \ {S(t)}]}
    BY DEF LeaveBlind
  <2> QED
    BY <1>1, <2>1, JoinedTypes DEF LeaveBlind, Quiet, RoomsIInv, ShapesOK
<1>3. l \in Obj /\ heap[l] \in RoomObj /\ heap \in [Obj -> RoomObj] /\ S(t) \in Socket
  BY <1>1, RunFacts, EntryTypes DEF RunShape
<1>4. Detach(heap[l], S(t)) \in RoomObj /\ Core(Detach(heap[l], S(t))) = Core(heap[l])
  BY <1>3, DetachOK, Zenon
<1>5. /\ h \in [Obj -> RoomObj] /\ \A o \in Obj : o # l => h[o] = heap[o]
      /\ h[l] \in {heap[l], Detach(heap[l], S(t))}
  BY <1>3, <1>4
<1>6. Core(h[l]) = Core(heap[l])
  BY <1>4, <1>5
<1> HIDE DEF l, h
<1>7. WritesNow(t, h)
  BY <1>3, <1>5, <1>6, OneWrite
<1> QED
  BY <1>1, <1>2, <1>5, <1>7, DroppedEntry, FinishOK

\* A settled leave detaches the player from the run's object.
LEMMA LeaveSettledOK ==
    ASSUME RoomsIInv, NEW t \in Task, LeaveSettled(t)
    PROVE  RoomsIInv'
<1> DEFINE l == task[t].live
           a == AfterSettle(t)
           h == [a EXCEPT ![l] = Detach(@, S(t))]
           k == [task[t] EXCEPT !.pc = "unvote"]
<1>1. task[t].pc = "settled" /\ task[t].kind = "leave" /\ Quiet
  BY QuietFrame DEF LeaveSettled
<1>2. CASE task[t].out = "failed"
  BY <1>1, <1>2, KeptAll, FinishOK DEF LeaveSettled
<1>3. CASE task[t].out # "failed"
  <2>1. Update(h, Step(t, "unvote"), entry)
    BY <1>3 DEF LeaveSettled
  <2>2. /\ l \in Obj /\ Owns(task[t]) /\ a \in [Obj -> RoomObj] /\ S(t) \in Socket
        /\ \A o \in Obj : o # l => a[o] = heap[o]
        /\ Live(a[l]) /\ Behind(a[l]) /\ a[l].game = heap[l].game
    BY <1>1, AfterSettleOK
  <2>3. Detach(a[l], S(t)) \in RoomObj /\ Core(Detach(a[l], S(t))) = Core(a[l])
    <3> HIDE DEF a, l
    <3> QED
      BY <2>2, DetachOK, Zenon
  <2>4. /\ h \in [Obj -> RoomObj] /\ \A o \in Obj : o # l => h[o] = heap[o]
        /\ h[l] = Detach(a[l], S(t))
    <3> HIDE DEF a, l
    <3> QED
      BY <2>2, <2>3
  <2>5. /\ Live(h[l]) /\ Behind(h[l]) /\ l = task[t].live
        /\ games[h[l].game].home = games[heap[l].game].home
    <3> HIDE DEF a, h
    <3> QED
      BY <2>2, <2>3, <2>4, CoreSame
  <2>6. task[t] \in TaskRow /\ task \in [Task -> TaskRow]
    BY RunFacts
  <2>7. [task EXCEPT ![t] = k] = Step(t, "unvote")
    BY <2>6 DEF Step
  <2>8. /\ k \in TaskRow /\ k.pc = "unvote" /\ k.kind = "leave" /\ k.live = l
        /\ k.sock = task[t].sock /\ k.room = task[t].room /\ k.ref = task[t].ref
    BY <1>1, <2>6 DEF TaskRow, Phases
  <2>9. /\ k.live # None /\ games[heap[l].game].home = task[t].room
        /\ k.sock \in Socket /\ k.room \in Room
    BY <1>1, <2>2, <2>8, RunFacts, RoomsAssumption DEF RunPlays, RunShape
  <2> HIDE DEF l, a, h, k
  <2>10. RunOK(k, h[l]) /\ ~Owns(k)
    BY <2>5, <2>8, <2>9
       DEF RunOK, RunShape, RunReads, RunPlays, RunVotes, RunRematches, UserOf, Owns
  <2>11. /\ WritesNow(t, h)
         /\ \A z \in Obj : Live(heap[z]) =>
               Live(h[z]) /\ games[h[z].game].home = games[heap[z].game].home
    BY <2>2, <2>4, <2>5, OneWrite
  <2> QED
    BY <1>1, <2>1, <2>4, <2>5, <2>7, <2>8, <2>10, <2>11, WriteOK
<1> QED
  BY <1>2, <1>3

\* A disconnect detaches the socket from the object it finds.
LEMMA DisconnectDetachOK ==
    ASSUME RoomsIInv, NEW t \in Task, DisconnectDetach(t)
    PROVE  RoomsIInv'
<1> DEFINE l == Current(t)
           h == [heap EXCEPT ![l] = Detach(@, S(t))]
           k == [task[t] EXCEPT !.pc = "unvote", !.live = l]
<1>1. task[t].pc = "queued" /\ task[t].kind = "disconnect" /\ Quiet
  BY QuietFrame DEF DisconnectDetach
<1>2. CASE ~Attached(heap[l], S(t))
  BY <1>1, <1>2, KeptAll, FinishOK DEF DisconnectDetach
<1>3. CASE Attached(heap[l], S(t))
  <2>1. Update(h, [task EXCEPT ![t].pc = "unvote", ![t].live = l], entry)
    BY <1>3 DEF DisconnectDetach
  <2>2. task[t] \in TaskRow /\ task \in [Task -> TaskRow] /\ heap \in [Obj -> RoomObj]
        /\ task[t].ref \in Obj /\ Cached(t) \in Obj \cup {None} /\ S(t) \in Socket
        /\ task[t].room \in Room /\ task[t].sock \in Socket
        /\ P(t) \in Replica /\ R(t) = task[t].room /\ R(t) \in Room
    BY <1>1, RunFacts, EntryTypes DEF RunShape, R
  <2>3. /\ l \in Obj /\ Live(heap[l]) /\ heap[l] \in RoomObj
        /\ games[heap[l].game].home = task[t].room
    <3>1. CASE Cached(t) # None
      <4>1. l = entry[P(t)][R(t)] /\ entry[P(t)][R(t)] # None
        BY <3>1 DEF Current, Cached
      <4>2. Live(heap[l]) /\ games[heap[l].game].home = R(t)
        BY <2>2, <4>1 DEF RoomsIInv, CellsOK
      <4> QED
        BY <2>2, <3>1, <4>2 DEF Current
    <3>2. CASE Cached(t) = None
      BY <2>2, <3>2, RunFacts, RoomsAssumption DEF Current
    <3> QED
      BY <3>1, <3>2
  <2>4. Detach(heap[l], S(t)) \in RoomObj /\ Core(Detach(heap[l], S(t))) = Core(heap[l])
    BY <2>2, <2>3, DetachOK, Zenon
  <2>5. /\ h \in [Obj -> RoomObj] /\ \A o \in Obj : o # l => h[o] = heap[o]
        /\ Core(h[l]) = Core(heap[l])
    BY <2>2, <2>3, <2>4
  <2>6. [task EXCEPT ![t] = k] = [task EXCEPT ![t].pc = "unvote", ![t].live = l]
    BY <2>2, Zenon
  <2>7. /\ k \in TaskRow /\ k.pc = "unvote" /\ k.kind = "disconnect" /\ k.live = l
        /\ k.sock = task[t].sock /\ k.room = task[t].room /\ k.ref = task[t].ref
    BY <1>1, <2>2, <2>3, Zenon DEF TaskRow, Phases
  <2> HIDE DEF l, h, k
  <2>8. Live(h[l]) /\ games[h[l].game].home = task[t].room /\ l # None
    BY <2>3, <2>5, CoreSame, RoomsAssumption
  <2>9. RunOK(k, h[l]) /\ ~Owns(k)
    BY <2>2, <2>7, <2>8
       DEF RunOK, RunShape, RunReads, RunPlays, RunVotes, RunRematches, UserOf, Owns
  <2>10. /\ WritesNow(t, h)
         /\ \A z \in Obj : Live(heap[z]) =>
               Live(h[z]) /\ games[h[z].game].home = games[heap[z].game].home
    BY <2>3, <2>5, OneWrite
  <2> QED
    BY <1>1, <2>1, <2>5, <2>6, <2>7, <2>8, <2>9, <2>10, WriteOK
<1> QED
  BY <1>2, <1>3

\* The end of a departure removes a vote and may drop the entry.
LEMMA DepartedOK ==
    ASSUME RoomsIInv, NEW t \in Task, Departed(t)
    PROVE  RoomsIInv'
<1> DEFINE o == heap[task[t].live]
           en == IF o.status = "finished" /\ Socketless(o) THEN SetEntry(t, None) ELSE entry
<1>1. task[t].pc = "unvote" /\ Finish(t, heap, en) /\ RemoveVote(o.game, U(t))
  BY DEF Departed
<1>2. o.game \in Game
  BY <1>1, RunFacts DEF RunShape, Behind
<1>3. votes' \in [Game -> SUBSET User] /\ \A g \in Game : votes'[g] \subseteq votes[g]
  <2>1. votes' \in {votes, [votes EXCEPT ![o.game] = @ \ {U(t)}]}
    BY <1>1 DEF RemoveVote
  <2>2. votes \in [Game -> SUBSET User]
    BY DEF RoomsIInv, ShapesOK
  <2> HIDE DEF o
  <2> QED
    BY <1>2, <2>1, <2>2
<1>4. Quiet
  <2>1. joined' \in [Room -> SUBSET Socket]
    BY <1>1, JoinedTypes DEF Departed
  <2> QED
    BY <1>3, <2>1 DEF Departed, Quiet, RoomsIInv, ShapesOK
<1>5. en \in [Replica -> [Room -> Obj \cup {None}]] /\ CachesNow(heap, en)
  BY <1>1, KeptAll, DroppedEntry
<1> HIDE DEF en
<1> QED
  BY <1>1, <1>4, <1>5, KeptAll, FinishOK, Zenon

\* Two votes of a pair are the pair's.
LEMMA TwoOfTwo ==
    ASSUME NEW A, NEW a, NEW b, A \subseteq {a, b}, Cardinality(A) >= 2
    PROVE  A = {a, b}
<1>1. A # {}
  BY FS_EmptySet
<1>2. A # {a} /\ A # {b}
  <2>1. Cardinality({a}) = 1 /\ Cardinality({b}) = 1
    BY FS_Singleton, Zenon
  <2> QED
    BY <2>1
<1> QED
  BY <1>1, <1>2

\* Two votes for a game are those of both its players.
LEMMA QuorumMeansBoth ==
    ASSUME RoomsIInv, NEW g \in Game, Cardinality(votes[g]) >= 2
    PROVE  voted[g] = Seats(games[g])
<1>1. votes[g] \subseteq voted[g] /\ voted[g] \subseteq Seats(games[g])
  BY DEF RoomsIInv, VotesOK
<1>2. Seats(games[g]) \subseteq {games[g].white, games[g].black}
  BY DEF Seats
<1>3. votes[g] = {games[g].white, games[g].black}
  BY <1>1, <1>2, TwoOfTwo, Zenon
<1> QED
  BY <1>1, <1>2, <1>3

\* A count of two means that both players voted.
LEMMA CountVotesOK ==
    ASSUME RoomsIInv, NEW t \in Task, CountVotes(t)
    PROVE  RoomsIInv'
<1> DEFINE g == heap[task[t].live].game
           out == IF Cardinality(votes[g]) >= 2 THEN "ok" ELSE "no"
           k == [task[t] EXCEPT !.pc = "quorum", !.out = out]
<1>1. task[t].pc = "count" /\ Quiet
  BY QuietFrame DEF CountVotes
<1>2. CASE Finish(t, heap, entry)
  BY <1>1, <1>2, KeptAll, FinishOK
<1>3. CASE /\ task' = [task EXCEPT ![t].pc = "quorum", ![t].out = out]
           /\ UNCHANGED <<heap, entry>>
  <2>1. /\ task[t] \in TaskRow /\ task \in [Task -> TaskRow]
        /\ task[t].sock \in Socket /\ task[t].room \in Room /\ task[t].kind \notin {"none", "create"}
        /\ task[t].live # None /\ g \in Game /\ games[g].home = task[t].room
        /\ heap[task[t].live].status = "finished" /\ UserOf(task[t]) \in Seats(games[g])
    BY <1>1, RunFacts DEF RunShape, RunPlays, RunVotes, Behind
  <2>2. out \in {"ok", "no"} /\ (out = "ok" => voted[g] = Seats(games[g]))
    BY <2>1, QuorumMeansBoth
  <2> HIDE DEF out
  <2>3. /\ k \in TaskRow /\ k.pc = "quorum" /\ k.out = out /\ k.kind = task[t].kind
        /\ k.sock = task[t].sock /\ k.room = task[t].room /\ k.ref = task[t].ref
        /\ k.live = task[t].live /\ task' = [task EXCEPT ![t] = k]
    BY <1>3, <2>1, <2>2, ZenonT(60) DEF TaskRow, Phases
  <2> HIDE DEF k
  <2>4. RunOK(k, heap[k.live]) /\ Owns(task[t])
    BY <1>1, <2>1, <2>2, <2>3
       DEF RunOK, RunShape, RunReads, RunPlays, RunVotes, RunRematches, UserOf, Owns
  <2> QED
    BY <1>1, <1>3, <2>3, <2>4, StepOK, Zenon
<1> QED
  BY <1>2, <1>3 DEF CountVotes

\* The players copied at the quorum are those of the finished game.
LEMMA QuorumOK ==
    ASSUME RoomsIInv, NEW t \in Task, Quorum(t)
    PROVE  RoomsIInv'
<1> DEFINE o == heap[task[t].live]
           k == [task[t] EXCEPT !.pc = "rematch", !.snap = o]
<1>1. task[t].pc = "quorum" /\ Quiet
  BY QuietFrame DEF Quorum
<1>2. CASE Finish(t, heap, entry)
  BY <1>1, <1>2, KeptAll, FinishOK
<1>3. CASE /\ task' = [task EXCEPT ![t].pc = "rematch", ![t].snap = o]
           /\ UNCHANGED <<heap, entry>> /\ task[t].out = "ok"
  <2>1. /\ task[t] \in TaskRow /\ task \in [Task -> TaskRow] /\ o \in RoomObj
        /\ task[t].sock \in Socket /\ task[t].room \in Room /\ task[t].kind \notin {"none", "create"}
        /\ task[t].live # None /\ Behind(o) /\ games[o.game].home = task[t].room
        /\ o.status = "finished" /\ voted[o.game] = Seats(games[o.game])
    BY <1>1, <1>3, RunFacts DEF RunShape, RunPlays, RunVotes
  <2>2. /\ k \in TaskRow /\ k.pc = "rematch" /\ k.snap = o /\ k.kind = task[t].kind
        /\ k.sock = task[t].sock /\ k.room = task[t].room /\ k.ref = task[t].ref
        /\ k.live = task[t].live /\ task' = [task EXCEPT ![t] = k]
    <3> HIDE DEF o
    <3> QED
      BY <1>3, <2>1, Zenon DEF TaskRow, Phases
  <2>3. o = heap[k.live]
    BY <2>2
  <2> HIDE DEF k, o
  <2>4. RunOK(k, o) /\ Owns(task[t])
    BY <1>1, <2>1, <2>2
       DEF RunOK, RunShape, RunReads, RunPlays, RunVotes, RunRematches, UserOf, Owns
  <2> QED
    BY <1>1, <1>3, <2>2, <2>3, <2>4, StepOK, Zenon
<1> QED
  BY <1>2, <1>3 DEF Quorum

\* The run's object becomes that of the new game, seats swapped.
LEMMA RematchDoneOK ==
    ASSUME RoomsIInv, NEW t \in Task, RematchDone(t)
    PROVE  RoomsIInv'
<1> USE LedgerAssumption
<1> DEFINE l == task[t].live
           o == heap[l]
           c == task[t].snap
           x == [c EXCEPT !.status = "playing", !.white = c.black, !.black = c.white,
                          !.board = StartBoard, !.n = 0, !.tail = o.tail]
           h == [heap EXCEPT ![l] = x]
           k == [task[t] EXCEPT !.pc = "clear", !.snap = o]
<1>1. task[t].pc = "rematched" /\ Quiet
  BY QuietFrame DEF RematchDone
<1>2. Update(h, [task EXCEPT ![t].pc = "clear", ![t].snap = o], entry)
  BY DEF RematchDone
<1>3. /\ task[t] \in TaskRow /\ task \in [Task -> TaskRow] /\ heap \in [Obj -> RoomObj]
      /\ o \in RoomObj /\ c \in RoomObj /\ l \in Obj /\ l # None /\ Behind(o)
      /\ task[t].sock \in Socket /\ task[t].room \in Room /\ task[t].kind \notin {"none", "create"}
      /\ games[o.game].home = task[t].room
  BY <1>1, RunFacts DEF RunShape, RunPlays, TaskRow
<1>4. /\ c.game \in Game /\ games[c.game].status # "absent"
      /\ games[c.game].home = task[t].room
      /\ games[c.game].white = c.black /\ games[c.game].black = c.white
      /\ c.white # None /\ c.black # None
  BY <1>1, RunFacts DEF RunRematches
<1>5. Len(moves[c.game]) \in Nat
  BY <1>4 DEF RoomsIInv, LedgerInv, LedgerTypeOK
<1>6. Owns(task[t]) /\ l = task[t].live
  BY <1>1, <1>3 DEF Owns
<1>7. [task EXCEPT ![t] = k] = [task EXCEPT ![t].pc = "clear", ![t].snap = o]
  BY <1>3, Zenon
<1>8. /\ k \in TaskRow /\ k.pc = "clear" /\ k.kind = task[t].kind /\ k.live = l
      /\ k.sock = task[t].sock /\ k.room = task[t].room /\ k.ref = task[t].ref
      /\ k.snap = o
  BY <1>3, Zenon DEF TaskRow, Phases
<1>9. /\ x \in RoomObj /\ x.status = "playing" /\ x.white = c.black /\ x.black = c.white
      /\ x.n = 0 /\ x.board = StartBoard /\ x.game = c.game
  <2>1. o.tail \in Task \cup {None} /\ StartBoard \in Board
    BY <1>3 DEF RoomObj, StartBoard, Board, Color
  <2> HIDE DEF o, c
  <2> QED
    BY <1>3, <2>1, Zenon DEF RoomObj
<1>10. h \in [Obj -> RoomObj] /\ h[l] = x /\ \A z \in Obj : z # l => h[z] = heap[z]
  <2> HIDE DEF x
  <2> QED
    BY <1>3, <1>9
<1>11. o = heap[l]
  OBVIOUS
<1> HIDE DEF l, o, c, x, h, k
<1>12. Live(x) /\ Behind(x)
  BY <1>4, <1>5, <1>9 DEF Live, Behind, StartBoard
<1>13. games[h[l].game].home = games[heap[l].game].home
  BY <1>3, <1>4, <1>9, <1>10, <1>11
<1>14. /\ WritesNow(t, h)
       /\ \A z \in Obj : Live(heap[z]) =>
             Live(h[z]) /\ games[h[z].game].home = games[heap[z].game].home
  BY <1>3, <1>6, <1>10, <1>12, <1>13, OneWrite
<1>15. RunOK(k, h[l])
  BY <1>3, <1>4, <1>8, <1>9, <1>10
     DEF RunOK, RunShape, RunReads, RunPlays, RunVotes, RunRematches, UserOf, Behind
<1> QED
  BY <1>1, <1>2, <1>6, <1>7, <1>8, <1>10, <1>12, <1>14, <1>15, WriteOK

\* Clearing the votes takes nothing from what was cast.
LEMMA RematchStartOK ==
    ASSUME RoomsIInv, NEW t \in Task, RematchStart(t)
    PROVE  RoomsIInv'
<1> DEFINE g == heap[task[t].live].game
           old == task[t].snap.game
<1>1. /\ task[t].pc = "clear" /\ Finish(t, heap, entry) /\ ClearVotes(old)
      /\ GameStart(R(t), g)
  BY DEF RematchStart
<1>2. g \in Game /\ old \in Game
  BY <1>1, RunFacts, Zenon DEF RunShape, Behind, RunRematches
<1>3. votes' \in [Game -> SUBSET User] /\ \A z \in Game : votes'[z] \subseteq votes[z]
  <2>1. votes' \in {votes, [votes EXCEPT ![old] = {}]}
    BY <1>1 DEF ClearVotes
  <2>2. votes \in [Game -> SUBSET User]
    BY DEF RoomsIInv, ShapesOK
  <2> HIDE DEF old
  <2> QED
    BY <1>2, <2>1, <2>2
<1>4. started' \in [Socket -> Game \cup {None}]
  BY <1>1, <1>2 DEF GameStart, RoomsIInv, ShapesOK
<1>5. Quiet
  BY <1>3, <1>4 DEF RematchStart, Quiet, RoomsIInv, ShapesOK
<1> QED
  BY <1>1, <1>5, KeptAll, FinishOK

-----------------------------------------------------------------------------
(* Steps that commit.                                                      *)

\* A run's step changes rows or votes, and no object.
LEMMA CommitOK ==
    ASSUME RoomsIInv, [LedgerNext]_ledgerVars, VotedGrows, PlayOK', VotesOK',
           votes' \in [Game -> SUBSET User], voted' \in [Game -> SUBSET User],
           UNCHANGED <<inflight, conn, joined, started>>,
           NEW t \in Task, task[t].pc # "hydrating", NEW k \in TaskRow,
           NEW h, h = heap, NEW en, en = entry,
           Moves(t, k, h, en), RunOK(k, h[k.live])',
           k.ref \in {None, task[t].ref}, k.live \in {None, task[t].live},
           k.ref # None => k.room = task[t].room, Owns(k) => Owns(task[t])
    PROVE  RoomsIInv'
<1>1. h \in [Obj -> RoomObj] /\ en \in [Replica -> [Room -> Obj \cup {None}]]
  BY DEF RoomsIInv, ShapesOK
<1>2. Writes(t, h) /\ Caches(h, en)
  BY DEF Writes, Caches
<1>3. k.live # None => Live(h[k.live])
  BY RunFacts
<1>4. k.ref # None => Live(h[k.ref]) /\ (games[h[k.ref].game].home)' = k.room
  <2> SUFFICES ASSUME k.ref # None
               PROVE  Live(h[k.ref]) /\ (games[h[k.ref].game].home)' = k.room
    OBVIOUS
  <2>1. /\ k.ref \in Obj /\ heap[k.ref] \in RoomObj /\ Live(heap[k.ref])
        /\ games[heap[k.ref].game].home = k.room
    BY RunFacts
  <2>2. LedgerInv /\ Behind(heap[k.ref])
    BY <2>1 DEF RoomsIInv, CellsOK, ObjOK
  <2>3. Grows /\ LedgerInv'
    BY <2>2, LedgerGrows
  <2> DEFINE o == h[k.ref]
  <2>4. o \in RoomObj /\ Behind(o)
    BY <2>1, <2>2
  <2>5. games'[o.game].home = games[o.game].home
    <3> HIDE DEF o
    <3> QED
      BY <2>2, <2>3, <2>4, BehindGrows
  <2> QED
    BY <2>1, <2>5
<1>5. Owns(k) => Owns(task[t]) /\ k.live = task[t].live
  BY DEF Owns
<1>6. /\ LedgerInv' /\ CellsOK' /\ FlightsOK' /\ RunsOK' /\ ObjectsApart'
      /\ heap' \in [Obj -> RoomObj] /\ task' \in [Task -> TaskRow]
      /\ entry' \in [Replica -> [Room -> Obj \cup {None}]]
  BY <1>1, <1>2, <1>3, <1>4, <1>5, MovesOK
<1>7. ShapesOK'
  BY <1>6 DEF RoomsIInv, ShapesOK
<1> QED
  BY <1>6, <1>7 DEF RoomsIInv

\* A commit that replaces no game leaves the votes and their meaning alone.
LEMMA VotesGrow ==
    ASSUME RoomsIInv, [LedgerNext]_ledgerVars, UNCHANGED <<votes, voted>>
    PROVE  /\ VotedGrows
           /\ \A g \in Game : votes'[g] \subseteq voted'[g] /\ voted'[g] \subseteq Seats(games'[g])
           /\ \A z \in Game : games[z].prev # None =>
                 /\ games'[z].prev = games[z].prev
                 /\ Finished(games[z].prev)'
                 /\ games'[z].black # None
                 /\ Seats(games'[z]) = Seats(games'[games[z].prev])
                 /\ voted'[games[z].prev] = Seats(games'[z])
<1>1. Grows /\ LedgerInv' /\ LedgerInv /\ games \in [Game -> GameRow]
  BY LedgerGrows DEF RoomsIInv, LedgerInv, LedgerTypeOK
<1>2. ASSUME NEW g \in Game
      PROVE  /\ votes'[g] \subseteq voted'[g] /\ voted'[g] \subseteq Seats(games'[g])
             /\ voted[g] \subseteq voted'[g]
  <2>1. votes[g] \subseteq voted[g] /\ voted[g] \subseteq Seats(games[g])
    BY DEF RoomsIInv, VotesOK
  <2>2. CASE games[g].status = "absent"
    <3>1. Seats(games[g]) = {}
      BY <1>1, <2>2 DEF LedgerInv, RowsWellFormed, RowWellFormed, NoGame, Seats
    <3> QED
      BY <2>1, <3>1
  <2>3. CASE games[g].status # "absent"
    BY <1>1, <2>1, <2>3, SeatsGrow
  <2> QED
    BY <2>2, <2>3
<1>3. ASSUME NEW z \in Game, games[z].prev # None
      PROVE  /\ games'[z].prev = games[z].prev
             /\ Finished(games[z].prev)'
             /\ games'[z].black # None
             /\ Seats(games'[z]) = Seats(games'[games[z].prev])
             /\ voted'[games[z].prev] = Seats(games'[z])
  <2>0. PICK g : g = games[z].prev
    OBVIOUS
  <2>1. games[z].status # "absent"
    BY <1>1, <1>3 DEF LedgerInv, RowsWellFormed, RowWellFormed, NoGame
  <2>2. g \in Game
    BY <1>1, <1>3, <2>0 DEF GameRow
  <2>3. /\ Finished(g) /\ games[z].black # None /\ Seats(games[z]) = Seats(games[g])
        /\ voted[g] = Seats(games[z])
    BY <1>3, <2>0 DEF RoomsIInv, VotesOK
  <2>4. games'[z].prev = g
    BY <1>1, <2>0, <2>1 DEF Grows
  <2>5. games[g].status # "absent" /\ games[g].black # None
    BY <1>1, <2>2, <2>3, FinishedHasBoth DEF Finished
  <2>6. Seats(games'[z]) = Seats(games[z]) /\ Seats(games'[g]) = Seats(games[g])
    BY <1>1, <2>1, <2>2, <2>3, <2>5, SeatsGrow
  <2>7. Finished(g)' /\ games'[z].black # None
    <3>1. games[z].black \in {None, games'[z].black}
      BY <1>1, <2>1 DEF Grows
    <3>2. Finished(g) => Finished(g)'
      BY <1>1, <2>2, <2>5 DEF Grows
    <3> QED
      BY <2>3, <3>1, <3>2
  <2>8. Seats(games'[z]) = Seats(games'[g]) /\ voted'[g] = Seats(games'[z])
    BY <2>3, <2>6
  <2> QED
    BY <2>0, <2>4, <2>7, <2>8
<1> QED
  BY <1>2, <1>3 DEF VotedGrows

\* A commit that opens no rematch keeps what is said of votes.
LEMMA VotesKept ==
    ASSUME RoomsIInv, [LedgerNext]_ledgerVars, UNCHANGED <<votes, voted>>,
           \A z \in Game : games'[z].prev = games[z].prev
    PROVE  VotesOK' /\ VotedGrows
BY VotesGrow DEF VotesOK

\* The INSERT of create_room is the ledger's Open.
LEMMA CreateCommitOK ==
    ASSUME RoomsIInv, NEW t \in Task, CreateCommit(t)
    PROVE  RoomsIInv' /\ [LedgerNext]_ledgerVars
<1> USE LedgerAssumption
<1>1. task[t].kind = "create" /\ task[t].pc = "tx"
  BY DEF CreateCommit
<1>2. UNCHANGED <<heap, entry, inflight, conn, joined, started, votes, voted>>
  BY DEF CreateCommit
<1>3. /\ task[t] \in TaskRow /\ task \in [Task -> TaskRow] /\ heap \in [Obj -> RoomObj]
      /\ task[t].sock \in Socket /\ task[t].room \in Room /\ U(t) \in User
      /\ task[t].ref = None /\ task[t].live = None /\ U(t) = UserOf(task[t])
      /\ task[t].snap = [Blank EXCEPT !.game = task[t].snap.game]
      /\ task[t].snap \in RoomObj
  BY <1>1, RunFacts, EntryTypes, Zenon DEF RunShape, RunReads, TaskRow
<1>4. ASSUME NEW g \in Game, Open(g, R(t), U(t)),
             task' = [task EXCEPT ![t].pc = "txdone", ![t].out = "ok",
                                   ![t].snap = [@ EXCEPT !.game = g]]
      PROVE  RoomsIInv' /\ [LedgerNext]_ledgerVars
  <2> DEFINE c == [task[t].snap EXCEPT !.game = g]
  <2>0. PICK k : k = [task[t] EXCEPT !.pc = "txdone", !.out = "ok", !.snap = c]
    OBVIOUS
  <2>1. LedgerNext
    BY <1>3, <1>4 DEF LedgerNext, R
  <2>2. /\ k \in TaskRow /\ k.pc = "txdone" /\ k.out = "ok" /\ k.kind = "create"
        /\ k.snap.game = g /\ k.snap = c
        /\ k.sock = task[t].sock /\ k.room = task[t].room /\ k.ref = None /\ k.live = None
        /\ task' = [task EXCEPT ![t] = k]
    <3>1. c \in RoomObj /\ c.game = g
      BY <1>3, Zenon DEF RoomObj
    <3>2. task' = [task EXCEPT ![t] = k]
      BY <1>3, <1>4, <2>0, Zenon
    <3> HIDE DEF c
    <3> QED
      BY <1>1, <1>3, <2>0, <3>1, <3>2, Zenon DEF TaskRow, Phases
  <2>3. k.snap = [Blank EXCEPT !.game = g]
    <3>1. c = [Blank EXCEPT !.game = g]
      BY <1>3
    <3> QED
      BY <2>2, <3>1
  <2>4. games'[g] = NewRow(R(t), U(t), None, None) /\ games[g].status = "absent"
        /\ moves' = moves /\ \A z \in Game : z # g => games'[z] = games[z]
    BY <1>4 DEF Open, NextId, RoomsIInv, LedgerInv, LedgerTypeOK
  <2>5. /\ games'[g].status # "absent" /\ games'[g].white = U(t) /\ games'[g].home = R(t)
        /\ games'[g].prev = None /\ games'[g].board = StartBoard
    BY <2>4 DEF NewRow, NoGame
  <2>6. games[g].prev = None
    <3>1. games[g] = NoGame
      BY <2>4, Zenon DEF RoomsIInv, LedgerInv, RowsWellFormed, RowWellFormed
    <3> QED
      BY <3>1 DEF NoGame
  <2>7. VotesOK' /\ VotedGrows
    BY <1>2, <2>1, <2>4, <2>5, <2>6, VotesKept
  <2>8. PlayOK'
    <3>1. \A z \in Game : /\ Len(moves[z]) <= MaxMoves
                          /\ games[z].board.over # "no" => games[z].black # None
      BY DEF RoomsIInv, PlayOK
    <3>2. games'[g].board.over = "no"
      BY <2>5 DEF StartBoard
    <3>3. \A z \in Game : games'[z].board.over # "no" => games'[z].black # None
      BY <2>4, <3>1, <3>2, Zenon
    <3>4. \A z \in Game : Len(moves'[z]) <= MaxMoves
      BY <2>4, <3>1
    <3> QED
      BY <3>3, <3>4, Zenon DEF PlayOK
  <2> HIDE DEF c
  <2>12. PICK h, en : h = heap /\ en = entry
    OBVIOUS
  <2>9. RunOK(k, h[k.live])'
    BY <1>3, <2>2, <2>3, <2>5
       DEF RunOK, RunShape, RunReads, RunPlays, RunVotes, RunRematches, UserOf, U, R
  <2>10. Moves(t, k, h, en) /\ ~Owns(k)
    BY <1>2, <1>3, <2>2, <2>12, StepMoves, Zenon DEF Owns
  <2>11. votes' \in [Game -> SUBSET User] /\ voted' \in [Game -> SUBSET User]
    BY <1>2 DEF RoomsIInv, ShapesOK
  <2> QED
    BY <1>1, <1>2, <2>1, <2>2, <2>7, <2>8, <2>9, <2>10, <2>11, <2>12, CommitOK
<1>5. ASSUME task' = [task EXCEPT ![t].pc = "txdone", ![t].out = "no"], UNCHANGED ledgerVars
      PROVE  RoomsIInv' /\ [LedgerNext]_ledgerVars
  <2> DEFINE k == [task[t] EXCEPT !.pc = "txdone", !.out = "no"]
  <2>1. Quiet
    BY <1>2, <1>5, QuietFrame
  <2>2. /\ k \in TaskRow /\ k.pc = "txdone" /\ k.out = "no" /\ k.kind = "create"
        /\ k.snap = task[t].snap
        /\ k.sock = task[t].sock /\ k.room = task[t].room /\ k.ref = None /\ k.live = None
        /\ task' = [task EXCEPT ![t] = k]
    BY <1>1, <1>3, <1>5, Zenon DEF TaskRow, Phases
  <2> HIDE DEF k
  <2>3. RunOK(k, heap[k.live]) /\ ~Owns(k)
    BY <1>3, <2>2
       DEF RunOK, RunShape, RunReads, RunPlays, RunVotes, RunRematches, UserOf, Owns
  <2> QED
    BY <1>1, <1>2, <1>5, <2>1, <2>2, <2>3, StepOK, Zenon
<1> QED
  BY <1>4, <1>5 DEF CreateCommit

\* The claim of join_room is the ledger's Seat, by someone who is not white.
LEMMA JoinCommitOK ==
    ASSUME RoomsIInv, NEW t \in Task, JoinCommit(t)
    PROVE  RoomsIInv' /\ [LedgerNext]_ledgerVars
<1> USE LedgerAssumption
<1>1. task[t].kind = "join" /\ task[t].pc = "tx"
  BY DEF JoinCommit
<1>2. UNCHANGED <<heap, entry, inflight, conn, joined, started, votes, voted>>
  BY DEF JoinCommit
<1>3. PICK o, g, h, en : o = heap[task[t].live] /\ g = o.game /\ h = heap /\ en = entry
  OBVIOUS
<1>4. /\ task[t] \in TaskRow /\ task \in [Task -> TaskRow] /\ heap \in [Obj -> RoomObj]
      /\ task[t].sock \in Socket /\ task[t].room \in Room /\ U(t) \in User
      /\ task[t].live # None /\ Behind(o) /\ g \in Game /\ games[g].home = task[t].room
      /\ o.white # U(t) /\ U(t) = UserOf(task[t]) /\ o.game = g
  <2>1. /\ task[t] \in TaskRow /\ task \in [Task -> TaskRow] /\ heap \in [Obj -> RoomObj]
        /\ RunShape(task[t]) /\ RunPlays(task[t], heap[task[t].live])
        /\ task[t].live # None => Behind(heap[task[t].live])
    BY RunFacts
  <2>2. task[t].live # None /\ task[t].sock \in Socket /\ task[t].room \in Room
    BY <1>1, <2>1 DEF RunShape
  <2>3. U(t) \in User /\ U(t) = UserOf(task[t])
    BY <1>1, EntryTypes
  <2>4. games[o.game].home = task[t].room /\ o.white # UserOf(task[t])
    BY <1>1, <1>3, <2>1, <2>2 DEF RunPlays
  <2>5. Behind(o) /\ o.game \in Game
    BY <1>3, <2>1, <2>2 DEF Behind
  <2> QED
    BY <1>3, <2>1, <2>2, <2>3, <2>4, <2>5
<1>5. Owns(task[t])
  BY <1>1, <1>4 DEF Owns
<1>6. ASSUME Seat(g, U(t)),
             task' = [task EXCEPT ![t].pc = "txdone", ![t].out = "ok"]
      PROVE  RoomsIInv' /\ [LedgerNext]_ledgerVars
  <2>0. PICK k : k = [task[t] EXCEPT !.pc = "txdone", !.out = "ok"]
    OBVIOUS
  <2>1. LedgerNext
    <3>1. U(t) # games[g].white
      BY <1>4 DEF Behind
    <3> QED
      BY <1>4, <1>6, <3>1 DEF LedgerNext
  <2>2. /\ k \in TaskRow /\ k.pc = "txdone" /\ k.out = "ok" /\ k.kind = "join"
        /\ k.sock = task[t].sock /\ k.room = task[t].room /\ k.ref = task[t].ref
        /\ k.live = task[t].live
        /\ task' = [task EXCEPT ![t] = k]
    BY <1>1, <1>4, <1>6, <2>0, Zenon DEF TaskRow, Phases
  <2>3. /\ games'[g] = [games[g] EXCEPT !.black = U(t)] /\ games[g] \in GameRow
        /\ moves' = moves /\ \A z \in Game : z # g => games'[z] = games[z]
    BY <1>4, <1>6 DEF Seat, RoomsIInv, LedgerInv, LedgerTypeOK
  <2>4. /\ games'[g].black = U(t) /\ games'[g].home = games[g].home
        /\ games'[g].prev = games[g].prev /\ games'[g].board = games[g].board
    BY <2>3 DEF GameRow
  <2>5. VotesOK' /\ VotedGrows
    BY <1>2, <1>4, <2>1, <2>3, <2>4, VotesKept, Zenon
  <2>6. PlayOK'
    BY <1>4, <2>3, <2>4, ZenonT(60) DEF RoomsIInv, PlayOK
  <2>7. RunOK(k, o)'
    BY <1>4, <2>2, <2>4
       DEF RunOK, RunShape, RunReads, RunPlays, RunVotes, RunRematches, UserOf, U
  <2>8. Moves(t, k, h, en) /\ o = h[k.live]
    BY <1>2, <1>3, <1>4, <2>2, StepMoves, Zenon
  <2>9. votes' \in [Game -> SUBSET User] /\ voted' \in [Game -> SUBSET User]
    BY <1>2 DEF RoomsIInv, ShapesOK
  <2> QED
    BY <1>1, <1>2, <1>3, <1>5, <2>1, <2>2, <2>5, <2>6, <2>7, <2>8, <2>9, CommitOK
<1>7. ASSUME task' = [task EXCEPT ![t].pc = "txdone", ![t].out = "no"], UNCHANGED ledgerVars
      PROVE  RoomsIInv' /\ [LedgerNext]_ledgerVars
  <2>0. PICK k : k = [task[t] EXCEPT !.pc = "txdone", !.out = "no"]
    OBVIOUS
  <2>1. Quiet
    BY <1>2, <1>7, QuietFrame
  <2>2. /\ k \in TaskRow /\ k.pc = "txdone" /\ k.out = "no" /\ k.kind = "join"
        /\ k.sock = task[t].sock /\ k.room = task[t].room /\ k.ref = task[t].ref
        /\ k.live = task[t].live
        /\ task' = [task EXCEPT ![t] = k]
    BY <1>1, <1>4, <1>7, <2>0, Zenon DEF TaskRow, Phases
  <2>3. RunOK(k, o) /\ o = heap[k.live]
    BY <1>3, <1>4, <2>2
       DEF RunOK, RunShape, RunReads, RunPlays, RunVotes, RunRematches, UserOf
  <2> QED
    BY <1>1, <1>2, <1>5, <1>7, <2>1, <2>2, <2>3, StepOK, Zenon
<1> QED
  BY <1>3, <1>6, <1>7 DEF JoinCommit

\* persistMoveAtomic, called from a room object, is the ledger's Play.
LEMMA MoveCommitOK ==
    ASSUME RoomsIInv, NEW t \in Task, MoveCommit(t)
    PROVE  RoomsIInv' /\ [LedgerNext]_ledgerVars
<1> USE LedgerAssumption
<1>1. task[t].kind = "move" /\ task[t].pc = "tx"
  BY DEF MoveCommit
<1>2. UNCHANGED <<inflight, conn, joined, started, votes, voted>>
  BY DEF MoveCommit
<1>3. PICK o, g, h, en : o = heap[task[t].live] /\ g = o.game /\ h = heap /\ en = entry
  OBVIOUS
<1>4. /\ task[t] \in TaskRow /\ task \in [Task -> TaskRow] /\ heap \in [Obj -> RoomObj]
      /\ task[t].sock \in Socket /\ task[t].room \in Room
      /\ task[t].live # None /\ Behind(o) /\ g \in Game /\ games[g].home = task[t].room
      /\ o.black # None /\ o.game = g /\ o.n \in Nat
  BY <1>1, <1>3, RunFacts DEF RunShape, RunPlays, Behind, RoomObj
<1>5. Owns(task[t])
  BY <1>1, <1>4 DEF Owns
<1>6. ASSUME NEW over \in Endings \cup {"no"}, Len(moves[g]) < MaxMoves,
             Play(g, ColorIn(o, S(t)), over),
             task' = [task EXCEPT ![t].pc = "txdone", ![t].res = over],
             UNCHANGED <<heap, entry>>
      PROVE  RoomsIInv' /\ [LedgerNext]_ledgerVars
  <2>0. PICK k : k = [task[t] EXCEPT !.pc = "txdone", !.res = over]
    OBVIOUS
  <2>1. PICK c \in Color : c = ColorIn(o, S(t))
    BY DEF ColorIn, Color
  <2>2. LedgerNext /\ Play(g, c, over)
    BY <1>4, <1>6, <2>1 DEF LedgerNext
  <2>3. over \in {"no", "checkmate", "draw"}
    OBVIOUS
  <2>4. /\ k \in TaskRow /\ k.pc = "txdone" /\ k.res = over /\ k.kind = "move"
        /\ k.sock = task[t].sock /\ k.room = task[t].room /\ k.ref = task[t].ref
        /\ k.live = task[t].live
        /\ task' = [task EXCEPT ![t] = k]
    BY <1>1, <1>4, <1>6, <2>0, <2>3, Zenon DEF TaskRow, Phases
  <2>5. /\ games \in [Game -> GameRow] /\ moves \in [Game -> Seq(Color)]
        /\ games[g] \in GameRow /\ moves[g] \in Seq(Color)
    BY <1>4 DEF RoomsIInv, LedgerInv, LedgerTypeOK
  <2> DEFINE b == [turn |-> Other(c), over |-> over]
  <2>6. /\ games'[g] = [games[g] EXCEPT !.board = b]
        /\ moves'[g] = Append(moves[g], c)
        /\ \A z \in Game : z # g => games'[z] = games[z] /\ moves'[z] = moves[z]
    BY <1>4, <2>2, <2>5 DEF Play
  <2> HIDE DEF b
  <2>7. /\ games'[g].black = games[g].black /\ games'[g].home = games[g].home
        /\ games'[g].prev = games[g].prev
    BY <2>5, <2>6 DEF GameRow
  <2>8. Len(moves'[g]) = Len(moves[g]) + 1 /\ Len(moves[g]) \in Nat
    BY <2>5, <2>6
  <2>9. VotesOK' /\ VotedGrows
    BY <1>2, <1>4, <2>2, <2>6, <2>7, VotesKept, Zenon
  <2>10. games[g].black # None /\ o.n <= Len(moves[g])
    BY <1>4 DEF Behind
  <2>11. PlayOK'
    <3>1. Len(moves'[g]) <= MaxMoves /\ games'[g].black # None
      BY <1>6, <2>7, <2>8, <2>10
    <3>2. \A z \in Game : z # g =>
             /\ Len(moves'[z]) <= MaxMoves
             /\ games'[z].board.over # "no" => games'[z].black # None
      BY <2>6 DEF RoomsIInv, PlayOK
    <3> QED
      BY <3>1, <3>2 DEF PlayOK
  <2>12. RunOK(k, o)'
    BY <1>4, <2>3, <2>4, <2>7, <2>8, <2>10
       DEF RunOK, RunShape, RunReads, RunPlays, RunVotes, RunRematches, UserOf
  <2>13. Moves(t, k, h, en) /\ o = h[k.live]
    BY <1>3, <1>4, <1>6, <2>4, StepMoves, Zenon
  <2>14. votes' \in [Game -> SUBSET User] /\ voted' \in [Game -> SUBSET User]
    BY <1>2 DEF RoomsIInv, ShapesOK
  <2> QED
    BY <1>1, <1>2, <1>3, <1>5, <2>2, <2>4, <2>9, <2>11, <2>12, <2>13, <2>14, CommitOK
<1>7. ASSUME Finish(t, heap, entry), UNCHANGED ledgerVars
      PROVE  RoomsIInv' /\ [LedgerNext]_ledgerVars
  <2>1. Quiet
    BY <1>2, <1>7, QuietFrame
  <2> QED
    BY <1>1, <1>7, <2>1, KeptAll, FinishOK
<1> QED
  BY <1>3, <1>6, <1>7 DEF MoveCommit

\* finalizeGameAtomic, called from a room object, is the ledger's Settle.
LEMMA SettleCommitOK ==
    ASSUME RoomsIInv, NEW t \in Task, SettleCommit(t)
    PROVE  RoomsIInv' /\ [LedgerNext]_ledgerVars
<1> USE LedgerAssumption
<1>1. task[t].pc = "settle"
  BY DEF SettleCommit
<1>2. UNCHANGED <<heap, entry, inflight, conn, joined, started, votes, voted>>
  BY DEF SettleCommit
<1>3. PICK o, g, h, en : o = heap[task[t].live] /\ g = o.game /\ h = heap /\ en = entry
  OBVIOUS
<1>4. /\ task[t] \in TaskRow /\ task \in [Task -> TaskRow] /\ heap \in [Obj -> RoomObj]
      /\ task[t].sock \in Socket /\ task[t].room \in Room
      /\ task[t].kind \notin {"none", "create"}
      /\ task[t].live # None /\ Behind(o) /\ g \in Game /\ games[g].home = task[t].room
      /\ o.black # None /\ o.game = g /\ o.n \in Nat /\ o \in RoomObj
      /\ task[t].res \in {"checkmate", "draw", "resign"}
  BY <1>1, <1>3, RunFacts DEF RunShape, RunPlays, Behind, RoomObj
<1>5. Owns(task[t])
  BY <1>1, <1>4 DEF Owns
<1>6. ASSUME NEW out \in {"ok", "no", "failed"}
      PROVE  \E k : /\ k = [task[t] EXCEPT !.pc = "settled", !.out = out]
                    /\ k \in TaskRow /\ k.pc = "settled" /\ k.out = out
                    /\ k.kind = task[t].kind
                    /\ k.sock = task[t].sock /\ k.room = task[t].room /\ k.ref = task[t].ref
                    /\ k.live = task[t].live /\ k.res = task[t].res
                    /\ [task EXCEPT ![t].pc = "settled", ![t].out = out]
                          = [task EXCEPT ![t] = k]
  <2>1. PICK k : k = [task[t] EXCEPT !.pc = "settled", !.out = out]
    OBVIOUS
  <2>2. /\ k \in TaskRow /\ k.pc = "settled" /\ k.out = out
        /\ k.kind = task[t].kind
        /\ k.sock = task[t].sock /\ k.room = task[t].room /\ k.ref = task[t].ref
        /\ k.live = task[t].live /\ k.res = task[t].res
    BY <1>4, <2>1, Zenon DEF TaskRow, Phases
  <2>3. [task EXCEPT ![t].pc = "settled", ![t].out = out] = [task EXCEPT ![t] = k]
    BY <1>4, <2>1, Zenon
  <2> QED
    BY <2>1, <2>2, <2>3, Zenon
<1>7. ASSUME Settle(g, task[t].res, WinnerOf(t), o.n),
             task' = [task EXCEPT ![t].pc = "settled", ![t].out = "ok"]
      PROVE  RoomsIInv' /\ [LedgerNext]_ledgerVars
  <2>1. PICK k : /\ k \in TaskRow /\ k.pc = "settled" /\ k.out = "ok"
                 /\ k.kind = task[t].kind
                 /\ k.sock = task[t].sock /\ k.room = task[t].room /\ k.ref = task[t].ref
                 /\ k.live = task[t].live /\ k.res = task[t].res
                 /\ task' = [task EXCEPT ![t] = k]
    BY <1>6, <1>7, Zenon
  <2>2. LedgerNext
    <3>1. WinnerOf(t) \in Color \cup {None}
      BY <1>4 DEF WinnerOf, Other, Color
    <3>2. Len(moves[g]) \in Nat /\ Len(moves[g]) <= MaxMoves /\ o.n <= Len(moves[g])
      BY <1>4 DEF RoomsIInv, LedgerInv, LedgerTypeOK, PlayOK, Behind
    <3>3. o.n > 0
      BY <1>7 DEF Settle
    <3>4. o.n \in 1..MaxMoves
      BY <1>4, <3>2, <3>3
    <3> QED
      BY <1>4, <1>7, <3>1, <3>4 DEF LedgerNext
  <2>3. /\ games'[g] = [games[g] EXCEPT !.status = "finished", !.result = task[t].res,
                                        !.winner = WinnerOf(t)]
        /\ games[g] \in GameRow /\ moves' = moves
        /\ \A z \in Game : z # g => games'[z] = games[z]
    <3>1. games \in [Game -> GameRow]
      BY DEF RoomsIInv, LedgerInv, LedgerTypeOK
    <3> QED
      BY <1>4, <1>7, <3>1 DEF Settle
  <2>4. /\ games'[g].black = games[g].black /\ games'[g].home = games[g].home
        /\ games'[g].prev = games[g].prev /\ games'[g].board = games[g].board
        /\ games'[g].status = "finished"
    BY <2>3 DEF GameRow
  <2>5. VotesOK' /\ VotedGrows
    BY <1>2, <1>4, <2>2, <2>3, <2>4, VotesKept, Zenon
  <2>6. PlayOK'
    <3>1. games'[g].board.over # "no" => games'[g].black # None
      BY <1>4, <2>4 DEF RoomsIInv, PlayOK
    <3>2. \A z \in Game : z # g /\ games'[z].board.over # "no" => games'[z].black # None
      BY <2>3 DEF RoomsIInv, PlayOK
    <3>3. \A z \in Game : Len(moves'[z]) <= MaxMoves
      BY <2>3 DEF RoomsIInv, PlayOK
    <3> QED
      BY <3>1, <3>2, <3>3, Zenon DEF PlayOK
  <2>7. RunOK(k, o)'
    BY <1>4, <2>1, <2>4
       DEF RunOK, RunShape, RunReads, RunPlays, RunVotes, RunRematches, UserOf, Finished
  <2>8. Moves(t, k, h, en) /\ o = h[k.live]
    BY <1>2, <1>3, <1>4, <2>1, StepMoves, Zenon
  <2>9. votes' \in [Game -> SUBSET User] /\ voted' \in [Game -> SUBSET User]
    BY <1>2 DEF RoomsIInv, ShapesOK
  <2> QED
    BY <1>1, <1>2, <1>3, <1>5, <2>1, <2>2, <2>5, <2>6, <2>7, <2>8, <2>9, CommitOK
<1>8. ASSUME NEW out \in {"no", "failed"}, UNCHANGED ledgerVars,
             task' = [task EXCEPT ![t].pc = "settled", ![t].out = out]
      PROVE  RoomsIInv' /\ [LedgerNext]_ledgerVars
  <2>0. out \in {"ok", "no", "failed"}
    OBVIOUS
  <2>1. PICK k : /\ k \in TaskRow /\ k.pc = "settled" /\ k.out = out
                 /\ k.kind = task[t].kind
                 /\ k.sock = task[t].sock /\ k.room = task[t].room /\ k.ref = task[t].ref
                 /\ k.live = task[t].live /\ k.res = task[t].res
                 /\ task' = [task EXCEPT ![t] = k]
    BY <1>6, <1>8, <2>0, ZenonT(40)
  <2>2. Quiet
    BY <1>2, <1>8, QuietFrame
  <2>3. RunOK(k, o) /\ o = heap[k.live]
    BY <1>3, <1>4, <2>1
       DEF RunOK, RunShape, RunReads, RunPlays, RunVotes, RunRematches, UserOf
  <2> QED
    BY <1>1, <1>2, <1>5, <1>8, <2>1, <2>2, <2>3, StepOK, ZenonT(60)
<1> QED
  BY <1>3, <1>7, <1>8 DEF SettleCommit

\* The transaction of accept_rematch is the ledger's Rematch, of a game that
\* both players voted for.
LEMMA RematchCommitOK ==
    ASSUME RoomsIInv, NEW t \in Task, RematchCommit(t)
    PROVE  RoomsIInv' /\ [LedgerNext]_ledgerVars
<1> USE LedgerAssumption
<1>1. task[t].pc = "rematch"
  BY DEF RematchCommit
<1>2. UNCHANGED <<inflight, conn, joined, started, votes, voted>>
  BY DEF RematchCommit
<1>3. PICK c, g, h, en : c = task[t].snap /\ g = c.game /\ h = heap /\ en = entry
  OBVIOUS
<1>4. /\ task[t] \in TaskRow /\ task \in [Task -> TaskRow] /\ heap \in [Obj -> RoomObj]
      /\ task[t].sock \in Socket /\ task[t].room \in Room
      /\ task[t].kind \notin {"none", "create"} /\ task[t].live # None
      /\ c \in RoomObj /\ c.status = "finished" /\ Behind(c) /\ g \in Game
      /\ games[g].home = task[t].room /\ voted[g] = Seats(games[g])
  BY <1>1, <1>3, RunFacts DEF RunShape, RunRematches, Behind, TaskRow
<1>5. Owns(task[t])
  BY <1>1, <1>4 DEF Owns
<1>6. /\ c.white = games[g].white /\ c.black = games[g].black /\ c.black # None
      /\ c.white \in User /\ c.white # None /\ games[g].status = "finished"
  <2>1. games[g].status = "finished"
    BY <1>3, <1>4 DEF Behind, Finished
  <2>2. games[g].white \in User
    BY <1>4, <2>1, FinishedHasBoth DEF RoomsIInv
  <2> QED
    BY <1>3, <1>4, <2>1, <2>2 DEF Behind
<1>7. ASSUME NEW z \in Game, Rematch(g, z), UNCHANGED <<heap, entry>>,
             task' = [task EXCEPT ![t].pc = "rematched", ![t].snap = [@ EXCEPT !.game = z]]
      PROVE  RoomsIInv' /\ [LedgerNext]_ledgerVars
  <2>0. PICK d, k, o : /\ d = [c EXCEPT !.game = z]
                       /\ k = [task[t] EXCEPT !.pc = "rematched", !.snap = d]
                       /\ o = heap[task[t].live]
    BY Zenon
  <2>1. LedgerNext
    BY <1>4, <1>7 DEF LedgerNext
  <2>2. d \in RoomObj /\ d.game = z /\ d.white = c.white /\ d.black = c.black
    BY <1>4, <2>0, Zenon DEF RoomObj
  <2>3. task' = [task EXCEPT ![t] = k]
    BY <1>3, <1>4, <1>7, <2>0, Zenon
  <2>4. /\ k \in TaskRow /\ k.pc = "rematched" /\ k.snap = d /\ k.kind = task[t].kind
        /\ k.sock = task[t].sock /\ k.room = task[t].room /\ k.ref = task[t].ref
        /\ k.live = task[t].live
    BY <1>4, <2>0, <2>2, Zenon DEF TaskRow, Phases
  <2>5. games \in [Game -> GameRow] /\ games[g] \in GameRow
    BY <1>4 DEF RoomsIInv, LedgerInv, LedgerTypeOK
  <2>6. /\ games[z].status = "absent" /\ z # g
        /\ games'[g] = [games[g] EXCEPT !.room = None]
        /\ games'[z] = NewRow(games[g].home, games[g].black, games[g].white, g)
        /\ moves' = moves /\ \A x \in Game \ {g, z} : games'[x] = games[x]
    BY <1>4, <1>6, <1>7, <2>5 DEF Rematch, NextId
  <2>7. /\ games'[z].status # "absent" /\ games'[z].home = games[g].home
        /\ games'[z].white = games[g].black /\ games'[z].black = games[g].white
        /\ games'[z].prev = g /\ games'[z].board = StartBoard
    BY <2>6 DEF NewRow, NoGame
  <2>8. /\ games'[g].status = "finished" /\ games'[g].white = games[g].white
        /\ games'[g].black = games[g].black /\ games'[g].prev = games[g].prev
        /\ games'[g].board = games[g].board /\ games'[g].home = games[g].home
    BY <1>6, <2>5, <2>6 DEF GameRow
  <2>9. VotedGrows /\ VotesOK'
    <3>1. /\ VotedGrows
          /\ \A x \in Game : votes'[x] \subseteq voted'[x] /\ voted'[x] \subseteq Seats(games'[x])
      BY <1>2, <2>1, VotesGrow
    <3>2. ASSUME NEW x \in Game, games'[x].prev # None
          PROVE  /\ (Finished(games[x].prev))'
                 /\ games'[x].black # None
                 /\ Seats(games'[x]) = Seats(games'[games'[x].prev])
                 /\ voted'[games'[x].prev] = Seats(games'[x])
      <4>1. CASE x = z
        <5>1. Seats(games'[z]) = Seats(games'[g]) /\ Seats(games[g]) = Seats(games'[g])
          BY <2>7, <2>8 DEF Seats
        <5> QED
          BY <1>2, <1>4, <1>6, <2>7, <2>8, <4>1, <5>1 DEF Finished
      <4>2. CASE x # z
        <5>1. games'[x].prev = games[x].prev
          BY <2>6, <2>8, <4>2, Zenon
        <5>2. PICK y : y = games[x].prev
          OBVIOUS
        <5>3. /\ Finished(y)' /\ games'[x].black # None
              /\ Seats(games'[x]) = Seats(games'[y])
              /\ voted'[y] = Seats(games'[x])
          BY <1>2, <2>1, <3>2, <5>1, <5>2, VotesGrow
        <5> QED
          BY <5>1, <5>2, <5>3 DEF Finished
      <4> QED
        BY <4>1, <4>2
    <3> QED
      BY <3>1, <3>2 DEF VotesOK
  <2>10. PlayOK'
    <3>1. ASSUME NEW x \in Game
          PROVE  games'[x].board.over # "no" => games'[x].black # None
      <4>1. games[x].board.over # "no" => games[x].black # None
        BY Zenon DEF RoomsIInv, PlayOK
      <4>2. CASE x = z
        BY <2>7, <4>2 DEF StartBoard
      <4>3. CASE x = g
        BY <2>8, <4>1, <4>3
      <4>4. CASE x \notin {g, z}
        BY <2>6, <4>1, <4>4
      <4> QED
        BY <4>2, <4>3, <4>4
    <3>2. \A x \in Game : Len(moves'[x]) <= MaxMoves
      BY <2>6 DEF RoomsIInv, PlayOK
    <3> QED
      BY <3>1, <3>2, Zenon DEF PlayOK
  <2>11. RunOK(k, o)'
    <3>1. o.game \in Game /\ games[o.game].home = task[t].room /\ games[o.game].status # "absent"
      BY <1>4, <2>0, RunFacts DEF RunPlays, Behind
    <3>2. games'[o.game].home = task[t].room
      BY <2>6, <2>8, <3>1, Zenon
    <3> QED
      BY <1>4, <1>6, <2>2, <2>4, <2>7, <3>2
       DEF RunOK, RunShape, RunReads, RunPlays, RunVotes, RunRematches, UserOf
  <2>12. Moves(t, k, h, en) /\ o = h[k.live]
    BY <1>3, <1>4, <1>7, <2>0, <2>3, <2>4, StepMoves, Zenon
  <2>13. votes' \in [Game -> SUBSET User] /\ voted' \in [Game -> SUBSET User]
    BY <1>2 DEF RoomsIInv, ShapesOK
  <2> QED
    BY <1>1, <1>2, <1>3, <1>5, <2>1, <2>4, <2>9, <2>10, <2>11, <2>12, <2>13, CommitOK
<1>8. ASSUME Finish(t, heap, entry), UNCHANGED ledgerVars
      PROVE  RoomsIInv' /\ [LedgerNext]_ledgerVars
  <2>1. Quiet
    BY <1>2, <1>8, QuietFrame
  <2> QED
    BY <1>1, <1>8, <2>1, KeptAll, FinishOK
<1> QED
  BY <1>3, <1>7, <1>8 DEF RematchCommit

\* A vote is a player's, so it adds nothing to a set that is complete.
LEMMA VoteCast ==
    ASSUME RoomsIInv, NEW g \in Game, NEW u \in Seats(games[g]), u \in User, AddVote(g, u),
           UNCHANGED ledgerVars
    PROVE  /\ VotedGrows /\ VotesOK' /\ PlayOK'
           /\ votes' \in [Game -> SUBSET User] /\ voted' \in [Game -> SUBSET User]
<1>1. /\ games' = games /\ moves' = moves
      /\ votes' = [votes EXCEPT ![g] = @ \cup {u}]
      /\ voted' = [voted EXCEPT ![g] = @ \cup {u}]
      /\ votes \in [Game -> SUBSET User] /\ voted \in [Game -> SUBSET User]
      /\ games \in [Game -> GameRow]
  BY DEF AddVote, ledgerVars, RoomsIInv, ShapesOK, LedgerInv, LedgerTypeOK
<1>2. votes' \in [Game -> SUBSET User] /\ voted' \in [Game -> SUBSET User]
  BY <1>1
<1>3. PlayOK'
  BY <1>1 DEF RoomsIInv, PlayOK
<1>4. ASSUME NEW x \in Game
      PROVE  /\ votes'[x] \subseteq voted'[x] /\ voted'[x] \subseteq Seats(games[x])
             /\ voted[x] \subseteq voted'[x]
             /\ voted[x] = Seats(games[x]) => voted'[x] = Seats(games[x])
  <2>1. votes[x] \subseteq voted[x] /\ voted[x] \subseteq Seats(games[x])
    BY DEF RoomsIInv, VotesOK
  <2> QED
    BY <1>1, <2>1
<1>5. ASSUME NEW x \in Game, games[x].prev # None
      PROVE  /\ Finished(games[x].prev) /\ games[x].black # None
             /\ Seats(games[x]) = Seats(games[games[x].prev])
             /\ voted'[games[x].prev] = Seats(games[x])
  <2>1. /\ Finished(games[x].prev) /\ games[x].black # None
        /\ Seats(games[x]) = Seats(games[games[x].prev])
        /\ voted[games[x].prev] = Seats(games[x])
    BY <1>5 DEF RoomsIInv, VotesOK
  <2>2. games[x].prev \in Game
    BY <1>1, <1>5 DEF GameRow
  <2> QED
    BY <1>4, <2>1, <2>2
<1>6. VotedGrows
  BY <1>1, <1>4 DEF VotedGrows
<1>7. VotesOK'
  BY <1>1, <1>4, <1>5 DEF VotesOK, Finished
<1> QED
  BY <1>2, <1>3, <1>6, <1>7

\* A vote is cast or lost, and the failed request ends.
LEMMA VoteOK ==
    ASSUME RoomsIInv, NEW t \in Task, Vote(t)
    PROVE  RoomsIInv'
<1>1. task[t].pc = "vote" /\ UNCHANGED <<ledgerVars, inflight, conn, joined, started>>
  BY DEF Vote
<1>2. PICK o, g, h, en : o = heap[task[t].live] /\ g = o.game /\ h = heap /\ en = entry
  OBVIOUS
<1>3. /\ task[t] \in TaskRow /\ task \in [Task -> TaskRow] /\ heap \in [Obj -> RoomObj]
      /\ task[t].sock \in Socket /\ task[t].room \in Room
      /\ task[t].kind \notin {"none", "create"} /\ task[t].live # None
      /\ Behind(o) /\ g \in Game /\ games[g].home = task[t].room
      /\ o.status = "finished" /\ UserOf(task[t]) \in Seats(games[g])
      /\ U(t) = UserOf(task[t]) /\ U(t) \in User
  BY <1>1, <1>2, RunFacts, EntryTypes DEF RunShape, RunPlays, RunVotes, Behind
<1>4. Owns(task[t])
  BY <1>1, <1>3 DEF Owns
<1>5. AddVote(g, U(t)) =>
         /\ VotedGrows /\ VotesOK' /\ PlayOK'
         /\ votes' \in [Game -> SUBSET User] /\ voted' \in [Game -> SUBSET User]
  BY <1>1, <1>3, VoteCast
<1>6. ASSUME AddVote(g, U(t)), task' = Step(t, "count"), UNCHANGED <<heap, entry>>
      PROVE  RoomsIInv'
  <2>0. PICK k : k = [task[t] EXCEPT !.pc = "count"]
    BY Zenon
  <2>1. /\ k \in TaskRow /\ k.pc = "count" /\ k.kind = task[t].kind
        /\ k.sock = task[t].sock /\ k.room = task[t].room /\ k.ref = task[t].ref
        /\ k.live = task[t].live /\ task' = [task EXCEPT ![t] = k]
    BY <1>3, <1>6, <2>0 DEF TaskRow, Phases, Step
  <2>2. games' = games
    BY <1>1 DEF ledgerVars
  <2>3. RunOK(k, o)'
    BY <1>2, <1>3, <2>1, <2>2
       DEF RunOK, RunShape, RunReads, RunPlays, RunVotes, RunRematches, UserOf
  <2>4. Moves(t, k, h, en) /\ o = h[k.live]
    BY <1>2, <1>3, <1>6, <2>1, StepMoves
  <2> QED
    BY <1>1, <1>2, <1>4, <1>5, <1>6, <2>1, <2>3, <2>4, CommitOK
<1>7. ASSUME AddVote(g, U(t)), Finish(t, heap, entry)
      PROVE  RoomsIInv'
  <2>1. Moves(t, NoTask, h, en)
    BY <1>2, <1>7, FinishMoves
  <2>2. /\ NoTask \in TaskRow /\ NoTask.ref = None /\ NoTask.live = None
        /\ RunOK(NoTask, h[NoTask.live])' /\ ~Owns(NoTask)
    <3>1. /\ NoTask \in TaskRow /\ NoTask.ref = None /\ NoTask.live = None
      BY RunOver
    <3>2. \A x : RunOK(NoTask, x)'
      BY RunOver
    <3> QED
      BY <3>1, <3>2 DEF Owns
  <2> QED
    BY <1>1, <1>2, <1>5, <1>7, <2>1, <2>2, CommitOK
<1>8. ASSUME Finish(t, heap, entry), UNCHANGED <<votes, voted>>
      PROVE  RoomsIInv'
  <2>1. Quiet
    BY <1>1, <1>8, QuietFrame
  <2> QED
    BY <1>1, <1>8, <2>1, KeptAll, FinishOK
<1> QED
  BY <1>2, <1>6, <1>7, <1>8 DEF Vote, AddVoteFails

-----------------------------------------------------------------------------
(* Client events.                                                          *)

\* A new run takes a slot that is idle.
LEMMA NewTask ==
    ASSUME SlotFree
    PROVE  FreeTask \in Task /\ task[FreeTask].pc = "idle"
BY DEF SlotFree, FreeTask

\* An event queues a run on the cached object.
LEMMA EnqueueOK ==
    ASSUME RoomsIInv, Quiet, NEW s \in Socket, NEW r \in Room,
           NEW kind \in Kinds \ {"none", "create"}, Enqueue(s, r, kind)
    PROVE  RoomsIInv'
<1>1. PICK t, o, k, h : /\ t = FreeTask /\ o = entry[Home[s]][r]
                        /\ k = Queued(heap, o, s, r, kind) /\ h = Link(heap, o, t)
  OBVIOUS
<1>2. t \in Task /\ task[t].pc = "idle" /\ o # None
  BY <1>1, NewTask DEF Enqueue
<1>3. /\ heap \in [Obj -> RoomObj] /\ task \in [Task -> TaskRow]
      /\ entry \in [Replica -> [Room -> Obj \cup {None}]] /\ Home[s] \in Replica
  BY RoomsAssumption DEF RoomsIInv, ShapesOK
<1>4. o \in Obj /\ Live(heap[o]) /\ games[heap[o].game].home = r
  BY <1>1, <1>2, <1>3 DEF RoomsIInv, CellsOK
<1>5. h = [heap EXCEPT ![o] = [heap[o] EXCEPT !.tail = t]]
  BY <1>1, <1>3, <1>4 DEF Link
<1>6. [heap[o] EXCEPT !.tail = t] \in RoomObj /\ Core([heap[o] EXCEPT !.tail = t]) = Core(heap[o])
  BY <1>2, <1>3, <1>4, TailOnly
<1>7. /\ h \in [Obj -> RoomObj] /\ \A z \in Obj : z # o => h[z] = heap[z]
      /\ Core(h[o]) = Core(heap[o])
  BY <1>3, <1>4, <1>5, <1>6
<1>8. WritesNow(t, h) /\ CachesNow(h, entry)
  BY <1>2, <1>4, <1>7, OneWrite
<1>9. /\ k \in TaskRow /\ k.pc = "queued" /\ k.kind = kind /\ k.sock = s /\ k.room = r
      /\ k.ref = o /\ k.live = None /\ k.kind \notin {"none", "create"}
  <2>1. heap[o].tail \in Task \cup {None} /\ NoTask \in TaskRow /\ NoTask.live = None
    BY <1>3, <1>4, RunOver DEF RoomObj
  <2>2. k = [NoTask EXCEPT !.pc = "queued", !.kind = kind, !.sock = s, !.room = r,
                   !.ref = o, !.pred = heap[o].tail]
    BY <1>1 DEF Queued
  <2>3. kind \notin {"none", "create"} /\ kind \in Kinds /\ "queued" \in Phases
    BY DEF Phases
  <2> QED
    BY <1>4, <2>1, <2>2, <2>3, ZenonT(60) DEF TaskRow
<1>10. RunOK(k, h[k.live]) /\ ~Owns(k)
  BY <1>2, <1>9
     DEF RunOK, RunShape, RunReads, RunPlays, RunVotes, RunRematches, Owns
<1>11. Live(h[o]) /\ games[h[o].game].home = r
  BY <1>4, <1>7, CoreSame
<1>12. Moves(t, k, h, entry)
  <2>1. PICK tk : tk = [task EXCEPT ![t] = k]
    BY Zenon
  <2>2. tk[t] = k /\ tk = [q \in Task |-> IF q = t THEN tk[t] ELSE task[q]]
    BY <1>2, <1>3, <2>1, Zenon
  <2>3. Update(h, tk, entry)
    BY <1>1, <2>1 DEF Enqueue
  <2> QED
    BY <1>2, <2>2, <2>3, UpdateMoves
<1> QED
  BY <1>2, <1>3, <1>7, <1>8, <1>9, <1>10, <1>11, <1>12, QuietOK, Zenon

\* create_room starts its INSERT.
LEMMA CreateRoomOK ==
    ASSUME RoomsIInv, NEW s \in Socket, NEW r \in Room, CreateRoom(s, r)
    PROVE  RoomsIInv'
<1>1. PICK t, k : /\ t = FreeTask
                  /\ k = [NoTask EXCEPT !.pc = "tx", !.kind = "create", !.sock = s,
                                        !.room = r]
  OBVIOUS
<1>2. t \in Task /\ task[t].pc = "idle" /\ Quiet
  BY <1>1, NewTask, QuietFrame DEF CreateRoom, Emits
<1>3. task' = [task EXCEPT ![t] = k] /\ UNCHANGED <<heap, entry>>
  BY <1>1 DEF CreateRoom
<1>4. /\ k \in TaskRow /\ k.pc = "tx" /\ k.kind = "create" /\ k.sock = s /\ k.room = r
      /\ k.ref = None /\ k.live = None /\ k.out = "none" /\ k.snap = Blank
  <2>1. NoTask \in TaskRow /\ NoTask.live = None /\ NoTask.ref = None
        /\ NoTask.snap = Blank /\ NoTask.out = "none"
    BY RunOver DEF NoTask
  <2> QED
    BY <1>1, <2>1, Zenon DEF TaskRow, Phases, Kinds
<1>5. Blank = [Blank EXCEPT !.game = Blank.game]
  BY DEF Blank
<1>6. RunOK(k, heap[k.live]) /\ ~Owns(k)
  BY <1>4, <1>5
     DEF RunOK, RunShape, RunReads, RunPlays, RunVotes, RunRematches, Owns
<1>7. task \in [Task -> TaskRow] /\ heap \in [Obj -> RoomObj]
  BY DEF RoomsIInv, ShapesOK
<1>8. Moves(t, k, heap, entry)
  BY <1>2, <1>3, <1>7, StepMoves, Zenon
<1> QED
  BY <1>2, <1>4, <1>6, <1>8, KeptAll, QuietOK

\* join_room on a missing room waits for the hydration.
LEMMA JoinMissOK ==
    ASSUME RoomsIInv, NEW s \in Socket, NEW r \in Room, JoinMiss(s, r)
    PROVE  RoomsIInv'
<1>1. PICK t, k, h, en, p :
         /\ t = FreeTask /\ h = heap /\ en = entry /\ p = Home[s]
         /\ k = [NoTask EXCEPT !.pc = "hydrating", !.kind = "join", !.sock = s, !.room = r]
  OBVIOUS
<1>2. /\ t \in Task /\ task[t].pc = "idle" /\ p \in Replica
      /\ UNCHANGED <<ledgerVars, heap, entry, conn, joined, started, votes, voted>>
  BY <1>1, NewTask, RoomsAssumption DEF JoinMiss, Emits
<1>3. task' = [task EXCEPT ![t] = k]
  BY <1>1 DEF JoinMiss
<1>4. /\ k \in TaskRow /\ k.pc = "hydrating" /\ k.kind = "join" /\ k.sock = s /\ k.room = r
      /\ k.ref = None /\ k.live = None
  <2>1. NoTask \in TaskRow /\ NoTask.live = None /\ NoTask.ref = None
    BY RunOver
  <2> QED
    BY <1>1, <2>1, ZenonT(60) DEF TaskRow, Phases, Kinds
<1>5. RunOK(k, h[k.live])' /\ ~Owns(k)
  BY <1>4
     DEF RunOK, RunShape, RunReads, RunPlays, RunVotes, RunRematches, Owns
<1>6. /\ task \in [Task -> TaskRow] /\ h \in [Obj -> RoomObj] /\ heap \in [Obj -> RoomObj]
      /\ en \in [Replica -> [Room -> Obj \cup {None}]]
      /\ votes' \in [Game -> SUBSET User] /\ \A g \in Game : votes'[g] \subseteq votes[g]
      /\ inflight \in [Replica -> [Room -> Flight]]
  BY <1>1, <1>2 DEF RoomsIInv, ShapesOK
<1>7. Moves(t, k, h, en)
  BY <1>1, <1>2, <1>3, <1>6, StepMoves, Zenon
<1>8. LedgerInv' /\ PlayOK' /\ VotesOK' /\ VotedGrows
  BY <1>2, <1>6, QuietRows
<1>9. Writes(t, h) /\ Caches(h, en)
  BY <1>1 DEF Writes, Caches
<1>10. /\ CellsOK' /\ RunsOK' /\ ObjectsApart'
       /\ heap' \in [Obj -> RoomObj] /\ task' \in [Task -> TaskRow]
       /\ entry' \in [Replica -> [Room -> Obj \cup {None}]]
  BY <1>2, <1>4, <1>5, <1>6, <1>7, <1>8, <1>9, MovesOK, Zenon
<1>11. PICK f, e : /\ f = inflight[p][r]
                   /\ e = [f EXCEPT !.state = IF @ = "no" THEN "sent" ELSE @,
                                    !.waiters = Append(@, t)]
  BY Zenon
<1>12. f \in Flight
  BY <1>2, <1>6, <1>11
<1>13. /\ inflight'[p][r] = e
       /\ \A q \in Replica, x \in Room : <<q, x>> # <<p, r>> => inflight'[q][x] = inflight[q][x]
       /\ inflight' = [inflight EXCEPT ![p][r] = e]
  <2>1. inflight' = [inflight EXCEPT ![p][r].state = IF @ = "no" THEN "sent" ELSE @,
                                     ![p][r].waiters = Append(@, t)]
    BY <1>1 DEF JoinMiss
  <2>2. inflight' = [inflight EXCEPT ![p][r] = e]
    BY <1>2, <1>6, <1>11, <2>1, Zenon
  <2> QED
    BY <1>2, <1>6, <2>2
<1>14. /\ e \in Flight /\ e.snap = f.snap
       /\ e.waiters = Append(f.waiters, t) /\ e.state \in {"sent", "back"}
       /\ e.state = "back" => f.state = "back"
  <2>1. f.waiters \in Seq(Task) /\ Append(f.waiters, t) \in Seq(Task)
    BY <1>2, <1>12 DEF Flight
  <2>2. PICK st, ws : st = (IF f.state = "no" THEN "sent" ELSE f.state) /\ ws = Append(f.waiters, t)
    BY Zenon
  <2>3. e = [[f EXCEPT !.state = st] EXCEPT !.waiters = ws]
    BY <1>11, <1>12, <2>2 DEF Flight
  <2>4. st \in {"sent", "back"} /\ (st = "back" => f.state = "back")
    BY <1>12, <2>2 DEF Flight
  <2> QED
    BY <1>12, <2>1, <2>2, <2>3, <2>4, Zenon DEF Flight
<1>15. inflight' \in [Replica -> [Room -> Flight]]
  BY <1>2, <1>6, <1>13, <1>14
<1>16. FlightsOK'
  <2> SUFFICES ASSUME NEW q \in Replica, NEW x \in Room
               PROVE  FlightOK(inflight[q][x], q, x)'
    BY DEF FlightsOK
  <2>1. PICK y, z : y = inflight[q][x] /\ z = inflight'[q][x]
    OBVIOUS
  <2>2. y \in Flight /\ FlightOK(y, q, x)
    BY <1>6, <2>1 DEF RoomsIInv, FlightsOK
  <2>3. ASSUME NEW i \in 1..Len(y.waiters) PROVE Awaits(task'[y.waiters[i]], q, x)
    <3>1. y.waiters[i] \in Task /\ Awaits(task[y.waiters[i]], q, x)
      BY <2>2 DEF Flight, FlightOK
    <3>2. task'[y.waiters[i]] = task[y.waiters[i]]
      BY <1>2, <1>3, <1>6, <3>1 DEF Awaits
    <3> QED
      BY <3>1, <3>2
  <2>4. \A o, v : SnapOK(o, v)' <=> SnapOK(o, v)
    BY <1>2, SameRows
  <2>5. CASE <<q, x>> # <<p, r>>
    <3>1. y = z
      BY <1>13, <2>1, <2>5
    <3>2. FlightOK(y, q, x)'
      BY <2>2, <2>3, <2>4 DEF FlightOK
    <3> QED
      BY <2>1, <3>1, <3>2
  <2>6. CASE <<q, x>> = <<p, r>>
    <3>1. z = e /\ y = f /\ q = p /\ x = r
      BY <1>11, <1>13, <2>1, <2>6
    <3>2. f.waiters \in Seq(Task)
      BY <1>12 DEF Flight
    <3>3. e.waiters # <<>>
      BY <1>2, <1>14, <3>2
    <3>4. Awaits(task'[t], p, r)
      BY <1>1, <1>2, <1>3, <1>4, <1>6 DEF Awaits
    <3>5. ASSUME NEW i \in 1..Len(e.waiters) PROVE Awaits(task'[e.waiters[i]], p, r)
      <4>1. e.waiters[i] = t \/ (i \in 1..Len(f.waiters) /\ e.waiters[i] = f.waiters[i])
        BY <1>2, <1>14, <3>2
      <4> QED
        BY <2>3, <3>1, <3>4, <4>1
    <3>6. e.state = "back" => SnapOK(e.snap, x)
      BY <1>14, <2>2, <3>1 DEF FlightOK
    <3>7. FlightOK(e, q, x)'
      BY <2>4, <3>1, <3>3, <3>5, <3>6 DEF FlightOK
    <3> QED
      BY <2>1, <3>1, <3>7
  <2> QED
    BY <2>5, <2>6
<1>17. ShapesOK'
  BY <1>2, <1>10, <1>15 DEF RoomsIInv, ShapesOK
<1> QED
  BY <1>8, <1>10, <1>16, <1>17 DEF RoomsIInv

\* join_room on a cached room queues on it.
LEMMA JoinCachedOK ==
    ASSUME RoomsIInv, NEW s \in Socket, NEW r \in Room, JoinCached(s, r)
    PROVE  RoomsIInv'
<1>1. "join" \in Kinds \ {"none", "create"}
  BY DEF Kinds
<1>2. Quiet
  BY QuietFrame DEF JoinCached
<1> QED
  BY <1>1, <1>2, EnqueueOK DEF JoinCached

\* The other events queue on the cached room.
LEMMA SendOK ==
    ASSUME RoomsIInv, NEW s \in Socket, NEW r \in Room, NEW kind, Send(s, r, kind)
    PROVE  RoomsIInv'
<1>1. kind \in Kinds \ {"none", "create"}
  BY DEF Kinds, Send
<1>2. Quiet
  BY QuietFrame DEF Send
<1> QED
  BY <1>1, <1>2, EnqueueOK DEF Send

\* A socket that drops leaves the rooms; nothing else of the frame changes.
LEMMA DropFrame ==
    ASSUME RoomsIInv, NEW s, conn' = conn \ {s},
           joined' = [q \in Room |-> joined[q] \ {s}],
           UNCHANGED <<ledgerVars, inflight, started, votes, voted>>
    PROVE  Quiet
<1>1. /\ conn \subseteq Socket /\ joined \in [Room -> SUBSET Socket]
      /\ started \in [Socket -> Game \cup {None}] /\ votes \in [Game -> SUBSET User]
  BY DEF RoomsIInv, ShapesOK
<1> QED
  BY <1>1 DEF Quiet

\* A disconnect queues a detach.
LEMMA DisconnectOK ==
    ASSUME RoomsIInv, NEW s \in Socket, NEW r \in Room, Disconnect(s, r)
    PROVE  RoomsIInv'
<1>1. "disconnect" \in Kinds \ {"none", "create"}
  BY DEF Kinds
<1>2. Quiet
  BY DropFrame, Zenon DEF Disconnect
<1> QED
  BY <1>1, <1>2, EnqueueOK DEF Disconnect

\* Objects, caches and runs as they are.
LEMMA SameRuns ==
    ASSUME RoomsIInv, UNCHANGED <<ledgerVars, voted, heap, entry, task>>
    PROVE  /\ CellsOK' /\ RunsOK' /\ ObjectsApart'
           /\ inflight' = inflight => FlightsOK'
<1>1. /\ games' = games /\ moves' = moves /\ heap' = heap /\ entry' = entry
      /\ task' = task /\ voted' = voted
  BY DEF ledgerVars
<1>2. /\ \A o : Behind(o)' <=> Behind(o)
      /\ \A o, r : SnapOK(o, r)' <=> SnapOK(o, r)
  BY SameRows
<1>3. CellsOK'
  BY <1>1, <1>2 DEF RoomsIInv, CellsOK, ObjOK
<1>4. RunsOK'
  <2> SUFFICES ASSUME NEW t \in Task PROVE RunOK(task[t], heap[task[t].live])'
    BY DEF RunsOK
  <2>1. PICK k, o : k = task[t] /\ o = heap[task[t].live]
    OBVIOUS
  <2>2. RunOK(k, o)
    BY <2>1 DEF RoomsIInv, RunsOK
  <2>3. RunOK(k, o)'
    BY <2>2, SameRows
  <2> QED
    BY <1>1, <2>1, <2>3
<1>5. ObjectsApart'
  BY <1>1 DEF RoomsIInv, ObjectsApart
<1>6. ASSUME inflight' = inflight PROVE FlightsOK'
  <2> SUFFICES ASSUME NEW p \in Replica, NEW r \in Room
               PROVE  FlightOK(inflight[p][r], p, r)'
    BY DEF FlightsOK
  <2>1. PICK f : f = inflight[p][r]
    OBVIOUS
  <2>2. FlightOK(f, p, r)
    BY <2>1 DEF RoomsIInv, FlightsOK
  <2>3. FlightOK(f, p, r)'
    BY <1>1, <1>2, <2>2 DEF FlightOK
  <2> QED
    BY <1>6, <2>1, <2>3
<1> QED
  BY <1>3, <1>4, <1>5, <1>6

\* Only sockets or votes go.
LEMMA FadeOK ==
    ASSUME RoomsIInv, Quiet, UNCHANGED <<heap, entry, task>>
    PROVE  RoomsIInv'
<1>1. UNCHANGED <<ledgerVars, voted, heap, entry, task>> /\ inflight' = inflight
  BY DEF Quiet
<1>2. LedgerInv' /\ PlayOK' /\ VotesOK'
  BY QuietRows DEF Quiet
<1>3. CellsOK' /\ RunsOK' /\ ObjectsApart' /\ FlightsOK'
  BY <1>1, SameRuns
<1>4. ShapesOK'
  BY <1>1 DEF RoomsIInv, ShapesOK, Quiet
<1> QED
  BY <1>2, <1>3, <1>4 DEF RoomsIInv

\* A socket without a seat just goes.
LEMMA DisconnectUnattachedOK ==
    ASSUME RoomsIInv, NEW s \in Socket, DisconnectUnattached(s)
    PROVE  RoomsIInv'
<1>1. Quiet
  BY DropFrame DEF DisconnectUnattached
<1> QED
  BY <1>1, FadeOK DEF DisconnectUnattached

\* Votes that lapse were cast all the same.
LEMMA VotesExpireOK ==
    ASSUME RoomsIInv, NEW g \in Game, VotesExpire(g)
    PROVE  RoomsIInv'
<1>1. Quiet
  BY DEF RoomsIInv, ShapesOK, Quiet, VotesExpire
<1> QED
  BY <1>1, FadeOK DEF VotesExpire

-----------------------------------------------------------------------------
(* Hydration and restart change many runs at once.                         *)

ReachedIn(o, tk, en) ==
    \/ \E p \in Replica, r \in Room : en[p][r] = o
    \/ \E t \in Task : o \in {tk[t].ref, tk[t].live}

\* New runs tk and caches en that only reach rooms they know.
LEMMA ReplacedOK ==
    ASSUME RoomsIInv, UNCHANGED <<ledgerVars, voted>>,
           NEW h \in [Obj -> RoomObj], NEW tk \in [Task -> TaskRow],
           NEW en \in [Replica -> [Room -> Obj \cup {None}]], Update(h, tk, en),
           \A o \in Obj : ReachedIn(o, tk, en) => Live(h[o]) /\ Behind(h[o]),
           \A p \in Replica, r \in Room :
              en[p][r] # None => games[h[en[p][r]].game].home = r,
           \A t \in Task : tk[t].ref # None => games[h[tk[t].ref].game].home = tk[t].room,
           \A t \in Task : RunOK(tk[t], h[tk[t].live]),
           \A t, q \in Task :
              Owns(tk[t]) /\ Owns(tk[q]) /\ tk[t].live = tk[q].live => t = q
    PROVE  /\ CellsOK' /\ RunsOK' /\ ObjectsApart'
           /\ heap' \in [Obj -> RoomObj] /\ task' \in [Task -> TaskRow]
           /\ entry' \in [Replica -> [Room -> Obj \cup {None}]]
<1>1. task' = tk /\ entry' = en /\ games' = games
  BY DEF Update, ledgerVars
<1>2. /\ \A o \in Obj : ReachedIn(o, tk, en) => heap'[o] = h[o]
      /\ \A o \in Obj : ~ReachedIn(o, tk, en) => heap'[o] = Blank
      /\ heap' \in [Obj -> RoomObj]
  <2>1. heap' = [o \in Obj |-> IF ReachedIn(o, tk, en) THEN h[o] ELSE Blank]
    BY DEF Update, ReachedIn
  <2> QED
    BY <2>1, BlankOK
<1>3. \A o : Behind(o)' <=> Behind(o)
  BY SameRows
<1>4. ASSUME NEW o \in Obj
      PROVE  /\ ObjOK(heap[o])'
             /\ heap'[o].status \in {"freed", "waiting", "playing", "finished"}
  <2>1. PICK x : x = heap'[o]
    OBVIOUS
  <2>2. (Live(x) => Behind(x)) /\ x.status \in {"freed", "waiting", "playing", "finished"}
    BY <1>2, <2>1, BlankOK DEF Live
  <2>3. ObjOK(x)'
    BY <1>3, <2>2 DEF ObjOK, Live
  <2> QED
    BY <2>1, <2>2, <2>3
<1>5. ASSUME NEW p \in Replica, NEW r \in Room, en[p][r] # None
      PROVE  Live(heap'[en[p][r]]) /\ games[heap'[en[p][r]].game].home = r
  <2>1. en[p][r] \in Obj /\ ReachedIn(en[p][r], tk, en)
    BY <1>5 DEF ReachedIn
  <2> QED
    BY <1>2, <1>5, <2>1
<1>6. ASSUME NEW t \in Task
      PROVE  /\ tk[t].ref # None => /\ Live(heap'[tk[t].ref])
                                    /\ games[heap'[tk[t].ref].game].home = tk[t].room
             /\ tk[t].live # None => Live(heap'[tk[t].live]) /\ heap'[tk[t].live] = h[tk[t].live]
  <2>1. /\ tk[t].ref # None => tk[t].ref \in Obj /\ ReachedIn(tk[t].ref, tk, en)
        /\ tk[t].live # None => tk[t].live \in Obj /\ ReachedIn(tk[t].live, tk, en)
    BY DEF ReachedIn, TaskRow
  <2> QED
    BY <1>2, <2>1
<1>7. CellsOK'
  BY <1>1, <1>4, <1>5, <1>6 DEF CellsOK, Live
<1>8. RunsOK'
  <2> SUFFICES ASSUME NEW t \in Task PROVE RunOK(task[t], heap[task[t].live])'
    BY DEF RunsOK
  <2>1. PICK k, o, x : k = tk[t] /\ o = h[tk[t].live] /\ x = heap'[tk[t].live]
    OBVIOUS
  <2>2. RunOK(k, o) /\ k \in TaskRow
    BY <2>1
  <2>3. k.live # None => Core(x) = Core(o)
    BY <1>6, <2>1
  <2>4. RunOK(k, x)
    BY <2>2, <2>3, RunCore, Zenon
  <2>5. RunOK(k, x)'
    BY <2>4, SameRows
  <2> QED
    BY <1>1, <2>1, <2>5
<1>9. ObjectsApart'
  BY <1>1 DEF ObjectsApart, Owns
<1> QED
  BY <1>1, <1>2, <1>7, <1>8, <1>9

\* Hydrations that end, and others whose waiting runs stay as they are.
LEMMA FlightsStay ==
    ASSUME RoomsIInv, UNCHANGED <<ledgerVars, voted>>,
           NEW tk, task' = tk, NEW fl, inflight' = fl,
           \A p \in Replica, r \in Room :
              \/ fl[p][r] = NoFlight
              \/ /\ fl[p][r] = inflight[p][r]
                 /\ \A t \in Task : Awaits(task[t], p, r) => tk[t] = task[t]
    PROVE  FlightsOK'
<1> SUFFICES ASSUME NEW p \in Replica, NEW r \in Room
             PROVE  FlightOK(inflight[p][r], p, r)'
  BY DEF FlightsOK
<1>1. PICK f : f = fl[p][r]
  OBVIOUS
<1>2. CASE f = NoFlight
  <2>1. f.state = "no" /\ f.waiters = <<>>
    BY <1>2 DEF NoFlight
  <2>2. FlightOK(f, p, r)'
    BY <2>1 DEF FlightOK
  <2> QED
    BY <1>1, <2>2
<1>3. CASE f = inflight[p][r] /\ \A t \in Task : Awaits(task[t], p, r) => tk[t] = task[t]
  <2>1. f \in Flight /\ FlightOK(f, p, r)
    BY <1>3 DEF RoomsIInv, FlightsOK, ShapesOK
  <2>2. ASSUME NEW i \in 1..Len(f.waiters) PROVE Awaits(tk[f.waiters[i]], p, r)
    <3>1. f.waiters[i] \in Task /\ Awaits(task[f.waiters[i]], p, r)
      BY <2>1 DEF Flight, FlightOK
    <3> QED
      BY <1>3, <3>1
  <2>3. FlightOK(f, p, r)'
    <3>1. \A o, v : SnapOK(o, v)' <=> SnapOK(o, v)
      BY SameRows
    <3> QED
      BY <2>1, <2>2, <3>1 DEF FlightOK
  <2> QED
    BY <1>1, <2>3
<1> QED
  BY <1>1, <1>2, <1>3

\* The hydration reads a snapshot that is behind the database.
LEMMA HydrateQueryOK ==
    ASSUME RoomsIInv, NEW p \in Replica, NEW r \in Room, HydrateQuery(p, r)
    PROVE  RoomsIInv'
<1>1. PICK snap \in QueryResults(r) :
         inflight' = [inflight EXCEPT ![p][r].state = "back", ![p][r].snap = snap]
  BY Zenon DEF HydrateQuery
<1>2. /\ UNCHANGED <<ledgerVars, heap, entry, task, conn, joined, started, votes, voted>>
      /\ inflight[p][r].state = "sent"
  BY DEF HydrateQuery
<1>3. snap \in RoomObj /\ SnapOK(snap, r)
  BY QueryOK
<1>4. PICK f, e : f = inflight[p][r] /\ e = [f EXCEPT !.state = "back", !.snap = snap]
  BY Zenon
<1>5. inflight \in [Replica -> [Room -> Flight]] /\ f \in Flight /\ f.state = "sent"
  BY <1>2, <1>4 DEF RoomsIInv, ShapesOK
<1>6. e \in Flight /\ e.state = "back" /\ e.snap = snap /\ e.waiters = f.waiters
  BY <1>3, <1>4, <1>5, Zenon DEF Flight
<1>7. inflight' = [inflight EXCEPT ![p][r] = e]
  BY <1>1, <1>4, <1>5, Zenon
<1>8. inflight' \in [Replica -> [Room -> Flight]]
  BY <1>5, <1>6, <1>7
<1>9. FlightsOK'
  <2> SUFFICES ASSUME NEW q \in Replica, NEW x \in Room
               PROVE  FlightOK(inflight[q][x], q, x)'
    BY DEF FlightsOK
  <2>1. PICK y, z : y = inflight[q][x] /\ z = inflight'[q][x]
    OBVIOUS
  <2>2. FlightOK(y, q, x) /\ \A o, v : SnapOK(o, v)' <=> SnapOK(o, v)
    BY <1>2, <2>1, SameRows DEF RoomsIInv, FlightsOK
  <2>3. FlightOK(z, q, x)
    <3>1. CASE q = p /\ x = r
      <4>1. z = e /\ y = f
        BY <1>4, <1>5, <1>7, <2>1, <3>1, Zenon
      <4> QED
        BY <1>3, <1>5, <1>6, <2>2, <3>1, <4>1 DEF FlightOK
    <3>2. CASE ~(q = p /\ x = r)
      BY <1>5, <1>7, <2>1, <2>2, <3>2
    <3> QED
      BY <3>1, <3>2
  <2>4. FlightOK(z, q, x)'
    BY <1>2, <2>2, <2>3 DEF FlightOK
  <2> QED
    BY <2>1, <2>4
<1>10. LedgerInv' /\ PlayOK' /\ VotesOK'
  <2>1. votes' \in [Game -> SUBSET User] /\ \A g \in Game : votes'[g] \subseteq votes[g]
    BY <1>2 DEF RoomsIInv, ShapesOK
  <2> QED
    BY <1>2, <2>1, QuietRows
<1>11. CellsOK' /\ RunsOK' /\ ObjectsApart'
  BY <1>2, SameRuns
<1>12. ShapesOK'
  BY <1>2, <1>8 DEF RoomsIInv, ShapesOK
<1> QED
  BY <1>9, <1>10, <1>11, <1>12 DEF RoomsIInv

\* The frame of a step that replaces many runs.
LEMMA ReplacedAll ==
    ASSUME RoomsIInv, UNCHANGED <<ledgerVars, started, voted>>,
           votes' \in [Game -> SUBSET User], \A g \in Game : votes'[g] \subseteq votes[g],
           conn' \subseteq Socket, joined' \in [Room -> SUBSET Socket],
           inflight' \in [Replica -> [Room -> Flight]],
           heap' \in [Obj -> RoomObj], task' \in [Task -> TaskRow],
           entry' \in [Replica -> [Room -> Obj \cup {None}]],
           CellsOK', RunsOK', ObjectsApart', FlightsOK'
    PROVE  RoomsIInv'
<1>1. LedgerInv' /\ PlayOK' /\ VotesOK'
  BY QuietRows
<1>2. ShapesOK'
  BY DEF RoomsIInv, ShapesOK
<1> QED
  BY <1>1, <1>2 DEF RoomsIInv

\* No hydration is a hydration's shape.
LEMMA NoFlightOK == NoFlight \in Flight
BY BlankOK DEF NoFlight, Flight

\* The hydrated room is cached in a new object, and the joins that waited
\* queue on it.
LEMMA HydrateReplyOK ==
    ASSUME RoomsIInv, NEW p \in Replica, NEW r \in Room, HydrateReply(p, r)
    PROVE  RoomsIInv'
<1> USE RoomsAssumption
<1>1. PICK f, w, snap, fl :
         /\ f = inflight[p][r] /\ w = f.waiters /\ snap = f.snap
         /\ fl = [inflight EXCEPT ![p][r] = NoFlight]
  BY Zenon
<1>2. /\ f.state = "back" /\ inflight' = fl
      /\ UNCHANGED <<ledgerVars, conn, joined, started, votes, voted>>
  BY <1>1, Zenon DEF HydrateReply
<1>3. /\ heap \in [Obj -> RoomObj] /\ task \in [Task -> TaskRow]
      /\ entry \in [Replica -> [Room -> Obj \cup {None}]]
      /\ inflight \in [Replica -> [Room -> Flight]]
  BY DEF RoomsIInv, ShapesOK
<1>4. /\ f \in Flight /\ FlightOK(f, p, r) /\ w \in Seq(Task) /\ w # <<>>
      /\ snap \in RoomObj /\ SnapOK(snap, r)
  BY <1>1, <1>2, <1>3 DEF RoomsIInv, FlightsOK, FlightOK, Flight
<1>5. fl \in [Replica -> [Room -> Flight]]
  BY <1>1, <1>3, NoFlightOK
<1>6. \A t \in Task : (\E i \in 1..Len(w) : w[i] = t) => Awaits(task[t], p, r)
  BY <1>1, <1>4 DEF FlightOK
<1>7. ASSUME NEW tk, task' = tk,
             \A t \in Task : (~\E i \in 1..Len(w) : w[i] = t) => tk[t] = task[t]
      PROVE  FlightsOK'
  <2>1. ASSUME NEW q \in Replica, NEW x \in Room, fl[q][x] # NoFlight
        PROVE  /\ fl[q][x] = inflight[q][x]
               /\ \A t \in Task : Awaits(task[t], q, x) => tk[t] = task[t]
    BY <1>1, <1>3, <1>6, <1>7, <2>1 DEF Awaits
  <2> QED
    BY <1>2, <1>7, <2>1, FlightsStay
<1>8. /\ \A o \in Obj : Live(heap[o]) => Behind(heap[o])
      /\ \A q \in Replica, x \in Room : entry[q][x] # None =>
            entry[q][x] \in Obj /\ Live(heap[entry[q][x]]) /\ games[heap[entry[q][x]].game].home = x
      /\ \A t \in Task :
            /\ task[t].ref # None => /\ task[t].ref \in Obj /\ Live(heap[task[t].ref])
                                     /\ games[heap[task[t].ref].game].home = task[t].room
            /\ task[t].live # None => task[t].live \in Obj /\ Live(heap[task[t].live])
            /\ RunOK(task[t], heap[task[t].live])
  BY <1>3 DEF RoomsIInv, CellsOK, ObjOK, RunsOK, TaskRow
<1>9. CASE Live(snap)
  <2>1. PICK n, x, h, en, B :
           /\ n = NewObj /\ x = [snap EXCEPT !.tail = w[Len(w)]]
           /\ h = [heap EXCEPT ![n] = x] /\ en = [entry EXCEPT ![p][r] = n]
           /\ B = [t \in Task |-> LET i == CHOOSE i \in 1..Len(w) : w[i] = t
                                  IN  IF i = 1 THEN None ELSE w[i - 1]]
    BY Zenon
  <2>2. PICK tk : tk = [t \in Task |->
                          IF \E i \in 1..Len(w) : w[i] = t
                          THEN [task[t] EXCEPT !.pc = "queued", !.ref = n, !.pred = B[t]]
                          ELSE task[t]]
    BY Zenon
  <2>3. n \in Obj /\ heap[n].status = "freed" /\ Update(h, tk, en)
    <3>1. CellFree
      BY <1>1, <1>9, Zenon DEF HydrateReply
    <3>2. Update(h, tk, en)
      BY <1>1, <1>9, <2>1, <2>2, ZenonT(60) DEF HydrateReply
    <3> QED
      BY <2>1, <3>1, <3>2, NewCell
  <2>4. \A t \in Task : (\E i \in 1..Len(w) : w[i] = t) => B[t] \in Task \cup {None}
    <3> SUFFICES ASSUME NEW t \in Task, \E i \in 1..Len(w) : w[i] = t
                 PROVE  B[t] \in Task \cup {None}
      OBVIOUS
    <3>1. PICK j : j = CHOOSE i \in 1..Len(w) : w[i] = t
      OBVIOUS
    <3>2. j \in 1..Len(w) /\ B[t] = IF j = 1 THEN None ELSE w[j - 1]
      BY <2>1, <3>1
    <3>3. j # 1 => j - 1 \in 1..Len(w)
      BY <1>4, <3>2
    <3> QED
      BY <1>4, <3>2, <3>3
  <2>5. x \in RoomObj /\ Core(x) = Core(snap)
    <3>1. w[Len(w)] \in Task
      BY <1>4
    <3> QED
      BY <1>4, <2>1, <3>1, TailOnly
  <2>6. Live(x) /\ Behind(x) /\ games[x.game].home = r
    BY <1>4, <1>9, <2>5, CoreSame DEF SnapOK
  <2>7. /\ h \in [Obj -> RoomObj] /\ h[n] = x /\ \A o \in Obj : o # n => h[o] = heap[o]
        /\ en \in [Replica -> [Room -> Obj \cup {None}]] /\ en[p][r] = n
        /\ \A q \in Replica, y \in Room : ~(q = p /\ y = r) => en[q][y] = entry[q][y]
    BY <1>3, <2>1, <2>3, <2>5
  <2>8. ASSUME NEW t \in Task
        PROVE  \/ /\ tk[t] \in TaskRow /\ tk[t].ref = n /\ tk[t].live = None
                  /\ tk[t].room = r /\ \A o : RunOK(tk[t], o)
               \/ tk[t] = task[t] /\ ~\E i \in 1..Len(w) : w[i] = t
    <3>1. CASE \E i \in 1..Len(w) : w[i] = t
      <4>1. PICK k, j, b : k = task[t] /\ j = tk[t] /\ b = B[t]
        OBVIOUS
      <4>2. k \in TaskRow /\ Awaits(k, p, r) /\ b \in Task \cup {None} /\ RunShape(k)
        BY <1>3, <1>6, <1>8, <2>4, <3>1, <4>1 DEF RunOK
      <4>3. j = [k EXCEPT !.pc = "queued", !.ref = n, !.pred = b]
        BY <2>2, <3>1, <4>1, Zenon
      <4>4. /\ j.pc = "queued" /\ j.ref = n /\ j.pred = b /\ j.kind = k.kind
            /\ j.sock = k.sock /\ j.room = k.room /\ j.live = k.live /\ j \in TaskRow
        BY <2>3, <4>2, <4>3, Zenon DEF TaskRow, Phases
      <4>5. /\ k.sock \in Socket /\ k.room = r /\ k.room \in Room /\ k.kind = "join" /\ k.live = None
        BY <4>2 DEF Awaits, RunShape
      <4>6. \A o : RunOK(j, o)
        BY <2>3, <4>4, <4>5
           DEF RunOK, RunShape, RunReads, RunPlays, RunVotes, RunRematches
      <4> QED
        BY <4>1, <4>4, <4>5, <4>6
    <3>2. CASE ~\E i \in 1..Len(w) : w[i] = t
      BY <2>2, <3>2, Zenon
    <3> QED
      BY <3>1, <3>2
  <2>9. tk \in [Task -> TaskRow]
    <3>1. \A t \in Task : tk[t] \in TaskRow
      BY <1>3, <2>8
    <3> QED
      BY <2>2, <3>1, Zenon
  <2>10. ASSUME NEW o \in Obj, ReachedIn(o, tk, en) PROVE Live(h[o]) /\ Behind(h[o])
    <3>1. CASE o = n
      BY <2>6, <2>7, <3>1
    <3>2. CASE o # n
      <4>1. o # None
        OBVIOUS
      <4>2. \/ \E q \in Replica, y \in Room : entry[q][y] = o
            \/ \E t \in Task : o \in {task[t].ref, task[t].live}
        BY <2>7, <2>8, <2>10, <3>2, <4>1 DEF ReachedIn
      <4> QED
        BY <1>8, <2>7, <3>2, <4>1, <4>2
    <3> QED
      BY <3>1, <3>2
  <2>11. ASSUME NEW o \in Obj, Live(heap[o]) PROVE h[o] = heap[o]
    BY <2>3, <2>7, <2>11 DEF Live
  <2>12. \A q \in Replica, y \in Room :
            en[q][y] # None => games[h[en[q][y]].game].home = y
    BY <1>8, <2>6, <2>7, <2>11
  <2>13. \A t \in Task : tk[t].ref # None => games[h[tk[t].ref].game].home = tk[t].room
    BY <1>8, <2>6, <2>7, <2>8, <2>11
  <2>14. ASSUME NEW t \in Task PROVE RunOK(tk[t], h[tk[t].live])
    <3>1. CASE tk[t] = task[t]
      <4>1. PICK k, o, y : k = task[t] /\ o = heap[task[t].live] /\ y = h[task[t].live]
        OBVIOUS
      <4>2. k \in TaskRow /\ RunOK(k, o) /\ (k.live # None => Core(y) = Core(o))
        BY <1>3, <1>8, <2>11, <4>1
      <4>3. RunOK(k, y)
        BY <4>2, RunCore
      <4> QED
        BY <3>1, <4>1, <4>3
    <3> QED
      BY <2>8, <3>1
  <2>15. \A t, q \in Task :
            Owns(tk[t]) /\ Owns(tk[q]) /\ tk[t].live = tk[q].live => t = q
    BY <2>8 DEF RoomsIInv, ObjectsApart, Owns
  <2>16. /\ CellsOK' /\ RunsOK' /\ ObjectsApart'
         /\ heap' \in [Obj -> RoomObj] /\ task' \in [Task -> TaskRow]
         /\ entry' \in [Replica -> [Room -> Obj \cup {None}]]
    BY <1>2, <2>3, <2>7, <2>9, <2>10, <2>12, <2>13, <2>14, <2>15, ReplacedOK, Zenon
  <2>17. FlightsOK'
    <3>1. task' = tk
      BY <2>3 DEF Update
    <3>2. \A t \in Task : (~\E i \in 1..Len(w) : w[i] = t) => tk[t] = task[t]
      BY <2>2, Zenon
    <3> QED
      BY <1>7, <3>1, <3>2
  <2>18. /\ votes' \in [Game -> SUBSET User] /\ \A g \in Game : votes'[g] \subseteq votes[g]
         /\ conn' \subseteq Socket /\ joined' \in [Room -> SUBSET Socket]
    BY <1>2 DEF RoomsIInv, ShapesOK
  <2> QED
    BY <1>2, <1>5, <2>16, <2>17, <2>18, ReplacedAll
<1>10. CASE ~Live(snap)
  <2>1. PICK tk, h, en : /\ tk = [t \in Task |-> IF \E i \in 1..Len(w) : w[i] = t
                                                 THEN NoTask ELSE task[t]]
                         /\ h = heap /\ en = entry
    BY Zenon
  <2>2. Update(h, tk, en)
    BY <1>1, <1>10, <2>1 DEF HydrateReply
  <2>3. /\ \A t \in Task : tk[t] \in {NoTask, task[t]}
        /\ NoTask \in TaskRow /\ NoTask.ref = None /\ NoTask.live = None
        /\ \A o : RunOK(NoTask, o)
    BY <2>1, RunOver
  <2>4. tk \in [Task -> TaskRow]
    BY <1>3, <2>1, <2>3
  <2>5. ASSUME NEW o \in Obj, ReachedIn(o, tk, en) PROVE Live(h[o]) /\ Behind(h[o])
    <3>1. o # None
      OBVIOUS
    <3>2. \/ \E q \in Replica, y \in Room : entry[q][y] = o
          \/ \E t \in Task : o \in {task[t].ref, task[t].live}
      BY <2>1, <2>3, <2>5, <3>1 DEF ReachedIn
    <3> QED
      BY <1>8, <2>1, <3>1, <3>2
  <2>6. \A t \in Task : /\ tk[t].ref # None => games[h[tk[t].ref].game].home = tk[t].room
                        /\ RunOK(tk[t], h[tk[t].live])
    BY <1>8, <2>1, <2>3
  <2>7. \A t, q \in Task :
            Owns(tk[t]) /\ Owns(tk[q]) /\ tk[t].live = tk[q].live => t = q
    BY <2>3 DEF RoomsIInv, ObjectsApart, Owns
  <2>8. /\ CellsOK' /\ RunsOK' /\ ObjectsApart'
        /\ heap' \in [Obj -> RoomObj] /\ task' \in [Task -> TaskRow]
        /\ entry' \in [Replica -> [Room -> Obj \cup {None}]]
    <3>1. /\ h \in [Obj -> RoomObj] /\ en \in [Replica -> [Room -> Obj \cup {None}]]
          /\ \A q \in Replica, y \in Room :
                en[q][y] # None => games[h[en[q][y]].game].home = y
      BY <1>3, <1>8, <2>1
    <3> QED
      BY <1>2, <2>2, <2>4, <2>5, <2>6, <2>7, <3>1, ReplacedOK, Zenon
  <2>9. FlightsOK'
    <3>1. task' = tk
      BY <2>2 DEF Update
    <3>2. \A t \in Task : (~\E i \in 1..Len(w) : w[i] = t) => tk[t] = task[t]
      BY <2>1
    <3> QED
      BY <1>7, <3>1, <3>2
  <2>10. /\ votes' \in [Game -> SUBSET User] /\ \A g \in Game : votes'[g] \subseteq votes[g]
         /\ conn' \subseteq Socket /\ joined' \in [Room -> SUBSET Socket]
    BY <1>2 DEF RoomsIInv, ShapesOK
  <2> QED
    BY <1>2, <1>5, <2>8, <2>9, <2>10, ReplacedAll
<1> QED
  BY <1>9, <1>10

\* A restarted process knows the recoverable rooms, each in a new object, and
\* leaves the objects of the other replicas alone.
LEMMA RestartOK ==
    ASSUME RoomsIInv, NEW p \in Replica, Restart(p)
    PROVE  RoomsIInv'
<1> USE RoomsAssumption
<1>1. PICK mine, live, kept : mine = Mine(p) /\ live = Recoverable /\ kept = Kept(p)
  OBVIOUS
<1>2. PICK cell : cell \in Cells(live, kept) /\ Rebuilt(p, cell)
  BY <1>1 DEF Restart
<1>3. PICK h, tk, en, fl :
         /\ h = [o \in Obj |-> IF \E r \in live : cell[r] = o
                               THEN Snapshot(CHOOSE r \in live : cell[r] = o) ELSE heap[o]]
         /\ tk = [t \in Task |-> IF task[t].sock \in mine THEN NoTask ELSE task[t]]
         /\ en = [entry EXCEPT ![p] = [r \in Room |-> IF r \in live THEN cell[r] ELSE None]]
         /\ fl = [inflight EXCEPT ![p] = [r \in Room |-> NoFlight]]
  BY Zenon
<1>4. /\ Update(h, tk, en) /\ inflight' = fl
      /\ conn' \subseteq conn /\ joined' = [r \in Room |-> joined[r] \ mine]
      /\ votes' = VotesAtStart /\ UNCHANGED <<ledgerVars, started, voted>>
  <2>1. Update(h, tk, en)
    BY <1>1, <1>2, <1>3 DEF Rebuilt
  <2> QED
    BY <1>1, <1>3, <2>1 DEF Restart
<1>5. /\ heap \in [Obj -> RoomObj] /\ task \in [Task -> TaskRow]
      /\ entry \in [Replica -> [Room -> Obj \cup {None}]]
      /\ inflight \in [Replica -> [Room -> Flight]]
      /\ joined \in [Room -> SUBSET Socket] /\ conn \subseteq Socket
      /\ votes \in [Game -> SUBSET User]
  BY DEF RoomsIInv, ShapesOK
<1>6. /\ cell \in [live -> Obj \ kept] /\ \A r, q \in live : cell[r] = cell[q] => r = q
      /\ live \subseteq Room
  BY <1>1, <1>2 DEF Cells, Recoverable
<1>7. /\ \A o \in Obj : Live(heap[o]) => Behind(heap[o])
      /\ \A q \in Replica, x \in Room : entry[q][x] # None =>
            entry[q][x] \in Obj /\ Live(heap[entry[q][x]]) /\ games[heap[entry[q][x]].game].home = x
      /\ \A t \in Task :
            /\ task[t].ref # None => /\ task[t].ref \in Obj /\ Live(heap[task[t].ref])
                                     /\ games[heap[task[t].ref].game].home = task[t].room
            /\ task[t].live # None => task[t].live \in Obj /\ Live(heap[task[t].live])
            /\ RunOK(task[t], heap[task[t].live])
  BY <1>5 DEF RoomsIInv, CellsOK, ObjOK, RunsOK, TaskRow
<1>8. ASSUME NEW r \in live
      PROVE  /\ cell[r] \in Obj /\ h[cell[r]] \in RoomObj /\ Live(h[cell[r]])
             /\ Behind(h[cell[r]]) /\ games[h[cell[r]].game].home = r
  <2>1. cell[r] \in Obj /\ r \in Room
    BY <1>6
  <2>2. PICK c : c = CHOOSE x \in live : cell[x] = cell[r]
    OBVIOUS
  <2>3. c \in live /\ cell[c] = cell[r]
    BY <2>2
  <2>4. c = r
    BY <1>6, <2>3
  <2>5. h[cell[r]] = Snapshot(r)
    BY <1>3, <2>1, <2>2, <2>4
  <2>6. Snapshot(r) \in RoomObj /\ SnapOK(Snapshot(r), r) /\ Live(Snapshot(r))
    BY <1>1, <2>1, SnapshotOK
  <2> QED
    BY <2>1, <2>5, <2>6 DEF SnapOK
<1>9. ASSUME NEW o \in Obj, ~\E r \in live : cell[r] = o PROVE h[o] = heap[o]
  BY <1>3, <1>9
<1>10. ASSUME NEW o \in Obj, o \in kept PROVE h[o] = heap[o]
  BY <1>6, <1>9, <1>10
<1>11. h \in [Obj -> RoomObj]
  <2>1. \A o \in Obj : h[o] \in RoomObj
    BY <1>5, <1>8, <1>9, Zenon
  <2> QED
    BY <1>3, <2>1, Zenon
<1>12. /\ en \in [Replica -> [Room -> Obj \cup {None}]]
       /\ \A r \in Room : en[p][r] = IF r \in live THEN cell[r] ELSE None
       /\ \A q \in Replica, r \in Room : q # p => en[q][r] = entry[q][r] /\ entry[q][r] \in kept
  <2>1. PICK c : c = [r \in Room |-> IF r \in live THEN cell[r] ELSE None]
    BY Zenon
  <2>2. c \in [Room -> Obj \cup {None}]
    BY <1>6, <2>1
  <2>3. en = [entry EXCEPT ![p] = c]
    BY <1>3, <2>1
  <2>4. /\ en \in [Replica -> [Room -> Obj \cup {None}]] /\ en[p] = c
        /\ \A q \in Replica : q # p => en[q] = entry[q]
    BY <1>5, <2>2, <2>3
  <2>5. \A q \in Replica, r \in Room : q # p => entry[q][r] \in kept
    BY <1>1 DEF Kept
  <2> QED
    BY <2>1, <2>4, <2>5
<1>13. ASSUME NEW t \in Task
       PROVE  \/ tk[t] = NoTask
              \/ /\ tk[t] = task[t] /\ task[t].sock \notin mine
                 /\ task[t].ref \in kept /\ task[t].live \in kept
  BY <1>1, <1>3 DEF Kept
<1>14. /\ NoTask \in TaskRow /\ NoTask.ref = None /\ NoTask.live = None
       /\ \A o : RunOK(NoTask, o)
  BY RunOver
<1>15. tk \in [Task -> TaskRow]
  BY <1>3, <1>5, <1>14
<1>16. ASSUME NEW o \in Obj, ReachedIn(o, tk, en) PROVE Live(h[o]) /\ Behind(h[o])
  <2>1. o # None
    OBVIOUS
  <2>2. CASE \E q \in Replica, r \in Room : en[q][r] = o
    <3>1. PICK q \in Replica, r \in Room : en[q][r] = o
      BY <2>2
    <3>2. CASE q = p
      BY <1>8, <1>12, <2>1, <3>1, <3>2
    <3>3. CASE q # p
      BY <1>7, <1>10, <1>12, <2>1, <3>1, <3>3
    <3> QED
      BY <3>2, <3>3
  <2>3. CASE \E t \in Task : o \in {tk[t].ref, tk[t].live}
    BY <1>7, <1>10, <1>13, <1>14, <2>1, <2>3
  <2> QED
    BY <1>16, <2>2, <2>3 DEF ReachedIn
<1>17. ASSUME NEW q \in Replica, NEW r \in Room, en[q][r] # None
       PROVE  games[h[en[q][r]].game].home = r
  <2>1. CASE q = p
    BY <1>8, <1>12, <1>17, <2>1
  <2>2. CASE q # p
    BY <1>7, <1>10, <1>12, <1>17, <2>2
  <2> QED
    BY <2>1, <2>2
<1>18. ASSUME NEW t \in Task, tk[t].ref # None
       PROVE  games[h[tk[t].ref].game].home = tk[t].room
  BY <1>7, <1>10, <1>13, <1>14, <1>18
<1>19. ASSUME NEW t \in Task PROVE RunOK(tk[t], h[tk[t].live])
  <2>1. CASE tk[t] = task[t] /\ task[t].live \in kept
    <3>1. PICK k, o, y : k = task[t] /\ o = heap[task[t].live] /\ y = h[task[t].live]
      OBVIOUS
    <3>2. k \in TaskRow /\ RunOK(k, o) /\ (k.live # None => Core(y) = Core(o))
      BY <1>5, <1>7, <1>10, <2>1, <3>1
    <3>3. RunOK(k, y)
      BY <3>2, RunCore
    <3> QED
      BY <2>1, <3>1, <3>3
  <2> QED
    BY <1>13, <1>14, <2>1
<1>20. \A t, q \in Task :
          Owns(tk[t]) /\ Owns(tk[q]) /\ tk[t].live = tk[q].live => t = q
  BY <1>13, <1>14 DEF RoomsIInv, ObjectsApart, Owns
<1>21. /\ CellsOK' /\ RunsOK' /\ ObjectsApart'
       /\ heap' \in [Obj -> RoomObj] /\ task' \in [Task -> TaskRow]
       /\ entry' \in [Replica -> [Room -> Obj \cup {None}]]
  BY <1>4, <1>11, <1>12, <1>15, <1>16, <1>17, <1>18, <1>19, <1>20, ReplacedOK, Zenon
<1>22. FlightsOK'
  <2>1. task' = tk
    BY <1>4 DEF Update
  <2>2. ASSUME NEW q \in Replica, NEW r \in Room, fl[q][r] # NoFlight
        PROVE  /\ fl[q][r] = inflight[q][r]
               /\ \A t \in Task : Awaits(task[t], q, r) => tk[t] = task[t]
    <3>1. q # p /\ fl[q][r] = inflight[q][r]
      BY <1>3, <1>5, <2>2
    <3>2. ASSUME NEW t \in Task, Awaits(task[t], q, r) PROVE tk[t] = task[t]
      BY <1>1, <1>3, <3>1, <3>2 DEF Awaits, Mine
    <3> QED
      BY <3>1, <3>2
  <2> QED
    BY <1>4, <2>1, <2>2, FlightsStay
<1>23. fl \in [Replica -> [Room -> Flight]]
  <2>1. [r \in Room |-> NoFlight] \in [Room -> Flight]
    BY NoFlightOK
  <2> QED
    BY <1>3, <1>5, <2>1
<1>24. /\ votes' \in [Game -> SUBSET User] /\ \A g \in Game : votes'[g] \subseteq votes[g]
  BY <1>4, <1>5 DEF VotesAtStart
<1>25. conn' \subseteq Socket /\ joined' \in [Room -> SUBSET Socket]
  BY <1>4, <1>5
<1> QED
  BY <1>4, <1>21, <1>22, <1>23, <1>24, <1>25, ReplacedAll

-----------------------------------------------------------------------------

\* Nothing is cached, in progress or voted at first.
LEMMA RoomsInitOK ==
    ASSUME RoomsInit
    PROVE  RoomsIInv
<1> USE RoomsAssumption, LedgerAssumption
<1>1. LedgerInv
  BY InitInv DEF RoomsInit
<1>2. Blank \in RoomObj /\ ~Live(Blank) /\ Blank.status = "freed" /\ NoFlight \in Flight
  BY BlankOK, NoFlightOK
<1>3. /\ NoTask \in TaskRow /\ NoTask.ref = None /\ NoTask.live = None
      /\ \A o : RunOK(NoTask, o)
  BY RunOver
<1>4. ShapesOK
  BY <1>2, <1>3 DEF RoomsInit, ShapesOK
<1>5. CellsOK
  BY <1>2, <1>3 DEF RoomsInit, CellsOK, ObjOK
<1>6. FlightsOK
  <2>1. NoFlight.state = "no" /\ NoFlight.waiters = <<>>
    BY DEF NoFlight
  <2> QED
    BY <2>1 DEF RoomsInit, FlightsOK, FlightOK
<1>7. RunsOK /\ ObjectsApart
  BY <1>3 DEF RoomsInit, RunsOK, ObjectsApart, Owns
<1>8. PlayOK /\ VotesOK
  <2>1. /\ \A g \in Game : games[g] = NoGame /\ moves[g] = <<>> /\ votes[g] = {} /\ voted[g] = {}
    BY DEF RoomsInit, LedgerInit
  <2>2. NoGame.prev = None /\ NoGame.board.over = "no"
    BY DEF NoGame, StartBoard
  <2> QED
    BY <2>1, <2>2 DEF PlayOK, VotesOK
<1> QED
  BY <1>1, <1>4, <1>5, <1>6, <1>7, <1>8 DEF RoomsIInv

\* Every step of a handler run keeps the invariant and commits at most one
\* transaction of the ledger.
LEMMA TaskStepOK ==
    ASSUME RoomsIInv, NEW t \in Task, TaskStep(t)
    PROVE  RoomsIInv' /\ [LedgerNext]_ledgerVars
<1>1. ASSUME RefreshQuery(t) \/ NoTruth(t)
      PROVE  RoomsIInv' /\ [LedgerNext]_ledgerVars
  BY <1>1, RefreshQueryOK, NoTruthOK DEF RefreshQuery, NoTruth
<1>2. ASSUME CreateCommit(t) \/ JoinCommit(t) \/ MoveCommit(t) \/ SettleCommit(t)
                \/ RematchCommit(t)
      PROVE  RoomsIInv' /\ [LedgerNext]_ledgerVars
  BY <1>2, CreateCommitOK, JoinCommitOK, MoveCommitOK, SettleCommitOK, RematchCommitOK
<1>3. ASSUME CreateDone(t) PROVE RoomsIInv' /\ [LedgerNext]_ledgerVars
  BY <1>3, CreateDoneOK, Zenon DEF CreateDone
<1>4. ASSUME JoinReconnect(t) \/ JoinRefused(t) \/ JoinClaim(t)
      PROVE  RoomsIInv' /\ [LedgerNext]_ledgerVars
  BY <1>4, JoinReconnectOK, JoinRefusedOK, JoinClaimOK
     DEF JoinReconnect, JoinRefused, JoinClaim
<1>5. ASSUME JoinSeated(t) \/ JoinPresence(t)
      PROVE  RoomsIInv' /\ [LedgerNext]_ledgerVars
  BY <1>5, JoinSeatedOK, JoinPresenceOK, Zenon DEF JoinSeated, JoinPresence
<1>6. ASSUME MoveRefused(t) \/ MoveDecide(t) \/ MoveDone(t)
      PROVE  RoomsIInv' /\ [LedgerNext]_ledgerVars
  BY <1>6, MoveRefusedOK, MoveDecideOK, MoveDoneOK, Zenon DEF MoveRefused, MoveDecide, MoveDone
<1>7. ASSUME GameOverDecide(t) \/ ResignDecide(t) \/ SettleDone(t)
      PROVE  RoomsIInv' /\ [LedgerNext]_ledgerVars
  BY <1>7, GameOverDecideOK, ResignDecideOK, SettleDoneOK
     DEF GameOverDecide, ResignDecide, SettleDone
<1>8. ASSUME LeaveBlind(t) \/ LeaveDecide(t) \/ LeaveSettled(t)
      PROVE  RoomsIInv' /\ [LedgerNext]_ledgerVars
  BY <1>8, LeaveBlindOK, LeaveDecideOK, LeaveSettledOK
     DEF LeaveBlind, LeaveDecide, LeaveSettled
<1>9. ASSUME DisconnectDetach(t) \/ Departed(t)
      PROVE  RoomsIInv' /\ [LedgerNext]_ledgerVars
  BY <1>9, DisconnectDetachOK, DepartedOK DEF DisconnectDetach, Departed
<1>10. ASSUME AcceptDecide(t) \/ Vote(t) \/ CountVotes(t) \/ Quorum(t)
       PROVE  RoomsIInv' /\ [LedgerNext]_ledgerVars
  BY <1>10, AcceptDecideOK, VoteOK, CountVotesOK, QuorumOK
     DEF AcceptDecide, Vote, CountVotes, Quorum
<1>11. ASSUME RematchDone(t) \/ RematchStart(t)
       PROVE  RoomsIInv' /\ [LedgerNext]_ledgerVars
  BY <1>11, RematchDoneOK, RematchStartOK, Zenon DEF RematchDone, RematchStart
<1> QED
  BY <1>1, <1>2, <1>3, <1>4, <1>5, <1>6, <1>7, <1>8, <1>9, <1>10, <1>11, Zenon
     DEF TaskStep

\* Events, hydrations, lapsed votes and restarts commit nothing.
LEMMA OtherStepOK ==
    ASSUME RoomsIInv,
           \/ \E p \in Replica, r \in Room : HydrateStep(p, r)
           \/ ClientStep
           \/ \E g \in Game : VotesExpire(g)
           \/ \E p \in Replica : Restart(p)
    PROVE  RoomsIInv' /\ UNCHANGED ledgerVars
<1>1. ASSUME NEW p \in Replica, NEW r \in Room, HydrateStep(p, r)
      PROVE  RoomsIInv' /\ UNCHANGED ledgerVars
  <2>1. CASE HydrateQuery(p, r)
    BY <2>1, HydrateQueryOK, Zenon DEF HydrateQuery
  <2>2. CASE HydrateReply(p, r)
    BY <2>2, HydrateReplyOK, Zenon DEF HydrateReply
  <2> QED
    BY <1>1, <2>1, <2>2 DEF HydrateStep
<1>2. ASSUME NEW s \in Socket, NEW r \in Room,
             \/ CreateRoom(s, r) \/ JoinCached(s, r) \/ JoinMiss(s, r)
             \/ \E kind \in Events : Send(s, r, kind)
             \/ Disconnect(s, r)
      PROVE  RoomsIInv' /\ UNCHANGED ledgerVars
  <2>1. CASE CreateRoom(s, r)
    BY <2>1, CreateRoomOK, Zenon DEF CreateRoom
  <2>2. CASE JoinCached(s, r)
    BY <2>2, JoinCachedOK DEF JoinCached
  <2>3. CASE JoinMiss(s, r)
    BY <2>3, JoinMissOK, Zenon DEF JoinMiss
  <2>4. ASSUME NEW kind \in Events, Send(s, r, kind)
        PROVE  RoomsIInv' /\ UNCHANGED ledgerVars
    BY <2>4, SendOK DEF Send
  <2>5. CASE Disconnect(s, r)
    BY <2>5, DisconnectOK DEF Disconnect
  <2> QED
    BY <1>2, <2>1, <2>2, <2>3, <2>4, <2>5
<1>3. ASSUME NEW s \in Socket, DisconnectUnattached(s)
      PROVE  RoomsIInv' /\ UNCHANGED ledgerVars
  BY <1>3, DisconnectUnattachedOK DEF DisconnectUnattached
<1>4. ASSUME NEW g \in Game, VotesExpire(g)
      PROVE  RoomsIInv' /\ UNCHANGED ledgerVars
  BY <1>4, VotesExpireOK, Zenon DEF VotesExpire
<1>5. ASSUME NEW p \in Replica, Restart(p)
      PROVE  RoomsIInv' /\ UNCHANGED ledgerVars
  BY <1>5, RestartOK, Zenon DEF Restart
<1> QED
  BY <1>1, <1>2, <1>3, <1>4, <1>5, Zenon DEF ClientStep

\* Every step keeps the invariant and is a step of the ledger or none.
LEMMA RoomsNextOK ==
    ASSUME RoomsIInv, [RoomsNext]_allVars
    PROVE  RoomsIInv' /\ [LedgerNext]_ledgerVars
<1>1. CASE UNCHANGED allVars
  <2>1. /\ UNCHANGED <<ledgerVars, inflight, conn, joined, started, votes, voted>>
        /\ UNCHANGED <<heap, entry, task>>
    BY <1>1 DEF allVars, roomVars
  <2>2. Quiet
    BY <2>1, QuietFrame
  <2> QED
    BY <2>1, <2>2, FadeOK
<1>2. CASE RoomsNext
  BY <1>2, TaskStepOK, OtherStepOK, Zenon DEF RoomsNext
<1> QED
  BY <1>1, <1>2

\* The caches, hydrations, handler runs and votes of all replicas agree with
\* the database as RoomsIInv says, through every interleaving of handlers,
\* faults, disconnects and restarts (gameSocket.js).
THEOREM RoomsInvariant == RoomsSpec => []RoomsIInv
<1>1. RoomsInit => RoomsIInv
  BY RoomsInitOK
<1>2. RoomsIInv /\ [RoomsNext]_allVars => RoomsIInv'
  BY RoomsNextOK
<1> QED
  BY <1>1, <1>2, PTL DEF RoomsSpec

\* Room objects, cache entries and handler runs keep their shapes.
THEOREM RoomsTypeCorrect == RoomsSpec => []RoomsTypeOK
<1>1. RoomsIInv => RoomsTypeOK
  BY DEF RoomsIInv, LedgerInv, ShapesOK, CellsOK, RoomsTypeOK, RoomObj, TaskRow
<1> QED
  BY <1>1, RoomsInvariant, PTL

\* No replica's cached room ever shows a result, a move or a second player
\* that the database does not hold: the object is written after the commit
\* (gameSocket.js handlers), and what was committed is never taken back.
THEOREM CachesStayBehind == RoomsSpec => []CacheNeverAhead
<1>1. RoomsIInv => CacheNeverAhead
  <2> SUFFICES ASSUME RoomsIInv, NEW o \in Obj, heap[o].status # "freed"
               PROVE  LET g == heap[o].game
                      IN  /\ heap[o].status = "finished" => Finished(g)
                          /\ heap[o].n <= Len(moves[g])
                          /\ heap[o].black \in {None, games[g].black}
    BY DEF CacheNeverAhead
  <2>1. Live(heap[o]) /\ Behind(heap[o])
    BY DEF RoomsIInv, CellsOK, ObjOK, Live
  <2> QED
    BY <2>1 DEF Behind
<1> QED
  BY <1>1, RoomsInvariant, PTL

\* A rematch is created only after both players of the finished game voted,
\* whichever replicas counted the votes and however they lapsed, failed or
\* were cleared in between ("2 == unanimous", gameSocket.js:41-42).
THEOREM RematchNeedsBoth == RoomsSpec => []RematchUnanimous
<1>1. RoomsIInv => RematchUnanimous
  BY DEF RoomsIInv, VotesOK, RematchUnanimous
<1> QED
  BY <1>1, RoomsInvariant, PTL

\* The handlers of all replicas together do nothing to the database but the
\* transactions of the ledger, each under the guard the ledger asks for.
THEOREM RoomsImplementLedger == RoomsSpec => LedgerSpec
<1>1. RoomsInit => LedgerInit
  BY DEF RoomsInit
<1>2. RoomsIInv /\ [RoomsNext]_allVars => [LedgerNext]_ledgerVars
  BY RoomsNextOK
<1> QED
  BY <1>1, <1>2, RoomsInvariant, PTL DEF RoomsSpec, LedgerSpec

\* So what the transactions guarantee holds of the whole service: a game that
\* ended stays as it ended, a seat is never taken twice, the moves follow the
\* board, and ratings, scores and awards are those of the results.
THEOREM RoomsKeepRecords ==
    RoomsSpec => /\ EndedIsFinal /\ SeatsAreFinal
                 /\ [](OneGamePerRoom /\ OneSuccessor) /\ []MovesMatchBoard
                 /\ []RatingsMatchResults /\ []RecordsMatchResults
BY RoomsImplementLedger, EndedStaysEnded, SeatsStayTaken, RematchSafe, MovesAgreeWithBoard,
   RatingsAgree, RecordsAgree, PTL

-----------------------------------------------------------------------------
(* The promise chain of a room.                                            *)

\* A run that is on the chain of its room at its replica.
Chained(k) == k.kind # "create" /\ k.pc \notin {"idle", "hydrating"}

On(k, p, r) == Chained(k) /\ Home[k.sock] = p /\ k.room = r

TailOf(p, r) == heap[entry[p][r]].tail

\* A step takes an entry out of a cache while runs are still queued on it: the
\* next join starts a chain of its own (evictIfSocketless, gameSocket.js:212).
LosesQueue ==
    \E p \in Replica, r \in Room :
       entry[p][r] # None /\ entry'[p][r] = None /\ \E t \in Task : On(task'[t], p, r)

\* A run that has started waits for nobody, and one run of a room does not wait.
HeadsOK ==
    /\ \A t \in Task : task[t].pc # "queued" => task[t].pred = None
    /\ \A p \in Replica, r \in Room, t, q \in Task :
          On(task[t], p, r) /\ On(task[q], p, r)
            /\ task[t].pred = None /\ task[q].pred = None => t = q

\* A run waits for a run of its own chain, and no two wait for the same one.
LinksOK ==
    /\ \A p \in Replica, r \in Room, t \in Task :
          On(task[t], p, r) /\ task[t].pred # None => On(task[task[t].pred], p, r)
    /\ \A t, q \in Task :
          Chained(task[t]) /\ Chained(task[q])
            /\ task[t].pred # None /\ task[t].pred = task[q].pred => t = q

\* The cached object knows the end of the chain.
TailOK(p, r) ==
    /\ TailOf(p, r) = None => \A t \in Task : On(task[t], p, r) => task[t].pred # None
    /\ TailOf(p, r) # None =>
          /\ On(task[TailOf(p, r)], p, r)
          /\ \A t \in Task : Chained(task[t]) => task[t].pred # TailOf(p, r)

TailsOK == \A p \in Replica, r \in Room : entry[p][r] # None => TailOK(p, r)

QueuesHeld ==
    \A p \in Replica, r \in Room, t \in Task : On(task[t], p, r) => entry[p][r] # None

Apart(en) ==
    \A p, q \in Replica, r, x \in Room :
       en[p][r] # None /\ en[p][r] = en[q][x] => p = q /\ r = x

EntriesApart == Apart(entry)

\* A room is hydrated only where it is not cached, for each waiter once.
FlightsAlone ==
    \A p \in Replica, r \in Room :
       /\ inflight[p][r].state # "no" =>
             entry[p][r] = None /\ \E g \in Game : games[g].home = r
       /\ \A i, j \in 1..Len(inflight[p][r].waiters) :
             inflight[p][r].waiters[i] = inflight[p][r].waiters[j] => i = j

\* Nobody else is in a room that is being created.
CreatesAlone ==
    \A p \in Replica, r \in Room, t \in Task :
       task[t].kind = "create" /\ Home[task[t].sock] = p /\ task[t].room = r =>
          /\ entry[p][r] = None /\ inflight[p][r].state = "no"
          /\ \A q \in Task : task[q].kind = "create" /\ task[q].room = r => q = t

ChainInv ==
    /\ HeadsOK /\ LinksOK /\ TailsOK /\ QueuesHeld
    /\ EntriesApart /\ FlightsAlone /\ CreatesAlone

-----------------------------------------------------------------------------

\* A room that has a game keeps it.
HomesStay == \A g \in Game, r \in Room : games[g].home = r => games'[g].home = r

\* No run enters or leaves a chain, and no link changes.
Steady ==
    /\ \A q \in Task :
          /\ Chained(task'[q]) <=> Chained(task[q])
          /\ task'[q].kind = task[q].kind /\ task'[q].sock = task[q].sock
          /\ task'[q].room = task[q].room /\ task'[q].pred = task[q].pred
          /\ task'[q].pc = "queued" \/ task[q].pc # "queued" \/ task[q].pred = None
    /\ \A p \in Replica, r \in Room :
          /\ entry'[p][r] = None <=> entry[p][r] = None
          /\ entry[p][r] # None => TailOf(p, r)' = TailOf(p, r)

\* Chains are made of runs.
LEMMA ChainTypes ==
    ASSUME ShapesOK
    PROVE  /\ \A q \in Task : task[q].pred \in Task \cup {None}
           /\ \A p \in Replica, r \in Room :
                 entry[p][r] # None => TailOf(p, r) \in Task \cup {None}
BY DEF ShapesOK, TaskRow, RoomObj, TailOf

\* A step within the runs keeps the chains.
LEMMA SteadyOK ==
    ASSUME ChainInv, Steady, HomesStay, EntriesApart', inflight' = inflight,
           ShapesOK
    PROVE  ChainInv'
<1>1. \A q \in Task, p \in Replica, r \in Room : On(task'[q], p, r) <=> On(task[q], p, r)
  BY DEF Steady, On
<1>2. \A q \in Task : task[q].pred \in Task \cup {None}
  BY ChainTypes
<1>3. HeadsOK'
  BY <1>1 DEF ChainInv, HeadsOK, Steady
<1>4. LinksOK'
  BY <1>1, <1>2 DEF ChainInv, LinksOK, Steady
<1>5. TailsOK'
  <2> SUFFICES ASSUME NEW p \in Replica, NEW r \in Room, entry'[p][r] # None
               PROVE  TailOK(p, r)'
    BY DEF TailsOK
  <2>1. entry[p][r] # None /\ TailOK(p, r) /\ TailOf(p, r)' = TailOf(p, r)
    BY DEF ChainInv, TailsOK, Steady
  <2>2. \A q \in Task : task'[q].pred = task[q].pred /\ (Chained(task'[q]) <=> Chained(task[q]))
    BY DEF Steady
  <2>3. TailOf(p, r) # None => On(task'[TailOf(p, r)], p, r)
    BY <1>1, <2>1, ChainTypes DEF TailOK
  <2> QED
    BY <1>1, <2>1, <2>2, <2>3 DEF TailOK
<1>6. QueuesHeld'
  BY <1>1 DEF ChainInv, QueuesHeld, Steady
<1>7. FlightsAlone'
  BY DEF ChainInv, FlightsAlone, Steady, HomesStay
<1>8. CreatesAlone'
  BY DEF ChainInv, CreatesAlone, Steady
<1> QED
  BY <1>3, <1>4, <1>5, <1>6, <1>7, <1>8 DEF ChainInv

\* The run t is over: whoever waits for it goes on.  A cache keeps its chains,
\* or drops one that is empty; a room that t created has an empty one.
Ends(t) ==
    /\ task[t].pred = None /\ task[t].pc \notin {"idle", "hydrating"}
    /\ task'[t] = NoTask
    /\ \A q \in Task \ {t} :
          /\ task'[q].pc = task[q].pc /\ task'[q].kind = task[q].kind
          /\ task'[q].sock = task[q].sock /\ task'[q].room = task[q].room
          /\ task'[q].pred = IF task[q].pred = t THEN None ELSE task[q].pred
    /\ \A p \in Replica, r \in Room : entry'[p][r] # None =>
          \/ /\ entry[p][r] # None
             /\ TailOf(p, r)' = IF TailOf(p, r) = t THEN None ELSE TailOf(p, r)
          \/ /\ task[t].kind = "create" /\ Home[task[t].sock] = p /\ task[t].room = r
             /\ TailOf(p, r)' = None

\* The end of a run keeps the chains.
LEMMA EndsOK ==
    ASSUME ChainInv, NEW t \in Task, Ends(t), ~LosesQueue, HomesStay, EntriesApart',
           inflight' = inflight, ShapesOK
    PROVE  ChainInv'
<1> USE LedgerAssumption, RoomsAssumption
<1>1. ~Chained(task'[t]) /\ task'[t].kind = "none" /\ task'[t].pred = None /\ t # None
  BY DEF Ends, NoTask, Chained
<1>2. \A q \in Task : Chained(task'[q]) => Chained(task[q]) /\ q # t
  BY <1>1 DEF Ends, Chained
<1>3. \A q \in Task, p \in Replica, r \in Room :
         On(task'[q], p, r) <=> On(task[q], p, r) /\ q # t
  BY <1>1 DEF Ends, On, Chained
<1>4. \A q \in Task \ {t} : task'[q].pred = IF task[q].pred = t THEN None ELSE task[q].pred
  BY DEF Ends
<1>5. task[t].pred = None /\ (task[t].kind = "create" \/ Chained(task[t]))
  BY DEF Ends, Chained
<1>6. \A q \in Task : task[q].pred \in Task \cup {None}
  BY ChainTypes
<1>7. HeadsOK'
  <2>1. \A q \in Task : task'[q].pc # "queued" => task'[q].pred = None
    BY <1>1, <1>4 DEF ChainInv, HeadsOK, Ends
  <2>2. ASSUME NEW p \in Replica, NEW r \in Room, NEW q \in Task, NEW z \in Task,
               On(task'[q], p, r), On(task'[z], p, r),
               task'[q].pred = None, task'[z].pred = None
        PROVE  q = z
    <3>1. On(task[q], p, r) /\ On(task[z], p, r) /\ q # t /\ z # t
      BY <1>3, <2>2
    <3>2. task[q].pred \in {None, t} /\ task[z].pred \in {None, t}
      BY <1>4, <2>2, <3>1
    <3>3. task[q].pred = t \/ task[z].pred = t => On(task[t], p, r)
      BY <1>1, <3>1 DEF ChainInv, LinksOK
    <3> QED
      BY <1>1, <1>5, <3>1, <3>2, <3>3 DEF ChainInv, HeadsOK, LinksOK, On
  <2> QED
    BY <2>1, <2>2 DEF HeadsOK
<1>8. LinksOK'
  BY <1>1, <1>2, <1>3, <1>4, <1>6 DEF ChainInv, LinksOK
<1>9. QueuesHeld'
  BY <1>3 DEF ChainInv, QueuesHeld, LosesQueue
<1>10. TailsOK'
  <2> SUFFICES ASSUME NEW p \in Replica, NEW r \in Room, entry'[p][r] # None
               PROVE  TailOK(p, r)'
    BY DEF TailsOK
  <2>1. CASE /\ entry[p][r] # None
             /\ TailOf(p, r)' = IF TailOf(p, r) = t THEN None ELSE TailOf(p, r)
    <3>1. PICK x : x = TailOf(p, r)
      OBVIOUS
    <3>2. x \in Task \cup {None} /\ TailOK(p, r)
      BY <2>1, <3>1, ChainTypes DEF ChainInv, TailsOK
    <3>3. CASE x = t
      <4>1. On(task[t], p, r) /\ \A q \in Task : Chained(task[q]) => task[q].pred # t
        BY <1>1, <3>1, <3>2, <3>3 DEF TailOK
      <4>2. \A q \in Task : On(task'[q], p, r) => task'[q].pred # None
        BY <1>3, <1>4, <1>5, <4>1 DEF ChainInv, HeadsOK, On
      <4> QED
        BY <2>1, <3>1, <3>3, <4>2 DEF TailOK
    <3>4. CASE x = None
      <4>1. \A q \in Task : On(task[q], p, r) => task[q].pred # None
        BY <3>1, <3>2, <3>4 DEF TailOK
      <4>2. \A q \in Task : On(task[q], p, r) => task[q].pred # t
        BY <1>1, <1>5, <4>1 DEF ChainInv, LinksOK
      <4>3. \A q \in Task : On(task'[q], p, r) => task'[q].pred # None
        BY <1>3, <1>4, <4>1, <4>2
      <4> QED
        BY <1>1, <2>1, <3>1, <3>4, <4>3 DEF TailOK
    <3>5. CASE x # t /\ x # None
      <4>1. x \in Task /\ On(task[x], p, r) /\ \A q \in Task : Chained(task[q]) => task[q].pred # x
        BY <3>1, <3>2, <3>5 DEF TailOK
      <4>2. On(task'[x], p, r) /\ \A q \in Task : Chained(task'[q]) => task'[q].pred # x
        BY <1>2, <1>3, <1>4, <3>5, <4>1
      <4> QED
        BY <2>1, <3>1, <3>5, <4>2 DEF TailOK
    <3> QED
      BY <3>3, <3>4, <3>5
  <2>2. CASE /\ task[t].kind = "create" /\ Home[task[t].sock] = p /\ task[t].room = r
             /\ TailOf(p, r)' = None
    <3>1. entry[p][r] = None
      BY <2>2 DEF ChainInv, CreatesAlone
    <3>2. \A q \in Task : ~On(task'[q], p, r)
      BY <1>3, <3>1 DEF ChainInv, QueuesHeld
    <3> QED
      BY <2>2, <3>2 DEF TailOK
  <2> QED
    BY <2>1, <2>2 DEF Ends
<1>11. \A p \in Replica, r \in Room : entry'[p][r] # None =>
          \/ entry[p][r] # None
          \/ task[t].kind = "create" /\ Home[task[t].sock] = p /\ task[t].room = r
  BY DEF Ends
<1>12. FlightsAlone'
  BY <1>11 DEF ChainInv, FlightsAlone, CreatesAlone, HomesStay
<1>13. CreatesAlone'
  <2>1. \A q \in Task : task'[q].kind = "create" =>
           /\ q # t /\ task[q].kind = "create"
           /\ task'[q].sock = task[q].sock /\ task'[q].room = task[q].room
    BY <1>1 DEF Ends
  <2> QED
    BY <1>11, <2>1 DEF ChainInv, CreatesAlone
<1> QED
  BY <1>7, <1>8, <1>9, <1>10, <1>12, <1>13 DEF ChainInv

-----------------------------------------------------------------------------

\* What commits keeps every room with its games.
LEMMA HomesStayed ==
    ASSUME RoomsIInv, [LedgerNext]_ledgerVars
    PROVE  HomesStay
<1>1. Grows
  BY LedgerGrows DEF RoomsIInv
<1>2. \A g \in Game, r \in Room : games[g].home = r => games[g].status # "absent"
  BY LedgerAssumption DEF RoomsIInv, LedgerInv, RowsWellFormed, RowWellFormed, NoGame
<1> QED
  BY <1>1, <1>2 DEF HomesStay, Grows

\* The caches en over the objects h have the chains of now, perhaps not all of
\* them; a room that t has created has an empty one.
Kin(t, h, en) ==
    \A p \in Replica, r \in Room : en[p][r] # None =>
       \/ entry[p][r] # None /\ h[en[p][r]].tail = TailOf(p, r)
       \/ /\ task[t].kind = "create" /\ Home[task[t].sock] = p /\ task[t].room = r
          /\ h[en[p][r]].tail = None

\* A run whose turn it is.
Turned(t) == task[t].pred = None /\ task[t].pc \notin {"idle", "hydrating"}

\* A run that ends leaves its chain to the next one.
LEMMA FinishChain ==
    ASSUME RoomsIInv, ChainInv, NEW t \in Task, Turned(t), NEW h \in [Obj -> RoomObj],
           NEW en \in [Replica -> [Room -> Obj \cup {None}]],
           Finish(t, h, en), Kin(t, h, en), Apart(en),
           ~LosesQueue, HomesStay, inflight' = inflight
    PROVE  ChainInv'
<1> USE RoomsAssumption
<1>0. task \in [Task -> TaskRow] /\ ShapesOK
  BY DEF RoomsIInv, ShapesOK
<1>1. PICK hh, tk :
         /\ hh = [o \in Obj |-> IF h[o].tail = t THEN [h[o] EXCEPT !.tail = None]
                                                 ELSE h[o]]
         /\ tk = [q \in Task |-> IF q = t THEN NoTask
                           ELSE IF task[q].pred = t
                                THEN [task[q] EXCEPT !.pred = None]
                                ELSE task[q]]
  BY Zenon
<1>2. Update(hh, tk, en)
  BY <1>1 DEF Finish
<1>3. task' = tk /\ entry' = en
  BY <1>2 DEF Update
<1>4. \A o \in Obj : hh[o].tail = IF h[o].tail = t THEN None ELSE h[o].tail
  <2> SUFFICES ASSUME NEW o \in Obj
               PROVE  hh[o].tail = IF h[o].tail = t THEN None ELSE h[o].tail
    OBVIOUS
  <2>1. h[o] \in RoomObj /\ hh[o] = IF h[o].tail = t THEN [h[o] EXCEPT !.tail = None] ELSE h[o]
    BY <1>1
  <2> QED
    BY <2>1 DEF RoomObj
<1>5. \A p \in Replica, r \in Room : en[p][r] # None =>
         en[p][r] \in Obj /\ heap'[en[p][r]] = hh[en[p][r]]
  BY <1>2 DEF Update
<1>6. \A p \in Replica, r \in Room : entry'[p][r] # None =>
          \/ /\ entry[p][r] # None
             /\ TailOf(p, r)' = IF TailOf(p, r) = t THEN None ELSE TailOf(p, r)
          \/ /\ task[t].kind = "create" /\ Home[task[t].sock] = p /\ task[t].room = r
             /\ TailOf(p, r)' = None
  <2> SUFFICES ASSUME NEW p \in Replica, NEW r \in Room, entry'[p][r] # None
               PROVE  \/ /\ entry[p][r] # None
                         /\ TailOf(p, r)' = IF TailOf(p, r) = t THEN None ELSE TailOf(p, r)
                      \/ /\ task[t].kind = "create" /\ Home[task[t].sock] = p
                         /\ task[t].room = r /\ TailOf(p, r)' = None
    OBVIOUS
  <2>1. en[p][r] # None /\ en[p][r] \in Obj
    BY <1>3, <1>5
  <2>2. TailOf(p, r)' = IF h[en[p][r]].tail = t THEN None ELSE h[en[p][r]].tail
    BY <1>3, <1>4, <1>5, <2>1 DEF TailOf
  <2>3. None # t
    OBVIOUS
  <2> QED
    BY <2>1, <2>2, <2>3 DEF Kin
<1>7. \A q \in Task \ {t} :
          /\ task'[q].pc = task[q].pc /\ task'[q].kind = task[q].kind
          /\ task'[q].sock = task[q].sock /\ task'[q].room = task[q].room
          /\ task'[q].pred = IF task[q].pred = t THEN None ELSE task[q].pred
  <2> SUFFICES ASSUME NEW q \in Task \ {t}
               PROVE  /\ task'[q].pc = task[q].pc /\ task'[q].kind = task[q].kind
                      /\ task'[q].sock = task[q].sock /\ task'[q].room = task[q].room
                      /\ task'[q].pred = IF task[q].pred = t THEN None ELSE task[q].pred
    OBVIOUS
  <2>1. task[q] \in TaskRow
    BY <1>0
  <2>2. task'[q] = IF task[q].pred = t THEN [task[q] EXCEPT !.pred = None] ELSE task[q]
    BY <1>1, <1>3
  <2> QED
    BY <2>1, <2>2 DEF TaskRow
<1>8. task'[t] = NoTask
  BY <1>1, <1>3
<1>9. Ends(t)
  BY <1>6, <1>7, <1>8 DEF Ends, Turned
<1>10. EntriesApart'
  BY <1>3 DEF EntriesApart, Apart
<1> QED
  BY <1>0, <1>9, <1>10, EndsOK

\* A run that goes on stays where it is.
LEMMA UpdateChain ==
    ASSUME RoomsIInv, ChainInv, NEW t \in Task, Turned(t), task[t].kind # "create",
           NEW k, k.kind = task[t].kind, k.sock = task[t].sock, k.room = task[t].room,
           k.pred = task[t].pred, k.pc \notin {"idle", "hydrating"},
           NEW h, NEW en \in [Replica -> [Room -> Obj \cup {None}]],
           NEW tk, tk[t] = k, \A q \in Task \ {t} : tk[q] = task[q],
           Update(h, tk, en), Kin(t, h, en), Apart(en),
           \A p \in Replica, r \in Room : en[p][r] = None => entry[p][r] = None,
           HomesStay, inflight' = inflight
    PROVE  ChainInv'
<1>1. task' = tk /\ entry' = en
  BY DEF Update
<1>2. \A p \in Replica, r \in Room : en[p][r] # None => heap'[en[p][r]] = h[en[p][r]]
  BY DEF Update
<1>3. \A q \in Task :
          /\ Chained(task'[q]) <=> Chained(task[q])
          /\ task'[q].kind = task[q].kind /\ task'[q].sock = task[q].sock
          /\ task'[q].room = task[q].room /\ task'[q].pred = task[q].pred
          /\ task'[q].pc = "queued" \/ task[q].pc # "queued" \/ task[q].pred = None
  BY <1>1 DEF Chained, Turned
<1>4. \A p \in Replica, r \in Room :
          /\ entry'[p][r] = None <=> entry[p][r] = None
          /\ entry[p][r] # None => TailOf(p, r)' = TailOf(p, r)
  BY <1>1, <1>2 DEF Kin, TailOf
<1>5. Steady
  BY <1>3, <1>4 DEF Steady
<1>6. EntriesApart'
  BY <1>1 DEF EntriesApart, Apart
<1> QED
  BY <1>5, <1>6, SteadyOK DEF RoomsIInv

\* So does one that only sends a query.
LEMMA StepChain ==
    ASSUME RoomsIInv, ChainInv, NEW t \in Task, Turned(t),
           NEW k, k.kind = task[t].kind, k.sock = task[t].sock, k.room = task[t].room,
           k.pred = task[t].pred, k.pc \notin {"idle", "hydrating"},
           task'[t] = k, \A q \in Task \ {t} : task'[q] = task[q],
           heap' = heap, entry' = entry, HomesStay, inflight' = inflight
    PROVE  ChainInv'
<1>1. \A q \in Task :
          /\ Chained(task'[q]) <=> Chained(task[q])
          /\ task'[q].kind = task[q].kind /\ task'[q].sock = task[q].sock
          /\ task'[q].room = task[q].room /\ task'[q].pred = task[q].pred
          /\ task'[q].pc = "queued" \/ task[q].pc # "queued" \/ task[q].pred = None
  BY DEF Chained, Turned
<1>2. Steady
  BY <1>1 DEF Steady, TailOf
<1>3. EntriesApart'
  BY DEF ChainInv, EntriesApart, Apart
<1> QED
  BY <1>2, <1>3, SteadyOK DEF RoomsIInv

\* Objects whose chains are as they are.
SameTails(h) == \A o \in Obj : h[o].tail = heap[o].tail

\* The caches stay.
LEMMA KinKept ==
    ASSUME RoomsIInv, ChainInv, NEW t \in Task, NEW h, SameTails(h)
    PROVE  /\ Kin(t, h, entry) /\ Apart(entry)
           /\ entry \in [Replica -> [Room -> Obj \cup {None}]]
<1>1. entry \in [Replica -> [Room -> Obj \cup {None}]]
  BY DEF RoomsIInv, ShapesOK
<1> QED
  BY <1>1 DEF ChainInv, EntriesApart, SameTails, Kin, TailOf

\* An entry is taken out.
LEMMA KinLess ==
    ASSUME NEW t \in Task, NEW h, NEW en, Kin(t, h, en), Apart(en), NEW ev,
           \A p \in Replica, r \in Room : ev[p][r] \in {None, en[p][r]}
    PROVE  Kin(t, h, ev) /\ Apart(ev)
BY DEF Kin, Apart

\* A run of a chain finds the room in the cache, and the refreshed object is
\* put at the end of the same chain.
LEMMA RunOfChain ==
    ASSUME RoomsIInv, ChainInv, NEW t \in Task, Chained(task[t])
    PROVE  /\ P(t) \in Replica /\ R(t) \in Room
           /\ entry[P(t)][R(t)] # None /\ entry[P(t)][R(t)] \in Obj
           /\ Current(t) = entry[P(t)][R(t)]
           /\ heap[Current(t)].tail = TailOf(P(t), R(t))
           /\ On(task[t], P(t), R(t))
<1>1. P(t) \in Replica /\ R(t) \in Room /\ Cached(t) \in Obj \cup {None}
  BY EntryTypes DEF Chained
<1>2. On(task[t], P(t), R(t))
  BY DEF On, P, R
<1> QED
  BY <1>1, <1>2 DEF ChainInv, QueuesHeld, Current, Cached, TailOf

\* A new object with the chain of the old one replaces it.
LEMMA KinFresh ==
    ASSUME RoomsIInv, ChainInv, CellFree, NEW t \in Task, task[t].pc \notin {"idle", "hydrating"},
           NEW o \in RoomObj,
           \/ Chained(task[t]) /\ o.tail = TailOf(P(t), R(t))
           \/ task[t].kind = "create" /\ o.tail = None,
           NEW h, h = [heap EXCEPT ![NewObj] = o],
           NEW en, en = SetEntry(t, NewObj)
    PROVE  /\ h \in [Obj -> RoomObj] /\ Kin(t, h, en) /\ Apart(en)
           /\ en \in [Replica -> [Room -> Obj \cup {None}]]
           /\ \A p \in Replica, r \in Room : en[p][r] = None => entry[p][r] = None
<1> USE RoomsAssumption
<1>1. NewObj \in Obj /\ heap[NewObj].status = "freed"
  BY NewCell
<1>2. heap \in [Obj -> RoomObj] /\ P(t) \in Replica /\ R(t) \in Room
  BY EntryTypes DEF RoomsIInv, ShapesOK
<1>3. h \in [Obj -> RoomObj] /\ h[NewObj] = o /\ \A x \in Obj \ {NewObj} : h[x] = heap[x]
  BY <1>1, <1>2
<1>4. /\ en \in [Replica -> [Room -> Obj \cup {None}]]
      /\ \A p \in Replica, r \in Room :
            en[p][r] = IF p = P(t) /\ r = R(t) THEN NewObj ELSE entry[p][r]
  BY <1>1, EntryTypes
<1>5. \A p \in Replica, r \in Room : entry[p][r] # None =>
         entry[p][r] \in Obj /\ entry[p][r] # NewObj
  <2>1. /\ entry \in [Replica -> [Room -> Obj \cup {None}]]
        /\ \A p \in Replica, r \in Room : entry[p][r] # None => Live(heap[entry[p][r]])
    BY DEF RoomsIInv, ShapesOK, CellsOK
  <2>2. ~Live(heap[NewObj])
    BY <1>1 DEF Live
  <2> QED
    BY <2>1, <2>2
<1>6. Apart(en)
  BY <1>4, <1>5, SMTT(60) DEF ChainInv, EntriesApart, Apart
<1>7. Kin(t, h, en)
  <2> SUFFICES ASSUME NEW p \in Replica, NEW r \in Room, en[p][r] # None
               PROVE  \/ entry[p][r] # None /\ h[en[p][r]].tail = TailOf(p, r)
                      \/ /\ task[t].kind = "create" /\ Home[task[t].sock] = p
                         /\ task[t].room = r /\ h[en[p][r]].tail = None
    BY DEF Kin
  <2>1. CASE p = P(t) /\ r = R(t)
    <3>1. h[en[p][r]].tail = o.tail
      BY <1>3, <1>4, <2>1
    <3>2. CASE Chained(task[t]) /\ o.tail = TailOf(P(t), R(t))
      BY <2>1, <3>1, <3>2, RunOfChain
    <3>3. CASE task[t].kind = "create" /\ o.tail = None
      BY <2>1, <3>1, <3>3 DEF P, R
    <3> QED
      BY <3>2, <3>3
  <2>2. CASE ~(p = P(t) /\ r = R(t))
    BY <1>3, <1>4, <1>5, <2>2 DEF TailOf
  <2> QED
    BY <2>1, <2>2
<1>8. \A p \in Replica, r \in Room : en[p][r] = None => entry[p][r] = None
  BY <1>1, <1>4
<1> QED
  BY <1>3, <1>4, <1>6, <1>7, <1>8

\* A handler ends on its refreshed object.
LEMMA ReturnChain ==
    ASSUME RoomsIInv, ChainInv, NEW t \in Task, Turned(t), NEW o \in RoomObj,
           \/ Chained(task[t]) /\ o.tail = TailOf(P(t), R(t))
           \/ task[t].kind = "create" /\ o.tail = None,
           Return(t, o), ~LosesQueue, HomesStay, inflight' = inflight
    PROVE  ChainInv'
<1>1. PICK h, en : h = [heap EXCEPT ![NewObj] = o] /\ en = SetEntry(t, NewObj)
  BY Zenon
<1>2. CellFree /\ Finish(t, h, en) /\ task[t].pc \notin {"idle", "hydrating"}
  BY <1>1 DEF Return, Turned
<1>3. /\ h \in [Obj -> RoomObj] /\ Kin(t, h, en) /\ Apart(en)
      /\ en \in [Replica -> [Room -> Obj \cup {None}]]
  BY <1>1, <1>2, KinFresh, Zenon
<1> QED
  BY <1>2, <1>3, FinishChain

\* A handler throws on its refreshed object.
LEMMA ThrowChain ==
    ASSUME RoomsIInv, ChainInv, NEW t \in Task, Turned(t), NEW o \in RoomObj,
           Chained(task[t]), o.tail = TailOf(P(t), R(t)),
           Throw(t, o), ~LosesQueue, HomesStay, inflight' = inflight
    PROVE  ChainInv'
<1>1. PICK h, en : h = [heap EXCEPT ![NewObj] = o] /\ en = SetEntry(t, NewObj)
  BY Zenon
<1>2. CellFree /\ Finish(t, h, Evicted(t, h, en)) /\ task[t].pc \notin {"idle", "hydrating"}
  BY <1>1 DEF Throw, Turned
<1>3. /\ h \in [Obj -> RoomObj] /\ Kin(t, h, en) /\ Apart(en)
      /\ en \in [Replica -> [Room -> Obj \cup {None}]]
  BY <1>1, <1>2, KinFresh, Zenon
<1>4. P(t) \in Replica /\ R(t) \in Room
  BY RunOfChain
<1>5. PICK ev : ev = Evicted(t, h, en)
  OBVIOUS
<1>6. /\ ev \in [Replica -> [Room -> Obj \cup {None}]]
      /\ \A p \in Replica, r \in Room : ev[p][r] \in {None, en[p][r]}
  BY <1>3, <1>4, <1>5 DEF Evicted
<1>7. Kin(t, h, ev) /\ Apart(ev)
  BY <1>3, <1>6, KinLess
<1> QED
  BY <1>2, <1>3, <1>5, <1>6, <1>7, FinishChain

\* A handler goes on with its refreshed object.
LEMMA ProceedChain ==
    ASSUME RoomsIInv, ChainInv, NEW t \in Task, Turned(t), NEW o \in RoomObj,
           Chained(task[t]), o.tail = TailOf(P(t), R(t)),
           NEW pc, pc \notin {"idle", "hydrating"}, NEW res,
           ProceedWith(t, o, pc, res), HomesStay, inflight' = inflight
    PROVE  ChainInv'
<1>1. PICK h, en, tk : /\ h = [heap EXCEPT ![NewObj] = o] /\ en = SetEntry(t, NewObj)
                       /\ tk = [task EXCEPT ![t].pc = pc, ![t].live = NewObj,
                                            ![t].snap = Blank, ![t].res = res]
  BY Zenon
<1>2. CellFree /\ Update(h, tk, en) /\ task[t].pc \notin {"idle", "hydrating"}
  BY <1>1 DEF ProceedWith, Turned
<1>3. /\ Kin(t, h, en) /\ Apart(en)
      /\ en \in [Replica -> [Room -> Obj \cup {None}]]
      /\ \A p \in Replica, r \in Room : en[p][r] = None => entry[p][r] = None
  <2>1. h = [heap EXCEPT ![NewObj] = o] /\ en = SetEntry(t, NewObj)
    BY <1>1
  <2>2. \/ Chained(task[t]) /\ o.tail = TailOf(P(t), R(t))
        \/ task[t].kind = "create" /\ o.tail = None
    OBVIOUS
  <2> QED
    BY <1>2, <2>1, <2>2, KinFresh, ZenonT(90)
<1>4. task \in [Task -> TaskRow] /\ task[t] \in TaskRow
  BY RunFacts
<1>5. /\ tk[t].kind = task[t].kind /\ tk[t].sock = task[t].sock /\ tk[t].room = task[t].room
      /\ tk[t].pred = task[t].pred /\ tk[t].pc = pc
      /\ \A q \in Task \ {t} : tk[q] = task[q]
  BY <1>1, <1>4 DEF TaskRow
<1>6. task[t].kind # "create"
  BY DEF Chained
<1>7. PICK k : k = tk[t]
  OBVIOUS
<1> QED
  BY <1>2, <1>3, <1>5, <1>6, <1>7, UpdateChain

\* A run that has started has its turn.
LEMMA Started ==
    ASSUME RoomsIInv, ChainInv, NEW t \in Task, task[t].pc \notin {"idle", "hydrating"},
           task[t].pc = "queued" => task[t].pred = None
    PROVE  /\ Turned(t)
           /\ task[t].kind # "create" => Chained(task[t])
           /\ task[t].pc \notin {"tx", "txdone"} => task[t].kind # "create"
           /\ task[t] \in TaskRow /\ task \in [Task -> TaskRow] /\ heap \in [Obj -> RoomObj]
<1>1. RunShape(task[t]) /\ task[t] \in TaskRow /\ task \in [Task -> TaskRow] /\ heap \in [Obj -> RoomObj]
  BY RunFacts
<1> QED
  BY <1>1 DEF ChainInv, HeadsOK, Turned, Chained, RunShape

\* A run ends on the cached object, and perhaps evicts it.
LEMMA FinishLess ==
    ASSUME RoomsIInv, ChainInv, NEW t \in Task, Turned(t), NEW h \in [Obj -> RoomObj],
           SameTails(h), NEW en \in [Replica -> [Room -> Obj \cup {None}]],
           \A p \in Replica, r \in Room : en[p][r] \in {None, entry[p][r]},
           Finish(t, h, en), ~LosesQueue, HomesStay, inflight' = inflight
    PROVE  ChainInv'
<1>1. Kin(t, h, entry) /\ Apart(entry)
  BY KinKept
<1>2. Kin(t, h, en) /\ Apart(en)
  BY <1>1, KinLess
<1> QED
  BY <1>2, FinishChain

\* A run ends and leaves the caches as they are.
LEMMA FinishHere ==
    ASSUME RoomsIInv, ChainInv, NEW t \in Task, Turned(t), NEW h \in [Obj -> RoomObj],
           SameTails(h), Finish(t, h, entry), ~LosesQueue, HomesStay, inflight' = inflight
    PROVE  ChainInv'
<1>1. entry \in [Replica -> [Room -> Obj \cup {None}]]
  BY DEF RoomsIInv, ShapesOK
<1> QED
  BY <1>1, FinishLess

\* A run goes on with the cached object.
LEMMA UpdateHere ==
    ASSUME RoomsIInv, ChainInv, NEW t \in Task, Turned(t), task[t].kind # "create",
           NEW k, k.kind = task[t].kind, k.sock = task[t].sock, k.room = task[t].room,
           k.pred = task[t].pred, k.pc \notin {"idle", "hydrating"},
           NEW h, SameTails(h),
           NEW tk, tk[t] = k, \A q \in Task \ {t} : tk[q] = task[q],
           Update(h, tk, entry), HomesStay, inflight' = inflight
    PROVE  ChainInv'
BY KinKept, UpdateChain

\* One object changes, but for its chain.
LEMMA OneObject ==
    ASSUME NEW l \in Obj, heap \in [Obj -> RoomObj], NEW x \in RoomObj,
           x.tail = heap[l].tail, NEW h, h = [heap EXCEPT ![l] = x]
    PROVE  h \in [Obj -> RoomObj] /\ SameTails(h)
BY DEF SameTails

\* Another status is all that an object differs in.
LEMMA StatusOnly ==
    ASSUME NEW o \in RoomObj
    PROVE  /\ [o EXCEPT !.status = "finished"] \in RoomObj
           /\ [o EXCEPT !.status = "finished"].tail = o.tail
BY DEF RoomObj

\* The objects stay.
LEMMA NoObject ==
    ASSUME RoomsIInv
    PROVE  heap \in [Obj -> RoomObj] /\ SameTails(heap)
BY DEF RoomsIInv, ShapesOK, SameTails

\* The refreshed object, with the socket of its player or without, is on the
\* chain of the cached one.
LEMMA RefreshedChain ==
    ASSUME RoomsIInv, ChainInv, NEW t \in Task, task[t].pc = "read", Live(task[t].snap),
           NEW o, o \in {Refreshed(t), [Refreshed(t) EXCEPT !.att[U(t)] = S(t)],
                         Detach(Refreshed(t), S(t))}
    PROVE  /\ Turned(t) /\ Chained(task[t])
           /\ o \in RoomObj /\ o.tail = TailOf(P(t), R(t))
<1>1. Turned(t) /\ Chained(task[t])
  BY Started
<1>2. PICK x : x = Refreshed(t)
  OBVIOUS
<1>3. x \in RoomObj /\ x.tail = TailOf(P(t), R(t))
  BY <1>1, <1>2, RefreshedOK, RunOfChain, Zenon
<1>4. S(t) \in Socket /\ U(t) \in User /\ Owner[S(t)] = U(t)
  BY <1>1, EntryTypes DEF Turned, S, U
<1>5. ASSUME NEW z \in Socket \cup {None}
      PROVE  [x EXCEPT !.att[U(t)] = z] \in RoomObj /\ [x EXCEPT !.att[U(t)] = z].tail = x.tail
  BY <1>3, <1>4 DEF RoomObj
<1>6. o \in {x, [x EXCEPT !.att[U(t)] = S(t)], [x EXCEPT !.att[U(t)] = None]}
  BY <1>2, <1>4 DEF Detach
<1> QED
  BY <1>1, <1>3, <1>4, <1>5, <1>6, Zenon

\* What a handler decides on its refreshed object keeps the chains.
LEMMA DecideChain ==
    ASSUME RoomsIInv, ChainInv, NEW t \in Task, ~LosesQueue, HomesStay,
           \/ JoinReconnect(t) \/ JoinRefused(t) \/ JoinClaim(t)
           \/ MoveRefused(t) \/ MoveDecide(t) \/ GameOverDecide(t) \/ ResignDecide(t)
           \/ LeaveDecide(t) \/ AcceptDecide(t)
    PROVE  ChainInv'
<1>1. PICK x, a, d : /\ x = Refreshed(t) /\ a = [Refreshed(t) EXCEPT !.att[U(t)] = S(t)]
                     /\ d = Detach(Refreshed(t), S(t))
  BY Zenon
<1>2. task[t].pc = "read" /\ Live(task[t].snap) /\ inflight' = inflight
  BY DEF JoinReconnect, JoinRefused, JoinClaim, MoveRefused, MoveDecide, GameOverDecide,
         ResignDecide, LeaveDecide, AcceptDecide, Decides
<1>3. \A o \in {x, a, d} : /\ Turned(t) /\ Chained(task[t])
                           /\ o \in RoomObj /\ o.tail = TailOf(P(t), R(t))
  BY <1>1, <1>2, RefreshedChain
<1>4. PICK o \in {x, a, d} :
         \/ Return(t, o) \/ Throw(t, o)
         \/ \E pc \in {"presence", "tx", "settle", "unvote", "vote"},
               res \in {"none", "resign", x.board.over} : ProceedWith(t, o, pc, res)
  <2>1. CASE JoinReconnect(t)
    BY <1>1, <2>1 DEF JoinReconnect, Proceed
  <2>2. CASE JoinRefused(t)
    BY <1>1, <2>2 DEF JoinRefused
  <2>3. CASE JoinClaim(t)
    BY <1>1, <2>3 DEF JoinClaim, Proceed
  <2>4. CASE MoveRefused(t)
    BY <1>1, <2>4 DEF MoveRefused
  <2>5. CASE MoveDecide(t)
    BY <1>1, <2>5 DEF MoveDecide, Proceed
  <2>6. CASE GameOverDecide(t)
    BY <1>1, <2>6 DEF GameOverDecide
  <2>7. CASE ResignDecide(t)
    BY <1>1, <2>7 DEF ResignDecide
  <2>8. CASE LeaveDecide(t)
    BY <1>1, <2>8 DEF LeaveDecide, Proceed
  <2>9. CASE AcceptDecide(t)
    BY <1>1, <2>9 DEF AcceptDecide, Proceed
  <2> QED
    BY <2>1, <2>2, <2>3, <2>4, <2>5, <2>6, <2>7, <2>8, <2>9
<1>5. CASE Return(t, o)
  BY <1>2, <1>3, <1>5, ReturnChain
<1>6. CASE Throw(t, o)
  BY <1>2, <1>3, <1>6, ThrowChain
<1>7. ASSUME NEW pc \in {"presence", "tx", "settle", "unvote", "vote"},
             NEW res \in {"none", "resign", x.board.over}, ProceedWith(t, o, pc, res)
      PROVE  ChainInv'
  BY <1>2, <1>3, <1>7, ProceedChain
<1> QED
  BY <1>4, <1>5, <1>6, <1>7

\* A run that is replaced by k.
LEMMA TaskReplaced ==
    ASSUME NEW t \in Task, task \in [Task -> TaskRow], NEW k, NEW tk, tk = [task EXCEPT ![t] = k]
    PROVE  tk[t] = k /\ \A q \in Task \ {t} : tk[q] = task[q]
OBVIOUS

\* Queries and transactions leave the chains alone.
LEMMA QueryChain ==
    ASSUME RoomsIInv, ChainInv, NEW t \in Task, ~LosesQueue, HomesStay,
           \/ RefreshQuery(t) \/ CreateCommit(t) \/ JoinCommit(t) \/ MoveCommit(t)
           \/ SettleCommit(t) \/ Vote(t) \/ CountVotes(t) \/ Quorum(t) \/ RematchCommit(t)
    PROVE  ChainInv'
<1>1. /\ inflight' = inflight /\ task[t].pc \notin {"idle", "hydrating"}
      /\ task[t].pc = "queued" => task[t].pred = None
  BY Zenon DEF RefreshQuery, CreateCommit, JoinCommit, MoveCommit, SettleCommit, Vote,
         CountVotes, Quorum, RematchCommit
<1>2. Turned(t) /\ task[t] \in TaskRow /\ task \in [Task -> TaskRow]
  BY <1>1, Started
<1>3. CASE Finish(t, heap, entry)
  BY <1>1, <1>2, <1>3, NoObject, FinishHere
<1>4. ASSUME NEW k, task' = [task EXCEPT ![t] = k], UNCHANGED <<heap, entry>>,
             k.kind = task[t].kind, k.sock = task[t].sock, k.room = task[t].room,
             k.pred = task[t].pred, k.pc \notin {"idle", "hydrating"}
      PROVE  ChainInv'
  <2>1. task'[t] = k /\ \A q \in Task \ {t} : task'[q] = task[q]
    BY <1>2, <1>4, TaskReplaced
  <2> QED
    BY <1>1, <1>2, <1>4, <2>1, StepChain
<1>5. CASE RefreshQuery(t)
  <2>1. PICK snap : task' = [task EXCEPT ![t].pc = "read", ![t].snap = snap]
    BY <1>5, Zenon DEF RefreshQuery
  <2>2. PICK k : k = [task[t] EXCEPT !.pc = "read", !.snap = snap]
    OBVIOUS
  <2>3. task' = [task EXCEPT ![t] = k] /\ UNCHANGED <<heap, entry>>
    BY <1>2, <1>5, <2>1, <2>2, Zenon DEF RefreshQuery
  <2>4. /\ k.kind = task[t].kind /\ k.sock = task[t].sock /\ k.room = task[t].room
        /\ k.pred = task[t].pred /\ k.pc = "read"
    BY <1>2, <2>2 DEF TaskRow
  <2> QED
    BY <1>4, <2>3, <2>4, Zenon
<1>6. CASE CreateCommit(t)
  <2>1. PICK out, snap : task' = [task EXCEPT ![t].pc = "txdone", ![t].out = out, ![t].snap = snap]
    <3>1. CASE \E g \in Game :
                 task' = [task EXCEPT ![t].pc = "txdone", ![t].out = "ok",
                                    ![t].snap = [@ EXCEPT !.game = g]]
      BY <3>1, Zenon
    <3>2. CASE task' = [task EXCEPT ![t].pc = "txdone", ![t].out = "no"]
      <4>1. task' = [task EXCEPT ![t].pc = "txdone", ![t].out = "no", ![t].snap = task[t].snap]
        BY <1>2, <3>2, Zenon DEF TaskRow
      <4> QED
        BY <4>1, Zenon
    <3> QED
      BY <1>6, <3>1, <3>2, Zenon DEF CreateCommit
  <2>2. PICK k : k = [task[t] EXCEPT !.pc = "txdone", !.out = out, !.snap = snap]
    OBVIOUS
  <2>3. task' = [task EXCEPT ![t] = k] /\ UNCHANGED <<heap, entry>>
    BY <1>2, <1>6, <2>1, <2>2, Zenon DEF CreateCommit
  <2>4. /\ k.kind = task[t].kind /\ k.sock = task[t].sock /\ k.room = task[t].room
        /\ k.pred = task[t].pred /\ k.pc = "txdone"
    BY <1>2, <2>2 DEF TaskRow
  <2> QED
    BY <1>4, <2>3, <2>4, Zenon
<1>7. CASE JoinCommit(t)
  <2>1. PICK out : task' = [task EXCEPT ![t].pc = "txdone", ![t].out = out]
    BY <1>7 DEF JoinCommit
  <2>2. PICK k : k = [task[t] EXCEPT !.pc = "txdone", !.out = out]
    OBVIOUS
  <2>3. task' = [task EXCEPT ![t] = k] /\ UNCHANGED <<heap, entry>>
    BY <1>2, <1>7, <2>1, <2>2, Zenon DEF JoinCommit
  <2>4. /\ k.kind = task[t].kind /\ k.sock = task[t].sock /\ k.room = task[t].room
        /\ k.pred = task[t].pred /\ k.pc = "txdone"
    BY <1>2, <2>2 DEF TaskRow
  <2> QED
    BY <1>4, <2>3, <2>4, Zenon
<1>8. CASE MoveCommit(t)
  <2>1. ASSUME NEW over, task' = [task EXCEPT ![t].pc = "txdone", ![t].res = over],
               UNCHANGED <<heap, entry>>
        PROVE  ChainInv'
    <3>1. PICK k : k = [task[t] EXCEPT !.pc = "txdone", !.res = over]
      OBVIOUS
    <3>2. task' = [task EXCEPT ![t] = k]
      BY <1>2, <2>1, <3>1, Zenon
    <3>3. /\ k.kind = task[t].kind /\ k.sock = task[t].sock /\ k.room = task[t].room
          /\ k.pred = task[t].pred /\ k.pc = "txdone"
      BY <1>2, <3>1 DEF TaskRow
    <3> QED
      BY <1>4, <2>1, <3>2, <3>3, Zenon
  <2> QED
    BY <1>3, <1>8, <2>1 DEF MoveCommit
<1>9. CASE SettleCommit(t)
  <2>1. PICK out : task' = [task EXCEPT ![t].pc = "settled", ![t].out = out]
    BY <1>9 DEF SettleCommit
  <2>2. PICK k : k = [task[t] EXCEPT !.pc = "settled", !.out = out]
    OBVIOUS
  <2>3. task' = [task EXCEPT ![t] = k] /\ UNCHANGED <<heap, entry>>
    BY <1>2, <1>9, <2>1, <2>2, Zenon DEF SettleCommit
  <2>4. /\ k.kind = task[t].kind /\ k.sock = task[t].sock /\ k.room = task[t].room
        /\ k.pred = task[t].pred /\ k.pc = "settled"
    BY <1>2, <2>2 DEF TaskRow
  <2> QED
    BY <1>4, <2>3, <2>4, Zenon
<1>10. CASE Vote(t)
  <2>1. ASSUME task' = Step(t, "count"), UNCHANGED <<heap, entry>> PROVE ChainInv'
    <3>1. PICK k : k = [task[t] EXCEPT !.pc = "count"]
      BY Zenon
    <3>2. task' = [task EXCEPT ![t] = k]
      BY <1>2, <2>1, <3>1 DEF Step
    <3>3. /\ k.kind = task[t].kind /\ k.sock = task[t].sock /\ k.room = task[t].room
          /\ k.pred = task[t].pred /\ k.pc = "count"
      BY <1>2, <3>1 DEF TaskRow
    <3> QED
      BY <1>4, <2>1, <3>2, <3>3
  <2> QED
    BY <1>3, <1>10, <2>1 DEF Vote
<1>11. CASE CountVotes(t)
  <2>1. ASSUME NEW out, task' = [task EXCEPT ![t].pc = "quorum", ![t].out = out],
               UNCHANGED <<heap, entry>>
        PROVE  ChainInv'
    <3>1. PICK k : k = [task[t] EXCEPT !.pc = "quorum", !.out = out]
      OBVIOUS
    <3>2. task' = [task EXCEPT ![t] = k]
      BY <1>2, <2>1, <3>1, Zenon
    <3>3. /\ k.kind = task[t].kind /\ k.sock = task[t].sock /\ k.room = task[t].room
          /\ k.pred = task[t].pred /\ k.pc = "quorum"
      BY <1>2, <3>1 DEF TaskRow
    <3> QED
      BY <1>4, <2>1, <3>2, <3>3, Zenon
  <2> QED
    BY <1>3, <1>11, <2>1 DEF CountVotes
<1>12. CASE Quorum(t)
  <2>1. ASSUME NEW snap, task' = [task EXCEPT ![t].pc = "rematch", ![t].snap = snap],
               UNCHANGED <<heap, entry>>
        PROVE  ChainInv'
    <3>1. PICK k : k = [task[t] EXCEPT !.pc = "rematch", !.snap = snap]
      OBVIOUS
    <3>2. task' = [task EXCEPT ![t] = k]
      BY <1>2, <2>1, <3>1, Zenon
    <3>3. /\ k.kind = task[t].kind /\ k.sock = task[t].sock /\ k.room = task[t].room
          /\ k.pred = task[t].pred /\ k.pc = "rematch"
      BY <1>2, <3>1 DEF TaskRow
    <3> QED
      BY <1>4, <2>1, <3>2, <3>3, Zenon
  <2> QED
    BY <1>3, <1>12, <2>1 DEF Quorum
<1>13. CASE RematchCommit(t)
  <2>1. ASSUME NEW h \in Game,
               task' = [task EXCEPT ![t].pc = "rematched", ![t].snap = [@ EXCEPT !.game = h]],
               UNCHANGED <<heap, entry>>
        PROVE  ChainInv'
    <3>1. PICK k : k = [task[t] EXCEPT !.pc = "rematched", !.snap = [task[t].snap EXCEPT !.game = h]]
      OBVIOUS
    <3>2. task' = [task EXCEPT ![t] = k]
      BY <1>2, <2>1, <3>1, Zenon
    <3>3. /\ k.kind = task[t].kind /\ k.sock = task[t].sock /\ k.room = task[t].room
          /\ k.pred = task[t].pred /\ k.pc = "rematched"
      BY <1>2, <3>1 DEF TaskRow
    <3> QED
      BY <1>4, <2>1, <3>2, <3>3, Zenon
  <2> QED
    BY <1>3, <1>13, <2>1 DEF RematchCommit
<1> QED
  BY <1>5, <1>6, <1>7, <1>8, <1>9, <1>10, <1>11, <1>12, <1>13

\* Handlers that give up, announce or clean up leave the chain to the next.
LEMMA LastChain ==
    ASSUME RoomsIInv, ChainInv, NEW t \in Task, ~LosesQueue, HomesStay,
           \/ NoTruth(t) \/ JoinPresence(t) \/ SettleDone(t) \/ LeaveBlind(t)
           \/ Departed(t) \/ RematchStart(t)
    PROVE  ChainInv'
<1> USE RoomsAssumption
<1>1. /\ inflight' = inflight /\ task[t].pc \notin {"idle", "hydrating", "queued", "tx", "txdone"}
  BY DEF NoTruth, JoinPresence, SettleDone, LeaveBlind, Departed, RematchStart
<1>2. /\ Turned(t) /\ Chained(task[t]) /\ task[t] \in TaskRow
      /\ heap \in [Obj -> RoomObj] /\ SameTails(heap)
  BY <1>1, Started, NoObject
<1>3. /\ entry \in [Replica -> [Room -> Obj \cup {None}]]
      /\ SetEntry(t, None) \in [Replica -> [Room -> Obj \cup {None}]]
      /\ \A p \in Replica, r \in Room : SetEntry(t, None)[p][r] \in {None, entry[p][r]}
  BY <1>1, EntryTypes
<1>4. ASSUME NEW h \in [Obj -> RoomObj], SameTails(h), NEW en \in {entry, SetEntry(t, None)},
             Finish(t, h, en)
      PROVE  ChainInv'
  <2>1. /\ en \in [Replica -> [Room -> Obj \cup {None}]]
        /\ \A p \in Replica, r \in Room : en[p][r] \in {None, entry[p][r]}
    BY <1>3, <1>4
  <2> QED
    BY <1>1, <1>2, <1>4, <2>1, FinishLess, Zenon
<1>5. CASE NoTruth(t)
  BY <1>2, <1>4, <1>5 DEF NoTruth, EntryWithoutTruth
<1>6. CASE JoinPresence(t) \/ RematchStart(t)
  BY <1>2, <1>4, <1>6 DEF JoinPresence, RematchStart
<1>7. CASE SettleDone(t)
  <2>1. task[t].live \in Obj
    BY <1>7, RunFacts DEF RunShape, SettleDone
  <2>2. PICK l, x : l = task[t].live /\ x = [heap[l] EXCEPT !.status = "finished"]
    BY Zenon
  <2>3. x \in RoomObj /\ x.tail = heap[l].tail
    BY <1>2, <2>1, <2>2, StatusOnly
  <2>4. PICK h : h = AfterSettle(t)
    OBVIOUS
  <2>5. h = heap \/ h = [heap EXCEPT ![l] = x]
    BY <1>2, <2>1, <2>2, <2>4 DEF AfterSettle
  <2>6. h \in [Obj -> RoomObj] /\ SameTails(h)
    BY <1>2, <2>1, <2>2, <2>3, <2>5, OneObject, Zenon
  <2> QED
    BY <1>4, <1>7, <2>4, <2>6 DEF SettleDone
<1>8. CASE LeaveBlind(t)
  <2>1. task[t].ref \in Obj /\ S(t) \in Socket
    BY <1>1, <1>8, RunFacts, EntryTypes DEF RunShape, LeaveBlind
  <2>2. PICK l, x : l = task[t].ref /\ x = Detach(heap[l], S(t))
    OBVIOUS
  <2>3. x \in RoomObj /\ x.tail = heap[l].tail
    BY <1>2, <2>1, <2>2, DetachOK, Zenon
  <2>4. PICK h : h = IF Attached(heap[l], S(t)) THEN [heap EXCEPT ![l] = Detach(@, S(t))] ELSE heap
    BY Zenon
  <2>5. h = heap \/ h = [heap EXCEPT ![l] = x]
    BY <1>2, <2>1, <2>2, <2>4
  <2>6. h \in [Obj -> RoomObj] /\ SameTails(h)
    BY <1>2, <2>1, <2>2, <2>3, <2>5, OneObject
  <2>7. Finish(t, h, EntryWithoutTruth(t))
    BY <1>8, <2>2, <2>4 DEF LeaveBlind
  <2> QED
    BY <1>4, <2>6, <2>7 DEF EntryWithoutTruth
<1>9. CASE Departed(t)
  BY <1>2, <1>4, <1>9 DEF Departed
<1> QED
  BY <1>5, <1>6, <1>7, <1>8, <1>9

\* A handler that writes its object writes nothing of the chain.
LEMMA WriteChain ==
    ASSUME RoomsIInv, ChainInv, NEW t \in Task, ~LosesQueue, HomesStay,
           \/ JoinSeated(t) \/ MoveDone(t) \/ LeaveSettled(t) \/ DisconnectDetach(t)
           \/ RematchDone(t)
    PROVE  ChainInv'
<1> USE RoomsAssumption
<1>1. /\ inflight' = inflight /\ task[t].pc \notin {"idle", "hydrating"}
      /\ task[t].pc = "queued" => task[t].pred = None
      /\ task[t].pc \in {"tx", "txdone"} => task[t].kind # "create"
  BY DEF JoinSeated, MoveDone, LeaveSettled, DisconnectDetach, RematchDone
<1>2. /\ Turned(t) /\ Chained(task[t]) /\ task[t] \in TaskRow /\ task \in [Task -> TaskRow]
      /\ heap \in [Obj -> RoomObj] /\ SameTails(heap) /\ task[t].kind # "create"
  BY <1>1, Started, NoObject
<1>3. /\ S(t) \in Socket /\ U(t) \in User /\ P(t) \in Replica /\ R(t) \in Room
      /\ entry \in [Replica -> [Room -> Obj \cup {None}]]
  BY <1>1, EntryTypes
<1>4. ASSUME NEW h \in [Obj -> RoomObj], SameTails(h), Finish(t, h, entry)
      PROVE  ChainInv'
  BY <1>1, <1>2, <1>4, FinishHere
<1>5. ASSUME NEW k, NEW h, SameTails(h), NEW tk, tk = [task EXCEPT ![t] = k],
             Update(h, tk, entry), k.kind = task[t].kind, k.sock = task[t].sock, k.room = task[t].room,
             k.pred = task[t].pred, k.pc \notin {"idle", "hydrating"}
      PROVE  ChainInv'
  <2>1. tk[t] = k /\ \A q \in Task \ {t} : tk[q] = task[q]
    BY <1>2, <1>5, TaskReplaced
  <2> QED
    BY <1>1, <1>2, <1>5, <2>1, UpdateHere, Zenon
<1>6. ASSUME NEW pc, pc \notin {"idle", "hydrating"}, NEW h, SameTails(h),
             Update(h, Step(t, pc), entry)
      PROVE  ChainInv'
  <2>1. PICK k : k = [task[t] EXCEPT !.pc = pc]
    BY Zenon
  <2>2. /\ k.kind = task[t].kind /\ k.sock = task[t].sock /\ k.room = task[t].room
        /\ k.pred = task[t].pred /\ k.pc = pc
    BY <1>2, <2>1 DEF TaskRow
  <2>3. PICK tk : tk = Step(t, pc)
    OBVIOUS
  <2>4. tk = [task EXCEPT ![t] = k] /\ Update(h, tk, entry)
    BY <1>2, <1>6, <2>1, <2>3 DEF Step
  <2> QED
    BY <1>5, <1>6, <2>2, <2>4, Zenon
<1>7. CASE JoinSeated(t)
  <2>1. CASE task[t].out = "ok"
    <3>1. task[t].live \in Obj
      BY <1>7, RunFacts DEF RunShape, JoinSeated
    <3> DEFINE l == task[t].live
               h == [heap EXCEPT ![l].black = U(t), ![l].status = "playing",
                                 ![l].att[U(t)] = S(t)]
    <3>3. ASSUME NEW o \in Obj PROVE h[o].tail = heap[o].tail
      <4>1. heap[o] \in RoomObj
        BY <1>2
      <4> QED
        BY <1>2, <4>1 DEF RoomObj
    <3>5. SameTails(h)
      BY <3>3, Zenon DEF SameTails
    <3>6. Update(h, Step(t, "presence"), entry)
      BY <1>7, <2>1 DEF JoinSeated
    <3> HIDE DEF h
    <3> QED
      BY <1>6, <3>5, <3>6
  <2>2. CASE task[t].out # "ok"
    <3>1. PICK en : en = Evicted(t, heap, entry)
      OBVIOUS
    <3>2. /\ en \in [Replica -> [Room -> Obj \cup {None}]]
          /\ \A p \in Replica, r \in Room : en[p][r] \in {None, entry[p][r]}
      BY <1>3, <3>1 DEF Evicted
    <3>3. Finish(t, heap, en)
      BY <1>7, <2>2, <3>1 DEF JoinSeated
    <3> QED
      BY <1>1, <1>2, <3>2, <3>3, FinishLess
  <2> QED
    BY <2>1, <2>2
<1>8. CASE MoveDone(t)
  <2>1. task[t].live \in Obj
    BY <1>8, RunFacts DEF RunShape, MoveDone
  <2>2. PICK l, b, h, x :
           /\ l = task[t].live
           /\ b = [turn |-> Other(ColorIn(heap[l], S(t))), over |-> task[t].res]
           /\ h = [heap EXCEPT ![l].board = b, ![l].n = @ + 1]
           /\ x = [heap[l] EXCEPT !.board = b, !.n = heap[l].n + 1]
    BY Zenon
  <2>3. x \in RoomObj /\ x.tail = heap[l].tail
    <3>1. task[t].res \in {"no", "checkmate", "draw"}
      BY <1>8, RunFacts, Zenon DEF RunPlays, MoveDone
    <3>2. b \in Board
      BY <2>2, <3>1 DEF Board, Other, Color
    <3> QED
      BY <1>2, <2>1, <2>2, <3>2, SMTT(60) DEF RoomObj
  <2>4. h = [heap EXCEPT ![l] = x]
    BY <1>2, <2>1, <2>2, Zenon
  <2>5. h \in [Obj -> RoomObj] /\ SameTails(h)
    BY <1>2, <2>1, <2>2, <2>3, <2>4, OneObject, Zenon
  <2>6. IF task[t].res = "no" THEN Finish(t, h, entry) ELSE Update(h, Step(t, "settle"), entry)
    BY <1>8, <2>2 DEF MoveDone
  <2> QED
    BY <1>4, <1>6, <2>5, <2>6
<1>9. CASE LeaveSettled(t)
  <2>1. task[t].live \in Obj
    BY <1>9, RunFacts DEF RunShape, LeaveSettled
  <2>2. PICK l, a, x : /\ l = task[t].live /\ a = AfterSettle(t)
                       /\ x = [heap[l] EXCEPT !.status = "finished"]
    BY Zenon
  <2>3. x \in RoomObj /\ x.tail = heap[l].tail
    BY <1>2, <2>1, <2>2, StatusOnly
  <2>4. a = heap \/ a = [heap EXCEPT ![l] = x]
    BY <1>2, <2>1, <2>2 DEF AfterSettle
  <2>5. a \in [Obj -> RoomObj] /\ SameTails(a)
    BY <1>2, <2>1, <2>2, <2>3, <2>4, OneObject, Zenon
  <2>6. PICK h, z : h = [a EXCEPT ![l] = Detach(@, S(t))] /\ z = Detach(a[l], S(t))
    BY Zenon
  <2>7. z \in RoomObj /\ z.tail = a[l].tail
    BY <1>3, <2>1, <2>2, <2>5, <2>6, DetachOK, Zenon
  <2>8. SameTails(h)
    BY <2>1, <2>2, <2>5, <2>6, <2>7 DEF SameTails
  <2>9. IF task[t].out = "failed" THEN Finish(t, heap, entry) ELSE Update(h, Step(t, "unvote"), entry)
    BY <1>9, <2>2, <2>6 DEF LeaveSettled
  <2> QED
    BY <1>2, <1>4, <1>6, <2>8, <2>9
<1>10. CASE DisconnectDetach(t)
  <2>1. Current(t) \in Obj
    BY <1>2, RunOfChain
  <2>2. PICK l, h, x, k : /\ l = Current(t) /\ h = [heap EXCEPT ![l] = Detach(@, S(t))]
                          /\ x = Detach(heap[l], S(t))
                          /\ k = [task[t] EXCEPT !.pc = "unvote", !.live = l]
    BY Zenon
  <2>3. x \in RoomObj /\ x.tail = heap[l].tail /\ h = [heap EXCEPT ![l] = x]
    BY <1>2, <1>3, <2>1, <2>2, DetachOK, Zenon
  <2>4. SameTails(h)
    BY <1>2, <2>1, <2>2, <2>3, OneObject, Zenon
  <2>5. /\ k.kind = task[t].kind /\ k.sock = task[t].sock /\ k.room = task[t].room
        /\ k.pred = task[t].pred /\ k.pc = "unvote"
    BY <1>2, <2>2 DEF TaskRow
  <2>6. PICK tk : tk = [task EXCEPT ![t].pc = "unvote", ![t].live = l]
    BY Zenon
  <2>7. tk = [task EXCEPT ![t] = k]
    BY <1>2, <2>2, <2>6, Zenon
  <2>8. Update(h, tk, entry) \/ Finish(t, heap, entry)
    BY <1>10, <2>2, <2>6 DEF DisconnectDetach
  <2> QED
    BY <1>2, <1>4, <1>5, <2>4, <2>5, <2>7, <2>8, Zenon
<1>11. CASE RematchDone(t)
  <2>1. task[t].live \in Obj /\ task[t].snap \in RoomObj
    BY <1>11, RunFacts DEF RunShape, RematchDone, TaskRow
  <2>2. PICK l, c, x, h, k :
           /\ l = task[t].live /\ c = task[t].snap
           /\ x = [c EXCEPT !.status = "playing", !.white = c.black,
                            !.black = c.white, !.board = StartBoard, !.n = 0,
                            !.tail = heap[l].tail]
           /\ h = [heap EXCEPT ![l] = x]
           /\ k = [task[t] EXCEPT !.pc = "clear", !.snap = heap[l]]
    BY Zenon
  <2>3. x.tail = heap[l].tail
    BY <2>1, <2>2 DEF RoomObj
  <2>4. SameTails(h)
    BY <1>2, <2>1, <2>2, <2>3 DEF SameTails
  <2>5. /\ k.kind = task[t].kind /\ k.sock = task[t].sock /\ k.room = task[t].room
        /\ k.pred = task[t].pred /\ k.pc = "clear"
    BY <1>2, <2>2 DEF TaskRow
  <2>6. PICK tk : tk = [task EXCEPT ![t].pc = "clear", ![t].snap = heap[l]]
    BY Zenon
  <2>7. tk = [task EXCEPT ![t] = k]
    BY <1>2, <2>2, <2>6, Zenon
  <2>8. Update(h, tk, entry)
    BY <1>11, <2>2, <2>6 DEF RematchDone
  <2> QED
    BY <1>5, <2>4, <2>5, <2>7, <2>8, Zenon
<1> QED
  BY <1>7, <1>8, <1>9, <1>10, <1>11

\* A new room has an empty chain.
LEMMA CreateDoneChain ==
    ASSUME RoomsIInv, ChainInv, NEW t \in Task, ~LosesQueue, HomesStay, CreateDone(t)
    PROVE  ChainInv'
<1>1. /\ inflight' = inflight /\ task[t].pc = "txdone" /\ task[t].kind = "create"
  BY DEF CreateDone
<1>2. /\ Turned(t) /\ task[t] \in TaskRow /\ heap \in [Obj -> RoomObj] /\ SameTails(heap)
      /\ S(t) \in Socket /\ U(t) \in User
  BY <1>1, Started, NoObject, EntryTypes
<1>3. PICK s, o : /\ s = task[t].snap
                  /\ o = [s EXCEPT !.status = "waiting", !.white = U(t), !.att[U(t)] = S(t)]
  BY Zenon
<1>4. s \in RoomObj /\ s.tail = None
  <2>1. s = [Blank EXCEPT !.game = s.game] /\ s \in RoomObj
    BY <1>1, <1>2, <1>3, RunFacts DEF RunReads, TaskRow
  <2> QED
    BY <2>1, BlankOK DEF RoomObj, Blank
<1>5. o \in RoomObj /\ o.tail = None
  <2>1. PICK a : a = [s.att EXCEPT ![U(t)] = S(t)]
    BY Zenon
  <2>2. a \in [User -> Socket \cup {None}]
    BY <1>2, <1>4, <2>1 DEF RoomObj
  <2>3. o = [s EXCEPT !.status = "waiting", !.white = U(t), !.att = a]
    BY <1>3, <1>4, <2>1 DEF RoomObj
  <2> QED
    BY <1>2, <1>4, <2>2, <2>3, Zenon DEF RoomObj
<1>6. Return(t, o) \/ Finish(t, heap, entry)
  BY <1>3 DEF CreateDone
<1> QED
  BY <1>1, <1>2, <1>5, <1>6, ReturnChain, FinishHere

-----------------------------------------------------------------------------

\* Runs outside the chains come, go and change; nothing else does.
Beside ==
    /\ \A q \in Task :
          \/ task'[q] = task[q]
          \/ ~Chained(task[q]) /\ ~Chained(task'[q]) /\ task'[q].pred = None
    /\ \A p \in Replica, r \in Room :
          /\ entry'[p][r] = entry[p][r]
          /\ entry[p][r] # None => TailOf(p, r)' = TailOf(p, r)

\* The chains do not see them.
LEMMA BesideOK ==
    ASSUME ChainInv, Beside, ShapesOK
    PROVE  HeadsOK' /\ LinksOK' /\ TailsOK' /\ QueuesHeld' /\ EntriesApart'
<1>1. \A q \in Task, p \in Replica, r \in Room : On(task'[q], p, r) <=> On(task[q], p, r)
  BY DEF Beside, On
<1>2. \A q \in Task : Chained(task'[q]) => Chained(task[q]) /\ task'[q] = task[q]
  BY DEF Beside
<1>3. \A q \in Task : task[q].pred \in Task \cup {None}
  BY ChainTypes
<1>4. HeadsOK'
  <2>1. \A q \in Task : task'[q].pc # "queued" => task'[q].pred = None
    BY DEF ChainInv, HeadsOK, Beside
  <2>2. \A p \in Replica, r \in Room, q \in Task :
           On(task'[q], p, r) => On(task[q], p, r) /\ task'[q].pred = task[q].pred
    BY <1>1, <1>2 DEF On
  <2> QED
    BY <2>1, <2>2 DEF ChainInv, HeadsOK
<1>5. LinksOK'
  <2>1. \A p \in Replica, r \in Room, q \in Task :
           On(task'[q], p, r) => On(task[q], p, r) /\ task'[q].pred = task[q].pred
    BY <1>1, <1>2 DEF On
  <2> QED
    BY <1>1, <1>2, <1>3, <2>1 DEF ChainInv, LinksOK
<1>6. TailsOK'
  <2> SUFFICES ASSUME NEW p \in Replica, NEW r \in Room, entry'[p][r] # None
               PROVE  TailOK(p, r)'
    BY DEF TailsOK
  <2>1. PICK x : x = TailOf(p, r)
    OBVIOUS
  <2>2. /\ entry[p][r] # None /\ TailOK(p, r) /\ TailOf(p, r)' = x
        /\ x \in Task \cup {None}
    BY <2>1, ChainTypes DEF ChainInv, TailsOK, Beside
  <2>3. \A q \in Task : On(task'[q], p, r) => On(task[q], p, r) /\ task'[q].pred = task[q].pred
    BY <1>1, <1>2 DEF On
  <2>4. x # None => On(task'[x], p, r)
    BY <1>1, <2>1, <2>2 DEF TailOK
  <2> QED
    BY <1>2, <2>1, <2>2, <2>3, <2>4 DEF TailOK
<1>7. QueuesHeld'
  BY <1>1 DEF ChainInv, QueuesHeld, Beside
<1>8. EntriesApart'
  BY DEF ChainInv, EntriesApart, Apart, Beside
<1> QED
  BY <1>4, <1>5, <1>6, <1>7, <1>8

\* A slot in use is given to nobody.
LEMMA FreeSlot ==
    ASSUME RoomsIInv, SlotFree
    PROVE  /\ FreeTask \in Task /\ task[FreeTask] = NoTask /\ ~Chained(task[FreeTask])
           /\ task[FreeTask].pc = "idle" /\ task[FreeTask].kind = "none"
<1>1. FreeTask \in Task /\ task[FreeTask].pc = "idle"
  BY NewTask
<1>2. task[FreeTask] = NoTask
  BY <1>1, RunFacts DEF RunShape
<1> QED
  BY <1>1, <1>2 DEF Chained, NoTask

\* create_room uses a room that nobody else knows of.
LEMMA CreateRoomChain ==
    ASSUME RoomsIInv, ChainInv, NEW s \in Socket, NEW r \in Room, CreateRoom(s, r)
    PROVE  ChainInv'
<1> USE RoomsAssumption
<1>1. PICK t, k : /\ t = FreeTask
                  /\ k = [NoTask EXCEPT !.pc = "tx", !.kind = "create", !.sock = s, !.room = r]
  OBVIOUS
<1>2. t \in Task /\ ~Chained(task[t]) /\ task[t].kind = "none" /\ task \in [Task -> TaskRow]
  BY <1>1, FreeSlot, RunFacts DEF CreateRoom, Emits
<1>3. /\ k.pc = "tx" /\ k.kind = "create" /\ k.sock = s /\ k.room = r /\ k.pred = None
  BY <1>1 DEF NoTask
<1>4. /\ task' = [task EXCEPT ![t] = k]
      /\ heap' = heap /\ entry' = entry /\ inflight' = inflight /\ games' = games
      /\ ~\E g \in Game : games[g].home = r
      /\ \A q \in Task : task[q].kind = "create" => task[q].room # r
  BY <1>1 DEF CreateRoom, ledgerVars
<1>5. task'[t] = k /\ \A q \in Task \ {t} : task'[q] = task[q]
  BY <1>2, <1>4, TaskReplaced
<1>6. Beside
  BY <1>2, <1>3, <1>4, <1>5 DEF Beside, Chained, TailOf
<1>7. HeadsOK' /\ LinksOK' /\ TailsOK' /\ QueuesHeld' /\ EntriesApart'
  BY <1>6, BesideOK DEF RoomsIInv
<1>8. FlightsAlone'
  BY <1>4 DEF ChainInv, FlightsAlone
<1>9. \A p \in Replica : entry[p][r] = None /\ inflight[p][r].state = "no"
  <2>1. ASSUME NEW p \in Replica, entry[p][r] # None PROVE FALSE
    <3>1. entry[p][r] \in Obj /\ Live(heap[entry[p][r]]) /\ games[heap[entry[p][r]].game].home = r
      BY <2>1 DEF RoomsIInv, ShapesOK, CellsOK
    <3>2. heap[entry[p][r]].game \in Game
      BY <3>1 DEF RoomsIInv, CellsOK, ObjOK, Behind
    <3> QED
      BY <1>4, <3>1, <3>2
  <2> QED
    BY <1>4, <2>1 DEF ChainInv, FlightsAlone
<1>10. CreatesAlone'
  <2> SUFFICES ASSUME NEW p \in Replica, NEW x \in Room, NEW q \in Task,
                      task'[q].kind = "create", Home[task'[q].sock] = p, task'[q].room = x
               PROVE  /\ entry'[p][x] = None /\ inflight'[p][x].state = "no"
                      /\ \A z \in Task : task'[z].kind = "create" /\ task'[z].room = x => z = q
    BY DEF CreatesAlone
  <2>1. CASE q = t
    <3>1. x = r
      BY <1>3, <1>5, <2>1
    <3> QED
      BY <1>4, <1>5, <1>9, <2>1, <3>1
  <2>2. CASE q # t
    <3>1. task[q].kind = "create" /\ Home[task[q].sock] = p /\ task[q].room = x
      BY <1>5, <2>2
    <3>2. x # r
      BY <1>4, <3>1
    <3>3. /\ entry[p][x] = None /\ inflight[p][x].state = "no"
          /\ \A z \in Task : task[z].kind = "create" /\ task[z].room = x => z = q
      BY <3>1 DEF ChainInv, CreatesAlone
    <3> QED
      BY <1>3, <1>4, <1>5, <3>2, <3>3
  <2> QED
    BY <2>1, <2>2
<1> QED
  BY <1>7, <1>8, <1>10 DEF ChainInv

\* A join that misses the room waits for its hydration, once.
LEMMA JoinMissChain ==
    ASSUME RoomsIInv, ChainInv, NEW s \in Socket, NEW r \in Room, JoinMiss(s, r)
    PROVE  ChainInv'
<1> USE RoomsAssumption
<1>1. PICK t, k, p, f, w :
         /\ t = FreeTask /\ p = Home[s] /\ f = inflight[p][r] /\ w = f.waiters
         /\ k = [NoTask EXCEPT !.pc = "hydrating", !.kind = "join", !.sock = s, !.room = r]
  OBVIOUS
<1>2. /\ t \in Task /\ ~Chained(task[t]) /\ task[t].pc = "idle" /\ task[t].kind = "none"
      /\ task \in [Task -> TaskRow] /\ p \in Replica
  BY <1>1, FreeSlot, RunFacts DEF JoinMiss, Emits
<1>3. k.pc = "hydrating" /\ k.kind = "join" /\ k.sock = s /\ k.room = r /\ k.pred = None
  BY <1>1 DEF NoTask
<1>4. /\ task' = [task EXCEPT ![t] = k]
      /\ heap' = heap /\ entry' = entry /\ games' = games
      /\ entry[p][r] = None
      /\ \E g \in Game : games[g].home = r
      /\ \A q \in Task : task[q].kind = "create" => task[q].room # r
  BY <1>1 DEF JoinMiss, Known, ledgerVars
<1>5. task'[t] = k /\ \A q \in Task \ {t} : task'[q] = task[q]
  BY <1>2, <1>4, TaskReplaced
<1>6. Beside
  BY <1>2, <1>3, <1>4, <1>5 DEF Beside, Chained, TailOf
<1>7. HeadsOK' /\ LinksOK' /\ TailsOK' /\ QueuesHeld' /\ EntriesApart'
  BY <1>6, BesideOK DEF RoomsIInv
<1>8. /\ inflight \in [Replica -> [Room -> Flight]] /\ w \in Seq(Task)
      /\ \A i \in 1..Len(w) : task[w[i]].pc = "hydrating"
      /\ \A i, j \in 1..Len(w) : w[i] = w[j] => i = j
  BY <1>1, <1>2, SMTT(60) DEF RoomsIInv, ShapesOK, Flight, FlightsOK, FlightOK, Awaits,
                    ChainInv, FlightsAlone
<1>9. /\ inflight'[p][r].waiters = Append(w, t)
      /\ \A q \in Replica, x \in Room : ~(q = p /\ x = r) => inflight'[q][x] = inflight[q][x]
  <2>1. inflight' = [inflight EXCEPT ![p][r].state = IF @ = "no" THEN "sent" ELSE @,
                                     ![p][r].waiters = Append(@, t)]
    BY <1>1 DEF JoinMiss
  <2>2. f \in Flight
    BY <1>1, <1>2, <1>8
  <2>3. PICK m : m = [inflight EXCEPT ![p][r].state = IF @ = "no" THEN "sent" ELSE @]
    OBVIOUS
  <2>4. /\ m \in [Replica -> [Room -> Flight]] /\ m[p][r].waiters = w
        /\ \A q \in Replica, x \in Room : ~(q = p /\ x = r) => m[q][x] = inflight[q][x]
    <3>1. /\ inflight[p] \in [Room -> Flight]
          /\ m[p] = [inflight[p] EXCEPT ![r].state = IF @ = "no" THEN "sent" ELSE @]
          /\ \A q \in Replica \ {p} : m[q] = inflight[q]
      BY <1>2, <1>8, <2>3
    <3>2. /\ m[p][r] = [f EXCEPT !.state = IF @ = "no" THEN "sent" ELSE @]
          /\ \A x \in Room \ {r} : m[p][x] = inflight[p][x]
      BY <1>1, <3>1
    <3>3. m[p][r] \in Flight /\ m[p][r].waiters = w
      BY <1>1, <2>2, <3>2 DEF Flight
    <3>4. m[p] \in [Room -> Flight]
      BY <3>1, <3>2, <3>3
    <3>5. m \in [Replica -> [Room -> Flight]]
      BY <1>8, <2>3, <3>1, <3>4
    <3> QED
      BY <3>1, <3>2, <3>3, <3>5
  <2>5. inflight' = [m EXCEPT ![p][r].waiters = Append(@, t)]
    BY <2>1, <2>3
  <2> QED
    BY <1>2, <2>4, <2>5 DEF Flight
<1>10. \A i, j \in 1..Len(Append(w, t)) : Append(w, t)[i] = Append(w, t)[j] => i = j
  <2>1. PICK v, n : v = Append(w, t) /\ n = Len(w)
    BY Zenon
  <2>2. /\ Len(v) = n + 1 /\ n \in Nat
        /\ \A i \in 1..n : v[i] = w[i] /\ w[i] # t
        /\ v[n + 1] = t
    BY <1>2, <1>8, <2>1
  <2>3. ASSUME NEW i \in 1..Len(v), NEW j \in 1..Len(v), v[i] = v[j] PROVE i = j
    <3>1. i \in 1..n \/ i = n + 1
      BY <2>2
    <3>2. j \in 1..n \/ j = n + 1
      BY <2>2
    <3>3. \A a, b \in 1..n : w[a] = w[b] => a = b
      BY <1>8, <2>1
    <3> QED
      BY <2>2, <2>3, <3>1, <3>2, <3>3
  <2> QED
    BY <2>1, <2>3
<1>11. FlightsAlone'
  <2> SUFFICES ASSUME NEW q \in Replica, NEW x \in Room
               PROVE  /\ inflight'[q][x].state # "no" =>
                            entry'[q][x] = None /\ \E g \in Game : games'[g].home = x
                      /\ \A i, j \in 1..Len(inflight'[q][x].waiters) :
                            inflight'[q][x].waiters[i] = inflight'[q][x].waiters[j] => i = j
    BY DEF FlightsAlone
  <2>1. CASE q = p /\ x = r
    BY <1>4, <1>9, <1>10, <2>1, SMTT(60)
  <2>2. CASE ~(q = p /\ x = r)
    <3>1. inflight'[q][x] = inflight[q][x]
      BY <1>9, <2>2
    <3>2. /\ inflight[q][x].state # "no" => entry[q][x] = None /\ \E g \in Game : games[g].home = x
          /\ \A i, j \in 1..Len(inflight[q][x].waiters) :
                inflight[q][x].waiters[i] = inflight[q][x].waiters[j] => i = j
      BY DEF ChainInv, FlightsAlone
    <3> QED
      BY <1>4, <3>1, <3>2
  <2> QED
    BY <2>1, <2>2
<1>12. CreatesAlone'
  <2>1. \A q \in Task : task'[q].kind = "create" => task'[q] = task[q] /\ task[q].room # r
    BY <1>3, <1>4, <1>5
  <2> QED
    BY <1>4, <1>9, <2>1 DEF ChainInv, CreatesAlone
<1> QED
  BY <1>7, <1>11, <1>12 DEF ChainInv

\* An event is put at the end of the chain of the cached object.
LEMMA EnqueueChain ==
    ASSUME RoomsIInv, ChainInv, NEW s \in Socket, NEW r \in Room,
           NEW kind, kind # "create", Enqueue(s, r, kind),
           inflight' = inflight, games' = games
    PROVE  ChainInv'
<1> USE RoomsAssumption
<1>1. PICK t, p, o, x, k, h :
         /\ t = FreeTask /\ p = Home[s] /\ o = entry[p][r] /\ x = heap[o].tail
         /\ k = Queued(heap, o, s, r, kind) /\ h = Link(heap, o, t)
  OBVIOUS
<1>2. /\ t \in Task /\ ~Chained(task[t]) /\ task \in [Task -> TaskRow] /\ p \in Replica
      /\ heap \in [Obj -> RoomObj] /\ o # None /\ o \in Obj
      /\ entry \in [Replica -> [Room -> Obj \cup {None}]]
  BY <1>1, FreeSlot, RunFacts DEF Enqueue, RoomsIInv, ShapesOK
<1>3. /\ k.pc = "queued" /\ k.kind = kind /\ k.sock = s /\ k.room = r /\ k.pred = x
  BY <1>1 DEF Queued, NoTask
<1>4. PICK tk : tk = [task EXCEPT ![t] = k]
  BY Zenon
<1>5. Update(h, tk, entry)
  BY <1>1, <1>4 DEF Enqueue
<1>6. /\ task' = tk /\ entry' = entry
      /\ \A q \in Replica, y \in Room : entry[q][y] # None => heap'[entry[q][y]] = h[entry[q][y]]
  BY <1>2, <1>5 DEF Update
<1>7. task'[t] = k /\ \A q \in Task \ {t} : task'[q] = task[q]
  BY <1>2, <1>4, <1>6, TaskReplaced
<1>8. h[o].tail = t /\ \A z \in Obj \ {o} : h[z] = heap[z]
  <2>1. heap[o] \in RoomObj
    BY <1>2
  <2> QED
    BY <1>1, <1>2, <2>1 DEF Link, RoomObj
<1>9. /\ TailOf(p, r) = x /\ TailOf(p, r)' = t
      /\ \A q \in Replica, y \in Room : ~(q = p /\ y = r) /\ entry[q][y] # None =>
            TailOf(q, y)' = TailOf(q, y)
  <2>1. TailOf(p, r) = x /\ TailOf(p, r)' = t
    BY <1>1, <1>2, <1>6, <1>8 DEF TailOf
  <2>2. ASSUME NEW q \in Replica, NEW y \in Room, ~(q = p /\ y = r), entry[q][y] # None
        PROVE  TailOf(q, y)' = TailOf(q, y)
    <3>1. entry[q][y] \in Obj \ {o}
      BY <1>1, <1>2, <2>2 DEF ChainInv, EntriesApart, Apart
    <3> QED
      BY <1>6, <1>8, <2>2, <3>1 DEF TailOf
  <2> QED
    BY <2>1, <2>2
<1>10. Chained(k) /\ \A q \in Replica, y \in Room : On(k, q, y) <=> q = p /\ y = r
  BY <1>1, <1>3 DEF On, Chained
<1>11. x \in Task \cup {None} /\ TailOK(p, r)
  BY <1>1, <1>2, <1>9, ChainTypes DEF RoomsIInv, ChainInv, TailsOK
<1>12. \A q \in Task, z \in Replica, y \in Room : q # t => (On(task'[q], z, y) <=> On(task[q], z, y))
  BY <1>7
<1>13. \A z \in Replica, y \in Room : ~On(task[t], z, y)
  BY <1>2 DEF On
<1>14. \A q \in Task : Chained(task[q]) => task[q].pred \in (Task \ {t}) \cup {None}
  <2> SUFFICES ASSUME NEW q \in Task, Chained(task[q]), task[q].pred = t PROVE FALSE
    BY ChainTypes DEF RoomsIInv
  <2>1. P(q) \in Replica /\ R(q) \in Room /\ On(task[q], P(q), R(q))
    BY RunOfChain
  <2> QED
    BY <1>2, <1>13, <2>1 DEF ChainInv, LinksOK
<1>15. HeadsOK'
  <2>1. \A q \in Task : task'[q].pc # "queued" => task'[q].pred = None
    BY <1>3, <1>7 DEF ChainInv, HeadsOK
  <2>2. ASSUME NEW z \in Replica, NEW y \in Room, NEW q \in Task, q # t, On(task'[t], z, y),
               On(task'[q], z, y), task'[t].pred = None
        PROVE  task'[q].pred # None
    BY <1>3, <1>7, <1>9, <1>10, <1>11, <2>2 DEF TailOK
  <2> QED
    BY <1>7, <2>1, <2>2 DEF ChainInv, HeadsOK
<1>16. LinksOK'
  <2>1. ASSUME NEW z \in Replica, NEW y \in Room, NEW q \in Task,
               On(task'[q], z, y), task'[q].pred # None
        PROVE  On(task'[task'[q].pred], z, y)
    <3>1. CASE q = t
      <4>1. z = p /\ y = r /\ task'[q].pred = x /\ x \in Task
        BY <1>3, <1>7, <1>10, <1>11, <2>1, <3>1
      <4>2. On(task[x], p, r) /\ x # t
        BY <1>9, <1>11, <1>13, <4>1 DEF TailOK
      <4> QED
        BY <1>12, <4>1, <4>2
    <3>2. CASE q # t
      <4>1. On(task[q], z, y) /\ task'[q].pred = task[q].pred
        BY <1>7, <2>1, <3>2
      <4>2. On(task[task[q].pred], z, y) /\ task[q].pred \in Task \ {t}
        BY <1>14, <2>1, <4>1 DEF ChainInv, LinksOK, On
      <4> QED
        BY <1>12, <4>1, <4>2
    <3> QED
      BY <3>1, <3>2
  <2>2. ASSUME NEW q \in Task, q # t, Chained(task'[q]) PROVE x # None => task'[q].pred # x
    BY <1>7, <1>9, <1>11, <2>2 DEF TailOK
  <2>3. ASSUME NEW q \in Task, NEW z \in Task, Chained(task'[q]), Chained(task'[z]),
               task'[q].pred # None, task'[q].pred = task'[z].pred
        PROVE  q = z
    <3>1. q = t => z = t
      BY <1>3, <1>7, <2>2, <2>3
    <3>2. z = t => q = t
      BY <1>3, <1>7, <2>2, <2>3
    <3>3. CASE q # t /\ z # t
      BY <1>7, <2>3, <3>3 DEF ChainInv, LinksOK
    <3> QED
      BY <3>1, <3>2, <3>3
  <2> QED
    BY <2>1, <2>3 DEF LinksOK
<1>17. TailsOK'
  <2> SUFFICES ASSUME NEW z \in Replica, NEW y \in Room, entry'[z][y] # None
               PROVE  TailOK(z, y)'
    BY DEF TailsOK
  <2>1. CASE z = p /\ y = r
    <3>1. On(task'[t], z, y)
      BY <1>7, <1>10, <2>1
    <3>2. x # t
      BY <1>2, <1>9, <1>11, <1>13 DEF TailOK
    <3>3. \A q \in Task : Chained(task'[q]) => task'[q].pred # t
      BY <1>2, <1>3, <1>7, <1>14, <3>2
    <3>4. TailOf(z, y)' = t /\ t # None
      BY <1>2, <1>9, <2>1
    <3> QED
      BY <3>1, <3>3, <3>4 DEF TailOK
  <2>2. CASE ~(z = p /\ y = r)
    <3>1. PICK w : w = TailOf(z, y)
      OBVIOUS
    <3>2. /\ TailOf(z, y)' = w /\ TailOK(z, y) /\ w \in Task \cup {None}
      BY <1>6, <1>9, <2>2, <3>1, ChainTypes DEF RoomsIInv, ChainInv, TailsOK
    <3>3. \A q \in Task : On(task'[q], z, y) => On(task[q], z, y) /\ task'[q] = task[q]
      BY <1>7, <1>10, <2>2
    <3>4. w = None => \A q \in Task : On(task'[q], z, y) => task'[q].pred # None
      BY <3>1, <3>2, <3>3 DEF TailOK
    <3>5. ASSUME w # None
          PROVE  On(task'[w], z, y) /\ \A q \in Task : Chained(task'[q]) => task'[q].pred # w
      <4>1. w \in Task /\ On(task[w], z, y) /\ \A q \in Task : Chained(task[q]) => task[q].pred # w
        BY <3>1, <3>2, <3>5 DEF TailOK
      <4>2. w # t
        BY <1>13, <4>1
      <4>3. x # w
        BY <1>9, <1>11, <2>2, <4>1, <3>5 DEF TailOK, On
      <4> QED
        BY <1>3, <1>7, <4>1, <4>2, <4>3
    <3> QED
      BY <3>2, <3>4, <3>5 DEF TailOK
  <2> QED
    BY <2>1, <2>2
<1>18. QueuesHeld'
  BY <1>1, <1>2, <1>6, <1>7, <1>10 DEF ChainInv, QueuesHeld
<1>19. EntriesApart'
  BY <1>6 DEF ChainInv, EntriesApart, Apart
<1>20. FlightsAlone'
  BY <1>6 DEF ChainInv, FlightsAlone
<1>21. CreatesAlone'
  <2>1. \A q \in Task : task'[q].kind = "create" => q # t /\ task'[q] = task[q]
    BY <1>3, <1>7
  <2> QED
    BY <1>6, <2>1 DEF ChainInv, CreatesAlone
<1> QED
  BY <1>15, <1>16, <1>17, <1>18, <1>19, <1>20, <1>21 DEF ChainInv

\* Other events, hydration queries and lapsed votes do not touch the chains.
LEMMA SameChain ==
    ASSUME ChainInv, ShapesOK, UNCHANGED <<heap, entry, task, games>>,
           \/ inflight' = inflight
           \/ \E p \in Replica, r \in Room : HydrateQuery(p, r)
    PROVE  ChainInv'
<1>1. Beside
  BY DEF Beside, TailOf
<1>2. HeadsOK' /\ LinksOK' /\ TailsOK' /\ QueuesHeld' /\ EntriesApart'
  BY <1>1, BesideOK
<1>3. \A p \in Replica, r \in Room :
         /\ inflight'[p][r].waiters = inflight[p][r].waiters
         /\ inflight'[p][r].state = "no" <=> inflight[p][r].state = "no"
  <2>1. CASE inflight' = inflight
    BY <2>1
  <2>2. ASSUME NEW p \in Replica, NEW r \in Room, HydrateQuery(p, r)
        PROVE  \A q \in Replica, x \in Room :
                  /\ inflight'[q][x].waiters = inflight[q][x].waiters
                  /\ inflight'[q][x].state = "no" <=> inflight[q][x].state = "no"
    <3>1. PICK snap : inflight' = [inflight EXCEPT ![p][r].state = "back", ![p][r].snap = snap]
      BY <2>2, Zenon DEF HydrateQuery
    <3>2. inflight \in [Replica -> [Room -> Flight]] /\ inflight[p][r].state = "sent"
      BY <2>2 DEF HydrateQuery, ShapesOK
    <3>3. inflight[p][r] \in Flight
      BY <3>2
    <3> QED
      BY <3>1, <3>2, <3>3 DEF Flight
  <2> QED
    BY <2>1, <2>2
<1>4. FlightsAlone'
  <2> SUFFICES ASSUME NEW q \in Replica, NEW x \in Room
               PROVE  /\ inflight'[q][x].state # "no" =>
                            entry'[q][x] = None /\ \E g \in Game : games'[g].home = x
                      /\ \A i, j \in 1..Len(inflight'[q][x].waiters) :
                            inflight'[q][x].waiters[i] = inflight'[q][x].waiters[j] => i = j
    BY DEF FlightsAlone
  <2>1. /\ inflight[q][x].state # "no" => entry[q][x] = None /\ \E g \in Game : games[g].home = x
        /\ \A i, j \in 1..Len(inflight[q][x].waiters) :
              inflight[q][x].waiters[i] = inflight[q][x].waiters[j] => i = j
    BY DEF ChainInv, FlightsAlone
  <2> QED
    BY <1>3, <2>1
<1>5. CreatesAlone'
  BY <1>3 DEF ChainInv, CreatesAlone
<1> QED
  BY <1>2, <1>4, <1>5 DEF ChainInv

\* The reply of a hydration caches the room with its waiters on a new chain, in
\* their order, or sends them away.
LEMMA HydrateReplyChain ==
    ASSUME RoomsIInv, ChainInv, NEW p \in Replica, NEW r \in Room, HydrateReply(p, r)
    PROVE  ChainInv'
<1> USE RoomsAssumption
<1>1. PICK f, w, snap, wait :
         /\ f = inflight[p][r] /\ w = f.waiters /\ snap = f.snap
         /\ wait = {t \in Task : \E i \in 1..Len(w) : w[i] = t}
  BY Zenon
<1>2. /\ f.state = "back" /\ inflight' = [inflight EXCEPT ![p][r] = NoFlight]
      /\ games' = games
  BY <1>1, Zenon DEF HydrateReply, ledgerVars
<1>3. /\ heap \in [Obj -> RoomObj] /\ task \in [Task -> TaskRow]
      /\ entry \in [Replica -> [Room -> Obj \cup {None}]]
      /\ inflight \in [Replica -> [Room -> Flight]] /\ ShapesOK
  BY DEF RoomsIInv, ShapesOK
<1>4. f \in Flight /\ w \in Seq(Task) /\ w # <<>> /\ Len(w) \in Nat /\ Len(w) >= 1
  <2>1. f \in Flight
    BY <1>1, <1>3
  <2>2. w \in Seq(Task) /\ w # <<>>
    BY <1>1, <1>2, <2>1 DEF RoomsIInv, FlightsOK, FlightOK, Flight
  <2> QED
    BY <2>1, <2>2
<1>5. \A t \in wait : /\ t \in Task /\ ~Chained(task[t]) /\ task[t].kind = "join"
                      /\ Home[task[t].sock] = p /\ task[t].room = r
  <2>1. \A i \in 1..Len(w) : Awaits(task[w[i]], p, r)
    BY <1>1 DEF RoomsIInv, FlightsOK, FlightOK
  <2>2. \A t \in Task : task[t].pc = "hydrating" => task[t].kind = "join"
    BY RunFacts DEF RunShape
  <2> QED
    BY <1>1, <2>1, <2>2 DEF Awaits, Chained
<1>6. \A i, j \in 1..Len(w) : w[i] = w[j] => i = j
  BY <1>1 DEF ChainInv, FlightsAlone
<1>7. entry[p][r] = None
  BY <1>1, <1>2 DEF ChainInv, FlightsAlone
<1>8. /\ inflight'[p][r].state = "no" /\ inflight'[p][r].waiters = <<>>
      /\ \A q \in Replica, x \in Room : ~(q = p /\ x = r) => inflight'[q][x] = inflight[q][x]
  BY <1>2, <1>3 DEF NoFlight
<1>9. ASSUME \A q \in Replica, x \in Room : ~(q = p /\ x = r) => entry'[q][x] = entry[q][x]
      PROVE  FlightsAlone'
  <2> SUFFICES ASSUME NEW q \in Replica, NEW x \in Room
               PROVE  /\ inflight'[q][x].state # "no" =>
                            entry'[q][x] = None /\ \E g \in Game : games'[g].home = x
                      /\ \A i, j \in 1..Len(inflight'[q][x].waiters) :
                            inflight'[q][x].waiters[i] = inflight'[q][x].waiters[j] => i = j
    BY DEF FlightsAlone
  <2>1. CASE q = p /\ x = r
    <3>1. Len(inflight'[q][x].waiters) = 0
      BY <1>8, <2>1
    <3> QED
      BY <1>8, <2>1, <3>1
  <2>2. CASE ~(q = p /\ x = r)
    <3>1. inflight'[q][x] = inflight[q][x] /\ entry'[q][x] = entry[q][x]
      BY <1>8, <1>9, <2>2
    <3>2. /\ inflight[q][x].state # "no" => entry[q][x] = None /\ \E g \in Game : games[g].home = x
          /\ \A i, j \in 1..Len(inflight[q][x].waiters) :
                inflight[q][x].waiters[i] = inflight[q][x].waiters[j] => i = j
      BY DEF ChainInv, FlightsAlone
    <3> QED
      BY <1>2, <3>1, <3>2
  <2> QED
    BY <2>1, <2>2
<1>10. ASSUME \A q \in Replica, x \in Room : ~(q = p /\ x = r) => entry'[q][x] = entry[q][x],
              \A t \in Task : t \notin wait => task'[t] = task[t],
              \A t \in wait : task'[t].kind # "create"
       PROVE  CreatesAlone'
  <2>1. \A t \in Task : task'[t].kind = "create" => task'[t] = task[t]
    BY <1>10
  <2>2. \A t \in Task : ~(task[t].kind = "create" /\ Home[task[t].sock] = p /\ task[t].room = r)
    BY <1>1, <1>2 DEF ChainInv, CreatesAlone
  <2> SUFFICES ASSUME NEW q \in Replica, NEW x \in Room, NEW t \in Task,
                      task'[t].kind = "create", Home[task'[t].sock] = q, task'[t].room = x
               PROVE  /\ entry'[q][x] = None /\ inflight'[q][x].state = "no"
                      /\ \A z \in Task : task'[z].kind = "create" /\ task'[z].room = x => z = t
    BY DEF CreatesAlone
  <2>3. task[t].kind = "create" /\ Home[task[t].sock] = q /\ task[t].room = x
    BY <2>1
  <2>4. ~(q = p /\ x = r)
    BY <2>2, <2>3
  <2>5. /\ entry[q][x] = None /\ inflight[q][x].state = "no"
        /\ \A z \in Task : task[z].kind = "create" /\ task[z].room = x => z = t
    BY <2>3 DEF ChainInv, CreatesAlone
  <2> QED
    BY <1>8, <1>10, <2>1, <2>4, <2>5
<1>11. CASE ~Live(snap)
  <2>1. PICK tk : tk = [t \in Task |-> IF \E i \in 1..Len(w) : w[i] = t THEN NoTask ELSE task[t]]
    BY Zenon
  <2>2. Update(heap, tk, entry)
    BY <1>1, <1>11, <2>1 DEF HydrateReply
  <2>3. /\ task' = tk /\ entry' = entry
        /\ \A q \in Replica, x \in Room : entry[q][x] # None => heap'[entry[q][x]] = heap[entry[q][x]]
    BY <1>3, <2>2 DEF Update
  <2>4. /\ \A t \in wait : task'[t] = NoTask
        /\ \A t \in Task : t \notin wait => task'[t] = task[t]
    BY <1>1, <2>1, <2>3
  <2>5. ~Chained(NoTask) /\ NoTask.pred = None /\ NoTask.kind = "none"
    BY DEF NoTask, Chained
  <2>6. Beside
    BY <1>5, <2>3, <2>4, <2>5 DEF Beside, TailOf
  <2>7. HeadsOK' /\ LinksOK' /\ TailsOK' /\ QueuesHeld' /\ EntriesApart'
    BY <1>3, <2>6, BesideOK
  <2> QED
    BY <1>9, <1>10, <2>3, <2>4, <2>5, <2>7 DEF ChainInv
<1>12. CASE Live(snap)
  <2>1. PICK n, x, h, en, B, last :
           /\ n = NewObj /\ last = w[Len(w)] /\ x = [snap EXCEPT !.tail = last]
           /\ h = [heap EXCEPT ![n] = x] /\ en = [entry EXCEPT ![p][r] = n]
           /\ B = [t \in Task |-> LET i == CHOOSE i \in 1..Len(w) : w[i] = t
                                  IN  IF i = 1 THEN None ELSE w[i - 1]]
    BY Zenon
  <2>2. PICK tk : tk = [t \in Task |->
                          IF \E i \in 1..Len(w) : w[i] = t
                          THEN [task[t] EXCEPT !.pc = "queued", !.ref = n, !.pred = B[t]]
                          ELSE task[t]]
    BY Zenon
  <2>3. n \in Obj /\ heap[n].status = "freed" /\ Update(h, tk, en)
    <3>1. CellFree
      BY <1>1, <1>12, Zenon DEF HydrateReply
    <3>2. Update(h, tk, en)
      BY <1>1, <1>12, <2>1, <2>2, ZenonT(60) DEF HydrateReply
    <3> QED
      BY <2>1, <3>1, <3>2, NewCell
  <2>4. x.tail = last /\ last \in Task
    BY <1>1, <1>4, <2>1 DEF Flight, RoomObj
  <2>5. ASSUME NEW i \in 1..Len(w) PROVE B[w[i]] = IF i = 1 THEN None ELSE w[i - 1]
    <3>1. PICK t \in Task : t = w[i]
      BY <1>4
    <3>2. PICK j : j = CHOOSE k \in 1..Len(w) : w[k] = t
      OBVIOUS
    <3>3. j \in 1..Len(w) /\ w[j] = t
      BY <3>1, <3>2
    <3>4. j = i
      BY <1>6, <3>1, <3>3
    <3>5. B[t] = LET k == CHOOSE k \in 1..Len(w) : w[k] = t
                 IN  IF k = 1 THEN None ELSE w[k - 1]
      BY <2>1, Zenon
    <3>6. B[t] = IF j = 1 THEN None ELSE w[j - 1]
      BY <3>2, <3>5, Zenon
    <3> QED
      BY <3>1, <3>4, <3>6
  <2>6. /\ en[p][r] = n /\ h[n] = x /\ \A o \in Obj \ {n} : h[o] = heap[o]
        /\ \A q \in Replica, y \in Room : ~(q = p /\ y = r) =>
              en[q][y] = entry[q][y] /\ en[q][y] # n
    <3>1. \A q \in Replica, y \in Room : entry[q][y] # n
      <4>1. \A q \in Replica, y \in Room : entry[q][y] # None => Live(heap[entry[q][y]])
        BY DEF RoomsIInv, CellsOK
      <4>2. ~Live(heap[n]) /\ n # None
        BY <2>3 DEF Live
      <4> QED
        BY <4>1, <4>2
    <3> QED
      BY <1>3, <2>1, <2>3, <3>1
  <2>7. /\ task' = tk /\ entry' = en
        /\ \A q \in Replica, y \in Room : en[q][y] \in Obj => heap'[en[q][y]] = h[en[q][y]]
    BY <2>3 DEF Update
  <2>8. \A t \in Task : t \notin wait => task'[t] = task[t]
    BY <1>1, <2>2, <2>7, Zenon
  <2>9. \A t \in wait : /\ Chained(task'[t]) /\ task'[t].pc = "queued" /\ task'[t].kind = "join"
                        /\ Home[task'[t].sock] = p /\ task'[t].room = r /\ task'[t].pred = B[t]
    <3> SUFFICES ASSUME NEW t \in wait
                 PROVE  /\ Chained(task'[t]) /\ task'[t].pc = "queued" /\ task'[t].kind = "join"
                        /\ Home[task'[t].sock] = p /\ task'[t].room = r /\ task'[t].pred = B[t]
      OBVIOUS
    <3>1. t \in Task /\ task[t] \in TaskRow
      BY <1>1, <1>3
    <3>2. task'[t] = [task[t] EXCEPT !.pc = "queued", !.ref = n, !.pred = B[t]]
      BY <1>1, <2>2, <2>7, Zenon
    <3> QED
      BY <1>5, <3>1, <3>2 DEF TaskRow, Chained
  <2>10. \A t \in Task : ~On(task[t], p, r)
    BY <1>7 DEF ChainInv, QueuesHeld
  <2>11. /\ \A t \in Task : On(task'[t], p, r) <=> t \in wait
         /\ \A t \in Task, q \in Replica, y \in Room : ~(q = p /\ y = r) =>
               (On(task'[t], q, y) <=> t \notin wait /\ On(task[t], q, y))
         /\ \A t \in Task : Chained(task'[t]) <=> t \in wait \/ Chained(task[t])
    BY <1>5, <2>8, <2>9, <2>10 DEF On
  <2>12. \A t \in wait : \E i \in 1..Len(w) : w[i] = t /\ (B[t] = IF i = 1 THEN None ELSE w[i - 1])
    BY <1>1, <2>5
  <2>13. \A i \in 1..Len(w) : w[i] \in wait
    BY <1>1, <1>4
  <2>14. \A t \in wait : B[t] = None \/ (B[t] \in wait /\ B[t] # last)
    <3> SUFFICES ASSUME NEW t \in wait, B[t] # None PROVE B[t] \in wait /\ B[t] # last
      OBVIOUS
    <3>1. PICK i \in 1..Len(w) : w[i] = t /\ (B[t] = IF i = 1 THEN None ELSE w[i - 1])
      BY <2>12
    <3>2. i - 1 \in 1..Len(w) /\ B[t] = w[i - 1] /\ i - 1 # Len(w) /\ Len(w) \in 1..Len(w)
      BY <1>4, <3>1
    <3> QED
      BY <1>6, <2>1, <2>13, <3>2, Zenon
  <2>15. \A t, q \in wait : B[t] = B[q] => t = q
    <3> SUFFICES ASSUME NEW t \in wait, NEW q \in wait, B[t] = B[q] PROVE t = q
      OBVIOUS
    <3>1. PICK i \in 1..Len(w) : w[i] = t /\ (B[t] = IF i = 1 THEN None ELSE w[i - 1])
      BY <2>12
    <3>2. PICK j \in 1..Len(w) : w[j] = q /\ (B[q] = IF j = 1 THEN None ELSE w[j - 1])
      BY <2>12
    <3>3. \A k \in 1..Len(w) : w[k] \in Task /\ w[k] # None
      BY <1>4
    <3>4. CASE i = 1 \/ j = 1
      <4>1. i # 1 => w[i - 1] # None
        BY <1>4, <3>3
      <4>2. j # 1 => w[j - 1] # None
        BY <1>4, <3>3
      <4> QED
        BY <3>1, <3>2, <3>4, <4>1, <4>2, Zenon
    <3>5. CASE i # 1 /\ j # 1
      <4>1. i - 1 \in 1..Len(w) /\ j - 1 \in 1..Len(w)
        BY <1>4, <3>1, <3>2, <3>5
      <4>2. B[t] = w[i - 1] /\ B[q] = w[j - 1] /\ B[t] = B[q]
        BY <3>1, <3>2, <3>5, Zenon
      <4>3. w[i - 1] = w[j - 1]
        BY <4>2
      <4>4. i - 1 = j - 1
        BY <1>6, <4>1, <4>3
      <4>5. i = j
        BY <4>4
      <4> QED
        BY <3>1, <3>2, <4>5
    <3> QED
      BY <3>4, <3>5
  <2>16. /\ \A t \in Task : Chained(task[t]) => task[t].pred \notin wait
         /\ \A t \in Task : Chained(task[t]) => t \notin wait
    <3>1. \A t \in Task : Chained(task[t]) => t \notin wait
      BY <1>5
    <3> SUFFICES ASSUME NEW t \in Task, Chained(task[t]), task[t].pred \in wait PROVE FALSE
      BY <3>1
    <3>2. P(t) \in Replica /\ R(t) \in Room /\ On(task[t], P(t), R(t)) /\ task[t].pred \in Task
      BY <1>1, RunOfChain
    <3>3. Chained(task[task[t].pred])
      BY <3>2 DEF ChainInv, LinksOK, On
    <3> QED
      BY <3>1, <3>2, <3>3
  <2>17. HeadsOK'
    <3>1. \A t \in Task : task'[t].pc # "queued" => task'[t].pred = None
      BY <2>8, <2>9 DEF ChainInv, HeadsOK
    <3>2. ASSUME NEW q \in Replica, NEW y \in Room, NEW t \in Task, NEW z \in Task,
                 On(task'[t], q, y), On(task'[z], q, y),
                 task'[t].pred = None, task'[z].pred = None
          PROVE  t = z
      <4>1. CASE q = p /\ y = r
        BY <2>9, <2>11, <2>15, <3>2, <4>1
      <4>2. CASE ~(q = p /\ y = r)
        BY <2>8, <2>11, <3>2, <4>2 DEF ChainInv, HeadsOK
      <4> QED
        BY <4>1, <4>2
    <3> QED
      BY <3>1, <3>2 DEF HeadsOK
  <2>18. LinksOK'
    <3>1. ASSUME NEW q \in Replica, NEW y \in Room, NEW t \in Task,
                 On(task'[t], q, y), task'[t].pred # None
          PROVE  On(task'[task'[t].pred], q, y)
      <4>1. CASE q = p /\ y = r
        <5>1. B[t] \in wait /\ task'[t].pred = B[t] /\ B[t] \in Task
          BY <1>1, <2>9, <2>11, <2>14, <3>1, <4>1
        <5> QED
          BY <2>11, <4>1, <5>1
      <4>2. CASE ~(q = p /\ y = r)
        <5>1. On(task[t], q, y) /\ task'[t].pred = task[t].pred /\ Chained(task[t])
          BY <2>8, <2>11, <3>1, <4>2 DEF On
        <5>2. On(task[task[t].pred], q, y) /\ task[t].pred \in Task /\ task[t].pred \notin wait
          BY <1>3, <2>16, <3>1, <5>1, ChainTypes DEF ChainInv, LinksOK
        <5> QED
          BY <2>11, <4>2, <5>1, <5>2
      <4> QED
        BY <4>1, <4>2
    <3>2. ASSUME NEW t \in Task, NEW z \in Task, Chained(task'[t]), Chained(task'[z]),
                 task'[t].pred # None, task'[t].pred = task'[z].pred
          PROVE  t = z
      <4>1. \A q \in Task : Chained(task'[q]) /\ task'[q].pred # None =>
               (q \in wait <=> task'[q].pred \in wait)
        BY <2>8, <2>9, <2>11, <2>14, <2>16
      <4>2. CASE t \in wait
        BY <2>9, <2>15, <3>2, <4>1, <4>2
      <4>3. CASE t \notin wait
        BY <2>8, <2>11, <3>2, <4>1, <4>3 DEF ChainInv, LinksOK
      <4> QED
        BY <4>2, <4>3
    <3> QED
      BY <3>1, <3>2 DEF LinksOK
  <2>19. TailsOK'
    <3> SUFFICES ASSUME NEW q \in Replica, NEW y \in Room, entry'[q][y] # None
                 PROVE  TailOK(q, y)'
      BY DEF TailsOK
    <3>1. CASE q = p /\ y = r
      <4>1. TailOf(q, y)' = last /\ last # None
        BY <2>3, <2>4, <2>6, <2>7, <3>1 DEF TailOf
      <4>2. last \in wait
        BY <1>4, <2>1, <2>13
      <4>3. On(task'[last], q, y)
        BY <2>4, <2>11, <3>1, <4>2
      <4>4. \A t \in Task : Chained(task'[t]) => task'[t].pred # last
        BY <2>8, <2>9, <2>11, <2>14, <2>16, <4>1, <4>2
      <4> QED
        BY <4>1, <4>3, <4>4 DEF TailOK
    <3>2. CASE ~(q = p /\ y = r)
      <4>1. PICK v : v = TailOf(q, y)
        OBVIOUS
      <4>2. /\ TailOf(q, y)' = v /\ TailOK(q, y) /\ v \in Task \cup {None}
        <5>1. entry'[q][y] = entry[q][y] /\ entry[q][y] \in Obj \ {n} /\ en[q][y] = entry[q][y]
          BY <1>3, <2>6, <2>7, <3>2
        <5>2. heap'[entry[q][y]] = heap[entry[q][y]]
          BY <2>6, <2>7, <5>1
        <5> QED
          BY <1>3, <4>1, <5>1, <5>2, ChainTypes DEF TailOf, ChainInv, TailsOK
      <4>3. \A t \in Task : On(task'[t], q, y) => On(task[t], q, y) /\ task'[t] = task[t]
        BY <2>8, <2>11, <3>2
      <4>4. v = None => \A t \in Task : On(task'[t], q, y) => task'[t].pred # None
        BY <4>1, <4>2, <4>3 DEF TailOK
      <4>5. ASSUME v # None
            PROVE  On(task'[v], q, y) /\ \A t \in Task : Chained(task'[t]) => task'[t].pred # v
        <5>1. v \in Task /\ On(task[v], q, y) /\ \A t \in Task : Chained(task[t]) => task[t].pred # v
          BY <4>1, <4>2, <4>5 DEF TailOK
        <5>2. v \notin wait
          BY <2>16, <5>1 DEF On
        <5> QED
          BY <2>8, <2>9, <2>11, <2>14, <3>2, <4>5, <5>1, <5>2
      <4> QED
        BY <4>2, <4>4, <4>5 DEF TailOK
    <3> QED
      BY <3>1, <3>2
  <2>20. QueuesHeld'
    <3>1. n # None
      BY <2>3
    <3> QED
      BY <2>6, <2>7, <2>11, <3>1 DEF ChainInv, QueuesHeld
  <2>21. EntriesApart'
    BY <2>6, <2>7 DEF ChainInv, EntriesApart, Apart
  <2>22. FlightsAlone' /\ CreatesAlone'
    BY <1>9, <1>10, <2>6, <2>7, <2>8, <2>9
  <2> QED
    BY <2>17, <2>18, <2>19, <2>20, <2>21, <2>22 DEF ChainInv
<1> QED
  BY <1>11, <1>12

\* A restart loses the chains of its replica with their runs, and starts from
\* empty ones.
LEMMA RestartChain ==
    ASSUME RoomsIInv, ChainInv, NEW p \in Replica, Restart(p)
    PROVE  ChainInv'
<1> USE RoomsAssumption
<1>1. PICK mine, live, kept : mine = Mine(p) /\ live = Recoverable /\ kept = Kept(p)
  OBVIOUS
<1>2. PICK cell : cell \in Cells(live, kept) /\ Rebuilt(p, cell)
  BY <1>1 DEF Restart
<1>3. PICK h, tk, en, fl :
         /\ h = [o \in Obj |-> IF \E r \in live : cell[r] = o
                               THEN Snapshot(CHOOSE r \in live : cell[r] = o) ELSE heap[o]]
         /\ tk = [t \in Task |-> IF task[t].sock \in mine THEN NoTask ELSE task[t]]
         /\ en = [entry EXCEPT ![p] = [r \in Room |-> IF r \in live THEN cell[r] ELSE None]]
         /\ fl = [inflight EXCEPT ![p] = [r \in Room |-> NoFlight]]
  BY Zenon
<1>4. Update(h, tk, en) /\ inflight' = fl /\ games' = games
  <2>1. Update(h, tk, en)
    BY <1>1, <1>2, <1>3 DEF Rebuilt
  <2> QED
    BY <1>1, <1>3, <2>1 DEF Restart, ledgerVars
<1>5. /\ heap \in [Obj -> RoomObj] /\ task \in [Task -> TaskRow] /\ ShapesOK
      /\ entry \in [Replica -> [Room -> Obj \cup {None}]]
      /\ inflight \in [Replica -> [Room -> Flight]]
  BY DEF RoomsIInv, ShapesOK
<1>6. /\ cell \in [live -> Obj \ kept] /\ \A r, q \in live : cell[r] = cell[q] => r = q
      /\ live \subseteq Room
  BY <1>1, <1>2 DEF Cells, Recoverable
<1>7. \A r \in live : cell[r] \in Obj /\ h[cell[r]].tail = None
  <2> SUFFICES ASSUME NEW r \in live PROVE cell[r] \in Obj /\ h[cell[r]].tail = None
    OBVIOUS
  <2>1. cell[r] \in Obj /\ r \in Room
    BY <1>6
  <2>2. PICK c : c = CHOOSE x \in live : cell[x] = cell[r]
    OBVIOUS
  <2>3. c \in live /\ cell[c] = cell[r]
    BY <2>2
  <2>4. c = r
    BY <1>6, <2>3
  <2>5. h[cell[r]] = Snapshot(r)
    BY <1>3, <2>1, <2>2, <2>4
  <2>6. Snapshot(r).tail = None
    BY <2>1, SnapshotOK
  <2> QED
    BY <2>1, <2>5, <2>6
<1>8. \A o \in kept : o \in Obj => h[o] = heap[o]
  BY <1>3, <1>6
<1>9. /\ \A r \in Room : en[p][r] = IF r \in live THEN cell[r] ELSE None
      /\ \A q \in Replica, r \in Room : q # p => en[q][r] = entry[q][r] /\ entry[q][r] \in kept
  <2>1. PICK c : c = [r \in Room |-> IF r \in live THEN cell[r] ELSE None]
    BY Zenon
  <2>2. en = [entry EXCEPT ![p] = c]
    BY <1>3, <2>1
  <2>3. en[p] = c /\ \A q \in Replica : q # p => en[q] = entry[q]
    BY <1>5, <2>2
  <2>4. \A q \in Replica, r \in Room : q # p => entry[q][r] \in kept
    BY <1>1 DEF Kept
  <2> QED
    BY <2>1, <2>3, <2>4
<1>10. /\ task' = tk /\ entry' = en
       /\ \A q \in Replica, r \in Room : en[q][r] \in Obj => heap'[en[q][r]] = h[en[q][r]]
  BY <1>4 DEF Update
<1>11. ~Chained(NoTask) /\ NoTask.pred = None /\ NoTask.kind = "none"
  BY DEF NoTask, Chained
<1>12. \A t \in Task : \/ task'[t] = NoTask
                       \/ task'[t] = task[t] /\ task[t].sock \notin mine
  BY <1>3, <1>10
<1>13. ASSUME NEW t \in Task, Chained(task[t]) \/ task[t].kind = "create"
       PROVE  /\ Home[task[t].sock] = p => task'[t] = NoTask
              /\ Home[task[t].sock] # p => task'[t] = task[t]
  <2>1. task[t].kind = "create" => task[t].pc # "idle"
    BY RunFacts DEF RunShape
  <2>2. task[t].sock \in Socket
    BY <1>13, <2>1, EntryTypes DEF Chained, S
  <2>3. task[t].sock \in mine <=> Home[task[t].sock] = p
    BY <1>1, <2>2 DEF Mine
  <2> QED
    BY <1>3, <1>10, <2>3
<1>14. \A t \in Task, q \in Replica, r \in Room :
          On(task'[t], q, r) <=> On(task[t], q, r) /\ q # p
  BY <1>11, <1>12, <1>13 DEF On
<1>15. \A t \in Task, q \in Replica, r \in Room :
          On(task[t], q, r) /\ q # p => task'[t] = task[t]
  BY <1>13 DEF On
<1>16. \A t \in Task : Chained(task'[t]) => Chained(task[t]) /\ task'[t] = task[t]
  BY <1>11, <1>12
<1>17. \A t \in Task : task[t].pred \in Task \cup {None}
  BY <1>5, ChainTypes
<1>18. HeadsOK'
  <2>1. \A t \in Task : task'[t].pc # "queued" => task'[t].pred = None
    BY <1>11, <1>12 DEF ChainInv, HeadsOK
  <2> QED
    BY <1>14, <1>15, <2>1 DEF ChainInv, HeadsOK
<1>19. LinksOK'
  <2>1. ASSUME NEW q \in Replica, NEW r \in Room, NEW t \in Task,
               On(task'[t], q, r), task'[t].pred # None
        PROVE  On(task'[task'[t].pred], q, r)
    <3>1. On(task[t], q, r) /\ q # p /\ task'[t] = task[t]
      BY <1>14, <1>15, <2>1
    <3>2. task[t].pred \in Task /\ On(task[task[t].pred], q, r)
      BY <1>17, <2>1, <3>1 DEF ChainInv, LinksOK
    <3> QED
      BY <1>14, <3>1, <3>2
  <2>2. \A t, q \in Task :
           Chained(task'[t]) /\ Chained(task'[q])
             /\ task'[t].pred # None /\ task'[t].pred = task'[q].pred => t = q
    BY <1>16 DEF ChainInv, LinksOK
  <2> QED
    BY <2>1, <2>2 DEF LinksOK
<1>20. TailsOK'
  <2> SUFFICES ASSUME NEW q \in Replica, NEW r \in Room, entry'[q][r] # None
               PROVE  TailOK(q, r)'
    BY DEF TailsOK
  <2>1. CASE q = p
    <3>1. r \in live /\ en[q][r] = cell[r] /\ cell[r] \in Obj
      BY <1>7, <1>9, <1>10, <2>1
    <3>2. TailOf(q, r)' = None
      BY <1>7, <1>10, <3>1 DEF TailOf
    <3>3. \A t \in Task : ~On(task'[t], q, r)
      BY <1>14, <2>1
    <3> QED
      BY <3>2, <3>3 DEF TailOK
  <2>2. CASE q # p
    <3>1. en[q][r] = entry[q][r] /\ entry[q][r] \in kept /\ entry[q][r] \in Obj
      BY <1>5, <1>9, <1>10, <2>2
    <3>2. PICK x : x = TailOf(q, r)
      OBVIOUS
    <3>3. TailOf(q, r)' = x /\ TailOK(q, r) /\ x \in Task \cup {None}
      BY <1>5, <1>8, <1>10, <3>1, <3>2, ChainTypes DEF TailOf, ChainInv, TailsOK
    <3>4. x = None => \A t \in Task : On(task'[t], q, r) => task'[t].pred # None
      BY <1>14, <1>15, <3>2, <3>3 DEF TailOK
    <3>5. ASSUME x # None
          PROVE  On(task'[x], q, r) /\ \A t \in Task : Chained(task'[t]) => task'[t].pred # x
      <4>1. On(task[x], q, r) /\ \A t \in Task : Chained(task[t]) => task[t].pred # x
        BY <3>2, <3>3, <3>5 DEF TailOK
      <4> QED
        BY <1>14, <1>16, <2>2, <3>3, <3>5, <4>1
    <3> QED
      BY <3>3, <3>4, <3>5 DEF TailOK
  <2> QED
    BY <2>1, <2>2
<1>21. QueuesHeld'
  BY <1>9, <1>10, <1>14 DEF ChainInv, QueuesHeld
<1>22. EntriesApart'
  <2>1. \A q \in Replica, r \in Room : en[q][r] # None /\ q = p =>
           r \in live /\ en[q][r] = cell[r] /\ cell[r] \notin kept
    BY <1>6, <1>9
  <2>2. \A q \in Replica, r \in Room : q # p => en[q][r] = entry[q][r] /\ en[q][r] \in kept
    BY <1>9
  <2> SUFFICES ASSUME NEW a \in Replica, NEW b \in Replica, NEW r \in Room, NEW x \in Room,
                      en[a][r] # None, en[a][r] = en[b][x]
               PROVE  a = b /\ r = x
    BY <1>10 DEF EntriesApart, Apart
  <2>3. CASE a = p /\ b = p
    BY <1>6, <2>1, <2>3
  <2>4. CASE a # p /\ b # p
    BY <2>2, <2>4 DEF ChainInv, EntriesApart, Apart
  <2>5. CASE (a = p) # (b = p)
    BY <2>1, <2>2, <2>5
  <2> QED
    BY <2>3, <2>4, <2>5
<1>23. /\ \A r \in Room : inflight'[p][r] = NoFlight
       /\ \A q \in Replica, r \in Room : q # p => inflight'[q][r] = inflight[q][r]
  BY <1>3, <1>4, <1>5
<1>24. NoFlight.state = "no" /\ Len(NoFlight.waiters) = 0
  BY DEF NoFlight
<1>25. FlightsAlone'
  <2> SUFFICES ASSUME NEW q \in Replica, NEW x \in Room
               PROVE  /\ inflight'[q][x].state # "no" =>
                            entry'[q][x] = None /\ \E g \in Game : games'[g].home = x
                      /\ \A i, j \in 1..Len(inflight'[q][x].waiters) :
                            inflight'[q][x].waiters[i] = inflight'[q][x].waiters[j] => i = j
    BY DEF FlightsAlone
  <2>1. CASE q = p
    <3>1. inflight'[q][x].state = "no" /\ Len(inflight'[q][x].waiters) = 0
      BY <1>23, <1>24, <2>1
    <3> QED
      BY <3>1
  <2>2. CASE q # p
    <3>1. inflight'[q][x] = inflight[q][x] /\ entry'[q][x] = entry[q][x]
      BY <1>9, <1>10, <1>23, <2>2
    <3>2. /\ inflight[q][x].state # "no" => entry[q][x] = None /\ \E g \in Game : games[g].home = x
          /\ \A i, j \in 1..Len(inflight[q][x].waiters) :
                inflight[q][x].waiters[i] = inflight[q][x].waiters[j] => i = j
      BY DEF ChainInv, FlightsAlone
    <3> QED
      BY <1>4, <3>1, <3>2
  <2> QED
    BY <2>1, <2>2
<1>26. CreatesAlone'
  <2>1. \A t \in Task : task'[t].kind = "create" =>
           task'[t] = task[t] /\ Home[task[t].sock] # p
    <3> SUFFICES ASSUME NEW t \in Task, task'[t].kind = "create"
                 PROVE  task'[t] = task[t] /\ Home[task[t].sock] # p
      OBVIOUS
    <3>1. task'[t] # NoTask
      BY <1>11
    <3> QED
      BY <1>12, <1>13, <3>1
  <2> SUFFICES ASSUME NEW q \in Replica, NEW x \in Room, NEW t \in Task,
                      task'[t].kind = "create", Home[task'[t].sock] = q, task'[t].room = x
               PROVE  /\ entry'[q][x] = None /\ inflight'[q][x].state = "no"
                      /\ \A z \in Task : task'[z].kind = "create" /\ task'[z].room = x => z = t
    BY DEF CreatesAlone
  <2>2. task[t].kind = "create" /\ Home[task[t].sock] = q /\ task[t].room = x /\ q # p
    BY <2>1
  <2>3. /\ entry[q][x] = None /\ inflight[q][x].state = "no"
        /\ \A z \in Task : task[z].kind = "create" /\ task[z].room = x => z = t
    BY <2>2 DEF ChainInv, CreatesAlone
  <2> QED
    BY <1>9, <1>10, <1>23, <2>1, <2>2, <2>3
<1> QED
  BY <1>18, <1>19, <1>20, <1>21, <1>22, <1>25, <1>26 DEF ChainInv

-----------------------------------------------------------------------------
(* Every step.                                                             *)

\* A step of a handler run.
LEMMA TaskStepChain ==
    ASSUME RoomsIInv, ChainInv, ~LosesQueue, HomesStay, NEW t \in Task, TaskStep(t)
    PROVE  ChainInv'
<1>1. ASSUME \/ RefreshQuery(t) \/ CreateCommit(t) \/ JoinCommit(t) \/ MoveCommit(t)
             \/ SettleCommit(t) \/ Vote(t) \/ CountVotes(t) \/ Quorum(t) \/ RematchCommit(t)
      PROVE  ChainInv'
  BY <1>1, QueryChain
<1>2. ASSUME \/ JoinReconnect(t) \/ JoinRefused(t) \/ JoinClaim(t)
             \/ MoveRefused(t) \/ MoveDecide(t) \/ GameOverDecide(t) \/ ResignDecide(t)
             \/ LeaveDecide(t) \/ AcceptDecide(t)
      PROVE  ChainInv'
  BY <1>2, DecideChain
<1>3. ASSUME \/ NoTruth(t) \/ JoinPresence(t) \/ SettleDone(t) \/ LeaveBlind(t)
             \/ Departed(t) \/ RematchStart(t)
      PROVE  ChainInv'
  BY <1>3, LastChain
<1>4. ASSUME \/ JoinSeated(t) \/ MoveDone(t) \/ LeaveSettled(t) \/ DisconnectDetach(t)
             \/ RematchDone(t)
      PROVE  ChainInv'
  BY <1>4, WriteChain
<1>5. ASSUME CreateDone(t) PROVE ChainInv'
  BY <1>5, CreateDoneChain
<1> QED
  BY <1>1, <1>2, <1>3, <1>4, <1>5, Zenon DEF TaskStep

\* Events, hydrations, lapsed votes and restarts.
LEMMA OtherStepChain ==
    ASSUME RoomsIInv, ChainInv,
           \/ \E p \in Replica, r \in Room : HydrateStep(p, r)
           \/ ClientStep
           \/ \E g \in Game : VotesExpire(g)
           \/ \E p \in Replica : Restart(p)
    PROVE  ChainInv'
<1>0. ShapesOK
  BY DEF RoomsIInv
<1>1. ASSUME NEW p \in Replica, NEW r \in Room, HydrateStep(p, r)
      PROVE  ChainInv'
  <2>1. CASE HydrateQuery(p, r)
    <3>1. UNCHANGED <<heap, entry, task, games>>
      BY <2>1 DEF HydrateQuery, ledgerVars
    <3> QED
      BY <1>0, <2>1, <3>1, SameChain
  <2>2. CASE HydrateReply(p, r)
    BY <2>2, HydrateReplyChain
  <2> QED
    BY <1>1, <2>1, <2>2 DEF HydrateStep
<1>2. ASSUME NEW s \in Socket, NEW r \in Room,
             \/ CreateRoom(s, r) \/ JoinCached(s, r) \/ JoinMiss(s, r)
             \/ \E kind \in Events : Send(s, r, kind)
             \/ Disconnect(s, r)
      PROVE  ChainInv'
  <2>1. CASE CreateRoom(s, r)
    BY <2>1, CreateRoomChain
  <2>2. CASE JoinCached(s, r)
    <3>1. Enqueue(s, r, "join") /\ inflight' = inflight /\ games' = games
      BY <2>2 DEF JoinCached, ledgerVars
    <3> QED
      BY <3>1, EnqueueChain
  <2>3. CASE JoinMiss(s, r)
    BY <2>3, JoinMissChain
  <2>4. ASSUME NEW kind \in Events, Send(s, r, kind)
        PROVE  ChainInv'
    <3>1. Enqueue(s, r, kind) /\ kind # "create" /\ inflight' = inflight /\ games' = games
      BY <2>4 DEF Send, ledgerVars
    <3> QED
      BY <3>1, EnqueueChain
  <2>5. CASE Disconnect(s, r)
    <3>1. Enqueue(s, r, "disconnect") /\ inflight' = inflight /\ games' = games
      BY <2>5 DEF Disconnect, ledgerVars
    <3> QED
      BY <3>1, EnqueueChain
  <2> QED
    BY <1>2, <2>1, <2>2, <2>3, <2>4, <2>5
<1>3. ASSUME NEW s \in Socket, DisconnectUnattached(s) PROVE ChainInv'
  <2>1. UNCHANGED <<heap, entry, task, games>> /\ inflight' = inflight
    BY <1>3 DEF DisconnectUnattached, ledgerVars
  <2> QED
    BY <1>0, <2>1, SameChain
<1>4. ASSUME NEW g \in Game, VotesExpire(g) PROVE ChainInv'
  <2>1. UNCHANGED <<heap, entry, task, games>> /\ inflight' = inflight
    BY <1>4 DEF VotesExpire, ledgerVars
  <2> QED
    BY <1>0, <2>1, SameChain
<1>5. ASSUME NEW p \in Replica, Restart(p) PROVE ChainInv'
  BY <1>5, RestartChain
<1> QED
  BY <1>1, <1>2, <1>3, <1>4, <1>5, Zenon DEF ClientStep

\* No step forks a chain unless it loses one.
LEMMA ChainNextOK ==
    ASSUME RoomsIInv, ChainInv, [RoomsNext]_allVars, ~LosesQueue
    PROVE  ChainInv'
<1>1. HomesStay
  BY RoomsNextOK, HomesStayed
<1>2. CASE UNCHANGED allVars
  <2>1. UNCHANGED <<heap, entry, task, games>> /\ inflight' = inflight
    BY <1>2 DEF allVars, roomVars, ledgerVars
  <2> QED
    BY <2>1, SameChain DEF RoomsIInv
<1>3. CASE RoomsNext
  BY <1>1, <1>3, TaskStepChain, OtherStepChain, Zenon DEF RoomsNext
<1> QED
  BY <1>2, <1>3

\* At first no chain has a run.
LEMMA ChainInitOK ==
    ASSUME RoomsInit
    PROVE  ChainInv
<1>1. ~Chained(NoTask) /\ NoTask.pred = None /\ NoTask.kind = "none" /\ NoTask.pc = "idle"
  BY DEF NoTask, Chained
<1>2. NoFlight.state = "no" /\ Len(NoFlight.waiters) = 0
  BY DEF NoFlight
<1>3. /\ \A t \in Task : task[t] = NoTask
      /\ \A p \in Replica, r \in Room : entry[p][r] = None /\ inflight[p][r] = NoFlight
  BY DEF RoomsInit
<1>4. \A t \in Task, p \in Replica, r \in Room : ~On(task[t], p, r)
  BY <1>1, <1>3 DEF On
<1>5. HeadsOK /\ LinksOK
  BY <1>1, <1>3, <1>4 DEF HeadsOK, LinksOK
<1>6. TailsOK /\ QueuesHeld /\ EntriesApart
  BY <1>3, <1>4 DEF TailsOK, QueuesHeld, EntriesApart, Apart
<1>7. FlightsAlone
  BY <1>2, <1>3 DEF FlightsAlone
<1>8. CreatesAlone
  BY <1>1, <1>3 DEF CreatesAlone
<1> QED
  BY <1>5, <1>6, <1>7, <1>8 DEF ChainInv

\* A replica runs the handlers of a room one at a time (roomTask,
\* gameSocket.js:223-224): runs refresh, replace and re-cache the object that
\* holds the chain, fail, and end in any order of the rooms, and the chain is
\* never forked, except by the eviction of a room whose queue is not empty
\* (evictIfSocketless, gameSocket.js:212).
THEOREM ChainsRunInTurn ==
    RoomsSpec /\ [][~LosesQueue]_allVars => []RoomsInv
<1>1. RoomsInit => RoomsIInv /\ ChainInv
  BY RoomsInitOK, ChainInitOK
<1>2. RoomsIInv /\ ChainInv /\ [RoomsNext]_allVars /\ [~LosesQueue]_allVars
         => RoomsIInv' /\ ChainInv'
  <2> SUFFICES ASSUME RoomsIInv, ChainInv, [RoomsNext]_allVars, [~LosesQueue]_allVars
               PROVE  RoomsIInv' /\ ChainInv'
    OBVIOUS
  <2>1. ~LosesQueue
    BY DEF LosesQueue, allVars, roomVars
  <2> QED
    BY <2>1, RoomsNextOK, ChainNextOK
<1>3. RoomsIInv /\ ChainInv => OneTaskPerRoom
  <2> SUFFICES ASSUME RoomsIInv, ChainInv, NEW t \in Task, NEW q \in Task,
                      Running(t), Running(q), task[t].kind # "create",
                      task[q].kind # "create", P(t) = P(q), R(t) = R(q)
               PROVE  t = q
    BY DEF OneTaskPerRoom
  <2>1. Chained(task[t]) /\ Chained(task[q])
    BY DEF Running, Chained
  <2>2. /\ P(t) \in Replica /\ R(t) \in Room
        /\ On(task[t], P(t), R(t)) /\ On(task[q], P(t), R(t))
    BY <2>1, RunOfChain
  <2>3. task[t].pred = None /\ task[q].pred = None
    BY DEF Running, ChainInv, HeadsOK
  <2> QED
    BY <2>2, <2>3 DEF ChainInv, HeadsOK
<1>4. RoomsSpec /\ [][~LosesQueue]_allVars => []OneTaskPerRoom
  BY <1>1, <1>2, <1>3, PTL DEF RoomsSpec
<1>5. RoomsTypeOK /\ OneTaskPerRoom => RoomsInv
  BY DEF RoomsInv
<1> QED
  BY <1>4, <1>5, RoomsTypeCorrect, PTL

=============================================================================
