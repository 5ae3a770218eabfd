------------------------------ MODULE GameRooms ------------------------------
(***************************************************************************)
(* socket/gameSocket.js: the room cache of every replica (activeRooms), the *)
(* per-room promise chain (roomTask), and the handlers that run on it.      *)
(*                                                                         *)
(* A handler is cut at each await that leaves the process, so one action    *)
(* is what Node runs without giving way to another event.  A room object   *)
(* is a cell of `heap': a refresh replaces the cached object, and a task   *)
(* keeps the reference it was queued with, so identity matters.  Database  *)
(* transactions are the atomic steps of GameLedger.                        *)
(***************************************************************************)
EXTENDS GameLedger

CONSTANTS
    Replica,      \* backend processes
    Socket,       \* client connections; an id is never reused
    Home,         \* Home[s]: the replica s is connected to
    Owner,        \* Owner[s]: the authenticated user of s
    Task,         \* slots for handler runs in progress
    Obj,          \* heap cells for room objects
    Events,       \* the events clients emit in this instance
    Faults,       \* database, Redis and adapter calls may fail
    SharedVotes   \* SOCKET_ADAPTER = redis

ASSUME RoomsAssumption ==
    /\ Home \in [Socket -> Replica] /\ Owner \in [Socket -> User]
    /\ None \notin Task /\ None \notin Obj /\ None \notin Socket
    /\ Faults \in BOOLEAN /\ SharedVotes \in BOOLEAN
    /\ SharedVotes \/ \A p, q \in Replica : p = q

VARIABLES
    heap,      \* room objects
    entry,     \* entry[p][r]: activeRooms of replica p
    inflight,  \* inflight[p][r]: the shared hydration of a missing room
    task,      \* handler runs
    conn,      \* sockets that are connected
    joined,    \* joined[r]: sockets in the socket.io room r, cluster-wide
    started,   \* started[s]: game of the last game_start s received
    votes,     \* rematchVotes: votes[g]
    voted      \* votes ever cast for g (history, for the properties only)

roomVars == <<heap, entry, inflight, task, conn, joined, started, votes, voted>>
allVars  == <<ledgerVars, roomVars>>

\* A room object; also the form a DB snapshot takes ("dead": no
\* materializable row, "fault": the query failed, "freed": unused cell).
Blank ==
    [status |-> "freed", game |-> None, white |-> None, black |-> None,
     board |-> StartBoard, n |-> 0, att |-> [u \in User |-> None],
     tail |-> None]

Live(o) == o.status \in {"waiting", "playing", "finished"}

NoTask ==
    [pc |-> "idle", kind |-> "none", sock |-> None, room |-> None,
     ref |-> None, live |-> None, pred |-> None, snap |-> Blank,
     res |-> "none",   \* what is being settled or was read
     out |-> "none"]   \* how the last awaited call ended

NoFlight == [state |-> "no", snap |-> Blank, waiters |-> <<>>]

RoomsInit ==
    /\ LedgerInit
    /\ heap = [o \in Obj |-> Blank]
    /\ entry = [p \in Replica |-> [r \in Room |-> None]]
    /\ inflight = [p \in Replica |-> [r \in Room |-> NoFlight]]
    /\ task = [t \in Task |-> NoTask]
    /\ conn = Socket
    /\ joined = [r \in Room |-> {}]
    /\ started = [s \in Socket |-> None]
    /\ votes = [g \in Game |-> {}]
    /\ voted = [g \in Game |-> {}]

-----------------------------------------------------------------------------
(* Room objects.                                                           *)

Attached(o, s) == o.att[Owner[s]] = s

Socketless(o) == \A u \in User : o.att[u] = None

Players(o) == {o.white, o.black} \ {None}

ColorIn(o, s) == IF o.white = Owner[s] THEN "w" ELSE "b"

Detach(o, s) == [o EXCEPT !.att[Owner[s]] = None]

\* buildRoomFromSnapshot: no sockets, a chain of its own.
Materialize(g) ==
    LET row == games[g]
    IN  [Blank EXCEPT
           !.status = IF row.status = "finished" THEN "finished"
                      ELSE IF row.black = None THEN "waiting" ELSE "playing",
           !.game = g, !.white = row.white, !.black = row.black,
           !.board = row.board, !.n = Len(moves[g])]

\* Game.findRoomSnapshot and isMaterializable.
Snapshot(r) ==
    IF \E g \in Game : /\ games[g].room = r
                       /\ games[g].status \in {"in_progress", "finished"}
    THEN Materialize(CHOOSE g \in Game : games[g].room = r)
    ELSE [Blank EXCEPT !.status = "dead"]

Fault == [Blank EXCEPT !.status = "fault"]

QueryResults(r) == {Snapshot(r)} \cup (IF Faults THEN {Fault} ELSE {})

\* Game.findRecoverable: the rooms a starting process loads.
Recoverable ==
    {r \in Room : \E g \in Game : /\ games[g].room = r
                                  /\ games[g].status = "in_progress"}

CellFree == \E o \in Obj : heap[o].status = "freed"

NewObj == CHOOSE o \in Obj : heap[o].status = "freed"

\* Different unused cells for the rooms rs, when the cells in kept are used.
Cells(rs, kept) == {f \in [rs -> Obj \ kept] : \A r, q \in rs : f[r] = f[q] => r = q}

\* New caches and tasks, with unreachable room objects collected.
Update(h, tk, en) ==
    /\ task' = tk
    /\ entry' = en
    /\ heap' = [o \in Obj |->
                  IF \/ \E p \in Replica, r \in Room : en[p][r] = o
                     \/ \E t \in Task : o \in {tk[t].ref, tk[t].live}
                  THEN h[o] ELSE Blank]

-----------------------------------------------------------------------------
(* roomTask: run = room.operation.then(task, task); a settled run lets the *)
(* next one start, whether it succeeded or not.                            *)

SlotFree == \E t \in Task : task[t].pc = "idle"

FreeTask == CHOOSE t \in Task : task[t].pc = "idle"

Link(h, o, t) == [h EXCEPT ![o].tail = t]

Queued(h, o, s, r, kind) ==
    [NoTask EXCEPT !.pc = "queued", !.kind = kind, !.sock = s, !.room = r,
                   !.ref = o, !.pred = h[o].tail]

\* Bug: a failed run leaves a rejected promise on the chain.
FinishWedged(t, h, en) ==
    Update(h, [q \in Task |-> IF q = t THEN NoTask ELSE task[q]], en)

Finish(t, h, en) ==
    Update([o \in Obj |-> IF h[o].tail = t THEN [h[o] EXCEPT !.tail = None]
                                           ELSE h[o]],
           [q \in Task |-> IF q = t THEN NoTask
                           ELSE IF task[q].pred = t
                                THEN [task[q] EXCEPT !.pred = None]
                                ELSE task[q]],
           en)

P(t) == Home[task[t].sock]
R(t) == task[t].room
S(t) == task[t].sock
U(t) == Owner[task[t].sock]

Cached(t) == entry[P(t)][R(t)]

SetEntry(t, o) == [entry EXCEPT ![P(t)][R(t)] = o]

Step(t, pc) == [task EXCEPT ![t].pc = pc]

(***************************************************************************)
(* refreshRoomFromDb on the snapshot read: sockets and chain come from the *)
(* cached object, or from the task's own reference when there is none.     *)
(***************************************************************************)

Current(t) == IF Cached(t) # None THEN Cached(t) ELSE task[t].ref

\* Bug: the rebuilt object starts a chain of its own.
RefreshedForked(t) ==
    LET cur == heap[Current(t)]
    IN  [task[t].snap EXCEPT
           !.att = [u \in User |-> IF u \in Players(task[t].snap)
                                   THEN cur.att[u] ELSE None]]

Refreshed(t) ==
    LET cur == heap[Current(t)]
    IN  [task[t].snap EXCEPT
           !.att = [u \in User |-> IF u \in Players(task[t].snap)
                                   THEN cur.att[u] ELSE None],
           !.tail = cur.tail]

\* The entry when truth is missing: a fault keeps it, a dead room drops it.
EntryWithoutTruth(t) ==
    IF task[t].snap.status = "dead" THEN SetEntry(t, None) ELSE entry

\* evictIfSocketless, on the entry as the handler leaves it.
Evicted(t, h, en) ==
    LET o == en[P(t)][R(t)]
    IN  IF o # None /\ Socketless(h[o]) THEN [en EXCEPT ![P(t)][R(t)] = None]
                                        ELSE en

\* The handler continues on the refreshed object `o' at step pc, about res.
ProceedWith(t, o, pc, res) ==
    /\ CellFree
    /\ Update([heap EXCEPT ![NewObj] = o],
              [task EXCEPT ![t].pc = pc, ![t].live = NewObj, ![t].snap = Blank,
                           ![t].res = res],
              SetEntry(t, NewObj))

Proceed(t, o, pc) == ProceedWith(t, o, pc, "none")

\* The handler ends on the refreshed object `o'.
Return(t, o) ==
    CellFree /\ Finish(t, [heap EXCEPT ![NewObj] = o], SetEntry(t, NewObj))

\* The handler throws: join_room's catch evicts an unused entry.
Throw(t, o) ==
    LET h == [heap EXCEPT ![NewObj] = o]
    IN  CellFree /\ Finish(t, h, Evicted(t, h, SetEntry(t, NewObj)))

-----------------------------------------------------------------------------
(* rematchVotes: a Set per game in the process, or a Redis set with a TTL. *)

AddVote(g, u) == /\ votes' = [votes EXCEPT ![g] = @ \cup {u}]
                 /\ voted' = [voted EXCEPT ![g] = @ \cup {u}]

\* RematchUnavailable: Redis failed before or after SADD; local never does.
AddVoteFails(g, u) ==
    /\ Faults /\ SharedVotes
    /\ AddVote(g, u) \/ UNCHANGED <<votes, voted>>

\* Removing and clearing are best effort: a Redis failure is only logged.
RemoveVote(g, u) ==
    \/ votes' = [votes EXCEPT ![g] = @ \ {u}]
    \/ Faults /\ SharedVotes /\ UNCHANGED votes

ClearVotes(g) ==
    \/ votes' = [votes EXCEPT ![g] = {}]
    \/ Faults /\ SharedVotes /\ UNCHANGED votes

\* What a newly started process finds: its own Map is empty, Redis is not.
VotesAtStart == IF SharedVotes THEN votes ELSE [g \in Game |-> {}]

-----------------------------------------------------------------------------
(* Events: each handler looks its room up and queues a task on it.         *)

Emits(s, kind) == s \in conn /\ kind \in Events /\ SlotFree

\* create_room starts its INSERT with a random id that no room has had.
CreateRoom(s, r) ==
    /\ Emits(s, "create")
    /\ ~\E g \in Game : games[g].home = r
    /\ \A t \in Task : task[t].kind = "create" => task[t].room # r
    /\ task' = [task EXCEPT ![FreeTask] =
                  [NoTask EXCEPT !.pc = "tx", !.kind = "create", !.sock = s,
                                 !.room = r]]
    /\ UNCHANGED <<ledgerVars, heap, entry, inflight, conn, joined, started,
                   votes, voted>>

\* A room id is random: nobody knows it before room_created announced it.
Known(r) ==
    /\ \E g \in Game : games[g].home = r
    /\ \A t \in Task : task[t].kind = "create" => task[t].room # r

Enqueue(s, r, kind) ==
    LET o == entry[Home[s]][r]
    IN  /\ SlotFree
        /\ o # None
        /\ Update(Link(heap, o, FreeTask),
                  [task EXCEPT ![FreeTask] = Queued(heap, o, s, r, kind)],
                  entry)

\* join_room on a cached room (getRoom returns the entry).
JoinCached(s, r) ==
    /\ Emits(s, "join") /\ Known(r)
    /\ Enqueue(s, r, "join")
    /\ UNCHANGED <<ledgerVars, inflight, conn, joined, started, votes, voted>>

\* join_room on a missing room: the first miss starts the hydration and
\* later ones share it (getRoom).
JoinMiss(s, r) ==
    /\ Emits(s, "join") /\ Known(r)
    /\ entry[Home[s]][r] = None
    /\ task' = [task EXCEPT ![FreeTask] =
                  [NoTask EXCEPT !.pc = "hydrating", !.kind = "join",
                                 !.sock = s, !.room = r]]
    /\ inflight' = [inflight EXCEPT
                      ![Home[s]][r].state = IF @ = "no" THEN "sent" ELSE @,
                      ![Home[s]][r].waiters = Append(@, FreeTask)]
    /\ UNCHANGED <<ledgerVars, heap, entry, conn, joined, started, votes, voted>>

\* make_move, game_over, resign, accept_rematch, leave_room: cache only.
Send(s, r, kind) ==
    /\ kind \in {"move", "game_over", "resign", "accept", "leave"}
    /\ Emits(s, kind)
    /\ Enqueue(s, r, kind)
    /\ UNCHANGED <<ledgerVars, inflight, conn, joined, started, votes, voted>>

\* disconnect, at any time, a run of the same socket included: socket.io drops
\* the socket from its rooms; the handler queues a detach on the first room
\* that holds the socket, and on no other.
Disconnect(s, r) ==
    /\ Emits(s, "disconnect")
    /\ entry[Home[s]][r] # None
    /\ Attached(heap[entry[Home[s]][r]], s)
    /\ Enqueue(s, r, "disconnect")
    /\ conn' = conn \ {s}
    /\ joined' = [q \in Room |-> joined[q] \ {s}]
    /\ UNCHANGED <<ledgerVars, inflight, started, votes, voted>>

\* disconnect of a socket that no cached room holds.
DisconnectUnattached(s) ==
    /\ Emits(s, "disconnect")
    /\ \A r \in Room : entry[Home[s]][r] # None =>
                         ~Attached(heap[entry[Home[s]][r]], s)
    /\ conn' = conn \ {s}
    /\ joined' = [q \in Room |-> joined[q] \ {s}]
    /\ UNCHANGED <<ledgerVars, heap, entry, inflight, task, started, votes, voted>>

-----------------------------------------------------------------------------
(* hydrateRoom.                                                            *)

HydrateQuery(p, r) ==
    /\ inflight[p][r].state = "sent"
    /\ \E snap \in QueryResults(r) :
          inflight' = [inflight EXCEPT ![p][r].state = "back", ![p][r].snap = snap]
    /\ UNCHANGED <<ledgerVars, heap, entry, task, conn, joined, started, votes,
                   voted>>

\* The reply: the room is cached, whatever the cache holds by now, and every
\* waiting join queues on it in order; or they all report "Room not found".
HydrateReply(p, r) ==
    LET w    == inflight[p][r].waiters
        snap == inflight[p][r].snap
        Wait(t) == \E i \in 1..Len(w) : w[i] = t
        Before(t) == LET i == CHOOSE i \in 1..Len(w) : w[i] = t
                     IN  IF i = 1 THEN None ELSE w[i - 1]
    IN  /\ inflight[p][r].state = "back"
        /\ inflight' = [inflight EXCEPT ![p][r] = NoFlight]
        /\ IF Live(snap)
           THEN /\ CellFree
                /\ Update([heap EXCEPT ![NewObj] = [snap EXCEPT !.tail = w[Len(w)]]],
                          [t \in Task |->
                             IF Wait(t)
                             THEN [task[t] EXCEPT !.pc = "queued", !.ref = NewObj,
                                                  !.pred = Before(t)]
                             ELSE task[t]],
                          [entry EXCEPT ![p][r] = NewObj])
           ELSE Update(heap, [t \in Task |-> IF Wait(t) THEN NoTask ELSE task[t]],
                       entry)
        /\ UNCHANGED <<ledgerVars, conn, joined, started, votes, voted>>

\* A task whose turn has come sends the refresh query.
RefreshQuery(t) ==
    /\ task[t].pc = "queued"
    /\ task[t].pred = None
    /\ task[t].kind # "disconnect"
    /\ \E snap \in QueryResults(R(t)) :
          task' = [task EXCEPT ![t].pc = "read", ![t].snap = snap]
    /\ UNCHANGED <<ledgerVars, heap, entry, inflight, conn, joined, started,
                   votes, voted>>

\* The reply finds no truth: every handler but leave_room gives up.
NoTruth(t) ==
    /\ task[t].pc = "read"
    /\ ~Live(task[t].snap)
    /\ task[t].kind # "leave"
    /\ Finish(t, heap, EntryWithoutTruth(t))
    /\ UNCHANGED <<ledgerVars, inflight, conn, joined, started, votes, voted>>

Decides(t, kind) == /\ task[t].pc = "read"
                    /\ task[t].kind = kind
                    /\ Live(task[t].snap)

-----------------------------------------------------------------------------
(* create_room and join_room.                                              *)

CreateCommit(t) ==
    /\ task[t].kind = "create" /\ task[t].pc = "tx"
    /\ \/ \E g \in Game :
            /\ Open(g, R(t), U(t))
            /\ task' = [task EXCEPT ![t].pc = "txdone", ![t].out = "ok",
                                    ![t].snap = [@ EXCEPT !.game = g]]
       \/ /\ Faults \/ \A g \in Game : ~NextId(g)
          /\ task' = [task EXCEPT ![t].pc = "txdone", ![t].out = "no"]
          /\ UNCHANGED ledgerVars
    /\ UNCHANGED <<heap, entry, inflight, conn, joined, started, votes, voted>>

\* The new room is cached with its creator attached, connected or not.
CreateDone(t) ==
    LET o == [task[t].snap EXCEPT !.status = "waiting", !.white = U(t),
                                  !.att[U(t)] = S(t)]
    IN  /\ task[t].kind = "create" /\ task[t].pc = "txdone"
        /\ IF task[t].out = "ok"
           THEN /\ Return(t, o)
                /\ joined' = [joined EXCEPT ![R(t)] = @ \cup {S(t)}]
           ELSE /\ Finish(t, heap, entry)
                /\ UNCHANGED joined
        /\ UNCHANGED <<ledgerVars, inflight, conn, started, votes, voted>>

\* Bug: a player who comes back is put on her board and tells nobody.
JoinReconnectQuiet(t) ==
    LET o == Refreshed(t)
    IN  /\ Decides(t, "join")
        /\ U(t) \in Players(o)
        /\ o.att[U(t)] = None
        /\ Return(t, [o EXCEPT !.att[U(t)] = S(t)])
        /\ joined' = [joined EXCEPT ![R(t)] = @ \cup {S(t)}]
        /\ UNCHANGED <<ledgerVars, inflight, conn, started, votes, voted>>

\* A seated player without a socket takes the seat back.
JoinReconnect(t) ==
    LET o == Refreshed(t)
        a == [o EXCEPT !.att[U(t)] = S(t)]
    IN  /\ Decides(t, "join")
        /\ U(t) \in Players(o)
        /\ o.att[U(t)] = None
        /\ IF o.status = "finished" THEN Return(t, a)
                                    ELSE Proceed(t, a, "presence")
        /\ joined' = [joined EXCEPT ![R(t)] = @ \cup {S(t)}]
        /\ UNCHANGED <<ledgerVars, inflight, conn, started, votes, voted>>

\* "Already joined" or "Room is full".
JoinRefused(t) ==
    LET o == Refreshed(t)
    IN  /\ Decides(t, "join")
        /\ IF U(t) \in Players(o) THEN o.att[U(t)] # None
                                  ELSE o.status # "waiting"
        /\ Throw(t, o)
        /\ UNCHANGED <<ledgerVars, inflight, conn, joined, started, votes, voted>>

JoinClaim(t) ==
    LET o == Refreshed(t)
    IN  /\ Decides(t, "join")
        /\ U(t) \notin Players(o)
        /\ o.status = "waiting"
        /\ Proceed(t, o, "tx")
        /\ UNCHANGED <<ledgerVars, inflight, conn, joined, started, votes, voted>>

JoinCommit(t) ==
    LET g == heap[task[t].live].game
    IN  /\ task[t].kind = "join" /\ task[t].pc = "tx"
        /\ \/ /\ Seat(g, U(t))
              /\ task' = [task EXCEPT ![t].pc = "txdone", ![t].out = "ok"]
           \/ /\ \/ Faults
                 \/ games[g].status # "in_progress" \/ games[g].black # None
              /\ task' = [task EXCEPT ![t].pc = "txdone", ![t].out = "no"]
              /\ UNCHANGED ledgerVars
        /\ UNCHANGED <<heap, entry, inflight, conn, joined, started, votes, voted>>

JoinSeated(t) ==
    LET l == task[t].live
    IN  /\ task[t].kind = "join" /\ task[t].pc = "txdone"
        /\ IF task[t].out = "ok"
           THEN /\ Update([heap EXCEPT ![l].black = U(t), ![l].status = "playing",
                                       ![l].att[U(t)] = S(t)],
                          Step(t, "presence"), entry)
                /\ joined' = [joined EXCEPT ![R(t)] = @ \cup {S(t)}]
           ELSE /\ Finish(t, heap, Evicted(t, heap, entry))
                /\ UNCHANGED joined
        /\ UNCHANGED <<ledgerVars, inflight, conn, started, votes, voted>>

\* presenceByUser: users with a connected socket in the room, cluster-wide;
\* nobody when the adapter fails.
Present(r) == {Owner[s] : s \in joined[r] \cap conn}

GameStart(r, g) ==
    started' = [s \in Socket |-> IF s \in joined[r] \cap conn THEN g
                                                             ELSE started[s]]

\* Both present: game_start to the room.  Otherwise the joiner waits.
JoinPresence(t) ==
    LET o == heap[task[t].live]
    IN  /\ task[t].kind = "join" /\ task[t].pc = "presence"
        /\ \/ /\ o.black # None /\ Players(o) \subseteq Present(R(t))
              /\ GameStart(R(t), o.game)
           \/ /\ Faults \/ o.black = None \/ ~(Players(o) \subseteq Present(R(t)))
              /\ UNCHANGED started
        /\ Finish(t, heap, entry)
        /\ UNCHANGED <<ledgerVars, inflight, conn, joined, votes, voted>>

-----------------------------------------------------------------------------
(* make_move, game_over, resign.                                           *)

\* Not playing, not seated here or not on turn: nothing happens.
MoveRefused(t) ==
    LET o == Refreshed(t)
    IN  /\ Decides(t, "move")
        /\ ~(/\ o.status = "playing" /\ Attached(o, S(t))
             /\ ColorIn(o, S(t)) = o.board.turn)
        /\ Return(t, o)
        /\ UNCHANGED <<ledgerVars, inflight, conn, joined, started, votes, voted>>

MoveDecide(t) ==
    LET o == Refreshed(t)
    IN  /\ Decides(t, "move")
        /\ o.status = "playing" /\ Attached(o, S(t))
        /\ ColorIn(o, S(t)) = o.board.turn
        /\ Proceed(t, o, "tx")
        /\ UNCHANGED <<ledgerVars, inflight, conn, joined, started, votes, voted>>

\* persistMoveAtomic: recorded, or refused (illegal, no longer this turn,
\* no longer active, or a fault).
MoveCommit(t) ==
    LET o == heap[task[t].live]
    IN  /\ task[t].kind = "move" /\ task[t].pc = "tx"
        /\ \/ \E over \in Endings \cup {"no"} :
                /\ Len(moves[o.game]) < MaxMoves
                /\ Play(o.game, ColorIn(o, S(t)), over)
                /\ task' = [task EXCEPT ![t].pc = "txdone", ![t].res = over]
                /\ UNCHANGED <<heap, entry>>
           \/ /\ Finish(t, heap, entry)
              /\ UNCHANGED ledgerVars
        /\ UNCHANGED <<inflight, conn, joined, started, votes, voted>>

\* The object follows the committed move; a finished board is settled next.
MoveDone(t) ==
    LET l    == task[t].live
        o    == heap[l]
        over == task[t].res
        h    == [heap EXCEPT ![l].board = [turn |-> Other(ColorIn(o, S(t))),
                                           over |-> over],
                             ![l].n = @ + 1]
    IN  /\ task[t].kind = "move" /\ task[t].pc = "txdone"
        /\ IF over = "no" THEN Finish(t, h, entry)
           ELSE Update(h, Step(t, "settle"), entry)
        /\ UNCHANGED <<ledgerVars, inflight, conn, joined, started, votes, voted>>

\* game_over: only an attached player, only a finished board not settled yet.
GameOverDecide(t) ==
    LET o == Refreshed(t)
    IN  /\ Decides(t, "game_over")
        /\ IF Attached(o, S(t)) /\ o.board.over # "no" /\ o.status # "finished"
           THEN ProceedWith(t, o, "settle", o.board.over)
           ELSE Return(t, o)
        /\ UNCHANGED <<ledgerVars, inflight, conn, joined, started, votes, voted>>

\* resign, and leave_room during play: settle with the opponent as winner.
ResignDecide(t) ==
    LET o == Refreshed(t)
    IN  /\ Decides(t, "resign")
        /\ IF o.status = "playing" /\ Attached(o, S(t))
           THEN ProceedWith(t, o, "settle", "resign")
           ELSE Return(t, o)
        /\ UNCHANGED <<ledgerVars, inflight, conn, joined, started, votes, voted>>

WinnerOf(t) ==
    LET o == heap[task[t].live]
    IN  CASE task[t].res = "resign"    -> Other(ColorIn(o, S(t)))
          [] task[t].res = "checkmate" -> Other(o.board.turn)
          [] OTHER                     -> None

\* finalizeGameAtomic from the object's view of players and moves.  It fails
\* when the score rows violate CHECK (moves > 0), or on a fault.
SettleCommit(t) ==
    LET o == heap[task[t].live]
    IN  /\ task[t].pc = "settle"
        /\ \/ /\ Settle(o.game, task[t].res, WinnerOf(t), o.n)
              /\ task' = [task EXCEPT ![t].pc = "settled", ![t].out = "ok"]
           \/ /\ games[o.game].status # "in_progress"
              /\ task' = [task EXCEPT ![t].pc = "settled", ![t].out = "no"]
              /\ UNCHANGED ledgerVars
           \/ /\ \/ Faults
                 \/ games[o.game].status = "in_progress" /\ o.n = 0
              /\ task' = [task EXCEPT ![t].pc = "settled", ![t].out = "failed"]
              /\ UNCHANGED ledgerVars
        /\ UNCHANGED <<heap, entry, inflight, conn, joined, started, votes, voted>>

\* Bug: the game is shown as finished whether or not it was settled.
AfterSettleAlways(t) == [heap EXCEPT ![task[t].live].status = "finished"]

AfterSettle(t) ==
    IF task[t].out = "ok"
    THEN [heap EXCEPT ![task[t].live].status = "finished"] ELSE heap

\* The outcome is announced (or the failure reported) and the task ends.
SettleDone(t) ==
    /\ task[t].pc = "settled"
    /\ task[t].kind # "leave"
    /\ Finish(t, AfterSettle(t), entry)
    /\ UNCHANGED <<ledgerVars, inflight, conn, joined, started, votes, voted>>

-----------------------------------------------------------------------------
(* leave_room and disconnect.                                              *)

\* No truth: the leave is honoured on the reference the task was queued with.
LeaveBlind(t) ==
    LET o == task[t].ref
    IN  /\ task[t].pc = "read" /\ task[t].kind = "leave"
        /\ ~Live(task[t].snap)
        /\ Finish(t, IF Attached(heap[o], S(t))
                     THEN [heap EXCEPT ![o] = Detach(@, S(t))] ELSE heap,
                  EntryWithoutTruth(t))
        /\ joined' = IF Attached(heap[o], S(t))
                     THEN [joined EXCEPT ![R(t)] = @ \ {S(t)}] ELSE joined
        /\ UNCHANGED <<ledgerVars, inflight, conn, started, votes, voted>>

LeaveDecide(t) ==
    LET o == Refreshed(t)
    IN  /\ Decides(t, "leave")
        /\ \/ /\ ~Attached(o, S(t))
              /\ Return(t, o)
           \/ /\ Attached(o, S(t)) /\ o.status = "playing"
              /\ ProceedWith(t, o, "settle", "resign")
           \/ /\ Attached(o, S(t)) /\ o.status # "playing"
              /\ Proceed(t, Detach(o, S(t)), "unvote")
        /\ UNCHANGED <<ledgerVars, inflight, conn, joined, started, votes, voted>>

\* Bug: the player is detached before the settlement is known to succeed.
LeaveSettledEarly(t) ==
    LET l == task[t].live
        h == [AfterSettle(t) EXCEPT ![l] = Detach(@, S(t))]
    IN  /\ task[t].pc = "settled" /\ task[t].kind = "leave"
        /\ IF task[t].out = "failed" THEN Finish(t, h, entry)
           ELSE Update(h, Step(t, "unvote"), entry)
        /\ UNCHANGED <<ledgerVars, inflight, conn, joined, started, votes, voted>>

\* A failed settlement throws: the player stays attached and in the room.
LeaveSettled(t) ==
    LET l == task[t].live
        h == [AfterSettle(t) EXCEPT ![l] = Detach(@, S(t))]
    IN  /\ task[t].pc = "settled" /\ task[t].kind = "leave"
        /\ IF task[t].out = "failed" THEN Finish(t, heap, entry)
           ELSE Update(h, Step(t, "unvote"), entry)
        /\ UNCHANGED <<ledgerVars, inflight, conn, joined, started, votes, voted>>

\* Bug: the detach is made on the object found when the event arrived.
DisconnectDetachStale(t) ==
    LET l == task[t].ref
    IN  /\ task[t].pc = "queued" /\ task[t].pred = None
        /\ task[t].kind = "disconnect"
        /\ Update([heap EXCEPT ![l] = Detach(@, S(t))],
                  [task EXCEPT ![t].pc = "unvote", ![t].live = l], entry)
        /\ UNCHANGED <<ledgerVars, inflight, conn, joined, started, votes, voted>>

\* The queued detach looks the live entry up again.
DisconnectDetach(t) ==
    LET l == Current(t)
    IN  /\ task[t].pc = "queued" /\ task[t].pred = None
        /\ task[t].kind = "disconnect"
        /\ IF Attached(heap[l], S(t))
           THEN Update([heap EXCEPT ![l] = Detach(@, S(t))],
                       [task EXCEPT ![t].pc = "unvote", ![t].live = l], entry)
           ELSE Finish(t, heap, entry)
        /\ UNCHANGED <<ledgerVars, inflight, conn, joined, started, votes, voted>>

\* removeVote is best effort; then a finished, empty room is evicted.
Departed(t) ==
    LET o == heap[task[t].live]
    IN  /\ task[t].pc = "unvote"
        /\ RemoveVote(o.game, U(t))
        /\ joined' = [joined EXCEPT ![R(t)] = @ \ {S(t)}]
        /\ Finish(t, heap, IF o.status = "finished" /\ Socketless(o)
                           THEN SetEntry(t, None) ELSE entry)
        /\ UNCHANGED <<ledgerVars, inflight, conn, started, voted>>

-----------------------------------------------------------------------------
(* accept_rematch.                                                         *)

AcceptDecide(t) ==
    LET o == Refreshed(t)
    IN  /\ Decides(t, "accept")
        /\ IF o.status = "finished" /\ Attached(o, S(t))
           THEN Proceed(t, o, "vote") ELSE Return(t, o)
        /\ UNCHANGED <<ledgerVars, inflight, conn, joined, started, votes, voted>>

\* addVote: SADD (or Set.add), then EXPIRE; when Redis fails in between, the
\* request ends although the vote may be stored.
Vote(t) ==
    LET g == heap[task[t].live].game
    IN  /\ task[t].pc = "vote"
        /\ \/ /\ AddVote(g, U(t))
              /\ task' = Step(t, "count")
              /\ UNCHANGED <<heap, entry>>
           \/ /\ AddVoteFails(g, U(t))
              /\ Finish(t, heap, entry)
        /\ UNCHANGED <<ledgerVars, inflight, conn, joined, started>>

\* Bug: one vote is taken for a quorum.
CountVotesAny(t) ==
    /\ task[t].pc = "count"
    /\ task' = [task EXCEPT ![t].pc = "quorum", ![t].out = "ok"]
    /\ UNCHANGED <<ledgerVars, heap, entry, inflight, conn, joined, started,
                   votes, voted>>

\* SCARD (or Set.size): by now another replica's vote may count too.
CountVotes(t) ==
    LET g == heap[task[t].live].game
    IN  /\ task[t].pc = "count"
        /\ \/ /\ task' = [task EXCEPT ![t].pc = "quorum",
                             ![t].out = IF Cardinality(votes[g]) >= 2 THEN "ok"
                                                                     ELSE "no"]
              /\ UNCHANGED <<heap, entry>>
           \/ /\ Faults /\ SharedVotes
              /\ Finish(t, heap, entry)
        /\ UNCHANGED <<ledgerVars, inflight, conn, joined, started, votes, voted>>

\* Quorum and presence; the swapped players are copied before the await.
Quorum(t) ==
    LET o  == heap[task[t].live]
        ok == task[t].out = "ok" /\ Players(o) \subseteq Present(R(t))
    IN  /\ task[t].pc = "quorum"
        /\ \/ /\ ok
              /\ task' = [task EXCEPT ![t].pc = "rematch", ![t].snap = o]
              /\ UNCHANGED <<heap, entry>>
           \/ /\ ~ok \/ Faults
              /\ Finish(t, heap, entry)
        /\ UNCHANGED <<ledgerVars, inflight, conn, joined, started, votes, voted>>

RematchCommit(t) ==
    LET g == task[t].snap.game
    IN  /\ task[t].pc = "rematch"
        /\ \/ \E h \in Game :
                /\ Rematch(g, h)
                /\ task' = [task EXCEPT ![t].pc = "rematched",
                                        ![t].snap = [@ EXCEPT !.game = h]]
                /\ UNCHANGED <<heap, entry>>
           \/ /\ \/ Faults
                 \/ \A h \in Game : ~NextId(h)
                 \/ \E k \in Game \ {g} : games[k].room = R(t)
              /\ Finish(t, heap, entry)
              /\ UNCHANGED ledgerVars
        /\ UNCHANGED <<inflight, conn, joined, started, votes, voted>>

RematchDone(t) ==
    LET l == task[t].live
        c == task[t].snap
    IN  /\ task[t].pc = "rematched"
        /\ Update([heap EXCEPT ![l] =
                     [c EXCEPT !.status = "playing", !.white = c.black,
                               !.black = c.white, !.board = StartBoard, !.n = 0,
                               !.tail = heap[l].tail]],
                  [task EXCEPT ![t].pc = "clear", ![t].snap = heap[l]], entry)
        /\ UNCHANGED <<ledgerVars, inflight, conn, joined, started, votes, voted>>

\* clearVotes (best effort), then game_start to the room.
RematchStart(t) ==
    LET old == task[t].snap.game
    IN  /\ task[t].pc = "clear"
        /\ ClearVotes(old)
        /\ GameStart(R(t), heap[task[t].live].game)
        /\ Finish(t, heap, entry)
        /\ UNCHANGED <<ledgerVars, inflight, conn, joined, voted>>

-----------------------------------------------------------------------------

\* SADD's one-hour TTL runs out.
VotesExpire(g) ==
    /\ SharedVotes /\ "expire" \in Events
    /\ votes[g] # {}
    /\ votes' = [votes EXCEPT ![g] = {}]
    /\ UNCHANGED <<ledgerVars, heap, entry, inflight, task, conn, joined,
                   started, voted>>

\* The sockets of replica p.  One that has left no trace also stands for a
\* connection that is made after a restart.
Mine(p) == {s \in Socket : Home[s] = p}

Untraced(s) ==
    /\ started[s] = None
    /\ \A r \in Room : s \notin joined[r]
    /\ \A t \in Task : task[t].sock # s
    /\ \A o \in Obj : ~Attached(heap[o], s)

\* The room objects the other replicas hold.
Kept(p) ==
    LET others == {t \in Task : task[t].sock \notin Mine(p)}
    IN  {entry[q][r] : q \in Replica \ {p}, r \in Room}
          \cup {task[t].ref : t \in others} \cup {task[t].live : t \in others}

\* rebuildActiveRooms: each recoverable room r is cached, in cell[r].
Rebuilt(p, cell) ==
    Update([o \in Obj |->
              IF \E r \in Recoverable : cell[r] = o
              THEN Snapshot(CHOOSE r \in Recoverable : cell[r] = o) ELSE heap[o]],
           [t \in Task |-> IF task[t].sock \in Mine(p) THEN NoTask ELSE task[t]],
           [entry EXCEPT ![p] =
              [r \in Room |-> IF r \in Recoverable THEN cell[r] ELSE None]])

\* The process dies and is started again: sockets, tasks and cache are gone,
\* and the rooms of games in progress are recovered.
Restart(p) ==
    LET cells == Cells(Recoverable, Kept(p))
    IN  /\ "restart" \in Events
        /\ cells # {}
        /\ Rebuilt(p, CHOOSE cell \in cells : TRUE)
        /\ inflight' = [inflight EXCEPT ![p] = [r \in Room |-> NoFlight]]
        /\ conn' = conn \ {s \in Mine(p) : ~Untraced(s)}
        /\ joined' = [r \in Room |-> joined[r] \ Mine(p)]
        /\ votes' = VotesAtStart
        /\ UNCHANGED <<ledgerVars, started, voted>>

\* The steps of a handler run, once its event has arrived.
TaskStep(t) ==
    \/ RefreshQuery(t) \/ NoTruth(t)
    \/ CreateCommit(t) \/ CreateDone(t)
    \/ JoinReconnect(t) \/ JoinRefused(t) \/ JoinClaim(t) \/ JoinCommit(t)
    \/ JoinSeated(t) \/ JoinPresence(t)
    \/ MoveRefused(t) \/ MoveDecide(t) \/ MoveCommit(t) \/ MoveDone(t)
    \/ GameOverDecide(t) \/ ResignDecide(t) \/ SettleCommit(t) \/ SettleDone(t)
    \/ LeaveBlind(t) \/ LeaveDecide(t) \/ LeaveSettled(t)
    \/ DisconnectDetach(t) \/ Departed(t)
    \/ AcceptDecide(t) \/ Vote(t) \/ CountVotes(t) \/ Quorum(t) \/ RematchCommit(t)
    \/ RematchDone(t) \/ RematchStart(t)

HydrateStep(p, r) == HydrateQuery(p, r) \/ HydrateReply(p, r)

ClientStep ==
    \/ \E s \in Socket, r \in Room :
         \/ CreateRoom(s, r) \/ JoinCached(s, r) \/ JoinMiss(s, r)
         \/ \E kind \in Events : Send(s, r, kind)
         \/ Disconnect(s, r)
    \/ \E s \in Socket : DisconnectUnattached(s)

RoomsNext ==
    \/ \E t \in Task : TaskStep(t)
    \/ \E p \in Replica, r \in Room : HydrateStep(p, r)
    \/ ClientStep
    \/ \E g \in Game : VotesExpire(g)
    \/ \E p \in Replica : Restart(p)

RoomsSpec == RoomsInit /\ [][RoomsNext]_allVars

\* Queries and transactions are answered or time out (statement_timeout), so
\* a handler run that can go on does.  Clients owe nothing.
RoomsFairSpec ==
    /\ RoomsSpec
    /\ \A t \in Task : WF_allVars(TaskStep(t))
    /\ \A p \in Replica, r \in Room : WF_allVars(HydrateStep(p, r))

-----------------------------------------------------------------------------

Running(t) == task[t].pc \notin {"idle", "queued", "hydrating"}

Busy(p, r) == \E t \in Task : task[t].pc # "idle" /\ P(t) = p /\ R(t) = r

\* Room objects and tasks keep their shapes.
RoomsTypeOK ==
    /\ LedgerTypeOK
    /\ \A o \in Obj :
         /\ heap[o].status \in {"freed", "waiting", "playing", "finished"}
         /\ heap[o].att \in [User -> Socket \cup {None}]
         /\ heap[o].tail \in Task \cup {None}
    /\ entry \in [Replica -> [Room -> Obj \cup {None}]]
    /\ \A t \in Task : /\ task[t].pred \in Task \cup {None}
                       /\ task[t].ref \in Obj \cup {None}
                       /\ task[t].live \in Obj \cup {None}
    /\ joined \in [Room -> SUBSET Socket]
    /\ votes \in [Game -> SUBSET User]

\* A replica runs one task of a room at a time: refreshing the cached object
\* never forks the operation chain (gameSocket.js:223-224).
OneTaskPerRoom ==
    \A t, q \in Task :
       Running(t) /\ Running(q) /\ task[t].kind # "create"
         /\ task[q].kind # "create" /\ P(t) = P(q) /\ R(t) = R(q) => t = q

\* The cache keeps its shape and a room's tasks run one at a time.
RoomsInv == RoomsTypeOK /\ OneTaskPerRoom

\* Once a room is idle, every socket that joined it and is still connected is
\* attached to its seat in the cache: no eviction, refresh or hydration takes it
\* away.  "A racing attach either wins (no evict) or re-hydrates afterwards"
\* (gameSocket.js:208-209) holds while two players join, drop and return; a
\* third user's refused join breaks it.
JoinedAreAttached ==
    \A r \in Room : \A s \in joined[r] \cap conn :
       Busy(Home[s], r) \/ LET o == entry[Home[s]][r]
                           IN  o # None /\ Attached(heap[o], s)

\* Once a room is idle, its seats in the cache and its Socket.IO room agree,
\* both ways, through drops at any time, returns and restarts: who is in the
\* room has the seat, and the seat of a socket that has left is free.  Only one
\* that dropped inside its own create or join is in both, and for good.
SeatsFollowSockets ==
    /\ JoinedAreAttached
    /\ \A p \in Replica, r \in Room : \A u \in User :
          LET o == entry[p][r]
          IN  o # None /\ ~Busy(p, r) => heap[o].att[u] \in joined[r] \cup {None}

\* When the players of a running game are connected to one replica, as in
\* production (README.md:175), and its room is idle, all their sockets in the
\* room have been told that the game started: the claim, a return and a drop
\* inside a join may come in any order, and restarts between them
\* (gameSocket.js:429-466).
BothStarted ==
    \A p \in Replica, r \in Room, g \in Game :
       LET here == {s \in joined[r] \cap conn : Owner[s] \in Seats(games[g])}
       IN  games[g].room = r /\ games[g].status = "in_progress"
             /\ games[g].black # None /\ ~Busy(p, r)
             /\ {Owner[s] : s \in here} = Seats(games[g])
             /\ here \subseteq Mine(p)
             => \A s \in here : started[s] = g

\* A cached room never runs ahead of the database: it shows a game as ended
\* only once that is committed, and no move that is not recorded.
CacheNeverAhead ==
    \A o \in Obj : heap[o].status # "freed" =>
       LET g == heap[o].game
       IN  /\ heap[o].status = "finished" => Finished(g)
           /\ heap[o].n <= Len(moves[g])
           /\ heap[o].black \in {None, games[g].black}

\* A rematch needs the vote of both players of the finished game ("2 ==
\* unanimous", gameSocket.js:41-42).
RematchUnanimous ==
    \A h \in Game : games[h].prev # None => voted[games[h].prev] = Seats(games[h])

\* Every queued handler run ends: a failing task or query never wedges the
\* chain behind it (gameSocket.js roomTask).
TasksEnd == \A t \in Task : task[t].pc # "idle" ~> task[t].pc = "idle"

=============================================================================
