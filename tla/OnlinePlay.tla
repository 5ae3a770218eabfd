----------------------------- MODULE OnlinePlay -----------------------------
(***************************************************************************)
(* A game between two browsers: hooks/useMultiplayer.js and the buttons of *)
(* components/OnlinePlay.js at each end, their Socket.IO connections, and  *)
(* the room on the server.  A client shows its own move at once and sends  *)
(* it; what the server broadcasts replaces the client's board.             *)
(*                                                                         *)
(* A handler of gameSocket.js is one step here: GameRooms shows that the   *)
(* tasks of a room run one at a time.  There is one room and one replica.  *)
(* A position is the sequence of the moves played; chat is left out.       *)
(***************************************************************************)
EXTENDS Naturals, Sequences, FiniteSets, SequencesExt

CONSTANTS
    Client, Host,   \* the two players; the one who creates the room
    MaxMoves,       \* moves in a game
    MaxGames,       \* games in the room
    MaxTrouble,     \* lost connections, restarts, faults, players who leave
    MaxPackets      \* packets on a connection when another is sent

ASSUME OnlineAssumption ==
    /\ Host \in Client /\ Cardinality(Client) = 2
    /\ {MaxMoves, MaxGames, MaxTrouble, MaxPackets} \subseteq Nat

VARIABLES
    cl,       \* cl[c]: the state of the hook
    link,     \* link[c]: the socket is connected
    buf,      \* buf[c]: packets emitted while it was not
    up, dn,   \* packets to and from the server on the connection
    srv,      \* the room: the game in it, its moves, players and votes
    at,       \* at[c]: the connection that holds c's seat in the room:
              \* "no", "cur", or "old", one whose loss went unnoticed
    trouble,  \* how much of it there was
    astray    \* astray[c]: a packet of c had no effect, or c left without
              \* telling the server, and has loaded no board of a game since
              \* (history, for the properties only)

vars == <<cl, link, buf, up, dn, srv, at, trouble, astray>>

Other(c) == CHOOSE d \in Client : d # c
Nobody == "nobody"

\* Promotions and mates take moves that lead to them.
QuietPlies == 2
Mated(pos) == pos # <<>> /\ Last(pos) = "mate"
Legal(pos, m) == /\ Len(pos) < MaxMoves /\ ~Mated(pos)
                 /\ m \in {"promo", "mate"} => Len(pos) >= QuietPlies
Turn(pos) == IF Len(pos) % 2 = 0 THEN "w" ELSE "b"

\* The hook as it is mounted; leaveRoom ends in the same state.
Mounted == [phase |-> "idle", room |-> FALSE, color |-> "none", board |-> <<>>,
            status |-> "none", promo |-> FALSE, requested |-> FALSE,
            offered |-> FALSE, gone |-> FALSE]

NoRoom == [game |-> 0, status |-> "none", pos |-> <<>>, white |-> Nobody,
           black |-> Nobody, votes |-> {}]

OnlineInit ==
    /\ cl = [c \in Client |-> Mounted]
    /\ link = [c \in Client |-> FALSE]
    /\ buf = [c \in Client |-> <<>>]
    /\ up = [c \in Client |-> <<>>] /\ dn = [c \in Client |-> <<>>]
    /\ srv = NoRoom
    /\ at = [c \in Client |-> "no"]
    /\ trouble = 0 /\ astray = [c \in Client |-> FALSE]
-----------------------------------------------------------------------------
(* The client.                                                             *)

Msg(t) == [t |-> t]
MoveMsg(m) == [t |-> "make_move", move |-> m]

\* socket.emit: what is emitted without a connection waits for one.
Emit(c, ms) ==
    IF link[c] THEN up' = [up EXCEPT ![c] = @ \o ms] /\ UNCHANGED buf
    ELSE buf' = [buf EXCEPT ![c] = @ \o ms] /\ UNCHANGED up

Steps(c, new, ms) ==
    /\ Len(up[c] \o buf[c]) <= MaxPackets
    /\ cl' = [cl EXCEPT ![c] = new]
    /\ Emit(c, ms)
    /\ UNCHANGED <<link, dn, srv, at>>

\* The user acts: the hook goes to `new', the packets ms are emitted.
Acts(c, new, ms) == Steps(c, new, ms) /\ UNCHANGED <<trouble, astray>>

CreateRoom(c) ==
    /\ c = Host /\ srv.game = 0 /\ cl[c].phase = "idle"
    /\ up[c] = <<>> /\ buf[c] = <<>> /\ dn[c] = <<>>
    /\ Acts(c, cl[c], <<Msg("create_room")>>)

\* The room code is known once the host has it.
JoinRoom(c) ==
    /\ srv.game > 0 /\ Msg("room_created") \notin ToSet(dn[Host])
    /\ cl[c].phase = "idle"
    /\ Acts(c, [cl[c] EXCEPT !.room = TRUE], <<Msg("join_room")>>)

\* handleClick and click: my turn, on a board that is not decided.
MayClick(c) ==
    LET h == cl[c] IN
    /\ h.phase = "playing" /\ Turn(h.board) = h.color
    /\ h.status # "checkmate" /\ ~h.promo


\* finish: the move is shown and sent; then the effect on a decided status
\* reports it, in the phase "playing" only.
Commit(c, h, m) ==
    LET st == IF m = "mate" THEN "checkmate" ELSE "none"
    IN  Acts(c, [h EXCEPT !.board = Append(@, m), !.status = st],
             <<MoveMsg(m)>> \o (IF st = "checkmate" /\ h.phase = "playing"
                                THEN <<Msg("game_over")>> ELSE <<>>))

PlayMove(c, m) ==
    /\ MayClick(c) /\ m # "promo" /\ Legal(cl[c].board, m)
    /\ Commit(c, cl[c], m)

OpenPromotion(c) ==
    /\ MayClick(c) /\ Legal(cl[c].board, "promo")
    /\ Acts(c, [cl[c] EXCEPT !.promo = TRUE], <<>>)

\* The dialog stays open when the game ends, and commits even then.
PickPromotion(c) ==
    /\ cl[c].promo /\ cl[c].phase \in {"playing", "ended"}
    /\ Commit(c, [cl[c] EXCEPT !.promo = FALSE], "promo")

Resign(c) ==
    /\ cl[c].phase = "playing"
    /\ Acts(c, cl[c], <<Msg("resign")>>)

RequestRematch(c) ==
    /\ cl[c].phase = "ended" /\ ~cl[c].offered /\ ~cl[c].requested
    /\ Acts(c, [cl[c] EXCEPT !.requested = TRUE], <<Msg("request_rematch")>>)

AcceptRematch(c) ==
    /\ cl[c].phase = "ended" /\ cl[c].offered /\ srv.game < MaxGames
    /\ Acts(c, cl[c], <<Msg("accept_rematch")>>)

\* leaveRoom and back to the menu: the hook is unmounted, its handlers are
\* removed, the socket stays.  Without a connection the server is not told.
LeaveRoom(c) ==
    /\ cl[c].phase # "away" /\ trouble < MaxTrouble
    /\ trouble' = trouble + 1
    /\ Steps(c, [Mounted EXCEPT !.phase = "away"],
             IF link[c] /\ cl[c].room THEN <<Msg("leave_room")>> ELSE <<>>)
    /\ astray' = [astray EXCEPT ![c] = @ \/ ~link[c]]

Enter(c) ==
    /\ cl[c].phase = "away"
    /\ Acts(c, Mounted, <<>>)
-----------------------------------------------------------------------------
(* Connections.                                                            *)

\* Bug: a client that reconnects does not ask for its room.
ConnectSilently(c) ==
    /\ ~link[c]
    /\ link' = [link EXCEPT ![c] = TRUE]
    /\ up' = [up EXCEPT ![c] = buf[c]]
    /\ buf' = [buf EXCEPT ![c] = <<>>]
    /\ UNCHANGED <<cl, dn, srv, at, trouble, astray>>

\* socket.io-client sends what it holds back and then calls onConnect, which
\* joins the room again.
Connect(c) ==
    /\ ~link[c]
    /\ link' = [link EXCEPT ![c] = TRUE]
    /\ up' = [up EXCEPT ![c] = buf[c] \o (IF cl[c].room THEN <<Msg("join_room")>>
                                                        ELSE <<>>)]
    /\ buf' = [buf EXCEPT ![c] = <<>>]
    /\ UNCHANGED <<cl, dn, srv, at, trouble, astray>>

\* A room whose room_created nobody received is a room nobody can name.
Unheard(c) == Msg("room_created") \in ToSet(dn[c])

\* The connection of c is lost with all it carries.
Drop(c) ==
    /\ link[c] /\ trouble < MaxTrouble
    /\ trouble' = trouble + 1
    /\ link' = [link EXCEPT ![c] = FALSE]
    /\ up' = [up EXCEPT ![c] = <<>>] /\ dn' = [dn EXCEPT ![c] = <<>>]
    /\ IF Unheard(c) THEN srv' = NoRoom /\ at' = [at EXCEPT ![c] = "no"]
       ELSE /\ at' = [at EXCEPT ![c] = IF @ = "cur" THEN "old" ELSE @]
            /\ UNCHANGED srv
    /\ UNCHANGED <<cl, buf, astray>>

\* The backend restarts: seats without sockets, no votes, the game persists.
Restart ==
    /\ trouble < MaxTrouble /\ srv.game > 0
    /\ trouble' = trouble + 1
    /\ link' = [c \in Client |-> FALSE]
    /\ up' = [c \in Client |-> <<>>] /\ dn' = [c \in Client |-> <<>>]
    /\ at' = [c \in Client |-> "no"]
    /\ srv' = IF Unheard(Host) THEN NoRoom ELSE [srv EXCEPT !.votes = {}]
    /\ UNCHANGED <<cl, buf, astray>>
-----------------------------------------------------------------------------
(* The server, on the first packet of a connection.                        *)

Player(c) == c \in {srv.white, srv.black}
ColorOf(s, c) == IF s.white = c THEN "w" ELSE "b"

\* io.to(room).emit, after `first' went to c alone.
Broadcast(c, first, seats, ms) ==
    dn' = [d \in Client |-> dn[d] \o (IF d = c THEN first ELSE <<>>)
                                  \o (IF seats[d] = "cur" THEN ms ELSE <<>>)]

Reply(c, ms) == Broadcast(c, ms, at, <<>>)
Said(ms) == Broadcast(Host, <<>>, at, ms)

GameStart(s) == [t |-> "game_start", pos |-> s.pos, white |-> s.white]
MoveMade(s) == [t |-> "move_made", pos |-> s.pos]

Ended(s) == [s EXCEPT !.status = "finished"]

\* A packet that has no effect; it is answered with an error or not at all.
Refuse(c) ==
    /\ astray' = [astray EXCEPT ![c] = TRUE]
    /\ UNCHANGED <<srv, at, dn>>

OnCreate(c) ==
    /\ srv' = [srv EXCEPT !.game = 1, !.status = "waiting", !.white = c]
    /\ at' = [at EXCEPT ![c] = "cur"]
    /\ Reply(c, <<Msg("room_created")>>)
    /\ UNCHANGED astray

\* A seat with a socket refuses, even when that socket is dead.  The pair is
\* told when it is complete; a client does not listen to room_rejoined.
OnJoin(c) ==
    LET claim == ~Player(c) /\ srv.status = "waiting"
        s == IF claim THEN [srv EXCEPT !.black = c, !.status = "playing"] ELSE srv
        seats == [at EXCEPT ![c] = "cur"]
    IN  IF srv.game = 0 \/ at[c] # "no" \/ ~(Player(c) \/ claim) THEN Refuse(c)
        ELSE /\ srv' = s /\ at' = seats
             /\ IF s.status = "finished"
                THEN Reply(c, <<Msg("game_ended")>>)
                ELSE Broadcast(c, <<>>, seats,
                       IF s.black # Nobody /\ \A d \in Client : seats[d] # "no"
                       THEN <<GameStart(s)>> ELSE <<>>)
             /\ UNCHANGED astray

\* A move that ends the game settles it in the same handler, if it can.
OnMove(c, m, fault) ==
    LET s == [srv EXCEPT !.pos = Append(@, m)] IN
    IF \/ srv.status # "playing" \/ at[c] # "cur"
       \/ ColorOf(srv, c) # Turn(srv.pos) \/ ~Legal(srv.pos, m)
    THEN Refuse(c)
    ELSE /\ IF Mated(s.pos) /\ ~fault
            THEN srv' = Ended(s) /\ Said(<<MoveMade(s), Msg("game_ended")>>)
            ELSE srv' = s /\ Said(<<MoveMade(s)>>)
         /\ UNCHANGED <<at, astray>>

OnGameOver(c, fault) ==
    IF at[c] = "cur" /\ Mated(srv.pos) /\ srv.status = "playing" /\ ~fault
    THEN /\ srv' = Ended(srv) /\ Said(<<Msg("game_ended")>>)
         /\ UNCHANGED <<at, astray>>
    ELSE UNCHANGED <<srv, at, dn, astray>>

OnResign(c, fault) ==
    IF at[c] = "cur" /\ srv.status = "playing" /\ ~fault
    THEN /\ srv' = Ended(srv) /\ Said(<<Msg("game_ended")>>)
         /\ UNCHANGED <<at, astray>>
    ELSE UNCHANGED <<srv, at, dn, astray>>

OnRequest(c) ==
    /\ IF at[c] = "cur" /\ srv.status = "finished" /\ at[Other(c)] = "cur"
       THEN Reply(Other(c), <<Msg("rematch_requested")>>)
       ELSE UNCHANGED dn
    /\ UNCHANGED <<srv, at, astray>>

\* Both votes and both present: the next game, with the colours swapped.
OnAccept(c, fault) ==
    LET both == srv.votes \cup {c}
        next == [srv EXCEPT !.game = @ + 1, !.status = "playing", !.pos = <<>>,
                            !.white = srv.black, !.black = srv.white, !.votes = {}]
    IN  /\ IF at[c] # "cur" \/ srv.status # "finished" THEN UNCHANGED <<srv, dn>>
           ELSE IF fault
           THEN /\ srv' \in {srv, [srv EXCEPT !.votes = both]} /\ UNCHANGED dn
           ELSE IF both = Client /\ \A d \in Client : at[d] # "no"
           THEN srv' = next /\ Said(<<GameStart(next)>>)
           ELSE srv' = [srv EXCEPT !.votes = both] /\ UNCHANGED dn
        /\ UNCHANGED <<at, astray>>

\* Without the room's truth the player leaves and the game goes on; when it
\* cannot be settled nothing happens.
OnLeave(c, fault) ==
    \/ (at[c] # "cur" \/ fault) /\ Refuse(c)
    \/ /\ at[c] = "cur" /\ fault
       /\ at' = [at EXCEPT ![c] = "no"]
       /\ astray' = [astray EXCEPT ![c] = TRUE]
       /\ UNCHANGED <<srv, dn>>
    \/ /\ at[c] = "cur" /\ ~fault
       /\ srv' = [(IF srv.status = "playing" THEN Ended(srv) ELSE srv)
                   EXCEPT !.votes = @ \ {c}]
       /\ Said(IF srv.status = "playing" THEN <<Msg("game_ended")>> ELSE <<>>)
       /\ at' = [at EXCEPT ![c] = "no"]
       /\ UNCHANGED astray

Handle(c, p, fault) ==
    CASE p.t = "create_room" -> OnCreate(c)
      [] p.t = "join_room" -> OnJoin(c)
      [] p.t = "make_move" -> OnMove(c, p.move, fault)
      [] p.t = "game_over" -> OnGameOver(c, fault)
      [] p.t = "resign" -> OnResign(c, fault)
      [] p.t = "request_rematch" -> OnRequest(c)
      [] p.t = "accept_rematch" -> OnAccept(c, fault)
      [] p.t = "leave_room" -> OnLeave(c, fault)

Serve(c) ==
    /\ up[c] # <<>> /\ \A d \in Client : Len(dn[d]) <= MaxPackets
    /\ up' = [up EXCEPT ![c] = Tail(@)]
    /\ Handle(c, Head(up[c]), FALSE)
    /\ UNCHANGED <<cl, link, buf, trouble>>

\* A query of the handler fails.
ServeFaulty(c) ==
    /\ up[c] # <<>> /\ trouble < MaxTrouble
    /\ Head(up[c]).t \in {"game_over", "resign", "accept_rematch", "leave_room"}
         \/ Head(up[c]) = MoveMsg("mate")
    /\ trouble' = trouble + 1
    /\ up' = [up EXCEPT ![c] = Tail(@)]
    /\ Handle(c, Head(up[c]), TRUE)
    /\ UNCHANGED <<cl, link, buf>>

\* A move or a join that cannot be persisted or read, a move the server's
\* rules do not know, or a packet of a session that has ended.
ServeRefused(c) ==
    /\ up[c] # <<>> /\ trouble < MaxTrouble
    /\ trouble' = trouble + 1
    /\ up' = [up EXCEPT ![c] = Tail(@)]
    /\ Refuse(c)
    /\ UNCHANGED <<cl, link, buf>>

\* The server notices that a connection is gone.
OnDisconnect(c) ==
    /\ at[c] = "old"
    /\ at' = [at EXCEPT ![c] = "no"]
    /\ srv' = [srv EXCEPT !.votes = @ \ {c}]
    /\ IF srv.status = "playing" /\ at[Other(c)] = "cur"
       THEN Reply(Other(c), <<Msg("opponent_disconnected")>>)
       ELSE UNCHANGED dn
    /\ UNCHANGED <<cl, link, buf, up, trouble, astray>>
-----------------------------------------------------------------------------
(* The client's handlers.                                                  *)

\* loadFEN, and reset for a game without moves.
Load(h, pos) == [h EXCEPT !.board = pos, !.status = "none", !.promo = FALSE]

\* Bug: the colour is kept from game to game.
StartedSameColor(c, h, p) ==
    [Load(h, p.pos) EXCEPT
       !.room = TRUE, !.phase = "playing", !.requested = FALSE, !.offered = FALSE,
       !.gone = FALSE,
       !.color = IF @ # "none" THEN @ ELSE IF p.white = c THEN "w" ELSE "b"]

Started(c, h, p) ==
    [Load(h, p.pos) EXCEPT
       !.room = TRUE, !.phase = "playing", !.requested = FALSE, !.offered = FALSE,
       !.gone = FALSE, !.color = IF p.white = c THEN "w" ELSE "b"]

Heard(c, h, p) ==
    CASE p.t = "room_created" ->
           [h EXCEPT !.room = TRUE, !.color = "w", !.phase = "waiting"]
      [] p.t = "game_start" -> Started(c, h, p)
      [] p.t = "move_made" -> Load(h, p.pos)
      [] p.t = "game_ended" -> [h EXCEPT !.phase = "ended"]
      [] p.t = "opponent_disconnected" -> [h EXCEPT !.gone = TRUE]
      [] p.t = "rematch_requested" -> [h EXCEPT !.offered = TRUE]

Receive(c) ==
    /\ dn[c] # <<>>
    /\ dn' = [dn EXCEPT ![c] = Tail(@)]
    /\ IF cl[c].phase = "away"
       THEN /\ IF Head(dn[c]).t = "room_created"
               THEN srv' = NoRoom /\ at' = [at EXCEPT ![c] = "no"]
               ELSE UNCHANGED <<srv, at>>
            /\ UNCHANGED <<cl, astray>>
       ELSE /\ cl' = [cl EXCEPT ![c] = Heard(c, @, Head(dn[c]))]
            /\ astray' = [astray EXCEPT
                 ![c] = @ /\ ~(/\ Head(dn[c]).t \in {"game_start", "move_made"}
                              /\ cl'[c].phase = "playing" /\ at[c] = "cur")]
            /\ UNCHANGED <<srv, at>>
    /\ UNCHANGED <<link, buf, up, trouble>>
-----------------------------------------------------------------------------
Network(c) == Connect(c) \/ Serve(c) \/ OnDisconnect(c) \/ Receive(c)

Failure(c) == Drop(c) \/ ServeFaulty(c) \/ ServeRefused(c)

UserActs(c) ==
    \/ CreateRoom(c) \/ JoinRoom(c) \/ LeaveRoom(c) \/ Enter(c)
    \/ \E m \in {"go", "mate"} : PlayMove(c, m)
    \/ OpenPromotion(c) \/ PickPromotion(c) \/ Resign(c)
    \/ RequestRematch(c) \/ AcceptRematch(c)

OnlineNext ==
    \/ \E c \in Client : Network(c) \/ UserActs(c) \/ Failure(c)
    \/ Restart

\* Socket.IO reconnects and delivers; the server's handlers end.
OnlineSpec == /\ OnlineInit /\ [][OnlineNext]_vars
              /\ \A c \in Client : /\ WF_vars(Connect(c)) /\ WF_vars(Serve(c))
                                   /\ WF_vars(OnDisconnect(c))
                                   /\ WF_vars(Receive(c))

-----------------------------------------------------------------------------
\* Type correctness; the channels stay within their bounds.
OnlineTypeOK ==
    /\ srv.game \in 0 .. MaxGames /\ Len(srv.pos) <= MaxMoves
    /\ srv.status \in {"none", "waiting", "playing", "finished"}
    /\ srv.votes \subseteq Client /\ at \in [Client -> {"no", "cur", "old"}]
    /\ \A c \in Client :
         /\ cl[c].phase \in {"away", "idle", "waiting", "playing", "ended"}
         /\ Len(cl[c].board) <= MaxMoves
         /\ link[c] => buf[c] = <<>>
         /\ ~link[c] => up[c] = <<>> /\ dn[c] = <<>> /\ at[c] # "cur"

Quiet(c) == link[c] /\ up[c] = <<>> /\ dn[c] = <<>>

Paired == srv.black # Nobody /\ \A c \in Client : at[c] # "no"

\* Once nothing is under way, a client shows what the server holds: the phase,
\* its colour and, while the game is on, the board; and it plays only in a room
\* it is in.  Lost connections, restarts, late packets, rematches and leaving
\* do not change that; a client that is astray may be wrong.
InStep ==
    \A c \in Client : Quiet(c) /\ ~astray[c] =>
        LET h == cl[c] IN
        /\ h.phase = "playing" => at[c] = "cur"
        /\ at[c] = "cur" /\ srv.status = "finished" => h.phase = "ended"
        /\ at[c] = "cur" /\ srv.status = "playing" /\ Paired =>
             /\ h.phase = "playing" /\ h.color = ColorOf(srv, c) /\ ~h.gone
             /\ h.board = srv.pos

\* Connections and hooks are well formed, and what a client shows is what the
\* server holds.
OnlineInv == OnlineTypeOK /\ InStep


\* A player who loses the connection in a game gets back to its board, unless
\* the server refuses, the game ends or the opponent is away.
Recovers ==
    \A c \in Client :
        (~link[c] /\ cl[c].phase = "playing")
        ~> (\/ cl[c].phase # "playing" \/ astray[c] \/ at[Other(c)] = "no"
            \/ at[c] = "cur" /\ cl[c].board = srv.pos)

=============================================================================
