------------------------------ MODULE LocalPlay ------------------------------
(***************************************************************************)
(* A game in the browser without a server: the state and operations of     *)
(* hooks/useChessGame.js, the local screen with its clock (GameScreen.js,  *)
(* useGameTimer.js) and the game against the engine (AIPlay.js,            *)
(* useStockfish.js, utils/stockfish.js).                                   *)
(***************************************************************************)
EXTENDS ChessEngine, FiniteSets

\* Lines are the games tried (sequences of <<from, to>>), Seconds the clock of
\* the local screen, MaxJobs bounds the searches.
CONSTANTS Lines, Seconds, MaxJobs

VARIABLES screen,  \* "local", or "ai" with the user as white
          hk,      \* the hook: g, which undo restores, the undo stack past,
                   \* and promo, a move that waits for the choice of a piece
          clock, fired,
          jobs,    \* the positions the engine was told to search, in order
          asks,    \* the callers that listen for a best move
          trouble  \* an answer was lost or used for another position

vars == <<screen, hk, clock, fired, jobs, asks, trouble>>

Over == {"checkmate", "stalemate", "timeout"}
NoPromo == [pending |-> FALSE]
Fresh == [g |-> [board |-> InitBoard, turn |-> "w", sel |-> NoSq, moves |-> {},
                 ep |-> NoSq, cast |-> Rights, status |-> "none",
                 capt |-> [col \in Colour |-> <<>>], moveLog |-> <<>>],
          past |-> <<>>, promo |-> NoPromo]
FullClock == [col \in Colour |-> Seconds]

LocalInit ==
    /\ screen \in {"local", "ai"} /\ hk = Fresh
    /\ clock = FullClock /\ fired = FALSE
    /\ jobs = <<>> /\ asks = <<>> /\ trouble = FALSE

\* The moves the tried games go on with after a log.
Script(log) ==
    LET n == Len(log) IN
    {l[n + 1] : l \in {m \in Lines : /\ Len(m) > n
        /\ \A i \in 1 .. n : m[i] = <<log[i].from, log[i].to>>}}
-----------------------------------------------------------------------------
\* The operations of the hook, from one of its states to the next.

\* finish: the new position, its status, the log entry; the selection goes.
Finish(g, nb, nt, nep, nc, entry) ==
    LET chk == InChk(nb, nt)  any == HasAny(nb, nt, nep, nc) IN
    [board |-> nb, turn |-> nt, ep |-> nep, cast |-> nc, capt |-> g.capt,
     sel |-> NoSq, moves |-> {}, moveLog |-> Append(g.moveLog, entry),
     status |-> IF ~any THEN (IF chk THEN "checkmate" ELSE "stalemate")
                ELSE IF chk THEN "check" ELSE "none"]

Corner(x) == <<HomeRow(x[1]), IF x[2] = "K" THEN 7 ELSE 0>>

\* Bug: the right stays when the rook is captured in its corner.
RightsLeftOwn(p, s, t, cast) ==
    {x \in cast : p # <<x[1], "K">> /\ ~(pt(p) = "R" /\ s = Corner(x))}

\* Rights go with the king's move, and when a rook leaves its corner or any
\* piece arrives there.
RightsLeft(p, s, t, cast) ==
    {x \in cast : /\ p # <<x[1], "K">> /\ t # Corner(x)
                  /\ ~(pt(p) = "R" /\ s = Corner(x))}

\* applyMove in the render whose state is h: an event handler has the current
\* one, a promise the one it was started in.  prm is "-" when no piece was
\* chosen yet.
ApplyMove(st, h, s, t, prm) ==
    LET p == At(h.board, s)  col == pc(p)
        nb == Moved(h.board, s, t, h.ep)
        cp == IF At(h.board, t) # Empty THEN At(h.board, t)
              ELSE IF pt(p) = "P" /\ t = h.ep THEN At(h.board, Passed(col, t))
              ELSE Empty
        g == IF cp = Empty THEN st.g
             ELSE [st.g EXCEPT !.capt[col] = Append(@, cp)]
        nc == RightsLeft(p, s, t, h.cast)
        nep == IF pt(p) = "P" /\ Abs(t[1] - s[1]) = 2
               THEN <<(s[1] + t[1]) \div 2, t[2]>> ELSE NoSq
        entry == [from |-> s, to |-> t, piece |-> p, captured |-> cp,
                  promotion |-> prm]
        past == Append(st.past, h)
    IN
    IF p = Empty THEN st
    ELSE IF pt(p) = "P" /\ t[1] \in {0, 7} /\ prm = "-"
    THEN [g |-> g, past |-> past,
          promo |-> [pending |-> TRUE, nb |-> nb, nt |-> Opp(col), nep |-> nep,
                     nc |-> nc, entry |-> entry]]
    ELSE [g |-> Finish(g, IF prm = "-" THEN nb ELSE Put(nb, t, <<col, prm>>),
                       Opp(col), nep, nc, entry),
          past |-> past, promo |-> st.promo]

DoPromo(st, t) ==
    LET m == st.promo  e == m.entry IN
    [st EXCEPT !.promo = NoPromo,
               !.g = Finish(st.g, Put(m.nb, e.to, <<pc(e.piece), t>>),
                            m.nt, m.nep, m.nc, [e EXCEPT !.promotion = t])]

\* Bug: the marked moves stay when another piece is selected.
SelectKeepsMoves(g, q) ==
    [g EXCEPT !.sel = q, !.moves = IF g.sel = NoSq
                                   THEN GetLegal(g.board, q, g.ep, g.cast) ELSE @]

Select(g, q) == [g EXCEPT !.sel = q, !.moves = GetLegal(g.board, q, g.ep, g.cast)]

Clicked(st, q) ==
    LET g == st.g IN
    IF g.sel # NoSq /\ q \in g.moves THEN ApplyMove(st, g, g.sel, q, "-")
    ELSE [st EXCEPT !.g = IF pc(At(g.board, q)) = g.turn THEN Select(g, q)
                          ELSE [g EXCEPT !.sel = NoSq, !.moves = {}]]

Undone(st) == [st EXCEPT !.g = Last(st.past), !.past = Front(st.past)]
-----------------------------------------------------------------------------
IsAiTurn(st) == /\ screen = "ai" /\ st.g.turn = "b" /\ ~st.promo.pending
                /\ st.g.status \notin Over

\* getBestMoveUci: a listener, and a search that waits for the earlier ones.
Ask(who, g) == /\ Len(jobs) < MaxJobs
               /\ jobs' = Append(jobs, g)
               /\ asks' = Append(asks, [who |-> who, at |-> g])

\* Bug: the effect runs for the first move only.
RenderAsksOnce(st) ==
    /\ hk' = st
    /\ IF IsAiTurn(st) /\ ~IsAiTurn(hk) /\ Len(st.g.moveLog) = 1
       THEN Ask("ai", st.g) ELSE UNCHANGED <<jobs, asks>>

\* Every change of the hook ends in a render; the effect asks the engine when
\* it has just become its turn.
Render(st) ==
    /\ hk' = st
    /\ IF IsAiTurn(st) /\ ~IsAiTurn(hk) THEN Ask("ai", st.g)
       ELSE UNCHANGED <<jobs, asks>>

Click(q) ==
    /\ ~IsAiTurn(hk) /\ hk.g.status \notin Over /\ ~hk.promo.pending
    /\ \E st \in {Clicked(hk, q)} : Render(st)
    /\ UNCHANGED <<screen, clock, fired, trouble>>

PickPromo(t) ==
    /\ hk.promo.pending
    /\ \E st \in {DoPromo(hk, t)} : Render(st)
    /\ UNCHANGED <<screen, clock, fired, trouble>>

Undo ==
    /\ hk.past # <<>> /\ ~hk.promo.pending
    /\ Render(Undone(hk))
    /\ UNCHANGED <<screen, clock, fired, trouble>>

\* New Game: the position is reset, the clock is not.
Reset ==
    /\ Render(Fresh)
    /\ UNCHANGED <<screen, clock, fired, trouble>>

\* Back to the menu and into the local screen again: a new clock.
PlayLocal ==
    /\ screen = "local"
    /\ Render(Fresh) /\ clock' = FullClock /\ fired' = FALSE
    /\ UNCHANGED <<screen, trouble>>

Ticked(n) == IF n = 0 THEN 0 ELSE n - 1

\* The local screen stops the clock for a promotion and for every status, a
\* check included.
IsRunning == screen = "local" /\ ~hk.promo.pending /\ hk.g.status = "none"

\* The interval of useGameTimer; forceEnd when the time is up for the first
\* time.
Tick ==
    LET turn == hk.g.turn
        left == [clock EXCEPT ![turn] = Ticked(@)]
        up == left[turn] = 0 /\ ~fired
    IN
    /\ IsRunning
    /\ clock' = left /\ fired' = (fired \/ up)
    /\ Render(IF up THEN [hk EXCEPT !.g.status = "timeout"] ELSE hk)
    /\ UNCHANGED <<screen, trouble>>

\* askHint of the game against the engine; the answer only marks two squares.
AskHint ==
    /\ screen = "ai" /\ asks = <<>> /\ ~hk.promo.pending /\ hk.g.turn = "w"
    /\ Ask("hint", hk.g)
    /\ UNCHANGED <<screen, hk, clock, fired, trouble>>

None == <<NoSq, NoSq>>

\* A best move for a position: one the tried games go on with, if any.
Best(g) ==
    LET own == {s \in Sq : pc(At(g.board, s)) = g.turn}
        To(s) == GetLegal(g.board, s, g.ep, g.cast)
        told == {m \in Script(g.moveLog) : m[1] \in own /\ m[2] \in To(m[1])}
        any == {s \in own : To(s) # {}}
    IN  IF told # {} THEN told
        ELSE IF any = {} THEN {None}
        ELSE {<<s, CHOOSE t \in To(s) : TRUE>> : s \in {CHOOSE s \in any : TRUE}}

\* The effect plays the answer in the render it was started in.
Answered(st, a, m) ==
    IF a.who = "hint" \/ m = None THEN st
    ELSE ApplyMove(st, a.at, m[1], m[2],
            IF pt(At(a.at.board, m[1])) = "P" /\ m[2][1] \in {0, 7} THEN "Q" ELSE "-")

\* A bestmove line goes through the array of listeners while each one that is
\* called removes itself, so that every second one is passed over.
Called(q) == [i \in 1 .. (Len(q) + 1) \div 2 |-> q[2 * i - 1]]
Skipped(q) == [i \in 1 .. Len(q) \div 2 |-> q[2 * i]]

BestMove ==
    /\ jobs # <<>>
    /\ \E m \in Best(Head(jobs)) :
       \E st \in {FoldLeft(LAMBDA x, a : Answered(x, a, m), hk, Called(asks))} :
          /\ hk' = st
          /\ IF IsAiTurn(st) /\ ~IsAiTurn(hk)
             THEN /\ jobs' = Append(Tail(jobs), st.g)
                  /\ asks' = Append(Skipped(asks), [who |-> "ai", at |-> st.g])
             ELSE jobs' = Tail(jobs) /\ asks' = Skipped(asks)
    /\ trouble' = (trouble \/ \E a \in ToSet(Called(asks)) :
                     a.who = "ai" /\ {a.at} # {Head(jobs), hk.g})
    /\ UNCHANGED <<screen, clock, fired>>

\* The engine cannot be loaded or a search takes too long: no move.
EngineFails ==
    /\ asks # <<>>
    /\ asks' = Tail(asks)
    /\ trouble' = (trouble \/ Head(asks).who = "ai")
    /\ UNCHANGED <<screen, hk, clock, fired, jobs>>

\* Nothing is claimed of a game after such an answer: the games end there.
LocalNext ==
    /\ ~trouble
    /\ \/ \E m \in Script(hk.g.moveLog) : Click(m[1]) \/ Click(m[2])
       \/ \E t \in {"Q", "N"} : PickPromo(t)
       \/ Undo \/ Reset \/ PlayLocal \/ Tick
       \/ AskHint \/ BestMove \/ EngineFails

LocalSpec == LocalInit /\ [][LocalNext]_vars
-----------------------------------------------------------------------------
Steady == ~trouble /\ ~hk.promo.pending

\* Type correctness of the hook, the clock and the engine's queue.
LocalTypeOK ==
    /\ hk.g.turn \in Colour /\ hk.g.sel \in Sq \cup {NoSq}
    /\ hk.g.cast \subseteq Rights /\ hk.g.ep \in Sq \cup {NoSq}
    /\ \A col \in Colour : clock[col] \in 0 .. Seconds
    /\ hk.promo.pending => hk.past # <<>>
    /\ Len(asks) <= Len(jobs)

\* The engine allows exactly the moves of chess, with one exception: castling
\* out of a check, which getLegal does not refuse.
MovesFollowRules ==
    LET g == hk.g IN
    Steady => \A s \in {q \in Sq : pc(At(g.board, q)) = g.turn} :
        {t \in GetLegal(g.board, s, g.ep, g.cast) :
            ~(IsCastle(At(g.board, s), s, t) /\ Exposed(g.board, g.turn))}
        = {t \in Sq : Rules(g.board, s, t, g.ep, g.cast)}

\* The highlighted moves are those of the position on the board, after undo,
\* timeouts and the engine's moves too: a click never plays an older one.
SelectionCurrent ==
    LET g == hk.g IN
    Steady => g.moves = IF g.sel = NoSq THEN {}
                        ELSE GetLegal(g.board, g.sel, g.ep, g.cast)

\* Replaying the move log gives the board that is shown.
LogExplainsBoard == ~trouble => Replay(hk.g.moveLog) = hk.g.board

\* Each colour's pieces are on the board or among the opponent's captures.
MaterialAccounted ==
    Steady => \A col \in Colour :
        Cardinality({s \in Sq : pc(At(hk.g.board, s)) = col})
        + Len(hk.g.capt[Opp(col)]) = 16

\* The parts of the hook's state agree: clock and engine queue, selection and
\* board, captures and board, across undo, promotion and new games.
LocalInv == LocalTypeOK /\ SelectionCurrent /\ MaterialAccounted

\* When the engine is to move, its caller is listening and the search for this
\* very position is under way: the computer's answer cannot be forgotten by an
\* undo, a new game or a hint, unless they lead to trouble.
ComputerIsAsked ==
    Steady /\ IsAiTurn(hk) => /\ [who |-> "ai", at |-> hk.g] \in ToSet(asks)
                              /\ hk.g \in ToSet(jobs)
=============================================================================
