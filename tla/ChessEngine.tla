---------------------------- MODULE ChessEngine ------------------------------
(***************************************************************************)
(* The rules engine of the browser client (engine/chessEngine.js).  A      *)
(* square is <<row, column>> with row 0 at black's side, a piece is        *)
(* <<colour, type>>, a board is an array of rows.                          *)
(***************************************************************************)
EXTENDS Integers, Sequences, SequencesExt

Sq == (0 .. 7) \X (0 .. 7)
Empty == <<"-", "-">>
NoSq == <<9, 9>>
Colour == {"w", "b"}
Rights == Colour \X {"K", "Q"}
Opp(col) == IF col = "w" THEN "b" ELSE "w"
pc(p) == p[1]
pt(p) == p[2]

BackRank == <<"R", "N", "B", "Q", "K", "B", "N", "R">>
InitBoard ==
    [r \in 0 .. 7 |-> [c \in 0 .. 7 |->
        CASE r = 0 -> <<"b", BackRank[c + 1]>>
          [] r = 1 -> <<"b", "P">>
          [] r = 6 -> <<"w", "P">>
          [] r = 7 -> <<"w", BackRank[c + 1]>>
          [] OTHER -> Empty]]

At(b, s) == b[s[1]][s[2]]
Put(b, s, p) == [b EXCEPT ![s[1]][s[2]] = p]

Diagonal == {-1, 1} \X {-1, 1}
Straight == {<<-1, 0>>, <<1, 0>>, <<0, -1>>, <<0, 1>>}
Leaps == ({-2, 2} \X {-1, 1}) \cup ({-1, 1} \X {-2, 2})
Go(s, d, k) == <<s[1] + k * d[1], s[2] + k * d[2]>>
HomeRow(col) == IF col = "w" THEN 7 ELSE 0
Forward(col) == IF col = "w" THEN -1 ELSE 1
-----------------------------------------------------------------------------
\* sl: along a direction up to the first piece, which is taken if hostile.
Slide(b, s, d) ==
    {Go(s, d, k) : k \in {n \in 1 .. 7 :
        /\ Go(s, d, n) \in Sq /\ pc(At(b, Go(s, d, n))) # pc(At(b, s))
        /\ \A j \in 1 .. n - 1 : At(b, Go(s, d, j)) = Empty}}

Hops(b, s, D) == {t \in {Go(s, d, 1) : d \in D} \cap Sq : pc(At(b, t)) # pc(At(b, s))}

PawnMoves(b, s, ep) ==
    LET col == pc(At(b, s))
        d == <<Forward(col), 0>>
        one == Go(s, d, 1)  two == Go(s, d, 2)
    IN  {t \in {one} \cap Sq : At(b, t) = Empty}
        \cup {t \in {two} \cap Sq : /\ s[1] = (IF col = "w" THEN 6 ELSE 1)
                                    /\ At(b, one) = Empty /\ At(b, t) = Empty}
        \cup {t \in {<<one[1], s[2] - 1>>, <<one[1], s[2] + 1>>} \cap Sq :
                 pc(At(b, t)) = Opp(col) \/ t = ep}

\* The squares the king and rook cross are empty; attacks are not looked at.
Castles(b, s, cast) ==
    LET col == pc(At(b, s))  row == HomeRow(col) IN
    {t \in {<<row, 6>>, <<row, 2>>} :
        /\ s = <<row, 4>>
        /\ IF t[2] = 6 THEN /\ <<col, "K">> \in cast
                            /\ \A c \in 5 .. 6 : At(b, <<row, c>>) = Empty
           ELSE /\ <<col, "Q">> \in cast
                /\ \A c \in 1 .. 3 : At(b, <<row, c>>) = Empty}

RawMoves(b, s, ep, cast) ==
    CASE pt(At(b, s)) = "P" -> PawnMoves(b, s, ep)
      [] pt(At(b, s)) = "N" -> Hops(b, s, Leaps)
      [] pt(At(b, s)) = "B" -> UNION {Slide(b, s, d) : d \in Diagonal}
      [] pt(At(b, s)) = "R" -> UNION {Slide(b, s, d) : d \in Straight}
      [] pt(At(b, s)) = "Q" -> UNION {Slide(b, s, d) : d \in Diagonal \cup Straight}
      [] pt(At(b, s)) = "K" -> Hops(b, s, Diagonal \cup Straight)
                           \cup Castles(b, s, cast)
      [] OTHER -> {}

AppMv(b, s, t) == Put(Put(b, t, At(b, s)), s, Empty)

InChk(b, col) ==
    \E k \in {s \in Sq : At(b, s) = <<col, "K">>} :
       \E s \in Sq : pc(At(b, s)) = Opp(col) /\ k \in RawMoves(b, s, NoSq, {})

IsCastle(p, s, t) == pt(p) = "K" /\ s[2] - t[2] \in {-2, 2}

RookFollows(b, col, t) ==
    LET row == HomeRow(col) IN
    IF t[2] = 6 THEN AppMv(b, <<row, 7>>, <<row, 5>>)
    ELSE AppMv(b, <<row, 0>>, <<row, 3>>)

\* The square of a pawn taken en passant.
Passed(col, t) == <<t[1] - Forward(col), t[2]>>

\* A move with the rook of a castling and the pawn taken en passant.
Moved(b, s, t, ep) ==
    LET p == At(b, s)  nb == AppMv(b, s, t) IN
    IF pt(p) = "P" /\ t = ep THEN Put(nb, Passed(pc(p), t), Empty)
    ELSE IF IsCastle(p, s, t) THEN RookFollows(nb, pc(p), t)
    ELSE nb

\* The filter of getLegal.
Legal(b, s, t, ep) ==
    /\ IsCastle(At(b, s), s, t) =>
          ~InChk(AppMv(b, s, <<HomeRow(pc(At(b, s))), IF t[2] = 6 THEN 5 ELSE 3>>),
                 pc(At(b, s)))
    /\ ~InChk(Moved(b, s, t, ep), pc(At(b, s)))

GetLegal(b, s, ep, cast) == {t \in RawMoves(b, s, ep, cast) : Legal(b, s, t, ep)}

HasAny(b, col, ep, cast) ==
    \E s \in Sq : /\ pc(At(b, s)) = col
                  /\ \E t \in RawMoves(b, s, ep, cast) : Legal(b, s, t, ep)
-----------------------------------------------------------------------------
\* Bug: the pawn taken en passant stays on the replayed board.
ReplayOneNoPassing(b, m) ==
    LET nb == IF IsCastle(m.piece, m.from, m.to)
              THEN RookFollows(AppMv(b, m.from, m.to), pc(m.piece), m.to)
              ELSE AppMv(b, m.from, m.to)
    IN  IF m.promotion # "-"
        THEN Put(nb, m.to, <<pc(m.piece), m.promotion>>) ELSE nb

\* One turn of the loop of replayToSnapshots, which has no en passant square
\* and works from the log entry alone.
ReplayOne(b, m) ==
    LET col == pc(m.piece)
        nb == AppMv(b, m.from, m.to)
        passing == /\ pt(m.piece) = "P" /\ m.from[2] # m.to[2]
                   /\ m.captured # Empty /\ At(b, m.to) = Empty
        full == IF IsCastle(m.piece, m.from, m.to) THEN RookFollows(nb, col, m.to)
                ELSE IF passing THEN Put(nb, Passed(col, m.to), Empty)
                ELSE nb
    IN  IF m.promotion # "-" THEN Put(full, m.to, <<col, m.promotion>>)
        ELSE full

\* The last snapshot.
Replay(log) == FoldLeft(ReplayOne, InitBoard, log)
-----------------------------------------------------------------------------
(* The rules of chess, stated on pairs of squares and apart from the code:   *)
(* the reference the engine is compared with.                                *)

Abs(n) == IF n < 0 THEN -n ELSE n
Sign(n) == IF n < 0 THEN -1 ELSE IF n > 0 THEN 1 ELSE 0
Clear(b, s, t) ==
    LET dr == t[1] - s[1]  dc == t[2] - s[2]
        n == IF Abs(dr) > Abs(dc) THEN Abs(dr) ELSE Abs(dc)
    IN  \A k \in 1 .. n - 1 : At(b, Go(s, <<Sign(dr), Sign(dc)>>, k)) = Empty

\* The piece on s attacks t.
Attacks(b, s, t) ==
    LET dr == Abs(t[1] - s[1])  dc == Abs(t[2] - s[2])  p == pt(At(b, s)) IN
    \/ p = "P" /\ t[1] - s[1] = Forward(pc(At(b, s))) /\ dc = 1
    \/ p = "N" /\ {dr, dc} = {1, 2}
    \/ p = "K" /\ s # t /\ dr <= 1 /\ dc <= 1
    \/ p \in {"B", "Q"} /\ dr = dc /\ dr # 0 /\ Clear(b, s, t)
    \/ p \in {"R", "Q"} /\ (dr = 0) # (dc = 0) /\ Clear(b, s, t)

Attacked(b, t, by) == \E s \in Sq : pc(At(b, s)) = by /\ Attacks(b, s, t)
Exposed(b, col) == \E k \in Sq : At(b, k) = <<col, "K">> /\ Attacked(b, k, Opp(col))

Rules(b, s, t, ep, cast) ==
    LET col == pc(At(b, s))  p == pt(At(b, s))
        ahead == (t[1] - s[1]) * Forward(col)
        row == HomeRow(col)
        span == IF t[2] = 6 THEN 4 .. 6 ELSE 2 .. 4
        rook == <<row, IF t[2] = 6 THEN 7 ELSE 0>>
    IN
    /\ pc(At(b, t)) # col
    /\ \/ p # "P" /\ Attacks(b, s, t)
       \/ p = "P" /\ Attacks(b, s, t) /\ (At(b, t) # Empty \/ t = ep)
       \/ p = "P" /\ t[2] = s[2] /\ ahead = 1 /\ At(b, t) = Empty
       \/ /\ p = "P" /\ t[2] = s[2] /\ ahead = 2 /\ s[1] = row + Forward(col)
          /\ At(b, t) = Empty /\ Clear(b, s, t)
       \/ /\ p = "K" /\ s = <<row, 4>> /\ t \in {<<row, 6>>, <<row, 2>>}
          /\ <<col, IF t[2] = 6 THEN "K" ELSE "Q">> \in cast
          /\ At(b, rook) = <<col, "R">> /\ Clear(b, s, rook)
          /\ \A c \in span : ~Attacked(b, <<row, c>>, Opp(col))
    /\ ~Exposed(Moved(b, s, t, ep), col)
=============================================================================
