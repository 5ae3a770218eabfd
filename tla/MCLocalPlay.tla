----------------------------- MODULE MCLocalPlay -----------------------------
(* Games that reach every special move: a mate, en passant and both castlings,*)
(* promotions with the loss of a castling right, and a pinned pawn.           *)
EXTENDS LocalPlay

M(r, c, x, y) == << <<r, c>>, <<x, y>> >>
FoolsMate == <<M(6,5,5,5), M(1,4,3,4), M(6,6,4,6), M(0,3,4,7)>>
PassAndCastle == <<M(6,4,4,4), M(1,0,2,0), M(4,4,3,4), M(1,3,3,3),
                   M(3,4,2,3), M(1,4,2,3), M(7,6,5,5), M(0,2,3,5),
                   M(7,5,6,4), M(0,1,2,2), M(7,4,7,6), M(0,3,1,3),
                   M(6,0,5,0), M(0,4,0,2)>>
Promote == <<M(6,7,4,7), M(1,4,2,4), M(4,7,3,7), M(0,5,1,4), M(3,7,2,7),
             M(0,6,2,5), M(2,7,1,6), M(1,0,2,0), M(1,6,0,7), M(2,5,0,6)>>
Pinned == <<M(6,4,4,4), M(1,4,3,4), M(7,6,5,5), M(0,5,4,1), M(6,3,4,3),
            M(3,4,4,3)>>
Tried == {FoolsMate, PassAndCastle, Promote, Pinned}
=============================================================================
