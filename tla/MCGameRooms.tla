----------------------------- MODULE MCGameRooms -----------------------------
(* Model-checking instances of GameRooms.  Sockets are numbered; a user may *)
(* own several, one after the other or at once.                             *)
EXTENDS GameRooms

HomeOne == [s \in Socket |-> "p"]

\* Players 1 and 2 alternate; each comes back with the next socket.
OwnerPair == [s \in Socket |-> IF s % 2 = 1 THEN 1 ELSE 2]

=============================================================================
