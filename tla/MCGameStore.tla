----------------------------- MODULE MCGameStore -----------------------------
(* Model-checking instance of GameStore. *)
EXTENDS GameStore, TLC

\* Connections are interchangeable, and so are rooms.
StoreSymmetry == Permutations(Txn) \cup Permutations(Room)

=============================================================================
