----------------------------- MODULE MCShutdown ------------------------------
(* Model-checking instance of Shutdown: the budgets of shutdown.js scaled   *)
(* down so that their order and the slack of one unit remain, and one room  *)
(* that all the work is about.                                              *)
EXTENDS Shutdown

SmallCap == [settle |-> 1, http |-> 1, room |-> 2, socket |-> 2, race |-> 1,
             force |-> 1, cache |-> 1, pg |-> 1]

\* Each piece of work is named after its kind.
OpKinds == [o \in Op |-> o]

OneRoom == [o \in Op |-> CHOOSE r \in Room : TRUE]

=============================================================================
