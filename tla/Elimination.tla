---------------------------- MODULE Elimination ----------------------------
(***************************************************************************)
(* What a single-elimination tournament promises its players, without      *)
(* brackets, rounds, rows or locks: entrants are drawn once, every         *)
(* decided match knocks out exactly one player who was still in, and the   *)
(* tournament ends exactly when one player is left, who has won it.        *)
(***************************************************************************)
EXTENDS Naturals, FiniteSets

CONSTANTS Player, Places, Nobody

VARIABLES stage, entrants, alive, champion

elimVars == <<stage, entrants, alive, champion>>

ElimInit ==
    /\ stage = "none" /\ champion = Nobody
    /\ entrants = {} /\ alive = {}

Announce(p) ==
    /\ stage = "none" /\ stage' = "open"
    /\ entrants' = {p}
    /\ UNCHANGED <<alive, champion>>

Enter(p) ==
    /\ stage = "open" /\ Cardinality(entrants) < Places
    /\ p \notin entrants
    /\ entrants' = entrants \cup {p}
    /\ UNCHANGED <<stage, alive, champion>>

Draw ==
    /\ stage = "open" /\ Cardinality(entrants) > 1
    /\ stage' = "in_progress" /\ alive' = entrants
    /\ UNCHANGED <<entrants, champion>>

KnockOut(p) ==
    /\ stage = "in_progress" /\ p \in alive
    /\ alive' = alive \ {p}
    /\ \/ /\ Cardinality(alive') > 1
          /\ UNCHANGED <<stage, champion>>
       \/ /\ alive' = {champion'} /\ champion' # Nobody
          /\ stage' = "finished"
    /\ UNCHANGED entrants

ElimNext == Draw \/ \E p \in Player : Announce(p) \/ Enter(p) \/ KnockOut(p)

ElimSpec == ElimInit /\ [][ElimNext]_elimVars
=============================================================================
