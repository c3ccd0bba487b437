---------------------------- MODULE PlanEffects ----------------------------
(***************************************************************************)
(* What running an approved plan may do to the level, whichever of its     *)
(* actions fail on the way.  The service runs plans by it; the executor's  *)
(* loop, action by action, is shown to do no more.                         *)
(***************************************************************************)
CONSTANT Actors     \* actors that may exist in the level

VARIABLES
    live,       \* actors that exist in it
    selected    \* the user's selection

\* Some of the doomed actors are gone and, if the plan creates any, some new ones
\* have come; selected is what is left of the selection, or of one the plan made.
Effect(doomed, choices, creates) ==
    \E gone \in SUBSET (doomed \cap live),
       new \in SUBSET (IF creates THEN Actors \ live ELSE {}),
       chosen \in {selected} \cup choices :
        /\ live' = (live \ gone) \cup new
        /\ selected' = chosen \cap live'

=============================================================================
