------------------------------- MODULE ModelRun ------------------------------
(***************************************************************************)
(* The promise of every runner: the state it carries from action to action *)
(* is a run of the Quint model along the scenario. Runners implement this  *)
(* specification; a runner that rejects the implementation just stops.     *)
(***************************************************************************)
EXTENDS QuintModel

VARIABLES
  scenario, \* the scenario that is followed
  state,    \* the state the model has reached
  taken     \* how many of the scenario's actions it took to get there

modelVars == <<scenario, state, taken>>

ModelInit ==
  /\ scenario \in Scenarios
  /\ state \in State
  /\ scenario.hydrated => state = scenario.initial
  /\ taken = 0

Take ==
  /\ taken < Len(scenario.actions)
  /\ ModelStep(scenario.actions[taken + 1], state, state')
  /\ taken' = taken + 1
  /\ UNCHANGED scenario

ModelSpec == ModelInit /\ [][Take]_modelVars

=============================================================================
