-------------------------------- MODULE Refine -------------------------------
(***************************************************************************)
(* refine_scenario and refine_scenario_async (bindings/rust/src/drive.rs): *)
(* the ownership tables are collected and the scenario scheduled (module   *)
(* Schedule), then every scheduled primitive is dispatched once, with all  *)
(* its action arguments, and the evidences it returns are appended to one  *)
(* tape, which is reduced from the start after every primitive and once    *)
(* more at the end.                                                        *)
(***************************************************************************)
EXTENDS Schedule, ActionStep

CONSTANT Name(_) \* the Quint action an action call calls

VARIABLES
  scenario,   \* the generated scenario; `tape` holds its action names
  snapshots,  \* the initial evidence and one evidence per action run so far
  state,      \* the projected state
  offset,     \* action_offset
  dispatched, \* history: what the driver was asked to run, in order
  phase       \* where refine_scenario stands

driveVars == <<scenario, snapshots, state, offset, dispatched, phase>>
refineVars == <<scheduleVars, driveVars>>

ActionNames(sc) == [i \in DOMAIN sc.actions |-> Name(sc.actions[i])]

ASSUME NameAssumption ==
  /\ \A a \in Actions : Name(a) \in Names
  /\ \A sc \in Scenarios : ActionNames(sc) \in Tapes

RefineInit ==
  /\ ScheduleInit
  /\ scenario \in Scenarios
  /\ tape = ActionNames(scenario)
  /\ snapshots = <<>>
  /\ state = scenario.initial
  /\ offset = 0
  /\ dispatched = <<>>
  /\ phase = "starting"

-----------------------------------------------------------------------------
\* What an adapter can return. Without an initial state in the artifact nothing
\* fills in what evidence leaves out, and adapters return complete states.
Answer == IF scenario.hydrated THEN Evidence ELSE State \cup {Unresolved}

\* Fault: only the initial evidence of a hydrated scenario is looked at.
ReducibleFromInit(evidences, n) ==
  IF scenario.hydrated
    THEN evidences[1] = scenario.initial
    ELSE evidences[n + 1] # Unresolved

\* projected_state_after: the tape so far reduced again from its start. For
\* unhydrated scenarios the latest evidence is the state.
Reducible(evidences, n) ==
  IF scenario.hydrated
    THEN EvaluateTape(scenario, evidences, n).ok
    ELSE evidences[n + 1] # Unresolved

ProjectedStateAfter(evidences, n) ==
  IF scenario.hydrated THEN EvaluateTape(scenario, evidences, n).state ELSE evidences[n + 1]

Start(init) ==
  /\ verdict = "scheduled"
  /\ phase = "starting"
  /\ Reducible(<<init>>, 0)
  /\ snapshots' = <<init>>
  /\ state' = ProjectedStateAfter(<<init>>, 0)
  /\ phase' = "ready"
  /\ UNCHANGED <<scenario, offset, dispatched>>

RejectStart(init) ==
  /\ verdict = "scheduled"
  /\ phase = "starting"
  /\ ~Reducible(<<init>>, 0)
  /\ snapshots' = <<init>>
  /\ phase' = "rejected"
  /\ UNCHANGED <<scenario, state, offset, dispatched>>

-----------------------------------------------------------------------------
Reject ==
  /\ phase' = "rejected"
  /\ UNCHANGED <<scenario, snapshots, state, offset, dispatched>>

NextRun == Len(dispatched) + 1
HasRun == phase = "ready" /\ NextRun <= Len(runs)

Owned == runs[NextRun].owned

\* Fault: every action of the run must be enabled before the run.
WholeRunMayStart ==
  scenario.hydrated =>
    \A i \in DOMAIN Owned : PreGuardsHold(scenario.actions[offset + i], state)

\* evaluate_run_pre_guards looks at the first action of the run only.
RunMayStart == scenario.hydrated => PreGuardsHold(scenario.actions[offset + 1], state)

\* resolve_run_actions: the owned names must be the scenario's next actions.
OwnedAreNext == Occurs(Owned, tape, offset)

\* Fault: arguments are found by counting runs instead of actions.
ResolveByRunCount ==
  [i \in DOMAIN Owned |->
     LET action == scenario.actions[Len(dispatched) + i]
     IN [action |-> action, argument |-> Argument(action, state)]]

\* Every action of the run is resolved in the state before the run.
ResolveRunActions ==
  [i \in DOMAIN Owned |->
     [action |-> scenario.actions[offset + i],
      argument |-> Argument(scenario.actions[offset + i], state)]]

RunPrimitive ==
  /\ HasRun
  /\ RunMayStart
  /\ OwnedAreNext
  /\ dispatched' =
       Append(dispatched, [primitive |-> runs[NextRun].primitive, actions |-> ResolveRunActions])
  /\ phase' = "awaiting"
  /\ UNCHANGED <<scenario, snapshots, state, offset>>

RefuseRun ==
  /\ HasRun
  /\ ~(RunMayStart /\ OwnedAreNext)
  /\ Reject

-----------------------------------------------------------------------------
\* The driver answers with a tape of evidences, which must be one per owned
\* action and reduce.
Asked == Len(dispatched[Len(dispatched)].actions)

AnswerLengths == {n \in Asked - 1 .. Asked + 1 : n >= 0}

Reduces(evidences) == Reducible(snapshots \o evidences, offset + Asked)

AcceptTape(evidences) ==
  /\ Len(evidences) = Asked
  /\ Reduces(evidences)
  /\ snapshots' = snapshots \o evidences
  /\ offset' = offset + Asked
  /\ state' = ProjectedStateAfter(snapshots \o evidences, offset + Asked)
  /\ phase' = "ready"
  /\ UNCHANGED <<scenario, dispatched>>

RejectTape(evidences) ==
  /\ Len(evidences) = Asked
  /\ ~Reduces(evidences)
  /\ snapshots' = snapshots \o evidences
  /\ phase' = "rejected"
  /\ UNCHANGED <<scenario, state, offset, dispatched>>

RefuseTape(evidences) ==
  /\ Len(evidences) # Asked
  /\ phase' = "miscounted"
  /\ UNCHANGED <<scenario, snapshots, state, offset, dispatched>>

DriverFails ==
  /\ phase = "awaiting"
  /\ phase' = "driverFailed"
  /\ UNCHANGED <<scenario, snapshots, state, offset, dispatched>>

-----------------------------------------------------------------------------
\* Fault: the evidence after the action is not compared.
StrictGuards(a, before, after, reached) ==
  Supported(a) /\ Guard(a, before) /\ CanAssign(a, before)

\* evaluate_all_action_steps: each action between two complete evidences.
StrictStep(a, before, after, reached) ==
  /\ Supported(a)
  /\ Guard(a, before)
  /\ CanAssign(a, before)
  /\ after = ModelNext(a, before)
  /\ a \in Branching => after = reached

\* evaluate_refined_tape, the last word: a hydrated scenario must have checked
\* something.
TapeHolds ==
  IF scenario.hydrated
    THEN LET result == EvaluateTape(scenario, snapshots, Len(scenario.actions))
         IN result.ok /\ result.evaluated > 0
    ELSE \A i \in DOMAIN scenario.actions :
           StrictStep(scenario.actions[i], snapshots[i], snapshots[i + 1], scenario.trace[i + 1])

AllRun == phase = "ready" /\ NextRun > Len(runs)

Accept ==
  /\ AllRun
  /\ TapeHolds
  /\ phase' = "accepted"
  /\ UNCHANGED <<scenario, snapshots, state, offset, dispatched>>

RejectEvaluation ==
  /\ AllRun
  /\ ~TapeHolds
  /\ Reject

OwnStep ==
  /\ \/ \E init \in Answer : Start(init) \/ RejectStart(init)
     \/ RunPrimitive
     \/ RefuseRun
     \/ Accept
     \/ RejectEvaluation
  /\ UNCHANGED scheduleVars

DriverStep ==
  /\ \/ /\ phase = "awaiting"
        /\ \E n \in AnswerLengths : \E evidences \in [1 .. n -> Answer] :
             AcceptTape(evidences) \/ RejectTape(evidences) \/ RefuseTape(evidences)
     \/ DriverFails
  /\ UNCHANGED scheduleVars

ScheduleStep == ScheduleNext /\ UNCHANGED driveVars

RefineNext == ScheduleStep \/ OwnStep \/ DriverStep

\* The call keeps running; the driver need not answer.
RefineSpec ==
  RefineInit /\ [][RefineNext]_refineVars /\ WF_refineVars(ScheduleStep \/ OwnStep)

-----------------------------------------------------------------------------
\* Primitives run in scenario order, each action is handed to one primitive
\* exactly once, to the primitive whose record owns that stretch of the scenario.
\* A hydrated scenario is only accepted after something was driven.
DispatchesScenario ==
  /\ Len(dispatched) <= Len(runs)
  /\ \A i \in DOMAIN dispatched :
       /\ dispatched[i].primitive = runs[i].primitive
       /\ Len(dispatched[i].actions) = Len(runs[i].owned)
       /\ \A j \in DOMAIN dispatched[i].actions :
            dispatched[i].actions[j].action = scenario.actions[runs[i].at + j]
  /\ phase = "accepted" =>
       /\ Len(dispatched) = Len(runs)
       /\ offset = Len(scenario.actions)
       /\ Len(snapshots) = Len(scenario.actions) + 1
       /\ scenario.hydrated => dispatched # <<>>

\* An implementation that has left Quint's run of the scenario is not driven any
\* further: whatever was dispatched, every evidence before it agreed with the
\* trace, and its first action has the argument it has in Quint's run.
DrivesOnlyAlongTrace ==
  Valid(scenario) =>
    \A i \in DOMAIN dispatched :
      /\ \A j \in 1 .. runs[i].at + 1 : Agrees(snapshots[j], scenario.trace[j])
      /\ LET first == dispatched[i].actions[1]
         IN first.argument = Argument(first.action, scenario.trace[runs[i].at + 1])

\* What is accepted follows the model: with an initial state, Quint's run of the
\* scenario in every retrieved field; without one, some run of the model.
AcceptedFollowsModel ==
  phase = "accepted" =>
    /\ Valid(scenario) =>
         \A i \in DOMAIN snapshots : Agrees(snapshots[i], scenario.trace[i])
    /\ ~scenario.hydrated =>
         \A i \in DOMAIN scenario.actions :
           ModelStep(scenario.actions[i], snapshots[i], snapshots[i + 1])

\* Every alternative Quint took is the first one that was possible.
FirstAlternative(sc) ==
  \A i \in 1 .. Len(sc.actions) :
    CanAssign(sc.actions[i], sc.trace[i]) /\ sc.trace[i + 1] = ModelNext(sc.actions[i], sc.trace[i])

\* An implementation that does what Quint did, evidence by evidence, is never
\* rejected, however its commands are grouped, provided the adapter retrieves
\* what the obligations read and no `any` took a later alternative than it had to.
FaithfulIsAccepted ==
  /\ Valid(scenario)
  /\ \A i \in DOMAIN scenario.actions : Supported(scenario.actions[i])
  /\ FirstAlternative(scenario)
  /\ \A i \in DOMAIN snapshots : snapshots[i] = scenario.trace[i]
  /\ Len(scenario.actions) > 0
  => phase # "rejected"

\* "Action arguments evaluated against the current reduced state and fixtures",
\* the field comment of ResolvedAction (drive.rs): each action of a command is handed the
\* argument it has in the state the model has reached when its turn comes.
ArgumentsAreCurrent ==
  Valid(scenario) =>
    \A i \in DOMAIN dispatched : \A j \in DOMAIN dispatched[i].actions :
      LET resolved == dispatched[i].actions[j]
      IN resolved.argument = Argument(resolved.action, scenario.trace[runs[i].at + j])

=============================================================================
