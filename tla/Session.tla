-------------------------------- MODULE Session ------------------------------
(***************************************************************************)
(* RefinementSession (bindings/rust/src/drive.rs): the stateful reducer    *)
(* that hands out one resolved action at a time and judges the evidence    *)
(* recorded for it. A harness may call its methods in any order, also      *)
(* after an error; the loop of run_refined_actions_async calls them in     *)
(* turn, awaits its driver in between and returns on the first error.      *)
(***************************************************************************)
EXTENDS ActionStep

CONSTANT MaxSnapshots \* bound: evidence recorded in one session, `init` included

ASSUME SnapshotsAssumption == MaxSnapshots \in Nat \ {0}

VARIABLES
  caller,     \* who calls: a "harness" or the "loop" of run_refined_actions_async
  scenario,   \* the generated scenario
  snapshots,  \* the initial evidence, then every evidence recorded
  state,      \* the projected state
  nextIndex,  \* how many actions have been validated
  evaluated,  \* how many obligations have been evaluated
  awaiting,   \* awaiting_observation: an action is out, its evidence is not in
  status,     \* whether the session exists, or how it ended
  reply,      \* what the last call returned
  dispatched  \* history: the resolved actions handed to the caller, in order

sessionVars ==
  <<caller, scenario, snapshots, state, nextIndex, evaluated, awaiting, status, reply, dispatched>>

ResolvedAction == [action : Actions, argument : Values]

SessionTypeOK ==
  /\ caller \in {"harness", "loop"}
  /\ scenario \in Scenarios
  /\ snapshots \in Seq(Evidence)
  /\ state \in State
  /\ nextIndex \in 0 .. Len(scenario.actions)
  /\ evaluated \in Nat
  /\ awaiting \in BOOLEAN
  /\ status \in {"open", "refused", "failed", "finished"}
  /\ reply \in {"created", "action", "end", "recorded", "run", "error", "driverError"}
  /\ dispatched \in Seq(ResolvedAction)

Action == scenario.actions[nextIndex + 1]
More == nextIndex < Len(scenario.actions)
InLoop == caller = "loop"

-----------------------------------------------------------------------------
\* Fault: the initial evidence is taken as it is.
CreatedLoosely(init) == init # Unresolved

\* RefinementSession::new: with an initial state in the artifact the evidence
\* must be that complete state, without one the session starts from whatever
\* (complete) state the evidence holds.
Created(init) ==
  IF scenario.hydrated THEN init = scenario.initial ELSE init \in State

SessionInit ==
  /\ caller \in {"harness", "loop"}
  /\ scenario \in Scenarios
  /\ \E init \in IF scenario.hydrated THEN Evidence ELSE State \cup {Unresolved} :
       /\ snapshots = <<init>>
       /\ status = (IF Created(init) THEN "open" ELSE "refused")
       /\ reply = (IF Created(init) THEN "created" ELSE "error")
       /\ state = (IF Created(init) THEN init ELSE scenario.initial)
  /\ nextIndex = 0
  /\ evaluated = 0
  /\ awaiting = FALSE
  /\ dispatched = <<>>

\* Fault: an error releases the action that is out.
ReturnErrorAndRelease ==
  /\ reply' = "error"
  /\ status' = IF InLoop THEN "failed" ELSE status
  /\ awaiting' = FALSE
  /\ UNCHANGED <<caller, scenario, state, nextIndex, evaluated, dispatched>>

\* A call returns Err: the harness keeps its session, the loop's `?` drops it.
ReturnError ==
  /\ reply' = "error"
  /\ status' = IF InLoop THEN "failed" ELSE status
  /\ UNCHANGED <<caller, scenario, state, nextIndex, evaluated, awaiting, dispatched>>

-----------------------------------------------------------------------------
\* next_action
CallsNext == status = "open" /\ (InLoop => reply \in {"created", "recorded"})

\* Fault: guards are evaluated in the fixture instead of the reduced state.
DispatchableFromFixture == scenario.hydrated => PreGuardsHold(Action, scenario.initial)

Dispatchable == scenario.hydrated => PreGuardsHold(Action, state)

HandOut ==
  /\ awaiting' = TRUE
  /\ reply' = "action"
  /\ dispatched' =
       Append(dispatched, [action |-> Action, argument |-> Argument(Action, state)])
  /\ UNCHANGED <<caller, scenario, snapshots, state, nextIndex, evaluated, status>>

\* Fault: an action is handed out again while its evidence is outstanding.
NextActionAgain == CallsNext /\ More /\ Dispatchable /\ HandOut

NextAction ==
  /\ CallsNext
  /\ ~awaiting
  /\ More
  /\ Dispatchable
  /\ HandOut

NoMoreActions ==
  /\ CallsNext
  /\ ~awaiting
  /\ ~More
  /\ reply' = "end"
  /\ UNCHANGED <<caller, scenario, snapshots, state, nextIndex, evaluated, awaiting,
                 status, dispatched>>

\* Fault: a false pre-guard is not reported.
RefuseNextActionOnlyIfAwaiting ==
  /\ CallsNext
  /\ awaiting
  /\ ReturnError
  /\ UNCHANGED snapshots

RefuseNextAction ==
  /\ CallsNext
  /\ awaiting \/ (More /\ ~Dispatchable)
  /\ ReturnError
  /\ UNCHANGED snapshots

-----------------------------------------------------------------------------
\* record: the evidence is kept before it is judged, and what is judged is the
\* entry at next_index + 1 of the tape, not the one that was just pushed.
CallsRecord ==
  /\ status = "open"
  /\ InLoop => reply = "action"
  /\ Len(snapshots) < MaxSnapshots

\* Fault: the evidence just pushed is judged.
PushedEntry == Len(snapshots) + 1

JudgedEntry == nextIndex + 2

Judged(tape) ==
  Validates(Action, state, scenario.trace[nextIndex + 2], tape[JudgedEntry])

\* Fault: the evidence replaces the state instead of being merged into it.
ReducedToEvidence(tape) == tape[JudgedEntry]

Reduced(tape) == MergeObservedState(Action, ModelNext(Action, state), tape[JudgedEntry])

Record(evidence) ==
  LET tape == Append(snapshots, evidence) IN
  /\ CallsRecord
  /\ awaiting
  /\ Judged(tape)
  /\ snapshots' = tape
  /\ state' = Reduced(tape)
  /\ evaluated' = evaluated + ObligationCount(Action)
  /\ nextIndex' = nextIndex + 1
  /\ awaiting' = FALSE
  /\ reply' = "recorded"
  /\ UNCHANGED <<caller, scenario, status, dispatched>>

RejectRecord(evidence) ==
  LET tape == Append(snapshots, evidence) IN
  /\ CallsRecord
  /\ awaiting
  /\ ~Judged(tape)
  /\ snapshots' = tape
  /\ ReturnError

RefuseRecord ==
  /\ CallsRecord
  /\ ~awaiting
  /\ ReturnError
  /\ UNCHANGED snapshots

\* The driver of the loop fails instead of answering.
DriverFails ==
  /\ InLoop
  /\ status = "open"
  /\ reply = "action"
  /\ reply' = "driverError"
  /\ status' = "failed"
  /\ UNCHANGED <<caller, scenario, snapshots, state, nextIndex, evaluated, awaiting, dispatched>>

-----------------------------------------------------------------------------
\* finish takes the session by value: it ends with it either way.
CallsFinish == status = "open" /\ (InLoop => reply = "end")

Complete == ~awaiting /\ ~More

Finish ==
  /\ CallsFinish
  /\ status' = (IF Complete THEN "finished" ELSE "failed")
  /\ reply' = (IF Complete THEN "run" ELSE "error")
  /\ UNCHANGED <<caller, scenario, snapshots, state, nextIndex, evaluated, awaiting, dispatched>>

SessionNext ==
  \/ NextAction
  \/ NoMoreActions
  \/ RefuseNextAction
  \/ \E evidence \in Evidence : Record(evidence) \/ RejectRecord(evidence)
  \/ RefuseRecord
  \/ DriverFails
  \/ Finish

\* The loop's own steps happen; its driver need not answer and a harness need
\* not call again.
LoopStep == InLoop /\ (NextAction \/ NoMoreActions \/ RefuseNextAction \/ Finish)

SessionSpec == SessionInit /\ [][SessionNext]_sessionVars /\ WF_sessionVars(LoopStep)

-----------------------------------------------------------------------------
\* For a scenario Quint has run, the projected state is Quint's own state after
\* the validated prefix, and so is everything the evidence says of retrieved
\* fields: sparse evidence never lets the two drift apart. A field the
\* obligations depend on cannot change without having been observed.
FollowsTrace ==
  Valid(scenario) /\ status # "refused" =>
    /\ state = scenario.trace[nextIndex + 1]
    /\ \A i \in 1 .. nextIndex :
         /\ Agrees(snapshots[i + 1], scenario.trace[i + 1])
         /\ \A f \in Reads(scenario.actions[i]) :
              scenario.trace[i + 1][f] # scenario.trace[i][f] => f \in DOMAIN snapshots[i + 1]

\* The caller was handed the scenario's actions in order, each exactly once,
\* with the argument it has in Quint's own run; at most one is unanswered.
DispatchedInOrder ==
  /\ Len(dispatched) = nextIndex + (IF awaiting THEN 1 ELSE 0)
  /\ \A i \in DOMAIN dispatched :
       /\ dispatched[i].action = scenario.actions[i]
       /\ Valid(scenario) => dispatched[i].argument = Argument(dispatched[i].action, scenario.trace[i])

\* The tape holds one evidence per validated action, and one more (or, with
\* retries, several) only while a rejected action is out. A session that ended
\* well has judged every action of the scenario against a tape of its own.
TapeMatchesIndex ==
  /\ Len(snapshots) >= nextIndex + 1
  /\ Len(snapshots) > nextIndex + 1 => awaiting
  /\ status = "finished" =>
       nextIndex = Len(scenario.actions) /\ Len(snapshots) = Len(scenario.actions) + 1

\* A rejected observation is final: whatever the harness records afterwards, the
\* same first evidence is judged again, so no retry, no later good evidence and
\* no other order of calls completes the session.
RejectionIsFinal ==
  [][Len(snapshots) > nextIndex + 1 => nextIndex' = nextIndex /\ status' # "finished"]_sessionVars

\* The other evaluator agrees: a harness that passes the tape of its session on
\* to evaluate_refined_runtime_assertions has it reduced again from the initial
\* state, and that reduction accepts the same actions, reaches the same state
\* and counts the same obligations as the session did step by step.
BatchAgrees ==
  scenario.hydrated /\ status # "refused" =>
    EvaluateTape(scenario, snapshots, nextIndex) =
      [ok |-> TRUE, state |-> state, evaluated |-> evaluated]

\* Every alternative Quint took is the first one that was possible.
FirstAlternative(sc) ==
  \A i \in 1 .. Len(sc.actions) :
    CanAssign(sc.actions[i], sc.trace[i]) /\ sc.trace[i + 1] = ModelNext(sc.actions[i], sc.trace[i])

Faithful == \A i \in DOMAIN snapshots : snapshots[i] = scenario.trace[i]

Retrievable(sc) == \A i \in 1 .. Len(sc.actions) : Supported(sc.actions[i])

\* The loop never rejects an implementation that does what Quint did, provided
\* the adapter retrieves what the obligations read and no `any` took a later
\* alternative than it had to.
FaithfulIsAccepted ==
  Valid(scenario) /\ Retrievable(scenario) /\ FirstAlternative(scenario)
    /\ InLoop /\ Len(snapshots) <= Len(scenario.trace) /\ Faithful => reply # "error"

\* "Every `state' = ...` assignment matches the complete snapshot after it."
\* Every field of every accepted snapshot is what it is in Quint's run, the
\* fields the action should not have touched included.
MatchesCompleteSnapshot ==
  Valid(scenario) =>
    \A i \in 1 .. nextIndex : \A f \in Fields \cap DOMAIN snapshots[i + 1] :
      snapshots[i + 1][f] = scenario.trace[i + 1][f]

\* The loop returns if its driver always answers.
LoopReturns ==
  []<>(reply # "action") => (InLoop => <>(status # "open"))

\* The session implements the abstract run of the model.
Model == INSTANCE ModelRun WITH taken <- nextIndex

ImplementsModel == Model!ModelSpec

=============================================================================
