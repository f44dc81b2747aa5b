---------------------------- MODULE Session_proofs ----------------------------
(***************************************************************************)
(* What a refinement session guarantees for every model, every scenario    *)
(* and every evidence, in whatever order its methods are called.           *)
(***************************************************************************)
EXTENDS Session, ActionStep_proofs

-----------------------------------------------------------------------------
\* The inductive invariant. An action is only out while there is one, and when
\* the tape holds more than one evidence per validated action, the next one to
\* be judged is one that has already failed: this is why no retry succeeds.
RejectedStays ==
  /\ awaiting => More
  /\ Len(snapshots) >= nextIndex + 1
  /\ Len(snapshots) > nextIndex + 1 => awaiting /\ ~Judged(snapshots)

SessionInv == SessionTypeOK /\ RejectedStays

LEMMA SessionInitInv == SessionInit => SessionInv
<1> SUFFICES ASSUME SessionInit PROVE SessionInv
  OBVIOUS
<1>1. scenario \in Scenario /\ scenario.initial \in State /\ Len(scenario.actions) \in Nat
  BY ScenarioAssumption DEF SessionInit, Scenario
<1>2. PICK init \in Evidence :
        /\ snapshots = <<init>>
        /\ status = (IF Created(init) THEN "open" ELSE "refused")
        /\ reply = (IF Created(init) THEN "created" ELSE "error")
        /\ state = (IF Created(init) THEN init ELSE scenario.initial)
  BY EvidenceTypes DEF SessionInit
<1>3. state \in State
  BY <1>1, <1>2 DEF Created
<1>4. Len(snapshots) = 1 /\ snapshots \in Seq(Evidence)
  BY <1>2
<1>a. status \in {"open", "refused"} /\ reply \in {"created", "error"}
  BY <1>2
<1>b. /\ caller \in {"harness", "loop"} /\ scenario \in Scenarios
      /\ nextIndex = 0 /\ evaluated = 0 /\ awaiting = FALSE /\ dispatched = <<>>
  BY DEF SessionInit
<1>c. nextIndex \in 0 .. Len(scenario.actions)
  BY <1>1, <1>b
<1>d. dispatched \in Seq(ResolvedAction)
  BY <1>b
<1>f. evaluated \in Nat /\ awaiting \in BOOLEAN
  BY <1>b
<1>e. /\ status \in {"open", "refused", "failed", "finished"}
      /\ reply \in {"created", "action", "end", "recorded", "run", "error", "driverError"}
  BY <1>a
<1>5. SessionTypeOK
  BY <1>3, <1>4, <1>b, <1>c, <1>d, <1>e, <1>f, Zenon DEF SessionTypeOK
<1>6. RejectedStays
  BY <1>4 DEF SessionInit, RejectedStays
<1> QED
  BY <1>5, <1>6 DEF SessionInv

\* The action at the next index, when there is one.
LEMMA NextIsAction ==
  ASSUME SessionTypeOK, More
  PROVE  Action \in Actions /\ nextIndex + 1 \in 1 .. Len(scenario.actions)
<1>1. scenario.actions \in Seq(Actions)
  BY ScenarioAssumption DEF SessionTypeOK, Scenario
<1> QED
  BY <1>1 DEF SessionTypeOK, More, Action

\* Evidence is recorded onto a tape that ends at the next index, and is the one
\* that is judged.
LEMMA RecordedIsJudged ==
  ASSUME SessionInv, NEW evidence \in Evidence, Record(evidence)
  PROVE  /\ More
         /\ Len(snapshots) = nextIndex + 1
         /\ Append(snapshots, evidence)[nextIndex + 2] = evidence
         /\ Validates(Action, state, scenario.trace[nextIndex + 2], evidence)
<1>1. snapshots \in Seq(Evidence) /\ nextIndex \in Nat
  BY DEF SessionInv, SessionTypeOK
<1>2. awaiting /\ Judged(Append(snapshots, evidence))
  BY DEF Record
<1>3. More
  BY <1>2 DEF SessionInv, RejectedStays
<1>4. ASSUME Len(snapshots) > nextIndex + 1
      PROVE  FALSE
  <2>1. Append(snapshots, evidence)[nextIndex + 2] = snapshots[nextIndex + 2]
    BY <1>1, <1>4
  <2>2. Judged(snapshots)
    BY <1>2, <2>1 DEF Judged, JudgedEntry
  <2> QED
    BY <1>4, <2>2 DEF SessionInv, RejectedStays
<1>5. Len(snapshots) = nextIndex + 1
  BY <1>1, <1>4 DEF SessionInv, RejectedStays
<1>6. Append(snapshots, evidence)[nextIndex + 2] = evidence
  BY <1>1, <1>5
<1>7. Validates(Action, state, scenario.trace[nextIndex + 2], evidence)
  BY <1>2, <1>6 DEF Judged, JudgedEntry
<1> QED
  BY <1>3, <1>5, <1>6, <1>7

\* What recording does to the projected state: the model's step.
LEMMA RecordedIsModelStep ==
  ASSUME SessionInv, NEW evidence \in Evidence, Record(evidence)
  PROVE  /\ state' = ModelNext(Action, state)
         /\ state' \in State
         /\ ModelStep(Action, state, state')
<1>1. Action \in Actions /\ state \in State
  BY RecordedIsJudged, NextIsAction DEF SessionInv, SessionTypeOK
<1>2. state' = MergeObservedState(Action, ModelNext(Action, state), evidence)
  BY RecordedIsJudged DEF Record, Reduced, JudgedEntry
<1> QED
  BY <1>1, <1>2, RecordedIsJudged, ValidatedIsModelStep

LEMMA TypeStep ==
  ASSUME SessionInv, [SessionNext]_sessionVars
  PROVE  SessionTypeOK'
<1> USE DEF SessionInv
<1>1. CASE NextAction
  <2>1. [action |-> Action, argument |-> Argument(Action, state)] \in ResolvedAction
    BY <1>1, NextIsAction, StateAssumption DEF NextAction, SessionTypeOK, ResolvedAction
  <2> QED
    BY <1>1, <2>1 DEF NextAction, HandOut, SessionTypeOK
<1>2. CASE NoMoreActions
  BY <1>2 DEF NoMoreActions, SessionTypeOK
<1>3. CASE RefuseNextAction
  BY <1>3 DEF RefuseNextAction, ReturnError, SessionTypeOK
<1>4. CASE \E evidence \in Evidence : Record(evidence)
  <2>1. PICK evidence \in Evidence : Record(evidence)
    BY <1>4
  <2>a. More
    BY <2>1, RecordedIsJudged
  <2>b. Action \in Actions /\ nextIndex + 1 \in 1 .. Len(scenario.actions)
    BY <2>a, NextIsAction
  <2>c. ObligationCount(Action) \in Nat
    BY <2>b, CountIsNatural
  <2>d. nextIndex' = nextIndex + 1 /\ evaluated' = evaluated + ObligationCount(Action)
    BY <2>1 DEF Record
  <2>2. nextIndex' \in 0 .. Len(scenario.actions) /\ evaluated' \in Nat
    BY <2>b, <2>c, <2>d DEF SessionTypeOK
  <2>3. snapshots' \in Seq(Evidence)
    BY <2>1 DEF Record, SessionTypeOK
  <2>4. state' \in State
    BY <2>1, RecordedIsModelStep
  <2> QED
    BY <2>1, <2>2, <2>3, <2>4 DEF Record, SessionTypeOK
<1>5. CASE \E evidence \in Evidence : RejectRecord(evidence)
  BY <1>5 DEF RejectRecord, ReturnError, SessionTypeOK
<1>6. CASE RefuseRecord
  BY <1>6 DEF RefuseRecord, ReturnError, SessionTypeOK
<1>7. CASE DriverFails
  BY <1>7 DEF DriverFails, SessionTypeOK
<1>8. CASE Finish
  BY <1>8 DEF Finish, SessionTypeOK
<1>9. CASE UNCHANGED sessionVars
  BY <1>9 DEF sessionVars, SessionTypeOK
<1> QED
  BY <1>1, <1>2, <1>3, <1>4, <1>5, <1>6, <1>7, <1>8, <1>9 DEF SessionNext

LEMMA RejectedStep ==
  ASSUME SessionInv, [SessionNext]_sessionVars
  PROVE  RejectedStays'
<1> USE DEF SessionInv
<1>1. CASE NextAction
  BY <1>1 DEF NextAction, HandOut, RejectedStays, Judged, JudgedEntry, More, Action
<1>2. CASE \E evidence \in Evidence : Record(evidence)
  <2>1. PICK evidence \in Evidence : Record(evidence)
    BY <1>2
  <2>a. snapshots' = Append(snapshots, evidence) /\ nextIndex' = nextIndex + 1 /\ ~awaiting'
    BY <2>1 DEF Record
  <2>b. Len(snapshots) = nextIndex + 1
    BY <2>1, RecordedIsJudged
  <2>2. Len(snapshots') = nextIndex' + 1 /\ ~awaiting'
    BY <2>a, <2>b DEF SessionTypeOK
  <2> QED
    BY <2>2, TypeStep DEF RejectedStays, SessionTypeOK
<1>3. CASE \E evidence \in Evidence : RejectRecord(evidence)
  <2>1. PICK evidence \in Evidence : RejectRecord(evidence)
    BY <1>3
  <2>2. /\ snapshots' = Append(snapshots, evidence)
        /\ ~Judged(Append(snapshots, evidence))
        /\ awaiting
        /\ UNCHANGED <<scenario, state, nextIndex, awaiting>>
    BY <2>1 DEF RejectRecord, ReturnError
  <2>3. Len(snapshots') = Len(snapshots) + 1 /\ Len(snapshots) \in Nat /\ nextIndex \in Nat
    BY <2>2 DEF SessionTypeOK
  <2> QED
    BY <2>2, <2>3 DEF RejectedStays, Judged, JudgedEntry, More, Action
<1>4. CASE UNCHANGED <<scenario, snapshots, state, nextIndex, awaiting>>
  BY <1>4 DEF RejectedStays, Judged, JudgedEntry, More, Action
<1> QED
  BY <1>1, <1>2, <1>3, <1>4
  DEF SessionNext, sessionVars, NoMoreActions, RefuseNextAction, RefuseRecord, ReturnError,
      DriverFails, Finish

LEMMA SessionInvariant == SessionSpec => []SessionInv
<1>1. SessionInv /\ [SessionNext]_sessionVars => SessionInv'
  BY TypeStep, RejectedStep DEF SessionInv
<1> QED
  BY <1>1, SessionInitInv, PTL DEF SessionSpec

\* The type invariant of the session.
THEOREM SessionTyped == SessionSpec => []SessionTypeOK
<1>1. SessionInv => SessionTypeOK
  BY DEF SessionInv
<1> QED
  BY <1>1, SessionInvariant, PTL

\* A rejected observation ends every hope of finishing the session: no later
\* call, in any order and with any evidence, advances or completes it.
THEOREM RejectionFinal == SessionSpec => RejectionIsFinal
<1>1. SessionInv /\ [SessionNext]_sessionVars
        => [Len(snapshots) > nextIndex + 1
              => nextIndex' = nextIndex /\ status' # "finished"]_sessionVars
  <2> SUFFICES ASSUME SessionInv, SessionNext, Len(snapshots) > nextIndex + 1
               PROVE  nextIndex' = nextIndex /\ status' # "finished"
    BY DEF sessionVars
  <2>1. awaiting
    BY DEF SessionInv, RejectedStays
  <2>2. CASE \E evidence \in Evidence : Record(evidence)
    BY <2>2, RecordedIsJudged DEF SessionInv, SessionTypeOK
  <2>3. CASE \E evidence \in Evidence : RejectRecord(evidence)
    BY <2>3 DEF RejectRecord, CallsRecord, ReturnError
  <2>4. CASE Finish
    BY <2>1, <2>4 DEF Finish, Complete
  <2>5. CASE NextAction \/ NoMoreActions
    BY <2>1, <2>5 DEF NextAction, NoMoreActions
  <2>6. CASE RefuseNextAction \/ RefuseRecord
    BY <2>6 DEF RefuseNextAction, RefuseRecord, CallsNext, CallsRecord, ReturnError
  <2>7. CASE DriverFails
    BY <2>7 DEF DriverFails
  <2> QED
    BY <2>2, <2>3, <2>4, <2>5, <2>6, <2>7 DEF SessionNext
<1> QED
  BY <1>1, SessionInvariant, PTL DEF SessionSpec, RejectionIsFinal

-----------------------------------------------------------------------------
\* A finished session has no action out and none left.
FinishedIsComplete == status = "finished" => ~awaiting /\ ~More

LEMMA FinishedStep ==
  ASSUME SessionInv, FinishedIsComplete, [SessionNext]_sessionVars
  PROVE  FinishedIsComplete'
<1>1. CASE Finish
  BY <1>1 DEF Finish, Complete, FinishedIsComplete, More
<1>2. CASE NextAction \/ NoMoreActions \/ RefuseNextAction
  BY <1>2 DEF NextAction, HandOut, NoMoreActions, RefuseNextAction, ReturnError, CallsNext,
              FinishedIsComplete
<1>3. CASE \E evidence \in Evidence : Record(evidence) \/ RejectRecord(evidence)
  BY <1>3 DEF Record, RejectRecord, ReturnError, CallsRecord, FinishedIsComplete
<1>4. CASE RefuseRecord \/ DriverFails
  BY <1>4 DEF RefuseRecord, DriverFails, ReturnError, CallsRecord, FinishedIsComplete
<1>5. CASE UNCHANGED sessionVars
  BY <1>5 DEF sessionVars, FinishedIsComplete, More
<1> QED
  BY <1>1, <1>2, <1>3, <1>4, <1>5 DEF SessionNext

\* The tape has one evidence per validated action, more only while a rejected
\* action is out, and a finished session has judged the whole scenario.
THEOREM TapeMatches == SessionSpec => []TapeMatchesIndex
<1>1. SessionInit => FinishedIsComplete
  BY DEF SessionInit, FinishedIsComplete
<1>2. SessionInv /\ FinishedIsComplete => TapeMatchesIndex
  <2> SUFFICES ASSUME SessionInv, FinishedIsComplete PROVE TapeMatchesIndex
    OBVIOUS
  <2>1. Len(snapshots) >= nextIndex + 1 /\ (Len(snapshots) > nextIndex + 1 => awaiting)
    BY DEF SessionInv, RejectedStays
  <2>2. ASSUME status = "finished"
        PROVE  nextIndex = Len(scenario.actions) /\ Len(snapshots) = Len(scenario.actions) + 1
    <3>1. ~awaiting /\ ~(nextIndex < Len(scenario.actions))
      BY <2>2 DEF FinishedIsComplete, More
    <3>2. nextIndex \in 0 .. Len(scenario.actions) /\ Len(snapshots) \in Nat
      BY DEF SessionInv, SessionTypeOK
    <3>3. Len(scenario.actions) \in Nat
      BY ScenarioAssumption DEF SessionInv, SessionTypeOK, Scenario
    <3> QED
      BY <2>1, <3>1, <3>2, <3>3
  <2> QED
    BY <2>1, <2>2 DEF TapeMatchesIndex
<1> QED
  BY <1>1, <1>2, FinishedStep, SessionInvariant, PTL DEF SessionSpec

-----------------------------------------------------------------------------
\* The session implements the run of the model: recording is a step of the
\* model, every other call leaves the model where it is.
LEMMA ModelInitially == SessionInit => Model!ModelInit
<1> SUFFICES ASSUME SessionInit PROVE Model!ModelInit
  OBVIOUS
<1>1. state \in State /\ scenario \in Scenarios /\ nextIndex = 0
  BY SessionInitInv DEF SessionInv, SessionTypeOK, SessionInit
<1>2. scenario.hydrated => state = scenario.initial
  BY DEF SessionInit, Created
<1> QED
  BY <1>1, <1>2 DEF Model!ModelInit, Model!State, State

LEMMA ModelStepOrStutter ==
  ASSUME SessionInv, [SessionNext]_sessionVars
  PROVE  [Model!Take]_Model!modelVars
<1>1. CASE \E evidence \in Evidence : Record(evidence)
  <2>1. PICK evidence \in Evidence : Record(evidence)
    BY <1>1
  <2>2. More /\ ModelStep(Action, state, state')
    BY <2>1, RecordedIsJudged, RecordedIsModelStep
  <2>3. nextIndex' = nextIndex + 1 /\ scenario' = scenario
    BY <2>1 DEF Record
  <2>4. Model!Take
    BY <2>2, <2>3 DEF Model!Take, Model!ModelStep, Model!Takes, ModelStep, Takes, More, Action
  <2> QED
    BY <2>4
<1>2. CASE UNCHANGED <<scenario, state, nextIndex>>
  BY <1>2 DEF Model!modelVars
<1> QED
  BY <1>1, <1>2
  DEF SessionNext, sessionVars, NextAction, HandOut, NoMoreActions, RefuseNextAction,
      RejectRecord, RefuseRecord, ReturnError, DriverFails, Finish

\* For every model, scenario, evidence and order of calls, the projected state
\* of a session goes through a run of the model along the scenario.
THEOREM SessionImplementsModel == SessionSpec => ImplementsModel
BY ModelInitially, ModelStepOrStutter, SessionInvariant, PTL
DEF SessionSpec, ImplementsModel, Model!ModelSpec

-----------------------------------------------------------------------------
\* FollowsTrace, taken apart.
Live == Valid(scenario) /\ status # "refused"

EvidenceFollows(i) ==
  /\ Agrees(snapshots[i + 1], scenario.trace[i + 1])
  /\ \A f \in Reads(scenario.actions[i]) :
       scenario.trace[i + 1][f] # scenario.trace[i][f] => f \in DOMAIN snapshots[i + 1]

LEMMA TraceInitially == SessionInit => FollowsTrace
<1> SUFFICES ASSUME SessionInit, Live PROVE state = scenario.trace[1] /\ nextIndex = 0
  BY DEF FollowsTrace, Live
<1>1. scenario.hydrated /\ scenario.trace[1] = scenario.initial
  BY DEF Live, Valid
<1> QED
  BY <1>1 DEF SessionInit, Created

LEMMA RecordFollows ==
  ASSUME SessionInv, FollowsTrace, Live, NEW evidence \in Evidence, Record(evidence)
  PROVE  /\ state' = scenario.trace[nextIndex + 2]
         /\ \A i \in 1 .. nextIndex + 1 : EvidenceFollows(i)'
<1>1. More /\ Action \in Actions /\ nextIndex + 1 \in 1 .. Len(scenario.actions) /\ nextIndex \in Nat
  BY RecordedIsJudged, NextIsAction DEF SessionInv, SessionTypeOK
<1>2. state = scenario.trace[nextIndex + 1] /\ state \in State
  BY DEF FollowsTrace, Live, SessionInv, SessionTypeOK
<1>3. Validates(Action, state, scenario.trace[nextIndex + 2], evidence)
  BY RecordedIsJudged
<1>4. ModelStep(Action, scenario.trace[nextIndex + 1], scenario.trace[nextIndex + 2])
  <2>1. (nextIndex + 1) + 1 = nextIndex + 2
    BY <1>1
  <2> QED
    BY <1>1, <2>1 DEF Live, Valid, Action
<1>5. ModelNext(Action, state) = scenario.trace[nextIndex + 2]
  BY <1>1, <1>2, <1>3, <1>4, ValidatedFollowsQuint
<1>6. state' = scenario.trace[nextIndex + 2]
  BY <1>5, RecordedIsModelStep
<1>7. /\ Agrees(evidence, scenario.trace[nextIndex + 2])
      /\ \A f \in Reads(Action) :
           scenario.trace[nextIndex + 2][f] # scenario.trace[nextIndex + 1][f] => f \in DOMAIN evidence
  BY <1>1, <1>2, <1>3, <1>5, ValidatedEvidenceAgrees
<1>8. snapshots' = Append(snapshots, evidence) /\ scenario' = scenario
  BY DEF Record
<1>9. snapshots \in Seq(Evidence) /\ Len(snapshots) = nextIndex + 1
  BY RecordedIsJudged DEF SessionInv, SessionTypeOK
<1>10. ASSUME NEW i \in 1 .. nextIndex + 1
       PROVE  EvidenceFollows(i)'
  <2>1. CASE i = nextIndex + 1
    <3>1. snapshots'[i + 1] = evidence /\ i + 1 = nextIndex + 2
      BY <2>1, <1>1, <1>8, <1>9
    <3> QED
      BY <2>1, <3>1, <1>7, <1>8 DEF EvidenceFollows, Agrees, Action
  <2>2. CASE i \in 1 .. nextIndex
    <3>1. snapshots'[i + 1] = snapshots[i + 1]
      BY <2>2, <1>1, <1>8, <1>9
    <3>2. EvidenceFollows(i)
      BY <2>2 DEF FollowsTrace, Live, EvidenceFollows
    <3> QED
      BY <3>1, <3>2, <1>8 DEF EvidenceFollows, Agrees
  <2> QED
    BY <1>10, <1>1, <2>1, <2>2
<1> QED
  BY <1>6, <1>10

LEMMA TraceStep ==
  ASSUME SessionInv, FollowsTrace, [SessionNext]_sessionVars
  PROVE  FollowsTrace'
<1>1. CASE \E evidence \in Evidence : Record(evidence)
  <2>1. PICK evidence \in Evidence : Record(evidence)
    BY <1>1
  <2>2. nextIndex' = nextIndex + 1 /\ scenario' = scenario /\ status' = status /\ nextIndex \in Nat
    BY <2>1 DEF Record, SessionInv, SessionTypeOK
  <2> SUFFICES ASSUME Live
               PROVE  /\ state' = scenario'.trace[nextIndex' + 1]
                      /\ \A i \in 1 .. nextIndex' : EvidenceFollows(i)'
    BY <2>2 DEF FollowsTrace, EvidenceFollows, Live
  <2>3. nextIndex' + 1 = nextIndex + 2
    BY <2>2
  <2> QED
    BY <2>1, <2>2, <2>3, RecordFollows
<1>2. CASE \E evidence \in Evidence : RejectRecord(evidence)
  <2>1. PICK evidence \in Evidence : RejectRecord(evidence)
    BY <1>2
  <2>2. /\ snapshots' = Append(snapshots, evidence)
        /\ UNCHANGED <<scenario, state, nextIndex>>
        /\ status = "open"
    BY <2>1 DEF RejectRecord, ReturnError, CallsRecord
  <2>3. Len(snapshots) >= nextIndex + 1 /\ nextIndex \in Nat /\ snapshots \in Seq(Evidence)
    BY DEF SessionInv, SessionTypeOK, RejectedStays
  <2>4. \A i \in 1 .. nextIndex : snapshots'[i + 1] = snapshots[i + 1]
    BY <2>2, <2>3
  <2>5. ASSUME NEW i \in 1 .. nextIndex, EvidenceFollows(i)
        PROVE  EvidenceFollows(i)'
    BY <2>2, <2>4, <2>5 DEF EvidenceFollows, Agrees
  <2> SUFFICES ASSUME Live'
               PROVE  /\ state' = scenario'.trace[nextIndex' + 1]
                      /\ \A i \in 1 .. nextIndex' : EvidenceFollows(i)'
    BY DEF FollowsTrace, EvidenceFollows, Live
  <2>6. /\ state = scenario.trace[nextIndex + 1]
        /\ \A i \in 1 .. nextIndex : EvidenceFollows(i)
    BY <2>2 DEF FollowsTrace, EvidenceFollows, Live
  <2> QED
    BY <2>2, <2>5, <2>6
<1>3. CASE UNCHANGED <<scenario, snapshots, state, nextIndex>> /\ (status' # "refused" => status # "refused")
  BY <1>3 DEF FollowsTrace, Agrees
<1> QED
  BY <1>1, <1>2, <1>3
  DEF SessionNext, sessionVars, NextAction, HandOut, NoMoreActions, RefuseNextAction, CallsNext,
      RefuseRecord, CallsRecord, ReturnError, DriverFails, Finish, CallsFinish

\* The reducer never drifts: along a scenario Quint has run, the state of the
\* session is Quint's, whatever sparse evidence it was fed.
THEOREM SessionFollowsTrace == SessionSpec => []FollowsTrace
BY TraceInitially, TraceStep, SessionInvariant, PTL DEF SessionSpec

-----------------------------------------------------------------------------
LEMMA DispatchStep ==
  ASSUME SessionInv, FollowsTrace, DispatchedInOrder, [SessionNext]_sessionVars
  PROVE  DispatchedInOrder'
<1>0. dispatched \in Seq(ResolvedAction) /\ nextIndex \in Nat
  BY DEF SessionInv, SessionTypeOK
<1>1. CASE NextAction
  <2> DEFINE new == [action |-> Action, argument |-> Argument(Action, state)]
  <2>1. dispatched' = Append(dispatched, new) /\ UNCHANGED <<scenario, state, nextIndex>>
    BY <1>1 DEF NextAction, HandOut
  <2>2. Len(dispatched) = nextIndex /\ awaiting'
    BY <1>1, <1>0 DEF NextAction, HandOut, DispatchedInOrder
  <2>3. Valid(scenario) => state = scenario.trace[nextIndex + 1]
    BY <1>1 DEF NextAction, CallsNext, FollowsTrace
  <2>4. Len(dispatched') = nextIndex + 1 /\ dispatched'[nextIndex + 1] = new
    BY <1>0, <2>1, <2>2
  <2>5. new.action = scenario.actions[nextIndex + 1] /\ new.argument = Argument(new.action, state)
    BY DEF Action
  <2>6. ASSUME NEW i \in DOMAIN dispatched'
        PROVE  /\ dispatched'[i].action = scenario.actions[i]
               /\ Valid(scenario) =>
                    dispatched'[i].argument = Argument(dispatched'[i].action, scenario.trace[i])
    <3>1. CASE i \in DOMAIN dispatched
      <4>1. dispatched'[i] = dispatched[i]
        BY <3>1, <1>0, <2>1
      <4> QED
        BY <3>1, <4>1 DEF DispatchedInOrder
    <3>2. CASE i = nextIndex + 1
      BY <3>2, <2>3, <2>4, <2>5
    <3> QED
      BY <2>6, <3>1, <3>2, <1>0, <2>1, <2>2
  <2> QED
    BY <2>1, <2>2, <2>4, <2>6 DEF DispatchedInOrder
<1>2. CASE \E evidence \in Evidence : Record(evidence)
  <2>1. /\ awaiting /\ ~awaiting'
        /\ nextIndex' = nextIndex + 1
        /\ UNCHANGED <<scenario, dispatched>>
    BY <1>2 DEF Record
  <2> QED
    BY <2>1, <1>0 DEF DispatchedInOrder
<1>3. CASE UNCHANGED <<scenario, nextIndex, awaiting, dispatched>>
  BY <1>3 DEF DispatchedInOrder
<1> QED
  BY <1>1, <1>2, <1>3
  DEF SessionNext, sessionVars, NoMoreActions, RefuseNextAction, RejectRecord, RefuseRecord,
      ReturnError, DriverFails, Finish

\* The actions of the scenario are handed out in order, once each, with the
\* arguments they have in Quint's run, whatever the caller does in between.
THEOREM DispatchInOrder == SessionSpec => []DispatchedInOrder
<1>1. SessionInit => DispatchedInOrder
  BY DEF SessionInit, DispatchedInOrder
<1> QED
  BY <1>1, DispatchStep, SessionInvariant, SessionFollowsTrace, PTL DEF SessionSpec

-----------------------------------------------------------------------------
\* A tape that is longer by one evidence is reduced in the same way.
LEMMA LongerTapeAgrees ==
  ASSUME SessionInv, NEW evidence
  PROVE  EvaluateTape(scenario, Append(snapshots, evidence), nextIndex)
           = EvaluateTape(scenario, snapshots, nextIndex)
<1>1. nextIndex \in Nat /\ snapshots \in Seq(Evidence) /\ Len(snapshots) >= nextIndex + 1
  BY DEF SessionInv, SessionTypeOK, RejectedStays
<1>2. \A i \in 1 .. nextIndex + 1 : snapshots[i] = Append(snapshots, evidence)[i]
  BY <1>1
<1> QED
  BY <1>1, <1>2, EvaluateTapePrefix

LEMMA BatchInitially == SessionInit => BatchAgrees
<1> SUFFICES ASSUME SessionInit, scenario.hydrated, status # "refused"
             PROVE  EvaluateTape(scenario, snapshots, 0) = [ok |-> TRUE, state |-> state, evaluated |-> 0]
  BY DEF SessionInit, BatchAgrees
<1>1. snapshots[1] = scenario.initial /\ state = scenario.initial
  BY DEF SessionInit, Created
<1> QED
  BY <1>1, EvaluateTapeStarts DEF TapeStart

LEMMA BatchStep ==
  ASSUME SessionInv, BatchAgrees, [SessionNext]_sessionVars
  PROVE  BatchAgrees'
<1>1. CASE \E evidence \in Evidence : Record(evidence)
  <2>1. PICK evidence \in Evidence : Record(evidence)
    BY <1>1
  <2> DEFINE tape == Append(snapshots, evidence)
  <2>2. /\ snapshots' = tape
        /\ nextIndex' = nextIndex + 1
        /\ state' = MergeObservedState(Action, ModelNext(Action, state), evidence)
        /\ evaluated' = evaluated + ObligationCount(Action)
        /\ UNCHANGED <<scenario, status>>
    BY <2>1, RecordedIsJudged DEF Record, Reduced, JudgedEntry
  <2>3. nextIndex \in Nat /\ nextIndex + 1 + 1 = nextIndex + 2
    BY DEF SessionInv, SessionTypeOK
  <2>4. Validates(Action, state, scenario.trace[nextIndex + 2], tape[nextIndex + 2])
    BY <2>1, RecordedIsJudged
  <2>5. tape[nextIndex + 2] = evidence
    BY <2>1, RecordedIsJudged
  <2> HIDE DEF tape
  <2> SUFFICES ASSUME scenario.hydrated, status # "refused"
               PROVE  EvaluateTape(scenario, tape, nextIndex + 1)
                        = [ok |-> TRUE, state |-> state', evaluated |-> evaluated']
    BY <2>2 DEF BatchAgrees
  <2>6. EvaluateTape(scenario, tape, nextIndex) = [ok |-> TRUE, state |-> state, evaluated |-> evaluated]
    BY LongerTapeAgrees DEF BatchAgrees, tape
  <2>7. EvaluateTape(scenario, tape, nextIndex + 1)
          = TapeTurn(scenario, tape, nextIndex + 1, [ok |-> TRUE, state |-> state, evaluated |-> evaluated])
    BY <2>3, <2>6, EvaluateTapeTurns
  <2> QED
    BY <2>2, <2>3, <2>4, <2>5, <2>7 DEF TapeTurn, Action
<1>2. CASE \E evidence \in Evidence : RejectRecord(evidence)
  <2>1. PICK evidence \in Evidence : RejectRecord(evidence)
    BY <1>2
  <2>2. /\ snapshots' = Append(snapshots, evidence)
        /\ UNCHANGED <<scenario, state, nextIndex, evaluated>>
        /\ status = "open"
    BY <2>1 DEF RejectRecord, ReturnError, CallsRecord
  <2> QED
    BY <2>2, LongerTapeAgrees DEF BatchAgrees
<1>3. CASE /\ UNCHANGED <<scenario, snapshots, state, nextIndex, evaluated>>
           /\ status' # "refused" => status # "refused"
  BY <1>3 DEF BatchAgrees
<1> QED
  BY <1>1, <1>2, <1>3
  DEF SessionNext, sessionVars, NextAction, HandOut, NoMoreActions, RefuseNextAction, CallsNext,
      RefuseRecord, CallsRecord, ReturnError, DriverFails, Finish, CallsFinish

\* The two evaluators agree for every model, scenario and tape: reducing the
\* session's tape again accepts the same actions, counts the same obligations
\* and ends in the same state as the session, retries and rejections included.
THEOREM SessionAgreesWithBatch == SessionSpec => []BatchAgrees
BY BatchInitially, BatchStep, SessionInvariant, PTL DEF SessionSpec

-----------------------------------------------------------------------------
\* What the loop has called last tells what it may call next: it never asks for
\* an action while one is out, never records without one, and finishes only when
\* none is left.
LoopOrder ==
  InLoop /\ status = "open" =>
    \/ reply \in {"created", "recorded"} /\ ~awaiting
    \/ reply = "action" /\ awaiting
    \/ reply = "end" /\ ~awaiting /\ ~More

LEMMA LoopOrderStep ==
  ASSUME SessionInv, LoopOrder, [SessionNext]_sessionVars
  PROVE  LoopOrder'
<1>1. CASE NextAction
  BY <1>1 DEF NextAction, HandOut, LoopOrder, InLoop
<1>2. CASE NoMoreActions
  BY <1>2 DEF NoMoreActions, LoopOrder, InLoop, More
<1>3. CASE RefuseNextAction \/ RefuseRecord \/ \E evidence \in Evidence : RejectRecord(evidence)
  BY <1>3 DEF RefuseNextAction, RefuseRecord, RejectRecord, ReturnError, LoopOrder, InLoop
<1>4. CASE \E evidence \in Evidence : Record(evidence)
  BY <1>4 DEF Record, LoopOrder, InLoop
<1>5. CASE DriverFails \/ Finish
  BY <1>5 DEF DriverFails, Finish, LoopOrder
<1>6. CASE UNCHANGED sessionVars
  BY <1>6 DEF sessionVars, LoopOrder, InLoop, More
<1> QED
  BY <1>1, <1>2, <1>3, <1>4, <1>5, <1>6 DEF SessionNext

\* The hypotheses of FaithfulIsAccepted.
Suited == Valid(scenario) /\ Retrievable(scenario) /\ FirstAlternative(scenario)

FaithfulSoFar == Suited /\ InLoop /\ Len(snapshots) <= Len(scenario.trace) /\ Faithful

LEMMA FaithfulUnfolds == FaithfulIsAccepted <=> (FaithfulSoFar => reply # "error")
  BY DEF FaithfulIsAccepted, FaithfulSoFar, Suited

LEMMA FaithfulInitially == SessionInit => FaithfulIsAccepted
<1> SUFFICES ASSUME SessionInit, FaithfulSoFar PROVE reply # "error"
  BY FaithfulUnfolds
<1>1. PICK init :
        /\ snapshots = <<init>>
        /\ reply = (IF Created(init) THEN "created" ELSE "error")
  BY DEF SessionInit
<1>2. init = scenario.trace[1]
  BY <1>1 DEF FaithfulSoFar, Faithful
<1>3. Created(init)
  BY <1>2 DEF FaithfulSoFar, Suited, Valid, Created
<1> QED
  BY <1>1, <1>3

\* In Quint's state the next action may start.
LEMMA NextMayStart ==
  ASSUME SessionInv, FollowsTrace, Suited, status # "refused", More
  PROVE  /\ Dispatchable
         /\ state = scenario.trace[nextIndex + 1] /\ state \in State
         /\ scenario.trace[nextIndex + 2] \in State
         /\ Supported(Action)
         /\ ModelStep(Action, state, scenario.trace[nextIndex + 2])
         /\ CanAssign(Action, state)
         /\ scenario.trace[nextIndex + 2] = ModelNext(Action, state)
<1>1. Action \in Actions /\ nextIndex + 1 \in 1 .. Len(scenario.actions) /\ nextIndex \in Nat
  BY NextIsAction DEF SessionInv, SessionTypeOK
<1>2. state = scenario.trace[nextIndex + 1] /\ state \in State
  BY DEF FollowsTrace, Suited, SessionInv, SessionTypeOK
<1>3. nextIndex + 1 + 1 = nextIndex + 2 /\ nextIndex + 2 \in 1 .. Len(scenario.actions) + 1
  BY <1>1
<1>4. scenario.trace[nextIndex + 2] \in State
  BY <1>3, ScenarioTypes DEF SessionInv, SessionTypeOK
<1>5. Supported(Action)
  BY <1>1 DEF Suited, Retrievable, Action
<1>6. ModelStep(Action, state, scenario.trace[nextIndex + 2])
  BY <1>1, <1>2, <1>3 DEF Suited, Valid, Action
<1>7. CanAssign(Action, state) /\ scenario.trace[nextIndex + 2] = ModelNext(Action, state)
  BY <1>1, <1>2, <1>3 DEF Suited, FirstAlternative, Action
<1>8. PreGuardsHold(Action, state)
  BY <1>1, <1>5, <1>6, RetrieveAssumption DEF PreGuardsHold, Supported, ModelStep, Takes
<1> QED
  BY <1>2, <1>4, <1>5, <1>6, <1>7, <1>8 DEF Dispatchable

LEMMA FaithfulStep ==
  ASSUME SessionInv, FollowsTrace, LoopOrder, FaithfulIsAccepted, [SessionNext]_sessionVars
  PROVE  FaithfulIsAccepted'
<1>0. snapshots \in Seq(Evidence) /\ nextIndex \in Nat /\ Len(snapshots) >= nextIndex + 1
  BY DEF SessionInv, SessionTypeOK, RejectedStays
<1>1. CASE RefuseNextAction
  <2>1. CASE Suited /\ InLoop
    <3>1. ~awaiting /\ status = "open"
      BY <1>1, <2>1 DEF RefuseNextAction, CallsNext, LoopOrder
    <3>2. More => Dispatchable
      BY <2>1, <3>1, NextMayStart
    <3> QED
      BY <1>1, <3>1, <3>2 DEF RefuseNextAction
  <2>2. CASE ~(Suited /\ InLoop)
    BY <1>1, <2>2 DEF RefuseNextAction, ReturnError, FaithfulIsAccepted, Suited, InLoop
  <2> QED
    BY <2>1, <2>2
<1>2. CASE \E evidence \in Evidence : RejectRecord(evidence)
  <2>1. PICK evidence \in Evidence : RejectRecord(evidence)
    BY <1>2
  <2> DEFINE tape == Append(snapshots, evidence)
  <2>2. snapshots' = tape /\ scenario' = scenario /\ caller' = caller /\ awaiting /\ ~Judged(tape) /\ status = "open"
    BY <2>1 DEF RejectRecord, ReturnError, CallsRecord
  <2> SUFFICES ASSUME FaithfulSoFar' PROVE FALSE
    BY DEF FaithfulIsAccepted, FaithfulSoFar, Suited
  <2>3. Suited /\ More
    BY <2>2 DEF FaithfulSoFar, Suited, SessionInv, RejectedStays
  <2>4. nextIndex + 2 \in DOMAIN tape
    BY <1>0
  <2>5. tape[nextIndex + 2] = scenario.trace[nextIndex + 2]
    BY <2>2, <2>4 DEF FaithfulSoFar, Faithful
  <2>6. Action \in Actions
    BY <2>3, NextIsAction DEF SessionInv
  <2>7. Validates(Action, state, scenario.trace[nextIndex + 2], scenario.trace[nextIndex + 2])
    BY <2>2, <2>3, <2>6, NextMayStart, FaithfulValidates
  <2> QED
    BY <2>2, <2>5, <2>7 DEF Judged, JudgedEntry
<1>3. CASE RefuseRecord
  <2>1. CASE InLoop
    BY <1>3, <2>1 DEF RefuseRecord, CallsRecord, LoopOrder
  <2>2. CASE ~InLoop
    BY <1>3, <2>2 DEF RefuseRecord, ReturnError, FaithfulIsAccepted, InLoop
  <2> QED
    BY <2>1, <2>2
<1>4. CASE Finish
  <2>1. CASE InLoop
    BY <1>4, <2>1 DEF Finish, CallsFinish, Complete, LoopOrder, FaithfulIsAccepted
  <2>2. CASE ~InLoop
    BY <1>4, <2>2 DEF Finish, FaithfulIsAccepted, InLoop
  <2> QED
    BY <2>1, <2>2
<1>5. CASE UNCHANGED sessionVars
  BY <1>5 DEF sessionVars, FaithfulIsAccepted, Faithful, InLoop
<1>6. CASE reply' \in {"action", "end", "recorded", "driverError"}
  BY <1>6 DEF FaithfulIsAccepted
<1> QED
  BY <1>1, <1>2, <1>3, <1>4, <1>5, <1>6
  DEF SessionNext, NextAction, HandOut, NoMoreActions, Record, DriverFails

\* The reducer rejects nobody for nothing: along a scenario Quint has run, the
\* loop never fails an implementation that does what Quint did, where the adapter
\* retrieves what the obligations read and Quint took the first alternatives.
THEOREM SessionAcceptsFaithful == SessionSpec => []FaithfulIsAccepted
<1>1. SessionInit => LoopOrder
  BY DEF SessionInit, LoopOrder, Created
<1> QED
  BY <1>1, FaithfulInitially, FaithfulStep, LoopOrderStep, SessionInvariant, SessionFollowsTrace, PTL
  DEF SessionSpec

=============================================================================
