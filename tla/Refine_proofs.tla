----------------------------- MODULE Refine_proofs ----------------------------
(***************************************************************************)
(* What refine_scenario guarantees for every ownership table, every        *)
(* scenario and every driver: the scheduler's theorems and the reducer's   *)
(* lemmas, put together by the one count that ties them, action_offset.    *)
(***************************************************************************)
EXTENDS Refine, Schedule_proofs, ActionStep_proofs

\* The scheduler runs inside the call as it does alone.
LEMMA SchedulerStep == [RefineNext]_refineVars => [ScheduleNext]_scheduleVars
  BY DEF RefineNext, ScheduleStep, OwnStep, DriverStep, refineVars

LEMMA SchedulerRuns == RefineSpec => [](ScheduleTypeOK /\ RunsTileTape)
<1>1. RefineInit => ScheduleTypeOK /\ RunsTileTape
  BY TapesAssumption DEF RefineInit, ScheduleInit, ScheduleTypeOK, RunsTileTape
<1>2. ScheduleTypeOK /\ RunsTileTape /\ [ScheduleNext]_scheduleVars => (ScheduleTypeOK /\ RunsTileTape)'
  BY TypeStep, TypesOfData, TilingStep
<1> QED
  BY <1>1, <1>2, SchedulerStep, PTL DEF RefineSpec

-----------------------------------------------------------------------------
\* How much of the scenario the first k runs cover.
Covered(k) == IF k = 0 THEN 0 ELSE End(runs[k])

Phases == {"starting", "ready", "awaiting", "rejected", "miscounted", "driverFailed", "accepted"}

\* Run i was handed the scenario's actions it owns.
HandedOut(i) ==
  /\ dispatched[i].primitive = runs[i].primitive
  /\ Len(dispatched[i].actions) = Len(runs[i].owned)
  /\ \A j \in DOMAIN dispatched[i].actions :
       dispatched[i].actions[j].action = scenario.actions[runs[i].at + j]
  /\ runs[i].at <= offset

\* The inductive invariant: between two primitives the offset, the tape and the
\* runs dispatched so far cover the same actions, and while a primitive runs they
\* are behind by just its own.
DriveTyped ==
  /\ scenario \in Scenarios
  /\ tape = ActionNames(scenario)
  /\ phase \in Phases
  /\ verdict # "scheduled" => phase = "starting"
  /\ verdict = "scheduled" => index = Len(tape)
  /\ phase = "starting" => dispatched = <<>> /\ offset = 0 /\ snapshots = <<>>
  /\ offset \in Nat
  /\ dispatched \in Seq(Range(dispatched))
  /\ snapshots \in Seq(Answer)
  /\ phase # "starting" => Len(snapshots) >= offset + 1

DriveCounts ==
  /\ Len(dispatched) <= Len(runs)
  /\ \A i \in DOMAIN dispatched : HandedOut(i)
  /\ phase = "ready" => offset = Covered(Len(dispatched))
  /\ phase = "awaiting" => dispatched # <<>> /\ offset = Covered(Len(dispatched) - 1)
  /\ phase \in {"ready", "awaiting"} => Len(snapshots) = offset + 1
  /\ phase = "accepted" =>
       /\ Len(dispatched) = Len(runs)
       /\ offset = Len(scenario.actions)
       /\ Len(snapshots) = Len(scenario.actions) + 1
       /\ scenario.hydrated => dispatched # <<>>

DriveInv == ScheduleTypeOK /\ RunsTileTape /\ DriveTyped /\ DriveCounts

\* The k-th run starts where the ones before it end, within the scenario.
LEMMA RunStarts ==
  ASSUME DriveInv, NEW k \in DOMAIN runs
  PROVE  /\ k \in Nat /\ k # 0 /\ k - 1 \in Nat /\ k <= Len(runs)
         /\ runs[k].at = Covered(k - 1) /\ runs[k].at \in Nat
         /\ runs[k].owned \in Seq(Names) /\ runs[k].owned # <<>> /\ Len(runs[k].owned) \in Nat \ {0}
         /\ DOMAIN runs[k].owned = 1 .. Len(runs[k].owned)
         /\ Covered(k) = runs[k].at + Len(runs[k].owned)
         /\ Covered(k) <= Len(tape)
         /\ Occurs(runs[k].owned, tape, runs[k].at)
<1>1. runs \in Seq(Run) /\ DOMAIN runs = 1 .. Len(runs) /\ Len(runs) \in Nat
  BY DEF DriveInv, ScheduleTypeOK
<1>2. runs[k] \in Run /\ k \in Nat /\ k # 0 /\ k - 1 \in Nat /\ k <= Len(runs)
  BY <1>1
<1>3. runs[k].owned \in Seq(Names) /\ runs[k].at \in Nat
  BY <1>2 DEF Run
<1>4. runs[k].owned # <<>> /\ Occurs(runs[k].owned, tape, runs[k].at)
  BY DEF DriveInv, RunsTileTape
<1>5. runs[k].at = Covered(k - 1)
  BY <1>2 DEF DriveInv, RunsTileTape, Covered
<1>6. Covered(k) = runs[k].at + Len(runs[k].owned)
  BY <1>2 DEF Covered, End
<1> QED
  BY <1>2, <1>3, <1>4, <1>5, <1>6 DEF Occurs

LEMMA TapeIsScenario ==
  ASSUME DriveInv
  PROVE  Len(tape) = Len(scenario.actions) /\ Len(tape) \in Nat
<1>1. scenario.actions \in Seq(Actions)
  BY ScenarioTypes DEF DriveInv, DriveTyped
<1> QED
  BY <1>1 DEF DriveInv, DriveTyped, ActionNames

\* All runs together cover the whole scenario.
LEMMA AllRunsCover ==
  ASSUME DriveInv, verdict = "scheduled"
  PROVE  Covered(Len(runs)) = Len(scenario.actions)
<1>1. runs \in Seq(Run)
  BY DEF DriveInv, ScheduleTypeOK
<1>2. index = Covered(Len(runs))
  BY <1>1 DEF DriveInv, RunsTileTape, Covered
<1> QED
  BY <1>2, TapeIsScenario DEF DriveInv, DriveTyped

\* The offset never leaves the scenario.
LEMMA OffsetWithin ==
  ASSUME DriveInv, phase \in {"ready", "awaiting"}
  PROVE  /\ offset \in 0 .. Len(scenario.actions)
         /\ phase = "ready" /\ NextRun <= Len(runs) =>
              /\ NextRun \in DOMAIN runs
              /\ runs[NextRun].at = offset
              /\ offset + 1 \in 1 .. Len(scenario.actions)
<1>1. runs \in Seq(Run) /\ DOMAIN runs = 1 .. Len(runs)
  BY DEF DriveInv, ScheduleTypeOK
<1>2. Len(dispatched) \in Nat /\ Len(dispatched) <= Len(runs) /\ offset \in Nat
  BY DEF DriveInv, DriveTyped, DriveCounts
<1>3. ASSUME NEW k \in Nat, k <= Len(runs)
      PROVE  Covered(k) <= Len(scenario.actions)
  <2>1. CASE k = 0
    BY <2>1, TapeIsScenario DEF Covered
  <2>2. CASE k # 0
    BY <1>1, <1>3, <2>2, RunStarts, TapeIsScenario
  <2> QED
    BY <2>1, <2>2
<1>4. offset <= Len(scenario.actions)
  <2>1. CASE phase = "ready"
    BY <1>2, <1>3, <2>1 DEF DriveInv, DriveCounts
  <2>2. CASE phase = "awaiting"
    <3>1. dispatched # <<>> /\ offset = Covered(Len(dispatched) - 1)
      BY <2>2 DEF DriveInv, DriveCounts
    <3>2. Len(dispatched) - 1 \in Nat /\ Len(dispatched) - 1 <= Len(runs)
      BY <1>2, <3>1 DEF DriveInv, DriveTyped
    <3> QED
      BY <1>3, <3>1, <3>2
  <2> QED
    BY <2>1, <2>2
<1>5. ASSUME phase = "ready", NextRun <= Len(runs)
      PROVE  /\ NextRun \in DOMAIN runs
             /\ runs[NextRun].at = offset
             /\ offset + 1 \in 1 .. Len(scenario.actions)
  <2>1. NextRun \in DOMAIN runs /\ NextRun - 1 = Len(dispatched)
    BY <1>1, <1>2, <1>5 DEF NextRun
  <2>2. runs[NextRun].at = offset
    BY <1>5, <2>1, RunStarts DEF DriveInv, DriveCounts
  <2>3. offset + Len(runs[NextRun].owned) <= Len(scenario.actions) /\ Len(runs[NextRun].owned) \in Nat \ {0}
    BY <2>1, <2>2, RunStarts, TapeIsScenario
  <2> QED
    BY <1>2, <2>1, <2>2, <2>3, TapeIsScenario
<1> QED
  BY <1>2, <1>4, <1>5, TapeIsScenario

-----------------------------------------------------------------------------
LEMMA DriveInitially ==
  ASSUME RefineInit
  PROVE  DriveTyped /\ DriveCounts
<1>1. /\ scenario \in Scenarios /\ tape = ActionNames(scenario) /\ phase = "starting"
      /\ dispatched = <<>> /\ offset = 0 /\ snapshots = <<>> /\ runs = <<>> /\ verdict = "collecting"
  BY DEF RefineInit, ScheduleInit
<1>2. dispatched \in Seq(Range(dispatched)) /\ snapshots \in Seq(Answer)
  BY <1>1
<1>3. DriveTyped
  BY <1>1, <1>2 DEF DriveTyped, Phases
<1>4. DriveCounts
  BY <1>1 DEF DriveCounts
<1> QED
  BY <1>3, <1>4

\* The scheduler moves only before anything is driven.
LEMMA SchedulingKeepsDrive ==
  ASSUME DriveInv, ScheduleStep, ScheduleTypeOK'
  PROVE  DriveTyped' /\ DriveCounts'
<1>1. /\ UNCHANGED <<scenario, snapshots, state, offset, dispatched, phase>>
      /\ verdict # "scheduled" /\ tape' = tape
      /\ verdict' = "scheduled" => index' = Len(tape')
  BY DEF ScheduleStep, driveVars, ScheduleNext, Collect, RefuseTables, ScheduleCompound,
         ScheduleSingleton, RefuseAmbiguous, RefusePartial, RefuseUnowned, FinishSchedule,
         Scheduling, Cut, Refuse
<1>2. phase = "starting" /\ dispatched = <<>> /\ offset = 0 /\ snapshots = <<>>
  BY <1>1 DEF DriveInv, DriveTyped
<1>3. Answer' = Answer
  BY <1>1 DEF Answer
<1>4. DriveTyped'
  BY <1>1, <1>2, <1>3 DEF DriveInv, DriveTyped
<1>5. Len(runs') \in Nat
  BY DEF ScheduleTypeOK
<1>6. DriveCounts'
  BY <1>1, <1>2, <1>5 DEF DriveCounts
<1> QED
  BY <1>4, <1>6

\* A step that only ends the call, or does nothing.
LEMMA EndingKeepsDrive ==
  ASSUME DriveInv, UNCHANGED scheduleVars, UNCHANGED <<scenario, offset, dispatched, snapshots>>,
         \/ verdict = "scheduled" /\ phase # "starting" /\ phase' \in {"rejected", "miscounted", "driverFailed"}
         \/ phase' = phase
  PROVE  DriveTyped' /\ DriveCounts'
<1>1. Answer' = Answer
  BY DEF Answer
<1>2. DriveTyped'
  BY <1>1 DEF DriveInv, DriveTyped, scheduleVars, Phases
<1>3. \A i : HandedOut(i)' <=> HandedOut(i)
  BY DEF HandedOut, scheduleVars
<1>4. \A k : Covered(k)' = Covered(k)
  BY DEF Covered, End, scheduleVars
<1>5. DriveCounts'
  BY <1>3, <1>4 DEF DriveInv, DriveCounts, scheduleVars
<1> QED
  BY <1>2, <1>5

LEMMA StartingKeepsDrive ==
  ASSUME DriveInv, UNCHANGED scheduleVars, NEW init \in Answer, Start(init) \/ RejectStart(init)
  PROVE  DriveTyped' /\ DriveCounts'
<1>1. /\ verdict = "scheduled" /\ phase = "starting" /\ snapshots' = <<init>>
      /\ UNCHANGED <<scenario, offset, dispatched>> /\ phase' \in {"ready", "rejected"}
  BY DEF Start, RejectStart
<1>2. dispatched = <<>> /\ offset = 0
  BY <1>1 DEF DriveInv, DriveTyped
<1>3. Answer' = Answer
  BY <1>1 DEF Answer
<1>4. snapshots' \in Seq(Answer') /\ Len(snapshots') = 1
  BY <1>1, <1>3
<1>5. DriveTyped'
  BY <1>1, <1>2, <1>4 DEF DriveInv, DriveTyped, scheduleVars, Phases
<1>6. Len(runs) \in Nat
  BY DEF DriveInv, ScheduleTypeOK
<1>7. Covered(0)' = 0
  BY DEF Covered
<1>8. DriveCounts'
  BY <1>1, <1>2, <1>4, <1>6, <1>7 DEF DriveCounts, scheduleVars
<1> QED
  BY <1>5, <1>8

\* A dispatched run is handed the actions it owns.
LEMMA DispatchingKeepsDrive ==
  ASSUME DriveInv, UNCHANGED scheduleVars, RunPrimitive
  PROVE  DriveTyped' /\ DriveCounts'
<1> DEFINE handed == [primitive |-> runs[NextRun].primitive, actions |-> ResolveRunActions]
           S == Range(dispatched) \cup {handed}
<1>1. /\ phase = "ready" /\ NextRun <= Len(runs) /\ phase' = "awaiting"
      /\ dispatched' = Append(dispatched, handed)
      /\ UNCHANGED <<scenario, snapshots, offset>>
  BY DEF RunPrimitive, HasRun
<1>2. dispatched \in Seq(Range(dispatched)) /\ Range(dispatched) \subseteq S
  BY DEF DriveInv, DriveTyped
<1>3. dispatched \in Seq(S) /\ dispatched' \in Seq(S) /\ Len(dispatched) \in Nat
  BY <1>1, <1>2
<1>4. /\ DOMAIN dispatched' = 1 .. NextRun /\ Len(dispatched') = NextRun
      /\ NextRun \in Nat /\ DOMAIN dispatched = 1 .. NextRun - 1 /\ NextRun - 1 = Len(dispatched)
      /\ dispatched'[NextRun] = handed
      /\ \A i \in 1 .. NextRun - 1 : dispatched'[i] = dispatched[i]
  <2> HIDE DEF handed, S
  <2> QED
    BY <1>1, <1>3 DEF NextRun
<1>5. dispatched' \in Seq(Range(dispatched'))
  <2> HIDE DEF handed, S
  <2>1. \A i \in 1 .. NextRun : dispatched'[i] \in Range(dispatched')
    BY <1>4 DEF Range
  <2>2. dispatched' \in [1 .. NextRun -> Range(dispatched')]
    BY <1>3, <1>4, <2>1
  <2> QED
    BY <1>4, <2>2
<1>6. Answer' = Answer
  BY <1>1 DEF Answer
<1>7. DriveTyped'
  <2>1. verdict = "scheduled"
    BY <1>1 DEF DriveInv, DriveTyped
  <2>2. dispatched' # <<>>
    BY <1>4
  <2> HIDE DEF handed, S
  <2> QED
    BY <1>1, <1>5, <1>6, <2>1 DEF DriveInv, DriveTyped, scheduleVars, Phases
<1>8. /\ NextRun \in DOMAIN runs /\ runs[NextRun].at = offset
      /\ offset = Covered(Len(dispatched)) /\ offset \in Nat
  BY <1>1, OffsetWithin DEF DriveInv, DriveTyped, DriveCounts
<1>9. ASSUME NEW k, k = NextRun
      PROVE  HandedOut(k)'
  <2>1. DOMAIN runs[NextRun].owned = 1 .. Len(runs[NextRun].owned) /\ Len(runs[NextRun].owned) \in Nat
    BY <1>8, RunStarts
  <2>2. /\ DOMAIN ResolveRunActions = 1 .. Len(runs[NextRun].owned)
        /\ \A j \in DOMAIN ResolveRunActions : ResolveRunActions[j].action = scenario.actions[offset + j]
    BY <2>1 DEF ResolveRunActions, Owned
  <2>3. Len(ResolveRunActions) = Len(runs[NextRun].owned)
    <3>1. Len(ResolveRunActions) \in Nat /\ DOMAIN ResolveRunActions = 1 .. Len(ResolveRunActions)
      BY <2>1 DEF ResolveRunActions, Owned
    <3> QED
      BY <2>1, <2>2, <3>1
  <2>4. /\ handed.primitive = runs[NextRun].primitive
        /\ Len(handed.actions) = Len(runs[NextRun].owned)
        /\ \A j \in DOMAIN handed.actions : handed.actions[j].action = scenario.actions[runs[NextRun].at + j]
    BY <1>8, <2>2, <2>3
  <2> HIDE DEF handed
  <2> QED
    BY <1>1, <1>4, <1>8, <1>9, <2>4 DEF HandedOut, scheduleVars
<1>10. \A i \in DOMAIN dispatched : HandedOut(i)'
  <2> HIDE DEF handed, S
  <2> QED
    BY <1>1, <1>4 DEF HandedOut, scheduleVars, DriveInv, DriveCounts
<1>11. \A i \in DOMAIN dispatched' : HandedOut(i)'
  BY <1>4, <1>9, <1>10
<1>12. DriveCounts'
  <2>1. Covered(Len(dispatched) - 1)' = Covered(Len(dispatched))
    BY <1>4 DEF Covered, End, scheduleVars
  <2>2. dispatched' # <<>> /\ Len(dispatched') <= Len(runs')
    BY <1>1, <1>4 DEF scheduleVars
  <2>3. Len(snapshots) = offset + 1
    BY <1>1 DEF DriveInv, DriveCounts
  <2> HIDE DEF handed, S
  <2> QED
    BY <1>1, <1>8, <1>11, <2>1, <2>2, <2>3 DEF DriveCounts
<1> QED
  BY <1>7, <1>12

\* What is asked for is the evidence of the actions of the run that is out.
LEMMA AskedForTheRun ==
  ASSUME DriveInv, phase = "awaiting"
  PROVE  /\ Len(dispatched) \in DOMAIN runs
         /\ runs[Len(dispatched)].at = offset
         /\ Asked = Len(runs[Len(dispatched)].owned) /\ Asked \in Nat \ {0}
         /\ offset + Asked = Covered(Len(dispatched))
         /\ Len(snapshots) = offset + 1
<1>1. /\ dispatched \in Seq(Range(dispatched)) /\ dispatched # <<>>
      /\ Len(dispatched) <= Len(runs) /\ runs \in Seq(Run)
      /\ offset = Covered(Len(dispatched) - 1)
      /\ Len(snapshots) = offset + 1
      /\ \A i \in DOMAIN dispatched : HandedOut(i)
  BY DEF DriveInv, DriveTyped, DriveCounts, ScheduleTypeOK
<1>2. Len(dispatched) \in DOMAIN dispatched /\ Len(dispatched) \in DOMAIN runs
  BY <1>1
<1>3. Asked = Len(runs[Len(dispatched)].owned)
  BY <1>1, <1>2 DEF Asked, HandedOut
<1> QED
  BY <1>1, <1>2, <1>3, RunStarts

LEMMA AnsweringKeepsDrive ==
  ASSUME DriveInv, UNCHANGED scheduleVars, phase = "awaiting",
         NEW n \in AnswerLengths, NEW evidences \in [1 .. n -> Answer],
         AcceptTape(evidences) \/ RejectTape(evidences)
  PROVE  DriveTyped' /\ DriveCounts'
<1>1. /\ verdict = "scheduled" /\ offset \in Nat /\ snapshots \in Seq(Answer)
      /\ Len(dispatched) \in Nat /\ Len(snapshots) = offset + 1 /\ Asked \in Nat
  BY AskedForTheRun DEF DriveInv, DriveTyped
<1>2. /\ snapshots' = snapshots \o evidences /\ Len(evidences) = Asked
      /\ UNCHANGED <<scenario, dispatched>>
      /\ \/ phase' = "ready" /\ offset' = offset + Asked
         \/ phase' = "rejected" /\ offset' = offset
  BY DEF AcceptTape, RejectTape
<1>3. evidences \in Seq(Answer)
  BY <1>1 DEF AnswerLengths
<1>4. snapshots' \in Seq(Answer) /\ Len(snapshots') = offset + 1 + Asked
  <2>1. \A S : \A a, b \in Seq(S) : a \o b \in Seq(S) /\ Len(a \o b) = Len(a) + Len(b)
    OBVIOUS
  <2>2. snapshots \o evidences \in Seq(Answer) /\ Len(snapshots \o evidences) = Len(snapshots) + Len(evidences)
    BY <1>1, <1>3, <2>1
  <2> QED
    BY <1>1, <1>2, <2>2
<1>5. Answer' = Answer
  BY <1>2 DEF Answer
<1>6. offset' \in Nat /\ offset <= offset' /\ Len(snapshots') >= offset' + 1
  BY <1>1, <1>2, <1>4
<1>7. DriveTyped'
  BY <1>1, <1>2, <1>4, <1>5, <1>6 DEF DriveInv, DriveTyped, scheduleVars, Phases
<1>8. \A i \in DOMAIN dispatched : HandedOut(i)'
  <2> SUFFICES ASSUME NEW i \in DOMAIN dispatched
               PROVE  HandedOut(i)'
    OBVIOUS
  <2>1. HandedOut(i) /\ i \in DOMAIN runs
    BY <1>1 DEF DriveInv, DriveTyped, DriveCounts, ScheduleTypeOK
  <2>2. runs[i].at \in Nat /\ runs[i].at <= offset'
    BY <1>1, <1>6, <2>1, RunStarts DEF HandedOut
  <2> QED
    BY <1>2, <2>1, <2>2 DEF HandedOut, scheduleVars
<1>9. phase' = "ready" => offset' = Covered(Len(dispatched))' /\ Len(snapshots') = offset' + 1
  <2>1. Covered(Len(dispatched))' = Covered(Len(dispatched))
    BY <1>2 DEF Covered, End, scheduleVars
  <2> QED
    BY <1>1, <1>2, <1>4, <2>1, AskedForTheRun
<1>10. Len(dispatched) <= Len(runs)
  BY DEF DriveInv, DriveCounts
<1>11. DriveCounts'
  BY <1>2, <1>8, <1>9, <1>10 DEF DriveCounts, scheduleVars
<1> QED
  BY <1>7, <1>11

\* The call accepts only after the whole scenario, and a hydrated one only when
\* something was judged.
LEMMA AcceptingKeepsDrive ==
  ASSUME DriveInv, UNCHANGED scheduleVars, Accept
  PROVE  DriveTyped' /\ DriveCounts'
<1>1. /\ phase = "ready" /\ NextRun > Len(runs) /\ TapeHolds /\ phase' = "accepted"
      /\ UNCHANGED <<scenario, snapshots, offset, dispatched>>
  BY DEF Accept, AllRun
<1>2. /\ verdict = "scheduled" /\ Len(dispatched) \in Nat /\ Len(dispatched) <= Len(runs)
      /\ Len(runs) \in Nat /\ offset = Covered(Len(dispatched)) /\ Len(snapshots) = offset + 1
  BY <1>1 DEF DriveInv, DriveTyped, DriveCounts, ScheduleTypeOK
<1>3. Len(dispatched) = Len(runs) /\ offset = Len(scenario.actions)
  BY <1>1, <1>2, AllRunsCover DEF NextRun
<1>4. ASSUME scenario.hydrated
      PROVE  dispatched # <<>>
  <2>1. EvaluateTape(scenario, snapshots, Len(scenario.actions)).evaluated > 0
    BY <1>1, <1>4 DEF TapeHolds
  <2>2. Len(scenario.actions) # 0
    BY <2>1, NothingJudged
  <2> QED
    BY <1>2, <1>3, <2>2 DEF Covered
<1>5. Answer' = Answer
  BY <1>1 DEF Answer
<1>6. DriveTyped'
  BY <1>1, <1>2, <1>5 DEF DriveInv, DriveTyped, scheduleVars, Phases
<1>7. \A i : HandedOut(i)' <=> HandedOut(i)
  BY <1>1 DEF HandedOut, scheduleVars
<1>8. DriveCounts'
  BY <1>1, <1>2, <1>3, <1>4, <1>7 DEF DriveInv, DriveCounts, scheduleVars
<1> QED
  BY <1>6, <1>8

LEMMA DriveStep ==
  ASSUME DriveInv, [RefineNext]_refineVars
  PROVE  DriveInv'
<1>1. ScheduleTypeOK' /\ RunsTileTape'
  BY SchedulerStep, TypeStep, TypesOfData, TilingStep DEF DriveInv
<1>2. CASE ScheduleStep
  BY <1>1, <1>2, SchedulingKeepsDrive DEF DriveInv
<1>3. CASE OwnStep
  <2>0. UNCHANGED scheduleVars
    BY <1>3 DEF OwnStep
  <2>1. CASE \E init \in Answer : Start(init) \/ RejectStart(init)
    BY <1>1, <2>0, <2>1, StartingKeepsDrive DEF DriveInv
  <2>2. CASE RunPrimitive
    BY <1>1, <2>0, <2>2, DispatchingKeepsDrive DEF DriveInv
  <2>3. CASE RefuseRun \/ RejectEvaluation
    <3>1. phase = "ready" /\ phase' = "rejected" /\ UNCHANGED <<scenario, offset, dispatched, snapshots>>
      BY <2>3 DEF RefuseRun, RejectEvaluation, Reject, HasRun, AllRun
    <3>2. verdict = "scheduled"
      BY <3>1 DEF DriveInv, DriveTyped
    <3> QED
      BY <1>1, <2>0, <3>1, <3>2, EndingKeepsDrive DEF DriveInv
  <2>4. CASE Accept
    BY <1>1, <2>0, <2>4, AcceptingKeepsDrive DEF DriveInv
  <2> QED
    BY <1>3, <2>1, <2>2, <2>3, <2>4 DEF OwnStep
<1>4. CASE DriverStep
  <2>0. UNCHANGED scheduleVars
    BY <1>4 DEF DriverStep
  <2>1. CASE phase = "awaiting" /\ \E n \in AnswerLengths : \E evidences \in [1 .. n -> Answer] :
               AcceptTape(evidences) \/ RejectTape(evidences)
    BY <1>1, <2>0, <2>1, AnsweringKeepsDrive DEF DriveInv
  <2>2. CASE phase = "awaiting" /\ phase' \in {"miscounted", "driverFailed"}
             /\ UNCHANGED <<scenario, offset, dispatched, snapshots>>
    <3>1. verdict = "scheduled"
      BY <2>2 DEF DriveInv, DriveTyped
    <3> QED
      BY <1>1, <2>0, <2>2, <3>1, EndingKeepsDrive DEF DriveInv
  <2> QED
    BY <1>4, <2>1, <2>2 DEF DriverStep, RefuseTape, DriverFails
<1>5. CASE UNCHANGED refineVars
  BY <1>1, <1>5, EndingKeepsDrive DEF refineVars, driveVars, DriveInv
<1> QED
  BY <1>2, <1>3, <1>4, <1>5 DEF RefineNext

LEMMA DriveAlways == RefineSpec => []DriveInv
<1>1. RefineInit => DriveInv
  BY DriveInitially, TapesAssumption
  DEF RefineInit, ScheduleInit, ScheduleTypeOK, RunsTileTape, DriveInv
<1> QED
  BY <1>1, DriveStep, PTL DEF RefineSpec

\* Whatever the ownership tables and the driver, the primitives run in scenario
\* order, each handed exactly the actions its run owns, and a call that accepts
\* has driven the whole scenario.
THEOREM DispatchesInOrder == RefineSpec => []DispatchesScenario
<1>1. DriveInv => DispatchesScenario
  BY DEF DriveInv, DriveCounts, HandedOut, DispatchesScenario
<1> QED
  BY <1>1, DriveAlways, PTL

-----------------------------------------------------------------------------
\* The projected state is the tape's so far; and without an initial state in the
\* artifact, the adapter's own must have been readable.
Reduced ==
  /\ phase \in {"ready", "awaiting"} /\ scenario.hydrated =>
       /\ EvaluateTape(scenario, snapshots, offset).ok
       /\ state = EvaluateTape(scenario, snapshots, offset).state
  /\ phase \in {"ready", "awaiting", "accepted"} /\ ~scenario.hydrated => snapshots[1] # Unresolved

\* The evidences of an answer are added behind those before it.
LEMMA TapeGrows ==
  ASSUME DriveInv, phase = "awaiting",
         NEW n \in AnswerLengths, NEW evidences \in [1 .. n -> Answer]
  PROVE  /\ snapshots \o evidences \in Seq(Answer)
         /\ Len(snapshots \o evidences) = offset + 1 + n
         /\ \A j \in 1 .. offset + 1 : (snapshots \o evidences)[j] = snapshots[j]
<1>1. snapshots \in Seq(Answer) /\ Len(snapshots) = offset + 1 /\ offset \in Nat /\ Asked \in Nat
  BY AskedForTheRun DEF DriveInv, DriveTyped
<1>2. evidences \in Seq(Answer) /\ Len(evidences) = n
  BY <1>1 DEF AnswerLengths
<1>3. \A S : \A a, b \in Seq(S) :
        /\ a \o b \in Seq(S) /\ Len(a \o b) = Len(a) + Len(b)
        /\ \A j \in 1 .. Len(a) : (a \o b)[j] = a[j]
  OBVIOUS
<1> QED
  BY <1>1, <1>2, <1>3

LEMMA ReducedStep ==
  ASSUME DriveInv, Reduced, [RefineNext]_refineVars
  PROVE  Reduced'
<1>1. CASE UNCHANGED <<scenario, snapshots, state, offset>> /\ phase' \in {phase, "accepted", "awaiting"}
           /\ (phase' # phase => phase = "ready")
  BY <1>1 DEF Reduced
<1>2. CASE phase' \notin {"ready", "awaiting", "accepted"}
  BY <1>2 DEF Reduced
<1>3. ASSUME NEW init \in Answer, Start(init)
      PROVE  Reduced'
  <2>1. /\ phase = "starting" /\ phase' = "ready" /\ snapshots' = <<init>> /\ UNCHANGED <<scenario, offset>>
        /\ Reducible(<<init>>, 0) /\ state' = ProjectedStateAfter(<<init>>, 0)
    BY <1>3 DEF Start
  <2>2. offset = 0
    BY <2>1 DEF DriveInv, DriveTyped
  <2>3. scenario.hydrated =>
          /\ EvaluateTape(scenario, <<init>>, 0).ok
          /\ state' = EvaluateTape(scenario, <<init>>, 0).state
    BY <2>1 DEF Reducible, ProjectedStateAfter
  <2>4. ~scenario.hydrated => <<init>>[1] # Unresolved
    BY <2>1 DEF Reducible
  <2> QED
    BY <2>1, <2>2, <2>3, <2>4 DEF Reduced
<1>4. ASSUME phase = "awaiting", NEW n \in AnswerLengths, NEW evidences \in [1 .. n -> Answer],
             AcceptTape(evidences)
      PROVE  Reduced'
  <2>1. /\ phase' = "ready" /\ snapshots' = snapshots \o evidences /\ UNCHANGED scenario
        /\ offset' = offset + Asked
        /\ Reducible(snapshots \o evidences, offset + Asked)
        /\ state' = ProjectedStateAfter(snapshots \o evidences, offset + Asked)
    BY <1>4 DEF AcceptTape, Reduces
  <2>2. scenario.hydrated =>
          /\ EvaluateTape(scenario, snapshots \o evidences, offset + Asked).ok
          /\ state' = EvaluateTape(scenario, snapshots \o evidences, offset + Asked).state
    BY <2>1 DEF Reducible, ProjectedStateAfter
  <2>3. snapshots'[1] = snapshots[1]
    BY <1>4, <2>1, TapeGrows DEF DriveInv, DriveTyped
  <2> QED
    BY <1>4, <2>1, <2>2, <2>3 DEF Reduced
<1>5. CASE ScheduleStep \/ UNCHANGED refineVars
  BY <1>1, <1>5 DEF ScheduleStep, refineVars, driveVars
<1>6. CASE OwnStep
  <2>1. CASE \E init \in Answer : RejectStart(init)
    BY <1>2, <2>1 DEF RejectStart
  <2>2. CASE RefuseRun \/ RejectEvaluation
    BY <1>2, <2>2 DEF RefuseRun, RejectEvaluation, Reject
  <2>3. CASE RunPrimitive \/ Accept
    BY <1>1, <2>3 DEF RunPrimitive, HasRun, Accept, AllRun
  <2> QED
    BY <1>3, <1>6, <2>1, <2>2, <2>3 DEF OwnStep
<1>7. CASE DriverStep
  <2>1. CASE phase' \in {"rejected", "miscounted", "driverFailed"}
    BY <1>2, <2>1
  <2> QED
    BY <1>4, <1>7, <2>1 DEF DriverStep, RejectTape, RefuseTape, DriverFails
<1> QED
  BY <1>5, <1>6, <1>7 DEF RefineNext

LEMMA ReducedAlways == RefineSpec => []Reduced
<1>1. RefineInit => Reduced
  BY DEF RefineInit, Reduced
<1> QED
  BY <1>1, ReducedStep, DriveAlways, PTL DEF RefineSpec

-----------------------------------------------------------------------------
\* Along a run of Quint's, the projected state between two primitives is Quint's.
LEMMA StateIsQuints ==
  ASSUME DriveInv, Reduced, Valid(scenario), phase \in {"ready", "awaiting"}
  PROVE  /\ state = scenario.trace[offset + 1]
         /\ \A j \in 1 .. offset + 1 : Agrees(snapshots[j], scenario.trace[j])
<1>1. scenario \in Scenarios /\ scenario.hydrated /\ offset \in 0 .. Len(scenario.actions)
  BY OffsetWithin DEF DriveInv, DriveTyped, Valid
<1>2. EvaluateTape(scenario, snapshots, offset).ok /\ state = EvaluateTape(scenario, snapshots, offset).state
  BY <1>1 DEF Reduced
<1> QED
  BY <1>1, <1>2, TapeFollowsTrace

\* Evidence is only ever added behind the evidence before it.
LEMMA TapeKept ==
  ASSUME DriveInv, [RefineNext]_refineVars, phase # "starting"
  PROVE  /\ UNCHANGED <<scenario, runs>>
         /\ \A j \in 1 .. offset + 1 : snapshots'[j] = snapshots[j]
<1>1. verdict = "scheduled"
  BY DEF DriveInv, DriveTyped
<1>2. ~ScheduleStep
  BY <1>1 DEF ScheduleStep, ScheduleNext, Collect, RefuseTables, ScheduleCompound,
              ScheduleSingleton, RefuseAmbiguous, RefusePartial, RefuseUnowned, FinishSchedule,
              Scheduling
<1>3. CASE UNCHANGED <<scenario, snapshots, runs>>
  BY <1>3
<1>4. CASE OwnStep
  BY <1>3, <1>4 DEF OwnStep, Start, RejectStart, RunPrimitive, RefuseRun, Accept, RejectEvaluation,
                    Reject, scheduleVars
<1>5. CASE DriverStep
  <2>1. UNCHANGED <<scenario, runs>>
    BY <1>5 DEF DriverStep, AcceptTape, RejectTape, RefuseTape, DriverFails, scheduleVars
  <2>2. CASE UNCHANGED snapshots
    BY <2>1, <2>2
  <2>3. ASSUME phase = "awaiting", NEW n \in AnswerLengths, NEW evidences \in [1 .. n -> Answer],
               snapshots' = snapshots \o evidences
        PROVE  \A j \in 1 .. offset + 1 : snapshots'[j] = snapshots[j]
    BY <2>3, TapeGrows
  <2> QED
    BY <1>5, <2>1, <2>2, <2>3 DEF DriverStep, AcceptTape, RejectTape, RefuseTape, DriverFails
<1> QED
  BY <1>2, <1>3, <1>4, <1>5 DEF RefineNext, refineVars, scheduleVars, driveVars

\* Run i was handed out while the implementation was on Quint's run.
OnTrace(i) ==
  /\ \A j \in 1 .. runs[i].at + 1 : Agrees(snapshots[j], scenario.trace[j])
  /\ LET first == dispatched[i].actions[1]
     IN first.argument = Argument(first.action, scenario.trace[runs[i].at + 1])

LEMMA DispatchedOnTrace ==
  ASSUME DriveInv, Reduced, Valid(scenario), UNCHANGED scheduleVars, RunPrimitive,
         NEW k, k = NextRun
  PROVE  OnTrace(k)' /\ DOMAIN dispatched' = DOMAIN dispatched \cup {k}
         /\ \A i \in DOMAIN dispatched : dispatched'[i] = dispatched[i]
<1> DEFINE handed == [primitive |-> runs[NextRun].primitive, actions |-> ResolveRunActions]
           S == Range(dispatched) \cup {handed}
<1>1. /\ phase = "ready" /\ NextRun <= Len(runs) /\ dispatched' = Append(dispatched, handed)
      /\ UNCHANGED <<scenario, snapshots, offset>>
  BY DEF RunPrimitive, HasRun
<1>2. dispatched \in Seq(S)
  BY DEF DriveInv, DriveTyped
<1>3. /\ DOMAIN dispatched' = DOMAIN dispatched \cup {k} /\ dispatched'[k] = handed
      /\ \A i \in DOMAIN dispatched : dispatched'[i] = dispatched[i]
  <2> HIDE DEF handed, S
  <2> QED
    BY <1>1, <1>2 DEF NextRun
<1>4. k \in DOMAIN runs /\ runs[k].at = offset
  BY <1>1, OffsetWithin
<1>5. state = scenario.trace[offset + 1] /\ \A j \in 1 .. offset + 1 : Agrees(snapshots[j], scenario.trace[j])
  BY <1>1, StateIsQuints
<1>6. 1 \in DOMAIN Owned
  BY <1>4, RunStarts DEF Owned
<1>7. handed.actions[1] = [action |-> scenario.actions[offset + 1],
                          argument |-> Argument(scenario.actions[offset + 1], state)]
  BY <1>6 DEF ResolveRunActions
<1>8. handed.actions[1].argument = Argument(handed.actions[1].action, scenario.trace[offset + 1])
  <2> HIDE DEF handed
  <2> QED
    BY <1>5, <1>7
<1> HIDE DEF handed, S
<1>9. OnTrace(k)'
  BY <1>1, <1>3, <1>4, <1>5, <1>8 DEF OnTrace, scheduleVars
<1> QED
  BY <1>3, <1>9

LEMMA OnTraceStep ==
  ASSUME DriveInv, Reduced, Valid(scenario), \A i \in DOMAIN dispatched : OnTrace(i),
         [RefineNext]_refineVars
  PROVE  \A i \in DOMAIN dispatched' : OnTrace(i)'
<1>1. CASE phase = "starting"
  <2>1. dispatched = <<>>
    BY <1>1 DEF DriveInv, DriveTyped
  <2>2. ~RunPrimitive /\ phase # "ready" /\ phase # "awaiting"
    BY <1>1 DEF RunPrimitive, HasRun
  <2>3. UNCHANGED dispatched
    BY <2>2 DEF RefineNext, ScheduleStep, OwnStep, DriverStep, Start, RejectStart, RefuseRun, HasRun,
                Accept, AllRun, RejectEvaluation, Reject, DriverFails, refineVars, driveVars
  <2> QED
    BY <2>1, <2>3
<1>2. CASE phase # "starting"
  <2>1. /\ UNCHANGED <<scenario, runs>>
        /\ \A j \in 1 .. offset + 1 : snapshots'[j] = snapshots[j]
    BY <1>2, TapeKept
  <2>2. ASSUME NEW i \in DOMAIN dispatched, dispatched'[i] = dispatched[i]
        PROVE  OnTrace(i)'
    <3>1. HandedOut(i) /\ OnTrace(i) /\ i \in DOMAIN runs
      BY DEF DriveInv, DriveTyped, DriveCounts, ScheduleTypeOK
    <3>2. runs[i].at \in Nat /\ runs[i].at <= offset /\ offset \in Nat
      BY <3>1, RunStarts DEF HandedOut, DriveInv, DriveTyped
    <3> QED
      BY <2>1, <2>2, <3>1, <3>2 DEF OnTrace
  <2>3. CASE UNCHANGED scheduleVars /\ RunPrimitive
    BY <2>2, <2>3, DispatchedOnTrace
  <2>4. CASE UNCHANGED dispatched
    BY <2>2, <2>4
  <2>5. UNCHANGED dispatched \/ (UNCHANGED scheduleVars /\ RunPrimitive)
    BY DEF RefineNext, ScheduleStep, OwnStep, DriverStep, Start, RejectStart, RefuseRun,
           Accept, RejectEvaluation, Reject, DriverFails, AcceptTape, RejectTape, RefuseTape,
           refineVars, driveVars
  <2> QED
    BY <2>3, <2>4, <2>5
<1> QED
  BY <1>1, <1>2

\* An implementation that has left Quint's run is not driven any further, and the
\* first action of every command has the argument it has in that run.
THEOREM DrivesAlongTrace == RefineSpec => []DrivesOnlyAlongTrace
<1>1. DrivesOnlyAlongTrace <=> (Valid(scenario) => \A i \in DOMAIN dispatched : OnTrace(i))
  BY DEF DrivesOnlyAlongTrace, OnTrace
<1>2. RefineInit => DrivesOnlyAlongTrace
  BY <1>1 DEF RefineInit
<1>3. ASSUME DriveInv, Reduced, DrivesOnlyAlongTrace, [RefineNext]_refineVars
      PROVE  DrivesOnlyAlongTrace'
  <2>1. UNCHANGED scenario
    BY <1>3 DEF RefineNext, ScheduleStep, OwnStep, DriverStep, Start, RejectStart, RunPrimitive,
           RefuseRun, Accept, RejectEvaluation, Reject, DriverFails, AcceptTape, RejectTape,
           RefuseTape, refineVars, driveVars
  <2>2. Valid(scenario) => \A i \in DOMAIN dispatched' : OnTrace(i)'
    BY <1>1, <1>3, OnTraceStep
  <2> QED
    BY <2>1, <2>2 DEF DrivesOnlyAlongTrace, OnTrace
<1> QED
  BY <1>2, <1>3, DriveAlways, ReducedAlways, PTL DEF RefineSpec

-----------------------------------------------------------------------------
\* Without an initial state every pair of evidences is judged as it stands, and
\* since the first is a state of the model, all of them are.
LEMMA StrictTapeFollows ==
  ASSUME DriveInv, Reduced, Accept, ~scenario.hydrated
  PROVE  \A i \in DOMAIN scenario.actions : ModelStep(scenario.actions[i], snapshots[i], snapshots[i + 1])
<1> DEFINE Bad == {i \in 1 .. Len(scenario.actions) + 1 : snapshots[i] \notin State}
<1>1. /\ phase = "ready" /\ NextRun > Len(runs)
      /\ \A i \in DOMAIN scenario.actions :
           StrictStep(scenario.actions[i], snapshots[i], snapshots[i + 1], scenario.trace[i + 1])
  BY DEF Accept, AllRun, TapeHolds
<1>2. /\ scenario \in Scenarios /\ DOMAIN scenario.actions = 1 .. Len(scenario.actions)
      /\ Len(scenario.actions) \in Nat
      /\ \A i \in DOMAIN scenario.actions : scenario.actions[i] \in Actions
  BY ScenarioTypes DEF DriveInv, DriveTyped
<1>3. snapshots[1] \in State
  <2>1. snapshots \in Seq(Answer) /\ Len(snapshots) >= 1
    BY <1>1 DEF DriveInv, DriveTyped
  <2>2. snapshots[1] # Unresolved /\ Answer = State \cup {Unresolved}
    BY <1>1 DEF Reduced, Answer
  <2> QED
    BY <2>1, <2>2
<1>4. ASSUME NEW i \in DOMAIN scenario.actions, snapshots[i] \in State
      PROVE  /\ snapshots[i + 1] \in State
             /\ ModelStep(scenario.actions[i], snapshots[i], snapshots[i + 1])
  <2> DEFINE a == scenario.actions[i]
             s == snapshots[i]
  <2>1. Guard(a, s) /\ CanAssign(a, s) /\ snapshots[i + 1] = ModelNext(a, s)
    BY <1>1, <1>4 DEF StrictStep
  <2>2. Captured(a, s) \in 1 .. Branches(a) /\ Enabled(a, Captured(a, s), s)
    BY <1>2, <1>4, <2>1, CapturedIsEnabled
  <2>3. ModelNext(a, s) \in State
    BY <1>2, <1>4, <2>2, StateAssumption DEF ModelNext
  <2>4. Takes(a, Captured(a, s), s, snapshots[i + 1])
    BY <2>1, <2>2 DEF Takes, ModelNext
  <2> QED
    BY <2>1, <2>2, <2>3, <2>4 DEF ModelStep
<1>5. Bad \subseteq Nat
  OBVIOUS
<1> HIDE DEF Bad
<1>6. SUFFICES ASSUME Bad # {}
               PROVE  FALSE
  BY <1>2, <1>4 DEF Bad
<1>7. PICK k \in Bad : \A j \in Bad : ~(j < k)
  BY <1>5, <1>6, LeastNatural, Zenon
<1>8. k \in 1 .. Len(scenario.actions) + 1 /\ snapshots[k] \notin State /\ k # 1
  BY <1>3 DEF Bad
<1>9. PICK j \in DOMAIN scenario.actions : k = j + 1
  <2>1. k - 1 \in 1 .. Len(scenario.actions) /\ k = (k - 1) + 1
    BY <1>2, <1>8
  <2> QED
    BY <1>2, <2>1
<1>10. j \notin Bad
  BY <1>2, <1>7, <1>9
<1>11. snapshots[j] \in State
  BY <1>2, <1>10 DEF Bad
<1> QED
  BY <1>4, <1>8, <1>9, <1>11

\* When every run has been driven the tape is complete.
LEMMA WholeTape ==
  ASSUME DriveInv, AllRun
  PROVE  DOMAIN snapshots = 1 .. Len(scenario.actions) + 1
<1>1. /\ verdict = "scheduled" /\ Len(dispatched) \in Nat
      /\ Len(dispatched) <= Len(runs) /\ Len(runs) \in Nat
      /\ offset = Covered(Len(dispatched)) /\ Len(snapshots) = offset + 1
      /\ snapshots \in Seq(Answer)
  BY DEF DriveInv, DriveTyped, DriveCounts, ScheduleTypeOK, AllRun
<1>2. Len(dispatched) = Len(runs)
  BY <1>1 DEF AllRun, NextRun
<1>3. offset = Len(scenario.actions)
  BY <1>1, <1>2, AllRunsCover
<1> QED
  BY <1>1, <1>3

LEMMA ValidTapeFollows ==
  ASSUME DriveInv, Accept, Valid(scenario)
  PROVE  \A i \in DOMAIN snapshots : Agrees(snapshots[i], scenario.trace[i])
<1>1. /\ scenario \in Scenarios
      /\ EvaluateTape(scenario, snapshots, Len(scenario.actions)).ok
  BY DEF Accept, TapeHolds, Valid, DriveInv, DriveTyped
<1>2. Len(scenario.actions) \in 0 .. Len(scenario.actions)
  BY <1>1, ScenarioTypes
<1>3. \A i \in 1 .. Len(scenario.actions) + 1 : Agrees(snapshots[i], scenario.trace[i])
  BY <1>1, <1>2, TapeFollowsTrace
<1> QED
  BY <1>3, WholeTape DEF Accept

\* A finished call stays finished.
LEMMA EndingLasts ==
  ASSUME DriveInv, [RefineNext]_refineVars, phase \in {"accepted", "rejected"}
  PROVE  UNCHANGED <<scenario, snapshots, phase>>
<1>1. ~ScheduleStep
  BY DEF DriveInv, DriveTyped, ScheduleStep, ScheduleNext, Collect, RefuseTables, ScheduleCompound,
         ScheduleSingleton, RefuseAmbiguous, RefusePartial, RefuseUnowned, FinishSchedule,
         Scheduling
<1>2. ~OwnStep
  BY DEF OwnStep, Start, RejectStart, RunPrimitive, RefuseRun, HasRun, Accept, AllRun, RejectEvaluation
<1>3. ~DriverStep
  BY DEF DriverStep, DriverFails
<1> QED
  BY <1>1, <1>2, <1>3 DEF RefineNext, refineVars, driveVars

LEMMA OnlyAcceptAccepts ==
  ASSUME DriveInv, [RefineNext]_refineVars, phase # "accepted", phase' = "accepted"
  PROVE  Accept
  BY DEF RefineNext, ScheduleStep, OwnStep, DriverStep, Start, RejectStart, RunPrimitive, RefuseRun,
         RejectEvaluation, Reject, AcceptTape, RejectTape, RefuseTape, DriverFails,
         refineVars, driveVars

\* What is accepted follows the model, whatever the driver reported.
THEOREM AcceptedIsRun == RefineSpec => []AcceptedFollowsModel
<1>1. RefineInit => AcceptedFollowsModel
  BY DEF RefineInit, AcceptedFollowsModel
<1>2. ASSUME DriveInv, Reduced, AcceptedFollowsModel, [RefineNext]_refineVars
      PROVE  AcceptedFollowsModel'
  <2>1. CASE phase = "accepted"
    <3>1. UNCHANGED <<scenario, snapshots, phase>>
      BY <1>2, <2>1, EndingLasts
    <3> QED
      BY <1>2, <3>1 DEF AcceptedFollowsModel
  <2>2. CASE phase # "accepted" /\ phase' = "accepted"
    <3>1. Accept
      BY <1>2, <2>2, OnlyAcceptAccepts
    <3>2. UNCHANGED <<scenario, snapshots>>
      BY <3>1 DEF Accept
    <3>3. Valid(scenario) => \A i \in DOMAIN snapshots : Agrees(snapshots[i], scenario.trace[i])
      BY <1>2, <3>1, ValidTapeFollows
    <3>4. ~scenario.hydrated =>
            \A i \in DOMAIN scenario.actions : ModelStep(scenario.actions[i], snapshots[i], snapshots[i + 1])
      BY <1>2, <3>1, StrictTapeFollows
    <3> QED
      BY <3>2, <3>3, <3>4 DEF AcceptedFollowsModel
  <2>3. CASE phase' # "accepted"
    BY <2>3 DEF AcceptedFollowsModel
  <2> QED
    BY <2>1, <2>2, <2>3
<1> QED
  BY <1>1, <1>2, DriveAlways, ReducedAlways, PTL DEF RefineSpec

-----------------------------------------------------------------------------
\* A scenario of Quint's in which every alternative taken was the first possible
\* one, over fields the adapter retrieves.
Followable(sc) ==
  /\ Valid(sc)
  /\ TookFirst(sc)
  /\ \A i \in 1 .. Len(sc.actions) : Supported(sc.actions[i])
  /\ Len(sc.actions) > 0

\* Evidence that repeats Quint's states reduces, as far as it goes.
LEMMA FaithfulReduces ==
  ASSUME scenario \in Scenarios, Followable(scenario),
         NEW evidences, NEW n \in 0 .. Len(scenario.actions),
         \A i \in 1 .. n + 1 : evidences[i] = scenario.trace[i]
  PROVE  /\ Reducible(evidences, n)
         /\ n > 0 => EvaluateTape(scenario, evidences, n).evaluated > 0
  BY FaithfulTapeAccepted DEF Reducible, Followable, Valid

\* Such an implementation's next command is never refused.
LEMMA FaithfulMayRun ==
  ASSUME DriveInv, Reduced, Followable(scenario), HasRun
  PROVE  RunMayStart /\ OwnedAreNext
<1>1. /\ phase = "ready" /\ NextRun <= Len(runs) /\ scenario \in Scenarios
      /\ NextRun \in DOMAIN runs /\ runs[NextRun].at = offset
      /\ offset + 1 \in 1 .. Len(scenario.actions)
  BY OffsetWithin DEF HasRun, DriveInv, DriveTyped
<1>2. OwnedAreNext
  BY <1>1, RunStarts DEF OwnedAreNext, Owned
<1> DEFINE a == scenario.actions[offset + 1]
           s == scenario.trace[offset + 1]
<1>3. state = s
  BY <1>1, StateIsQuints DEF Followable
<1>4. a \in Actions /\ Supported(a) /\ ModelStep(a, s, scenario.trace[offset + 1 + 1])
  BY <1>1, ScenarioTypes DEF Followable, Valid
<1>5. PreGuardsHold(a, s)
  <2>1. GuardReads(a) \subseteq Retrieve
    BY <1>4, RetrieveAssumption DEF Supported
  <2> QED
    BY <1>4, <2>1 DEF PreGuardsHold, ModelStep, Takes
<1> QED
  BY <1>2, <1>3, <1>5 DEF RunMayStart

\* An implementation that repeats Quint's states is never rejected.
THEOREM FaithfulDriven == RefineSpec => []FaithfulIsAccepted
<1>2. RefineInit => FaithfulIsAccepted
  BY DEF RefineInit, FaithfulIsAccepted
<1>3. ASSUME DriveInv, Reduced, FaithfulIsAccepted, [RefineNext]_refineVars
      PROVE  FaithfulIsAccepted'
  <2>1. CASE phase = "rejected"
    <3>1. UNCHANGED <<scenario, snapshots, phase>>
      BY <1>3, <2>1, EndingLasts
    <3> QED
      BY <1>3, <3>1 DEF FaithfulIsAccepted
  <2>2. CASE phase' # "rejected"
    BY <2>2 DEF FaithfulIsAccepted
  <2>3. CASE phase # "rejected" /\ phase' = "rejected"
    <3>1. (\E init \in Answer : RejectStart(init)) \/ RefuseRun \/ RejectEvaluation
            \/ (phase = "awaiting" /\ \E n \in AnswerLengths : \E evidences \in [1 .. n -> Answer] :
                  RejectTape(evidences))
      BY <1>3, <2>3 DEF RefineNext, ScheduleStep, OwnStep, DriverStep, Start, RejectStart, RunPrimitive,
         RefuseRun, Accept, RejectEvaluation, Reject, AcceptTape, RefuseTape, DriverFails,
         refineVars, driveVars
    <3>2. UNCHANGED scenario
      BY <3>1 DEF RejectStart, RefuseRun, RejectEvaluation, Reject, RejectTape
    <3>3. /\ scenario \in Scenarios /\ DOMAIN scenario.actions = 1 .. Len(scenario.actions)
          /\ Len(scenario.actions) \in Nat
      BY <1>3, ScenarioTypes DEF DriveInv, DriveTyped
    <3>4. SUFFICES ASSUME Followable(scenario), \A i \in DOMAIN snapshots' : snapshots'[i] = scenario.trace[i]
                   PROVE  FALSE
      BY <3>2, <3>3 DEF FaithfulIsAccepted, Followable, FirstAlternative, TookFirst
    <3>5. ASSUME NEW init \in Answer, RejectStart(init)
          PROVE  FALSE
      <4>1. snapshots' = <<init>> /\ ~Reducible(<<init>>, 0)
        BY <3>5 DEF RejectStart
      <4>2. \A i \in 1 .. 0 + 1 : <<init>>[i] = scenario.trace[i]
        BY <3>4, <4>1
      <4> QED
        BY <3>3, <3>4, <4>1, <4>2, FaithfulReduces
    <3>6. ~RefuseRun
      BY <1>3, <3>4, FaithfulMayRun DEF RefuseRun
    <3>7. ~RejectEvaluation
      <4>1. SUFFICES ASSUME RejectEvaluation
                     PROVE  FALSE
        OBVIOUS
      <4>2. /\ phase = "ready" /\ NextRun > Len(runs) /\ snapshots' = snapshots /\ ~TapeHolds
        BY <4>1 DEF RejectEvaluation, AllRun, Reject
      <4>3. DOMAIN snapshots = 1 .. Len(scenario.actions) + 1
        BY <1>3, <4>1, WholeTape DEF RejectEvaluation
      <4>4. \A i \in 1 .. Len(scenario.actions) + 1 : snapshots[i] = scenario.trace[i]
        BY <3>4, <4>2, <4>3
      <4>5. /\ Reducible(snapshots, Len(scenario.actions)) /\ scenario.hydrated
            /\ EvaluateTape(scenario, snapshots, Len(scenario.actions)).evaluated > 0
        BY <3>3, <3>4, <4>4, FaithfulReduces DEF Followable, Valid
      <4> QED
        BY <4>2, <4>5 DEF Reducible, TapeHolds
    <3>8. ASSUME phase = "awaiting", NEW n \in AnswerLengths, NEW evidences \in [1 .. n -> Answer],
                 RejectTape(evidences)
          PROVE  FALSE
      <4>1. /\ snapshots' = snapshots \o evidences /\ Len(evidences) = Asked
            /\ ~Reducible(snapshots \o evidences, offset + Asked)
        BY <3>8 DEF RejectTape, Reduces
      <4>2. /\ Asked \in Nat /\ offset \in Nat /\ offset + Asked <= Len(scenario.actions)
        <5>1. Len(dispatched) \in DOMAIN runs /\ offset + Asked = Covered(Len(dispatched)) /\ Asked \in Nat
          BY <1>3, <3>8, AskedForTheRun
        <5> QED
          BY <1>3, <5>1, RunStarts, TapeIsScenario DEF DriveInv, DriveTyped
      <4>3. n = Asked
        BY <4>2 , <4>1 DEF AnswerLengths
      <4>4. DOMAIN (snapshots \o evidences) = 1 .. offset + Asked + 1
        <5>1. snapshots \o evidences \in Seq(Answer) /\ Len(snapshots \o evidences) = offset + 1 + n
          BY <1>3, <3>8, TapeGrows
        <5> QED
          BY <4>2, <4>3, <5>1
      <4>5. \A i \in 1 .. offset + Asked + 1 : (snapshots \o evidences)[i] = scenario.trace[i]
        BY <3>4, <4>1, <4>4
      <4>6. offset + Asked \in 0 .. Len(scenario.actions)
        BY <3>3, <4>2
      <4> QED
        BY <3>3, <3>4, <4>1, <4>5, <4>6, FaithfulReduces
    <3> QED
      BY <3>1, <3>5, <3>6, <3>7, <3>8
  <2> QED
    BY <2>1, <2>2, <2>3
<1> QED
  BY <1>2, <1>3, DriveAlways, ReducedAlways, PTL DEF RefineSpec

=============================================================================
