---------------------------- MODULE Schedule_proofs ---------------------------
(***************************************************************************)
(* What the scheduler guarantees for every ownership table and every tape. *)
(***************************************************************************)
EXTENDS Schedule, TLAPS

\* An occurrence of a sequence lies within the tape, and so is a sequence of
\* action names no longer than the tape.
LEMMA OccursWithin ==
  ASSUME NEW names \in Seq(Names), NEW t \in Seq(Names), NEW at \in Nat, Occurs(names, t, at)
  PROVE  at + Len(names) \in 0 .. Len(t)
  BY DEF Occurs

\* The types of the data, whichever the tables and the tape are.
ScheduleData ==
  /\ records \in Seq(OwnershipRecord)
  /\ tape \in Seq(Names)
  /\ ownership \in SUBSET OwnershipDescriptor
  /\ index \in 0 .. Len(tape)
  /\ runs \in Seq(Run)
  /\ verdict \in {"collecting", "scheduling", "scheduled"} \cup Errors

LEMMA TypesOfData == ScheduleTypeOK <=> records \in Tables /\ tape \in Tapes /\ ScheduleData
  BY TablesAssumption, TapesAssumption DEF ScheduleTypeOK, ScheduleData

LEMMA DescriptorIsRecord ==
  ASSUME NEW record \in OwnershipRecord
  PROVE  Descriptor(record) \in OwnershipDescriptor
<1>1. Range(record.refines) \subseteq Names
  BY DEF OwnershipRecord, Range
<1>2. CoverageActions(record) \in SUBSET Names
  BY <1>1 DEF OwnershipRecord, CoverageActions
<1> QED
  BY <1>2 DEF Descriptor, OwnershipRecord, OwnershipDescriptor

LEMMA CollectedAreDescriptors ==
  ASSUME records \in Seq(OwnershipRecord)
  PROVE  CollectOwnershipRecords(records) \in SUBSET OwnershipDescriptor
<1>1. \A i \in DOMAIN records : records[i] \in OwnershipRecord
  OBVIOUS
<1> QED
  BY <1>1, DescriptorIsRecord DEF CollectOwnershipRecords

\* A compound or singleton fit is a stretch of the tape that starts at the index.
LEMMA CompoundFits ==
  ASSUME ScheduleData, NEW record \in Compounds
  PROVE  /\ record \in OwnershipDescriptor
         /\ record.refines \in Seq(Names)
         /\ record.primitive \in Primitives
         /\ record.refines # <<>>
         /\ Occurs(record.refines, tape, index)
         /\ index + Len(record.refines) \in 0 .. Len(tape)
<1>1. tape \in Seq(Names) /\ index \in Nat
  BY DEF ScheduleData
<1>2. record \in OwnershipDescriptor /\ Len(record.refines) > 1 /\ Occurs(record.refines, tape, index)
  BY DEF ScheduleData, Compounds, FitsCompound
<1>3. record.refines \in Seq(Names) /\ record.primitive \in Primitives
  BY <1>2 DEF OwnershipDescriptor, OwnershipRecord
<1>4. record.refines # <<>>
  BY <1>2, <1>3
<1> QED
  BY <1>1, <1>2, <1>3, <1>4, OccursWithin

LEMMA SingletonFits ==
  ASSUME ScheduleData, Scheduling, NEW record \in Singletons
  PROVE  /\ record.primitive \in Primitives
         /\ <<tape[index + 1]>> \in Seq(Names)
         /\ Occurs(<<tape[index + 1]>>, tape, index)
         /\ index + 1 \in 0 .. Len(tape)
<1>1. tape \in Seq(Names) /\ index \in Nat /\ index < Len(tape)
  BY DEF ScheduleData, Scheduling
<1>2. tape[index + 1] \in Names
  BY <1>1
<1>3. record \in OwnershipDescriptor
  BY DEF ScheduleData, Singletons
<1> QED
  BY <1>1, <1>2, <1>3 DEF OwnershipDescriptor, OwnershipRecord, Occurs

-----------------------------------------------------------------------------
\* Every variable keeps its type: in particular the loop never reads or cuts
\* past the end of the tape.
LEMMA CutKeepsType ==
  ASSUME ScheduleData, NEW record, NEW owned \in Seq(Names),
         record.primitive \in Primitives,
         index + Len(owned) \in 0 .. Len(tape),
         Cut(record, owned)
  PROVE  ScheduleData'
<1>1. [primitive |-> record.primitive, owned |-> owned, at |-> index] \in Run
  BY DEF Run, ScheduleData
<1>2. runs' \in Seq(Run)
  BY <1>1 DEF Cut, ScheduleData
<1> QED
  BY <1>2 DEF Cut, ScheduleData

LEMMA DataStep ==
  ASSUME ScheduleData, [ScheduleNext]_scheduleVars
  PROVE  ScheduleData'
<1>1. CASE Collect
  BY <1>1, CollectedAreDescriptors DEF Collect, ScheduleData
<1>2. CASE RefuseTables
  BY <1>2 DEF RefuseTables, ScheduleData, Errors
<1>3. CASE ScheduleCompound
  <2>1. PICK record \in Compounds : Cut(record, record.refines)
    BY <1>3 DEF ScheduleCompound
  <2> QED
    BY <2>1, CompoundFits, CutKeepsType
<1>4. CASE ScheduleSingleton
  <2>1. PICK record \in Singletons : Cut(record, <<tape[index + 1]>>)
    BY <1>4 DEF ScheduleSingleton
  <2>2. Scheduling
    BY <1>4 DEF ScheduleSingleton
  <2>3. Len(<<tape[index + 1]>>) = 1
    OBVIOUS
  <2> QED
    BY <2>1, <2>2, <2>3, SingletonFits, CutKeepsType
<1>5. CASE RefuseAmbiguous
  BY <1>5 DEF RefuseAmbiguous, Refuse, ScheduleData, Errors
<1>6. CASE RefusePartial
  BY <1>6 DEF RefusePartial, Refuse, ScheduleData, Errors
<1>7. CASE RefuseUnowned
  BY <1>7 DEF RefuseUnowned, Refuse, ScheduleData, Errors
<1>8. CASE FinishSchedule
  BY <1>8 DEF FinishSchedule, ScheduleData
<1>9. CASE UNCHANGED scheduleVars
  BY <1>9 DEF scheduleVars, ScheduleData
<1> QED
  BY <1>1, <1>2, <1>3, <1>4, <1>5, <1>6, <1>7, <1>8, <1>9 DEF ScheduleNext

LEMMA TypeStep ==
  ASSUME ScheduleTypeOK, [ScheduleNext]_scheduleVars
  PROVE  ScheduleTypeOK'
<1>1. ScheduleData'
  BY DataStep, TypesOfData
<1>2. UNCHANGED <<records, tape>>
  BY DEF ScheduleNext, scheduleVars, Collect, RefuseTables, ScheduleCompound, ScheduleSingleton,
     RefuseAmbiguous, RefusePartial, RefuseUnowned, FinishSchedule, Cut, Refuse
<1> QED
  BY <1>1, <1>2, TypesOfData DEF ScheduleTypeOK, ScheduleData

\* The type invariant of schedule_primitive_runs: whatever the tables and the
\* tape, the loop stays inside the tape and its runs are well formed.
THEOREM ScheduleTyped == ScheduleSpec => []ScheduleTypeOK
<1>1. ScheduleInit => ScheduleTypeOK
  BY TapesAssumption DEF ScheduleInit, ScheduleTypeOK
<1> QED
  BY <1>1, TypeStep, PTL DEF ScheduleSpec

LEMMA DataTyped == ScheduleSpec => []ScheduleData
  BY ScheduleTyped, TypesOfData, PTL

-----------------------------------------------------------------------------
\* Both cutting actions append one run: a stretch of the tape at the index.
NewRun(record, owned) == [primitive |-> record.primitive, owned |-> owned, at |-> index]

LEMMA CutKeepsTiling ==
  ASSUME ScheduleData, RunsTileTape,
         NEW record, NEW owned \in Seq(Names), owned # <<>>,
         Occurs(owned, tape, index),
         Cut(record, owned)
  PROVE  RunsTileTape'
<1> DEFINE new == NewRun(record, owned)
<1>1. runs \in Seq(Run) /\ Len(runs) \in Nat
  BY DEF ScheduleData
<1>2. runs' = Append(runs, new) /\ tape' = tape /\ index' = index + Len(owned)
  BY DEF Cut, NewRun
<1>3. Len(runs') = Len(runs) + 1 /\ DOMAIN runs' = 1 .. Len(runs) + 1 /\ runs' # <<>>
  BY <1>1, <1>2
<1>4. \A i \in 1 .. Len(runs) : runs'[i] = runs[i]
  BY <1>1, <1>2
<1>5. runs'[Len(runs) + 1] = new
  BY <1>1, <1>2
<1>6. new.owned = owned /\ new.at = index /\ End(new) = index + Len(owned)
  BY DEF NewRun, End
<1>7. DOMAIN runs = 1 .. Len(runs)
  BY <1>1
<1>a. ASSUME NEW i \in DOMAIN runs'
      PROVE  runs'[i].owned # <<>> /\ Occurs(runs'[i].owned, tape, runs'[i].at)
  <2>1. CASE i \in 1 .. Len(runs)
    BY <2>1, <1>4, <1>7 DEF RunsTileTape
  <2>2. CASE i = Len(runs) + 1
    BY <2>2, <1>5, <1>6
  <2> QED
    BY <2>1, <2>2, <1>3, <1>1
<1>b. ASSUME NEW i \in DOMAIN runs'
      PROVE  runs'[i].at = IF i = 1 THEN 0 ELSE End(runs'[i - 1])
  <2>1. CASE i \in 1 .. Len(runs)
    <3>1. i # 1 => i - 1 \in 1 .. Len(runs)
      BY <2>1, <1>1
    <3> QED
      BY <2>1, <3>1, <1>4, <1>7 DEF RunsTileTape
  <2>2. CASE i = Len(runs) + 1
    <3>1. index = IF runs = <<>> THEN 0 ELSE End(runs[Len(runs)])
      BY DEF RunsTileTape
    <3>2. CASE runs = <<>>
      BY <2>2, <3>1, <3>2, <1>5, <1>6, <1>1
    <3>3. CASE runs # <<>>
      <4>1. Len(runs) \in 1 .. Len(runs) /\ i # 1 /\ i - 1 = Len(runs)
        BY <2>2, <3>3, <1>1
      <4> QED
        BY <2>2, <3>1, <3>3, <4>1, <1>4, <1>5, <1>6
    <3> QED
      BY <3>2, <3>3
  <2> QED
    BY <2>1, <2>2, <1>3, <1>1
<1>c. index' = IF runs' = <<>> THEN 0 ELSE End(runs'[Len(runs')])
  BY <1>2, <1>3, <1>5, <1>6
<1> QED
  BY <1>a, <1>b, <1>c, <1>2 DEF RunsTileTape, Occurs, End

LEMMA TilingStep ==
  ASSUME ScheduleData, RunsTileTape, [ScheduleNext]_scheduleVars
  PROVE  RunsTileTape'
<1>1. CASE ScheduleCompound
  <2>1. PICK record \in Compounds : Cut(record, record.refines)
    BY <1>1 DEF ScheduleCompound
  <2> QED
    BY <2>1, CompoundFits, CutKeepsTiling
<1>2. CASE ScheduleSingleton
  <2>1. PICK record \in Singletons : Cut(record, <<tape[index + 1]>>)
    BY <1>2 DEF ScheduleSingleton
  <2>2. Scheduling
    BY <1>2 DEF ScheduleSingleton
  <2>3. <<tape[index + 1]>> # <<>>
    OBVIOUS
  <2> QED
    BY <2>1, <2>2, <2>3, SingletonFits, CutKeepsTiling
<1>3. CASE UNCHANGED <<tape, runs, index>>
  BY <1>3 DEF RunsTileTape, Occurs, End
<1> QED
  BY <1>1, <1>2, <1>3
  DEF ScheduleNext, scheduleVars, Collect, RefuseTables, RefuseAmbiguous, RefusePartial,
      RefuseUnowned, FinishSchedule, Refuse

\* Whatever the ownership, the runs cover the consumed actions of the scenario
\* without a gap, an overlap or a change of order, so action_offset always finds
\* the arguments of the actions that are run.
THEOREM RunsTile == ScheduleSpec => []RunsTileTape
<1>1. ScheduleInit => RunsTileTape
  BY DEF ScheduleInit, RunsTileTape
<1> QED
  BY <1>1, DataTyped, TilingStep, PTL DEF ScheduleSpec

-----------------------------------------------------------------------------
\* Before the tables are collected nothing is cut, and afterwards an identifier
\* names one descriptor.
Collected ==
  /\ verdict = "collecting" => runs = <<>>
  /\ \A left, right \in ownership : left.primitive = right.primitive => left = right

LEMMA DistinctIdentifiers ==
  ASSUME ~DuplicatePrimitiveId(records),
         NEW left \in CollectOwnershipRecords(records),
         NEW right \in CollectOwnershipRecords(records),
         left.primitive = right.primitive,
         records \in Seq(OwnershipRecord)
  PROVE  left = right
<1>1. \A i \in DOMAIN records : records[i] \in OwnershipRecord
  OBVIOUS
<1>2. PICK i \in DOMAIN records : left = Descriptor(records[i])
  BY DEF CollectOwnershipRecords
<1>3. PICK j \in DOMAIN records : right = Descriptor(records[j])
  BY DEF CollectOwnershipRecords
<1>4. left.primitive = records[i].primitive /\ right.primitive = records[j].primitive
  BY <1>1, <1>2, <1>3 DEF Descriptor, OwnershipRecord
<1> QED
  BY <1>2, <1>3, <1>4 DEF DuplicatePrimitiveId

LEMMA CollectedStep ==
  ASSUME ScheduleData, Collected, [ScheduleNext]_scheduleVars
  PROVE  Collected'
<1>1. CASE Collect
  <2>1. records \in Seq(OwnershipRecord) /\ ~DuplicatePrimitiveId(records)
    BY <1>1 DEF Collect, Collectable, ScheduleData
  <2> QED
    BY <1>1, <2>1, DistinctIdentifiers DEF Collect, Collected
<1>2. CASE ScheduleCompound \/ ScheduleSingleton
  BY <1>2 DEF ScheduleCompound, ScheduleSingleton, Scheduling, Cut, Collected
<1>3. CASE UNCHANGED <<ownership, runs>> /\ (verdict' = "collecting" => verdict = "collecting")
  BY <1>3 DEF Collected
<1> QED
  BY <1>1, <1>2, <1>3
  DEF ScheduleNext, scheduleVars, RefuseTables, RefuseAmbiguous, RefusePartial,
      RefuseUnowned, FinishSchedule, Refuse

-----------------------------------------------------------------------------
\* A position at which nothing fits as a compound or a partial sequence is not
\* the start of the first two actions of any sequence.
LEMMA NothingSplitHere ==
  ASSUME ScheduleData, Compounds = {}, Partials = {}, NEW record \in ownership,
         Len(record.refines) > 1
  PROVE  ~Occurs(SubSeq(record.refines, 1, 2), tape, index)
<1>1. record.refines \in Seq(Names)
  BY DEF ScheduleData, OwnershipDescriptor, OwnershipRecord
<1>2. LET pair == SubSeq(record.refines, 1, 2)
      IN Len(pair) = 2 /\ pair[1] = record.refines[1] /\ pair[2] = record.refines[2]
  BY <1>1
<1>3. ~Occurs(record.refines, tape, index)
  BY DEF Compounds, FitsCompound
<1>4. ~ /\ index + 2 <= Len(tape)
        /\ tape[index + 1] = record.refines[1]
        /\ tape[index + 2] = record.refines[2]
  BY <1>3 DEF Partials, FitsPartial
<1>5. 1 \in 1 .. 2 /\ 2 \in 1 .. 2
  OBVIOUS
<1> QED
  BY <1>2, <1>4, <1>5 DEF Occurs

\* The last run of a cut, and the earlier ones, which stay as they are.
LEMMA CutAppends ==
  ASSUME ScheduleData, NEW record, NEW owned, Cut(record, owned), NEW i \in DOMAIN runs'
  PROVE  \/ i \in DOMAIN runs /\ runs'[i] = runs[i]
         \/ runs'[i] = NewRun(record, owned)
<1>1. runs \in Seq(Run)
  BY DEF ScheduleData
<1>2. runs' = Append(runs, NewRun(record, owned))
  BY DEF Cut, NewRun
<1> QED
  BY <1>1, <1>2

LEMMA NoSplitStep ==
  ASSUME ScheduleData, Collected, NoSplitCompound, [ScheduleNext]_scheduleVars
  PROVE  NoSplitCompound'
<1>1. CASE Collect
  <2>1. runs' = <<>>
    BY <1>1 DEF Collect, Collected
  <2> QED
    BY <2>1 DEF NoSplitCompound
<1>2. CASE ScheduleCompound
  <2>1. PICK record \in Compounds : Cut(record, record.refines)
    BY <1>2 DEF ScheduleCompound
  <2>2. NewRun(record, record.refines).owned = record.refines /\ Len(record.refines) > 1
    BY DEF NewRun, Compounds, FitsCompound
  <2>3. tape' = tape /\ ownership' = ownership
    BY <2>1 DEF Cut
  <2> QED
    BY <2>1, <2>2, <2>3, CutAppends, CompoundFits DEF NoSplitCompound, Occurs
<1>3. CASE ScheduleSingleton
  <2>1. PICK record \in Singletons : Cut(record, <<tape[index + 1]>>)
    BY <1>3 DEF ScheduleSingleton
  <2>2. NewRun(record, <<tape[index + 1]>>).at = index
    BY DEF NewRun
  <2>3. tape' = tape /\ ownership' = ownership
    BY <2>1 DEF Cut
  <2>4. Compounds = {} /\ Partials = {}
    BY <1>3 DEF ScheduleSingleton
  <2>5. ASSUME NEW i \in DOMAIN runs', NEW other \in ownership, Len(runs'[i].owned) = 1
        PROVE  ~ /\ Len(other.refines) > 1
                 /\ Occurs(SubSeq(other.refines, 1, 2), tape, runs'[i].at)
    <3>1. CASE i \in DOMAIN runs /\ runs'[i] = runs[i]
      BY <3>1, <2>5 DEF NoSplitCompound
    <3>2. CASE runs'[i] = NewRun(record, <<tape[index + 1]>>)
      BY <3>2, <2>2, <2>4, NothingSplitHere
    <3> QED
      BY <3>1, <3>2, <2>1, CutAppends
  <2> QED
    BY <2>3, <2>5 DEF NoSplitCompound, Occurs
<1>4. CASE UNCHANGED <<tape, ownership, runs>>
  BY <1>4 DEF NoSplitCompound, Occurs
<1> QED
  BY <1>1, <1>2, <1>3, <1>4
  DEF ScheduleNext, scheduleVars, RefuseTables, RefuseAmbiguous, RefusePartial,
      RefuseUnowned, FinishSchedule, Refuse

LEMMA CollectedAlways == ScheduleSpec => []Collected
<1>1. ScheduleInit => Collected
  BY DEF ScheduleInit, Collected
<1> QED
  BY <1>1, DataTyped, CollectedStep, PTL DEF ScheduleSpec

\* No ownership and no tape makes the scheduler tear the first two actions of a
\* compound command apart.
THEOREM NeverSplits == ScheduleSpec => []NoSplitCompound
<1>1. ScheduleInit => NoSplitCompound
  BY DEF ScheduleInit, NoSplitCompound
<1> QED
  BY <1>1, DataTyped, CollectedAlways, NoSplitStep, PTL DEF ScheduleSpec

-----------------------------------------------------------------------------
\* `record` is the only descriptor that could take `run`, and no other
\* descriptor has its identifier.
OwnsRun(record, run, t) ==
  IF Len(run.owned) > 1 THEN FitsCompound(record, t, run.at) ELSE FitsSingleton(record, t, run.at)

OwnedBy(run, record, owners, t) ==
  /\ OwnsRun(record, run, t)
  /\ record.primitive = run.primitive
  /\ \A other \in owners \ {record} :
       ~OwnsRun(other, run, t) /\ other.primitive # record.primitive

LEMMA SoleOwnerUnfolds ==
  SoleOwner <=> \A i \in DOMAIN runs : \E record \in ownership :
                  OwnedBy(runs[i], record, ownership, tape)
  BY DEF SoleOwner, OwnedBy, OwnsRun

LEMMA CompoundOwned ==
  ASSUME ScheduleData, Collected, ~Ambiguous(Compounds), NEW record \in Compounds,
         NEW run, run = NewRun(record, record.refines)
  PROVE  OwnedBy(run, record, ownership, tape)
<1>1. run.owned = record.refines /\ run.at = index /\ run.primitive = record.primitive
  BY DEF NewRun
<1>2. record \in ownership /\ Len(record.refines) > 1 /\ FitsCompound(record, tape, index)
  BY DEF Compounds, FitsCompound
<1>3. \A other \in ownership : OwnsRun(other, run, tape) <=> other \in Compounds
  BY <1>1, <1>2 DEF OwnsRun, Compounds
<1>4. \A other \in Compounds : other = record
  BY DEF Ambiguous
<1> QED
  BY <1>1, <1>2, <1>3, <1>4 DEF OwnedBy, Collected

LEMMA SingletonOwned ==
  ASSUME ScheduleData, Collected, ~Ambiguous(Singletons), NEW record \in Singletons,
         NEW run, run = NewRun(record, <<tape[index + 1]>>)
  PROVE  OwnedBy(run, record, ownership, tape)
<1>1. ~(Len(run.owned) > 1) /\ run.at = index /\ run.primitive = record.primitive
  BY DEF NewRun
<1>2. record \in ownership
  BY DEF Singletons
<1>3. \A other \in ownership : OwnsRun(other, run, tape) <=> other \in Singletons
  <2> SUFFICES ASSUME NEW other \in ownership
               PROVE  OwnsRun(other, run, tape) <=> other \in Singletons
    OBVIOUS
  <2>1. OwnsRun(other, run, tape) <=> FitsSingleton(other, tape, index)
    BY <1>1, Zenon DEF OwnsRun
  <2> QED
    BY <2>1 DEF Singletons
<1>4. \A other \in Singletons : other = record
  BY DEF Ambiguous
<1> QED
  BY <1>1, <1>2, <1>3, <1>4 DEF OwnedBy, Collected

LEMMA SoleOwnerStep ==
  ASSUME ScheduleData, Collected, SoleOwner, [ScheduleNext]_scheduleVars
  PROVE  SoleOwner'
<1> DEFINE Sole == \A i \in DOMAIN runs : \E record \in ownership :
                     OwnedBy(runs[i], record, ownership, tape)
<1>0. Sole
  BY SoleOwnerUnfolds
<1>u. Sole' => SoleOwner'
  BY DEF SoleOwner, OwnedBy, OwnsRun
<1>1. CASE Collect
  <2>1. runs' = <<>>
    BY <1>1 DEF Collect, Collected
  <2> QED
    BY <2>1 DEF SoleOwner
<1>2. CASE ScheduleCompound
  <2>1. ~Ambiguous(Compounds)
    BY <1>2 DEF ScheduleCompound
  <2>2. PICK record \in Compounds : Cut(record, record.refines)
    BY <1>2 DEF ScheduleCompound
  <2>3. tape' = tape /\ ownership' = ownership /\ record \in ownership
    BY <2>2 DEF Cut, Compounds
  <2>4. Sole'
    BY <1>0, <2>1, <2>2, <2>3, CutAppends, CompoundOwned
  <2> QED
    BY <2>4, <1>u
<1>3. CASE ScheduleSingleton
  <2>1. ~Ambiguous(Singletons)
    BY <1>3 DEF ScheduleSingleton
  <2>2. PICK record \in Singletons : Cut(record, <<tape[index + 1]>>)
    BY <1>3 DEF ScheduleSingleton
  <2>3. tape' = tape /\ ownership' = ownership /\ record \in ownership
    BY <2>2 DEF Cut, Singletons
  <2>4. Sole'
    BY <1>0, <2>1, <2>2, <2>3, CutAppends, SingletonOwned
  <2> QED
    BY <2>4, <1>u
<1>4. CASE UNCHANGED <<tape, ownership, runs>>
  BY <1>0, <1>4, <1>u
<1> QED
  BY <1>1, <1>2, <1>3, <1>4
  DEF ScheduleNext, scheduleVars, RefuseTables, RefuseAmbiguous, RefusePartial,
      RefuseUnowned, FinishSchedule, Refuse

\* Whatever the tables say, a run that was scheduled had exactly one possible
\* owner, and the identifier handed to the driver names that owner alone.
THEOREM OwnersAreSole == ScheduleSpec => []SoleOwner
<1>1. ScheduleInit => SoleOwner
  BY DEF ScheduleInit, SoleOwner
<1> QED
  BY <1>1, DataTyped, CollectedAlways, SoleOwnerStep, PTL DEF ScheduleSpec

-----------------------------------------------------------------------------
\* In generated tables an action is at one place of one record.
OnePlace(owners) ==
  /\ \A record \in owners :
       record.refines \in Seq(Names) /\ record.refines # <<>> /\ record.aliases = {}
  /\ \A left, right \in owners :
       \A i \in DOMAIN left.refines, j \in DOMAIN right.refines :
         left.refines[i] = right.refines[j] => left = right /\ i = j

LEMMA GeneratedIsOnePlace ==
  ASSUME records \in Seq(OwnershipRecord), Generated(records)
  PROVE  OnePlace(CollectOwnershipRecords(records))
<1>1. \A i \in DOMAIN records : records[i] \in OwnershipRecord
  OBVIOUS
<1>2. ASSUME NEW i \in DOMAIN records
      PROVE  /\ Descriptor(records[i]).refines = records[i].refines
             /\ Descriptor(records[i]).aliases = records[i].aliases
             /\ records[i].refines \in Seq(Names) /\ records[i].refines # <<>> /\ records[i].aliases = {}
             /\ IsInjective(records[i].refines)
  <2>1. records[i] \in OwnershipRecord
    BY <1>1
  <2>2. records[i].refines # <<>> /\ records[i].aliases = {} /\ IsInjective(records[i].refines)
    BY DEF Generated
  <2> QED
    BY <2>1, <2>2 DEF Descriptor, OwnershipRecord
<1>3. ASSUME NEW i \in DOMAIN records, NEW j \in DOMAIN records,
             NEW a \in DOMAIN records[i].refines, NEW b \in DOMAIN records[j].refines,
             records[i].refines[a] = records[j].refines[b]
      PROVE  i = j /\ a = b
  <2>1. i = j
    BY <1>3 DEF Generated, Range
  <2> QED
    BY <1>2, <1>3, <2>1 DEF IsInjective
<1> QED
  BY <1>2, <1>3 DEF CollectOwnershipRecords, OnePlace

\* Whoever fits at the index starts with the action there, and so is alone.
LEMMA FittingAreAlone ==
  ASSUME ScheduleData, OnePlace(ownership), Scheduling,
         NEW left \in Compounds \cup Partials \cup Singletons,
         NEW right \in ownership, Occurs(right.refines, tape, index) \/ right \in Partials \cup Singletons
  PROVE  left = right
<1>1. ASSUME NEW record \in ownership,
             Occurs(record.refines, tape, index) \/ record \in Partials \cup Singletons
      PROVE  1 \in DOMAIN record.refines /\ record.refines[1] = tape[index + 1]
  <2>1. record.refines \in Seq(Names) /\ record.refines # <<>> /\ record.aliases = {}
    BY DEF OnePlace
  <2>2. 1 \in DOMAIN record.refines
    BY <2>1
  <2>3. CASE Occurs(record.refines, tape, index)
    BY <2>1, <2>2, <2>3 DEF Occurs
  <2>4. CASE record \in Partials
    BY <2>2, <2>4 DEF Partials, FitsPartial
  <2>5. CASE record \in Singletons
    <3>1. record.refines = <<tape[index + 1]>>
      BY <2>1, <2>5 DEF Singletons, FitsSingleton
    <3> QED
      BY <2>2, <3>1
  <2> QED
    BY <1>1, <2>2, <2>3, <2>4, <2>5
<1>2. left \in ownership /\ (Occurs(left.refines, tape, index) \/ left \in Partials \cup Singletons)
  BY DEF Compounds, Partials, Singletons, FitsCompound
<1> QED
  BY <1>1, <1>2 DEF OnePlace

\* Some way to cut the tape, as HasTiling has it.
Tiling(cuts) ==
  /\ cuts \in SUBSET (0 .. Len(tape))
  /\ {0, Len(tape)} \subseteq cuts
  /\ \A from \in cuts \ {Len(tape)} :
       \E record \in ownership :
         LET to == from + Len(record.refines)
         IN /\ to \in cuts
            /\ Occurs(record.refines, tape, from)
            /\ \A between \in from + 1 .. to - 1 : between \notin cuts

LEMMA TilingUnfolds == HasTiling <=> \E cuts : Tiling(cuts)
  BY DEF HasTiling, Tiling

\* The greedy walk stops where every tiling cuts.
Greedy ==
  Generated(records) =>
    /\ verdict = "collecting" => index = 0
    /\ verdict # "collecting" => ownership = CollectOwnershipRecords(records)
    /\ verdict \notin {"badTable", "ambiguous"}
    /\ \A cuts : Tiling(cuts) => index \in cuts
    /\ verdict \in {"partial", "unowned"} => \A cuts : ~Tiling(cuts)

\* Where a tiling cuts, one of its records occurs and leads to its next cut.
LEMMA TilingGoesOn ==
  ASSUME ScheduleData, Scheduling, NEW cuts, Tiling(cuts), index \in cuts
  PROVE  \E record \in ownership :
           Occurs(record.refines, tape, index) /\ index + Len(record.refines) \in cuts
  BY DEF ScheduleData, Scheduling, Tiling

LEMMA GreedyStep ==
  ASSUME ScheduleData, Greedy, [ScheduleNext]_scheduleVars
  PROVE  Greedy'
<1> SUFFICES ASSUME Generated(records)', UNCHANGED <<records, tape>>
             PROVE  Greedy'
  BY DEF Greedy, ScheduleNext, scheduleVars, Collect, RefuseTables, ScheduleCompound, ScheduleSingleton,
     RefuseAmbiguous, RefusePartial, RefuseUnowned, FinishSchedule, Cut, Refuse
<1>1. /\ Generated(records)
      /\ verdict = "collecting" => index = 0
      /\ verdict # "collecting" => ownership = CollectOwnershipRecords(records)
      /\ verdict \notin {"badTable", "ambiguous"}
      /\ \A cuts : Tiling(cuts) => index \in cuts
      /\ verdict \in {"partial", "unowned"} => \A cuts : ~Tiling(cuts)
  BY DEF Greedy, Generated, Collectable, EmptyPrimitiveId, AliasesOnCompoundSequence, DuplicatePrimitiveId
<1>2. Collectable(records) /\ records \in Seq(OwnershipRecord)
  BY <1>1 DEF Generated, ScheduleData
<1>3. ownership' = ownership => \A cuts : Tiling(cuts)' <=> Tiling(cuts)
  BY DEF Tiling, Occurs
<1>4. verdict = "scheduling" => OnePlace(ownership)
  BY <1>1, <1>2, GeneratedIsOnePlace
<1>5. CASE Collect
  <2>1. /\ ownership' = CollectOwnershipRecords(records) /\ verdict' = "scheduling" /\ index' = index
        /\ verdict = "collecting"
    BY <1>5 DEF Collect
  <2>2. \A cuts : Tiling(cuts)' => 0 \in cuts
    BY DEF Tiling
  <2>3. CollectOwnershipRecords(records)' = CollectOwnershipRecords(records)
    BY DEF CollectOwnershipRecords
  <2> QED
    BY <1>1, <2>1, <2>2, <2>3 DEF Greedy
<1>6. CASE RefuseTables
  BY <1>2, <1>6 DEF RefuseTables
<1> DEFINE Kept == UNCHANGED ownership /\ verdict # "collecting"
<1>7. CollectOwnershipRecords(records)' = CollectOwnershipRecords(records)
  BY DEF CollectOwnershipRecords
<1>8. ASSUME Kept, verdict' \in {"scheduling", "scheduled"}, \A cuts : Tiling(cuts) => index' \in cuts
      PROVE  Greedy'
  BY <1>1, <1>3, <1>7, <1>8 DEF Greedy
<1>9. ASSUME Scheduling, UNCHANGED ownership, verdict' = verdict,
             NEW record \in Compounds \cup Singletons, index' = index + Len(record.refines)
      PROVE  Greedy'
  <2>1. ASSUME NEW cuts, Tiling(cuts)
        PROVE  index' \in cuts
    <3>1. PICK other \in ownership :
            Occurs(other.refines, tape, index) /\ index + Len(other.refines) \in cuts
      BY <1>1, <1>9, <2>1, TilingGoesOn
    <3>2. record = other
      BY <1>4, <1>9, <3>1, FittingAreAlone DEF Scheduling
    <3> QED
      BY <1>9, <3>1, <3>2
  <2> QED
    BY <1>8, <1>9, <2>1 DEF Scheduling
<1>10. CASE ScheduleCompound
  BY <1>9, <1>10 DEF ScheduleCompound, Cut
<1>11. CASE ScheduleSingleton
  <2>1. PICK record \in Singletons : Cut(record, <<tape[index + 1]>>)
    BY <1>11 DEF ScheduleSingleton
  <2>2. record.refines = <<tape[index + 1]>>
    BY <1>4, <1>11, <2>1 DEF ScheduleSingleton, Scheduling, OnePlace, Singletons, FitsSingleton
  <2>3. Len(record.refines) = Len(<<tape[index + 1]>>)
    BY <2>2
  <2> QED
    BY <1>9, <1>11, <2>1, <2>3 DEF ScheduleSingleton, Cut
<1>12. CASE RefuseAmbiguous
  <2>1. Scheduling /\ (Ambiguous(Compounds) \/ Ambiguous(Singletons))
    BY <1>12 DEF RefuseAmbiguous
  <2>2. \A left, right \in Compounds : left = right
    BY <1>4, <2>1, FittingAreAlone DEF Scheduling, Compounds, FitsCompound
  <2>3. \A left, right \in Singletons : left = right
    BY <1>4, <2>1, FittingAreAlone DEF Scheduling, Singletons
  <2> QED
    BY <2>1, <2>2, <2>3 DEF Ambiguous
<1>13. ASSUME Scheduling, UNCHANGED ownership, index' = index, verdict' \in {"partial", "unowned"},
              \A other \in ownership : ~Occurs(other.refines, tape, index)
       PROVE  Greedy'
  <2>1. \A cuts : ~Tiling(cuts)
    BY <1>1, <1>13, TilingGoesOn
  <2> QED
    BY <1>1, <1>3, <1>7, <1>13, <2>1 DEF Greedy, Scheduling
<1>14. CASE RefusePartial
  <2>1. Scheduling /\ UNCHANGED <<ownership, index>> /\ verdict' = "partial"
    BY <1>14 DEF RefusePartial, Refuse
  <2>2. PICK left \in Partials : TRUE
    BY <1>14 DEF RefusePartial
  <2>3. ~Occurs(left.refines, tape, index)
    BY DEF Partials, FitsPartial
  <2>4. \A other \in ownership : ~Occurs(other.refines, tape, index)
    BY <1>4, <2>1, <2>3, FittingAreAlone DEF Scheduling
  <2> QED
    BY <1>13, <2>1, <2>4
<1>15. CASE RefuseUnowned
  <2>1. /\ Scheduling /\ UNCHANGED <<ownership, index>> /\ verdict' = "unowned"
        /\ Compounds = {} /\ Singletons = {}
    BY <1>15 DEF RefuseUnowned, Refuse
  <2>2. ASSUME NEW other \in ownership, Occurs(other.refines, tape, index)
        PROVE  FALSE
    <3>1. other.refines \in Seq(Names) /\ other.refines # <<>>
      BY <1>4, <2>1 DEF Scheduling, OnePlace
    <3>2. ~(Len(other.refines) > 1)
      BY <2>1, <2>2 DEF Compounds, FitsCompound
    <3>3. Len(other.refines) = 1 /\ other.refines[1] = tape[index + 1]
      <4>1. Len(other.refines) \in Nat /\ Len(other.refines) # 0
        BY <3>1
      <4>2. \A n \in Nat : n # 0 /\ ~(n > 1) => n = 1
        OBVIOUS
      <4>3. Len(other.refines) = 1
        BY <3>2, <4>1, <4>2
      <4> QED
        BY <2>2, <4>3 DEF Occurs
    <3>4. other.refines = <<tape[index + 1]>>
      BY <3>1, <3>3
    <3> QED
      BY <2>1, <3>4 DEF Singletons, FitsSingleton
  <2> QED
    BY <1>13, <2>1, <2>2
<1>16. CASE FinishSchedule
  BY <1>1, <1>8, <1>16 DEF FinishSchedule
<1>17. CASE UNCHANGED scheduleVars
  BY <1>1, <1>3, <1>7, <1>17 DEF scheduleVars, Greedy
<1> QED
  BY <1>5, <1>6, <1>10, <1>11, <1>12, <1>14, <1>15, <1>16, <1>17 DEF ScheduleNext

\* For generated tables of any size the greedy walk gives up only on tapes that
\* cannot be cut at all.
THEOREM GreedyComplete == ScheduleSpec => []GreedyIsComplete
<1>1. ScheduleInit => Greedy
  BY DEF ScheduleInit, Greedy, Tiling
<1>2. Greedy => GreedyIsComplete
  BY TilingUnfolds DEF Greedy, GreedyIsComplete
<1> QED
  BY <1>1, <1>2, DataTyped, GreedyStep, PTL DEF ScheduleSpec

=============================================================================
