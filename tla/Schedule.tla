------------------------------ MODULE Schedule -------------------------------
(***************************************************************************)
(* Ownership tables are validated once, then the scenario's action tape is *)
(* cut into runs of implementation primitives, greedily from the left:     *)
(* collect_ownership_records followed by the loop of                       *)
(* schedule_primitive_runs (bindings/rust/src/schedule.rs).                *)
(***************************************************************************)
EXTENDS Ownership

CONSTANTS Tables, \* the sequences of ownership records an adapter may export
          Tapes   \* the action tapes of the generated scenarios

ASSUME TablesAssumption == Tables \subseteq Seq(OwnershipRecord)
ASSUME TapesAssumption == Tapes \subseteq Seq(Names)

VARIABLES
  records,   \* the exported ownership records, every table in one sequence
  tape,      \* json_actions: the scenario's action names in order
  ownership, \* the collected descriptors
  index,     \* how many actions of the tape are already cut into runs
  runs,      \* the scheduled runs; `at` is the index a run was cut at
  verdict    \* where the two calls stand

scheduleVars == <<records, tape, ownership, index, runs, verdict>>

Errors == {"badTable", "ambiguous", "partial", "unowned"}

Run == [primitive : Primitives, owned : Seq(Names), at : Nat]

ScheduleTypeOK ==
  /\ records \in Tables
  /\ tape \in Tapes
  /\ ownership \in SUBSET OwnershipDescriptor
  /\ index \in 0 .. Len(tape)
  /\ runs \in Seq(Run)
  /\ verdict \in {"collecting", "scheduling", "scheduled"} \cup Errors

ScheduleInit ==
  /\ records \in Tables
  /\ tape \in Tapes
  /\ ownership = {}
  /\ index = 0
  /\ runs = <<>>
  /\ verdict = "collecting"

-----------------------------------------------------------------------------
Collect ==
  /\ verdict = "collecting"
  /\ Collectable(records)
  /\ ownership' = CollectOwnershipRecords(records)
  /\ verdict' = "scheduling"
  /\ UNCHANGED <<records, tape, index, runs>>

RefuseTables ==
  /\ verdict = "collecting"
  /\ ~Collectable(records)
  /\ verdict' = "badTable"
  /\ UNCHANGED <<records, tape, ownership, index, runs>>

-----------------------------------------------------------------------------
Compounds == {record \in ownership : FitsCompound(record, tape, index)}
Partials == {record \in ownership : FitsPartial(record, tape, index)}
Singletons == {record \in ownership : FitsSingleton(record, tape, index)}

\* Fault: the first of several owners is taken.
FirstOwnerWins(owners) == FALSE

Ambiguous(owners) == \E left, right \in owners : left # right

Scheduling == verdict = "scheduling" /\ index < Len(tape)

\* Fault: a compound command advances over one action.
CutAdvancingOne(record, owned) ==
  /\ runs' = Append(runs, [primitive |-> record.primitive, owned |-> owned, at |-> index])
  /\ index' = index + 1
  /\ UNCHANGED <<records, tape, ownership, verdict>>

\* Fault: a cut skips the action after it.
CutSkippingNext(record, owned) ==
  /\ runs' = Append(runs, [primitive |-> record.primitive, owned |-> owned, at |-> index])
  /\ index' = index + Len(owned) + 1
  /\ UNCHANGED <<records, tape, ownership, verdict>>

Cut(record, owned) ==
  /\ runs' = Append(runs, [primitive |-> record.primitive, owned |-> owned, at |-> index])
  /\ index' = index + Len(owned)
  /\ UNCHANGED <<records, tape, ownership, verdict>>

Refuse(error) ==
  /\ verdict' = error
  /\ UNCHANGED <<records, tape, ownership, index, runs>>

ScheduleCompound ==
  /\ Scheduling
  /\ ~Ambiguous(Compounds)
  /\ \E record \in Compounds : Cut(record, record.refines)

ScheduleSingleton ==
  /\ Scheduling
  /\ Compounds = {}
  /\ Partials = {}
  /\ ~Ambiguous(Singletons)
  /\ \E record \in Singletons : Cut(record, <<tape[index + 1]>>)

RefuseAmbiguous ==
  /\ Scheduling
  /\ \/ Ambiguous(Compounds)
     \/ Compounds = {} /\ Partials = {} /\ Ambiguous(Singletons)
  /\ Refuse("ambiguous")

RefusePartial ==
  /\ Scheduling
  /\ Compounds = {}
  /\ Partials # {}
  /\ Refuse("partial")

RefuseUnowned ==
  /\ Scheduling
  /\ Compounds = {} /\ Partials = {} /\ Singletons = {}
  /\ Refuse("unowned")

FinishSchedule ==
  /\ verdict = "scheduling"
  /\ index = Len(tape)
  /\ verdict' = "scheduled"
  /\ UNCHANGED <<records, tape, ownership, index, runs>>

ScheduleNext ==
  \/ Collect
  \/ RefuseTables
  \/ ScheduleCompound
  \/ ScheduleSingleton
  \/ RefuseAmbiguous
  \/ RefusePartial
  \/ RefuseUnowned
  \/ FinishSchedule

\* One synchronous call: the loop keeps running until it returns.
ScheduleSpec == ScheduleInit /\ [][ScheduleNext]_scheduleVars /\ WF_scheduleVars(ScheduleNext)

-----------------------------------------------------------------------------
End(run) == run.at + Len(run.owned)

\* Laid end to end, the runs are exactly the part of the tape consumed so far:
\* no action is skipped, repeated or reordered. drive.rs adds up the lengths of
\* `owned_actions` to find each run's arguments, so a gap here would dispatch
\* one action with the arguments of another.
RunsTileTape ==
  /\ \A i \in DOMAIN runs : runs[i].owned # <<>> /\ Occurs(runs[i].owned, tape, runs[i].at)
  /\ \A i \in DOMAIN runs : runs[i].at = IF i = 1 THEN 0 ELSE End(runs[i - 1])
  /\ index = IF runs = <<>> THEN 0 ELSE End(runs[Len(runs)])

\* "JSON must present that sequence intact": where the tape holds the first two
\* actions of some compound command, the two are never cut apart into one-action
\* runs of other commands.
NoSplitCompound ==
  \A i \in DOMAIN runs : \A record \in ownership :
    Len(runs[i].owned) = 1 => ~ /\ Len(record.refines) > 1
                                /\ Occurs(SubSeq(record.refines, 1, 2), tape, runs[i].at)

\* Every run is performed by the command of a collected descriptor, no other
\* collected descriptor could have taken the same run, and identifiers name one
\* descriptor each, so the driver's dispatch on the identifier is unambiguous.
SoleOwner ==
  \A i \in DOMAIN runs : \E record \in ownership :
    LET Owns(other) == IF Len(runs[i].owned) > 1
                         THEN FitsCompound(other, tape, runs[i].at)
                         ELSE FitsSingleton(other, tape, runs[i].at)
    IN /\ Owns(record)
       /\ record.primitive = runs[i].primitive
       /\ \A other \in ownership \ {record} :
            ~Owns(other) /\ other.primitive # record.primitive

\* Records as inferProject writes them: every action belongs to one primitive,
\* which lists it once; there are no aliases and no legacy actions.
Generated(table) ==
  /\ Collectable(table)
  /\ \A i \in DOMAIN table :
       /\ table[i].refines # <<>> /\ table[i].aliases = {} /\ table[i].actions = {}
       /\ IsInjective(table[i].refines)
  /\ \A i, j \in DOMAIN table :
       i # j => Range(table[i].refines) \cap Range(table[j].refines) = {}

\* Some way to cut the whole tape into runs of collected commands.
HasTiling ==
  \E cuts \in SUBSET (0 .. Len(tape)) :
    /\ {0, Len(tape)} \subseteq cuts
    /\ \A from \in cuts \ {Len(tape)} :
         \E record \in ownership :
           LET to == from + Len(record.refines)
           IN /\ to \in cuts
              /\ Occurs(record.refines, tape, from)
              /\ \A between \in from + 1 .. to - 1 : between \notin cuts

\* For the ownership the compiler generates, the greedy walk never gives up on
\* a scenario that its commands could perform: it refuses a tape only if there
\* is no way at all to cut it, and never as ambiguous.
GreedyIsComplete ==
  Generated(records) =>
    /\ verdict \notin {"badTable", "ambiguous"}
    /\ verdict \in {"partial", "unowned"} => ~HasTiling

=============================================================================
