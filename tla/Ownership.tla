------------------------------ MODULE Ownership ------------------------------
(***************************************************************************)
(* Ownership records: which implementation command ("primitive") performs  *)
(* which Quint actions, how a set of records is validated, and how one     *)
(* record can fit the scenario's action tape at a position.                *)
(* bindings/rust/src/ownership.rs and the fit half of schedule.rs.         *)
(***************************************************************************)
EXTENDS Naturals, Sequences, Functions

CONSTANTS Names,      \* Quint action names
          Primitives, \* primitive identifiers
          Blank       \* the identifier that is empty once trimmed

ASSUME BlankAssumption == Blank \in Primitives

\* What an owner exports. `refines` is ordered; `aliases` and the legacy
\* `actions` are only ever asked for membership.
OwnershipRecord ==
  [primitive : Primitives, refines : Seq(Names),
   aliases : SUBSET Names, actions : SUBSET Names]

OwnershipDescriptor == OwnershipRecord

CoverageActions(record) == Range(record.refines) \cup record.aliases \cup record.actions

Descriptor(record) == [record EXCEPT !.actions = CoverageActions(record)]

\* collect_ownership_records refuses the tables for one of three reasons.
EmptyPrimitiveId(records) ==
  \E i \in DOMAIN records : records[i].primitive = Blank

AliasesOnCompoundSequence(records) ==
  \E i \in DOMAIN records : Len(records[i].refines) > 1 /\ records[i].aliases # {}

DuplicatePrimitiveId(records) ==
  \E i, j \in DOMAIN records : i # j /\ records[i].primitive = records[j].primitive

Collectable(records) ==
  /\ ~EmptyPrimitiveId(records)
  /\ ~AliasesOnCompoundSequence(records)
  /\ ~DuplicatePrimitiveId(records)

CollectOwnershipRecords(records) == {Descriptor(records[i]) : i \in DOMAIN records}

-----------------------------------------------------------------------------
\* `names` is what `tape` holds right after its first `at` actions.
Occurs(names, tape, at) ==
  /\ at + Len(names) <= Len(tape)
  /\ \A i \in 1 .. Len(names) : tape[at + i] = names[i]

\* Fault: the sequence must be all that is left of the tape.
FitsCompoundToTheEnd(record, tape, at) ==
  /\ Len(record.refines) > 1
  /\ Occurs(record.refines, tape, at)
  /\ at + Len(record.refines) = Len(tape)

FitsCompound(record, tape, at) ==
  Len(record.refines) > 1 /\ Occurs(record.refines, tape, at)

\* Fault: a broken sequence does not count as one.
NeverFitsPartial(record, tape, at) == FALSE

\* The first two actions of the sequence are there, the rest is not.
FitsPartial(record, tape, at) ==
  /\ Len(record.refines) > 1
  /\ ~Occurs(record.refines, tape, at)
  /\ at + 2 <= Len(tape)
  /\ tape[at + 1] = record.refines[1]
  /\ tape[at + 2] = record.refines[2]

FitsSingleton(record, tape, at) ==
  LET action == tape[at + 1] IN
  \/ record.refines = <<action>>
  \/ /\ record.refines # <<>>
     /\ action \in record.aliases
     /\ ~FitsCompound(record, tape, at)
     /\ ~FitsPartial(record, tape, at)
  \/ record.refines = <<>> /\ action \in record.actions

=============================================================================
