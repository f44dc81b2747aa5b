------------------------------- MODULE Artifact ------------------------------
(***************************************************************************)
(* quint-refinements.json from the compiler that writes it                 *)
(* (packages/compiler: shareAssertionLists, compileProject) to the runtime *)
(* that reads it (bindings/rust/src/artifact.rs: ConformanceArtifact).     *)
(* Schema 3 keeps each distinct list of obligations once and a step names  *)
(* its lists by index; schema 2 has them on the step. In between the file  *)
(* lies in a repository, where a merge or a hand may change it.            *)
(***************************************************************************)
EXTENDS Naturals, Sequences

CONSTANTS
  Lists,            \* lists of obligations, equal when their JSON is
  Empty,            \* the list without obligations
  Omitted,          \* the value of a field the file leaves out
  Dependencies(_),  \* what the obligations of a list read
  Vocabularies,     \* expression vocabularies of compilers and runtimes
  RuntimeVocabulary,
  Sources,          \* what may be compiled: the steps of the scenarios, in a row
  EditedVersions, EditedTables, EditedSteps, \* what an edit may put in the file
  MaxFileEdits      \* bound: edits between writing and reading

Step == [guards : Lists, next : Lists, assertions : Lists]

\* A step as the file has it. `assertions` is what an observation checks.
RawStep ==
  [guards : Lists \cup {Omitted}, next : Lists \cup {Omitted},
   guardList : Nat \cup {Omitted}, nextList : Nat \cup {Omitted},
   assertions : Lists]

Table == Seq(Lists) \cup {Omitted}

File ==
  [version : Nat, vocabulary : Vocabularies, hydrated : BOOLEAN,
   lists : Table, steps : Seq(RawStep)]

ASSUME ListsAssumption ==
  /\ Empty \in Lists
  /\ Omitted \notin Lists \cup Nat \cup Seq(Lists)
  /\ Sources \subseteq Seq(Step)
  /\ RuntimeVocabulary \in Vocabularies

\* No obligations read nothing.
ASSUME DependenciesAssumption == Dependencies(Empty) = {}

ASSUME EditsAssumption ==
  /\ EditedVersions \subseteq Nat
  /\ EditedTables \subseteq Table
  /\ EditedSteps \subseteq RawStep
  /\ MaxFileEdits \in Nat

VARIABLES
  source,    \* the steps that were compiled
  file,      \* the artifact
  retrieve,  \* the generated adapter's retrieve list, or Omitted
  steps,     \* the steps the runtime has read
  position,  \* how many steps have been shared, or read
  phase,     \* "sharing", "written", "reading", then "loaded" or "refused"
  fileEdits  \* how often the file was edited

artifactVars == <<source, file, retrieve, steps, position, phase, fileEdits>>

ArtifactTypeOK ==
  /\ source \in Seq(Step)
  /\ file \in File
  /\ steps \in Seq(Step)
  /\ position \in Nat
  /\ phase \in {"sharing", "written", "reading", "loaded", "refused"}
  /\ fileEdits \in 0 .. MaxFileEdits

\* Schema 2: obligations on the step. No compiler of this repository writes it
\* any more, files written by older ones are still read.
Inline(step) ==
  [guards |-> step.guards, next |-> step.next,
   guardList |-> Omitted, nextList |-> Omitted, assertions |-> step.assertions]

ArtifactInit ==
  /\ source \in Sources
  /\ \E vocabulary \in Vocabularies, hydrated \in BOOLEAN :
       \/ /\ phase = "sharing"
          /\ file = [version |-> 3, vocabulary |-> vocabulary, hydrated |-> hydrated,
                     lists |-> <<>>, steps |-> <<>>]
       \/ /\ phase = "written"
          /\ file = [version |-> 2, vocabulary |-> vocabulary, hydrated |-> hydrated,
                     lists |-> Omitted, steps |-> [i \in DOMAIN source |-> Inline(source[i])]]
  /\ retrieve = Omitted
  /\ steps = <<>>
  /\ position = 0
  /\ fileEdits = 0

-----------------------------------------------------------------------------
\* The compiler.
Has(table, list) == \E i \in DOMAIN table : table[i] = list

\* Fault: a list is stored each time it appears.
InternAlways(table, list) == IF list = Empty THEN table ELSE Append(table, list)

Intern(table, list) ==
  IF list = Empty \/ Has(table, list) THEN table ELSE Append(table, list)

\* Fault: references count from one.
ReferenceFromOne(table, list) ==
  IF list = Empty THEN Omitted ELSE CHOOSE i \in DOMAIN table : table[i] = list

Reference(table, list) ==
  IF list = Empty THEN Omitted ELSE (CHOOSE i \in DOMAIN table : table[i] = list) - 1

Shared(step, table) ==
  [guards |-> Omitted, next |-> Omitted,
   guardList |-> Reference(table, step.guards), nextList |-> Reference(table, step.next),
   assertions |-> step.assertions]

ShareStep ==
  LET step == source[position + 1]
      table == Intern(Intern(file.lists, step.guards), step.next)
  IN /\ phase = "sharing"
     /\ position < Len(source)
     /\ file' = [file EXCEPT !.lists = table, !.steps = Append(@, Shared(step, table))]
     /\ position' = position + 1
     /\ UNCHANGED <<source, retrieve, steps, phase, fileEdits>>

\* Fault: only the stored lists are looked at, observations are forgotten.
SharedDependencies ==
  UNION {Dependencies(file.lists[i]) : i \in DOMAIN file.lists}

\* The retrieve list of the adapter: every dependency of a stored list and of an
\* assertion that stayed on its step.
GeneratedDependencies ==
  (UNION {Dependencies(file.lists[i]) : i \in DOMAIN file.lists})
    \cup (UNION {Dependencies(file.steps[i].assertions) : i \in DOMAIN file.steps})

Write ==
  /\ phase = "sharing"
  /\ position = Len(source)
  /\ retrieve' = GeneratedDependencies
  /\ phase' = "written"
  /\ UNCHANGED <<source, file, steps, position, fileEdits>>

-----------------------------------------------------------------------------
\* The file in its repository.
EditFile ==
  /\ phase = "written"
  /\ fileEdits < MaxFileEdits
  /\ \/ \E version \in EditedVersions : file' = [file EXCEPT !.version = version]
     \/ \E table \in EditedTables : file' = [file EXCEPT !.lists = table]
     \/ \E i \in DOMAIN file.steps, raw \in EditedSteps : file' = [file EXCEPT !.steps[i] = raw]
  /\ fileEdits' = fileEdits + 1
  /\ UNCHANGED <<source, retrieve, steps, position, phase>>

-----------------------------------------------------------------------------
\* The runtime.
AcceptsHeader == file.version \in 2 .. 3 /\ (file.version < 3 => file.lists = Omitted)

ReadHeader ==
  /\ phase = "written"
  /\ AcceptsHeader
  /\ phase' = "reading"
  /\ position' = 0
  /\ UNCHANGED <<source, file, retrieve, steps, fileEdits>>

RefuseHeader ==
  /\ phase = "written"
  /\ ~AcceptsHeader
  /\ phase' = "refused"
  /\ UNCHANGED <<source, file, retrieve, steps, position, fileEdits>>

\* A version 3 file may leave the table out when it has no obligations.
StoredLists == IF file.lists = Omitted THEN <<>> ELSE file.lists

InRange(reference) == reference \in {i - 1 : i \in DOMAIN StoredLists} \cup {Omitted}

\* Fault: inline obligations of a version 3 step are passed over.
AcceptsReferences(raw) ==
  /\ file.version < 3 => raw.guardList = Omitted /\ raw.nextList = Omitted
  /\ InRange(raw.guardList) /\ InRange(raw.nextList)

Accepts(raw) ==
  /\ file.version >= 3 => raw.guards = Omitted /\ raw.next = Omitted
  /\ file.version < 3 => raw.guardList = Omitted /\ raw.nextList = Omitted
  /\ InRange(raw.guardList) /\ InRange(raw.nextList)

Resolve(reference, inline) ==
  IF reference # Omitted THEN StoredLists[reference + 1]
  ELSE IF inline # Omitted THEN inline ELSE Empty

Resolved(raw) ==
  [guards |-> Resolve(raw.guardList, raw.guards),
   next |-> Resolve(raw.nextList, raw.next),
   assertions |-> raw.assertions]

ReadStep ==
  /\ phase = "reading"
  /\ position < Len(file.steps)
  /\ Accepts(file.steps[position + 1])
  /\ steps' = Append(steps, Resolved(file.steps[position + 1]))
  /\ position' = position + 1
  /\ UNCHANGED <<source, file, retrieve, phase, fileEdits>>

RefuseStep ==
  /\ phase = "reading"
  /\ position < Len(file.steps)
  /\ ~Accepts(file.steps[position + 1])
  /\ phase' = "refused"
  /\ UNCHANGED <<source, file, retrieve, steps, position, fileEdits>>

\* ConformanceArtifact::parse: only a scenario that carries Quint's initial
\* state needs the evaluator to know the artifact's whole vocabulary.
SpeaksVocabulary == file.hydrated => file.vocabulary = RuntimeVocabulary

Load ==
  /\ phase = "reading"
  /\ position = Len(file.steps)
  /\ phase' = (IF SpeaksVocabulary THEN "loaded" ELSE "refused")
  /\ UNCHANGED <<source, file, retrieve, steps, position, fileEdits>>

ArtifactNext ==
  \/ ShareStep
  \/ Write
  \/ EditFile
  \/ ReadHeader
  \/ RefuseHeader
  \/ ReadStep
  \/ RefuseStep
  \/ Load

ArtifactSpec == ArtifactInit /\ [][ArtifactNext]_artifactVars

-----------------------------------------------------------------------------
\* What was compiled is what is read, in either schema, and nothing that nobody
\* edited is refused unless the evaluator does not speak its vocabulary.
LoadsWhatWasCompiled ==
  fileEdits = 0 =>
    /\ phase = "loaded" => steps = source
    /\ phase = "refused" => ~SpeaksVocabulary

\* "An index outside assertionLists, or a mix of the two forms, is an error":
\* no edit makes the runtime read fewer obligations than a step declares, in
\* either of the forms, or read them from two places.
ObligationsAreKept ==
  phase = "loaded" =>
    /\ Len(steps) = Len(file.steps)
    /\ \A i \in DOMAIN steps :
         LET raw == file.steps[i] IN
         /\ raw.guards # Omitted => steps[i].guards = raw.guards /\ raw.guardList = Omitted
         /\ raw.next # Omitted => steps[i].next = raw.next /\ raw.nextList = Omitted
         /\ raw.guardList # Omitted =>
              raw.guardList < Len(file.lists) /\ steps[i].guards = file.lists[raw.guardList + 1]
         /\ raw.nextList # Omitted =>
              raw.nextList < Len(file.lists) /\ steps[i].next = file.lists[raw.nextList + 1]

References(i) == {file.steps[i].guardList, file.steps[i].nextList} \ {Omitted}

\* "Each distinct list once, in order of first appearance": the table has no
\* list twice and none that no step names, and a step names a list that is new
\* only when all the lists before it have been named. So the same model always
\* gives the same bytes.
TableInOrder ==
  phase \in {"sharing", "written"} /\ file.version = 3 /\ fileEdits = 0 =>
    /\ \A i, j \in DOMAIN file.lists : file.lists[i] = file.lists[j] => i = j
    /\ \A i \in DOMAIN file.lists : \E p \in DOMAIN file.steps : i - 1 \in References(p)
    /\ \A p \in DOMAIN file.steps :
         LET before == UNION {References(q) : q \in 1 .. p - 1}
             raw == file.steps[p]
         IN /\ raw.guardList # Omitted => 0 .. raw.guardList - 1 \subseteq before
            /\ raw.nextList # Omitted =>
                 0 .. raw.nextList - 1 \subseteq before \cup {raw.guardList}

\* The adapter retrieves exactly what the obligations of the loaded steps read:
\* none of them is unsupported, and no implementation is asked for more.
RetrieveIsComplete ==
  phase = "loaded" /\ fileEdits = 0 /\ retrieve # Omitted =>
    retrieve =
      UNION {Dependencies(steps[i].guards) \cup Dependencies(steps[i].next)
               \cup Dependencies(steps[i].assertions) : i \in DOMAIN steps}

=============================================================================
