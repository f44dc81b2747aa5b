------------------------------- MODULE Inference ------------------------------
(***************************************************************************)
(* From an annotated model to scheduled scenarios: inferProject            *)
(* (packages/compiler/cli.mjs) reads commands and actions from comments    *)
(* and runs, generateConformanceTraces (generate.mjs) reads the runs       *)
(* again into an artifact, and the generated refine_all collects the       *)
(* ownership table once and schedules the scenarios one after another.     *)
(***************************************************************************)
EXTENDS Schedule, SequencesExt

CONSTANTS
  Projects,     \* the models the compiler is given
  Capabilities, \* an action, or a name from `requires = [...]`
  Adapters,     \* the targets of the generated code
  Identifier,   \* method a name is turned into: [Adapters -> [Primitives -> ...]]
  Reserved      \* methods an adapter may not have: [Adapters -> SUBSET ...]

\* A command for one action has the action's name, which is never empty.
ASSUME NamesAssumption == Names \subseteq Primitives \ {Blank} /\ Names \subseteq Capabilities

VARIABLES
  project, \* the parsed model with its comments
  phase,   \* "inferring", "inferred" (or "rejected"), "generated" (or "unreadable"),
           \* "refining", "refined" or "failed"
  tapes    \* the scenarios of the artifact that are still to be refined

inferenceVars == <<project, phase, tapes>>

\* A line of a run's doc comment that has the text @conformance in it. Only one
\* that begins with it is a directive, and a bare one lists nothing.
DocLine ==
  {line \in [kind : {"mention", "bare", "requires", "malformed"},
             capabilities : Seq(Capabilities)] :
     line.kind = "bare" => line.capabilities = <<>>}

\* An operand of `then`: a name or a call, an observation block, another
\* `all { ... }`, or another expression.
Step == [kind : {"name", "call", "observation", "block", "other"}, name : Names]

\* A run of the scenario module. `tested` if `quint test --match=Run$` runs it.
ProjectRun ==
  [doc : Seq(DocLine), steps : Seq(Step) \ {<<>>}, tested : BOOLEAN, passes : BOOLEAN]

\* `@primitive name = [...]`; without actions where the line is malformed.
Directive == [name : Primitives \ {Blank}, actions : Seq(Names)]

\* `rivals`: other modules have conformance runs too. `requested`: --module.
\* Code is generated for one language at least.
Project ==
  [runs : Seq(ProjectRun), directives : Seq(Directive), defined : SUBSET Names,
   rivals : BOOLEAN, requested : {"nothing", "this", "unknown"},
   state : {"record", "scalar", "several"}, targets : (SUBSET Adapters) \ {{}}]

ASSUME ProjectsAssumption ==
  Projects \subseteq Project /\ \A model \in Projects : IsFiniteSet(model.defined)

InferenceInit ==
  /\ project \in Projects
  /\ phase = "inferring"
  /\ tapes = <<>>
  /\ records = <<>> /\ tape = <<>>
  /\ ownership = {} /\ index = 0 /\ runs = <<>> /\ verdict = "collecting"

-----------------------------------------------------------------------------
\* The elements of a sequence that are in a set, in their order.
Those(s, wanted) ==
  LET kept[n \in 0 .. Len(s)] ==
        IF n = 0 THEN <<>>
        ELSE IF s[n] \in wanted THEN Append(kept[n - 1], s[n]) ELSE kept[n - 1]
  IN kept[Len(s)]

\* What both readings of the model take from it.
AnnotatedRuns(model) == {run \in Range(model.runs) : run.doc # <<>>}
ConformanceRuns(model) == Those(model.runs, AnnotatedRuns(model))

DirectiveLines(run) == Those(run.doc, {line \in Range(run.doc) : line.kind # "mention"})

WellAnnotated(run) ==
  /\ Len(DirectiveLines(run)) = 1
  /\ DirectiveLines(run)[1].kind # "malformed"
  /\ IsInjective(DirectiveLines(run)[1].capabilities)

ActionSteps(run) == {step \in Range(Tail(run.steps)) : step.kind \in {"name", "call"}}

ActionTape(run) ==
  LET actions == Those(Tail(run.steps), ActionSteps(run))
  IN [i \in DOMAIN actions |-> actions[i].name]

-----------------------------------------------------------------------------
\* inferProject. The model describes the scenario module.
Selected(model) ==
  /\ AnnotatedRuns(model) # {}
  /\ model.requested = "this" \/ (model.requested = "nothing" /\ ~model.rivals)

Readable(run) ==
  /\ WellAnnotated(run)
  /\ run.steps[1].kind = "name"
  /\ \A i \in 2 .. Len(run.steps) : run.steps[i].kind # "other"

Initializers(model) == {run.steps[1].name : run \in AnnotatedRuns(model)}
Actions(model) == UNION {Range(ActionTape(run)) : run \in AnnotatedRuns(model)}

\* Fault: only the capabilities somebody wrote down.
WrittenCapabilities(model) ==
  UNION {Range(DirectiveLines(run)[1].capabilities) : run \in AnnotatedRuns(model)}

ProjectCapabilities(model) ==
  UNION {LET directive == DirectiveLines(run)[1] IN
         Range(directive.capabilities)
           \cup IF directive.kind = "bare" THEN Range(ActionTape(run)) ELSE {} :
         run \in AnnotatedRuns(model)}

Claimed(model) == UNION {Range(directive.actions) : directive \in Range(model.directives)}

\* Fault: a directive may claim what an earlier one has.
DirectivesClaimExecuted(model) ==
  \A directive \in Range(model.directives) :
    /\ directive.actions # <<>>
    /\ Range(directive.actions) \subseteq Actions(model)
    /\ IsInjective(directive.actions)

DirectivesClaimOnce(model) ==
  /\ \A directive \in Range(model.directives) :
       /\ directive.actions # <<>>
       /\ Range(directive.actions) \subseteq Actions(model)
       /\ IsInjective(directive.actions)
  /\ \A i, j \in DOMAIN model.directives :
       i # j => Range(model.directives[i].actions) \cap Range(model.directives[j].actions) = {}

Record(primitive, actions) ==
  [primitive |-> primitive, refines |-> actions, aliases |-> {}, actions |-> {}]

\* The records of the adapter: one for each directive and one for each action
\* that none of them claims. They are sorted by name, which nothing relies on.
OwnershipTable(model) ==
  LET unclaimed == SetToSeq(Actions(model) \ Claimed(model)) IN
  [i \in DOMAIN model.directives |->
     Record(model.directives[i].name, model.directives[i].actions)]
  \o [i \in DOMAIN unclaimed |-> Record(unclaimed[i], <<unclaimed[i]>>)]

\* Fault: methods are only compared with the reserved ones.
MethodsNotReserved(model) ==
  \A t \in model.targets : \A record \in Range(OwnershipTable(model)) :
    Identifier[t][record.primitive] \notin Reserved[t]

MethodsDistinct(model) ==
  LET table == OwnershipTable(model) IN
  \A t \in model.targets :
    /\ \A i \in DOMAIN table : Identifier[t][table[i].primitive] \notin Reserved[t]
    /\ IsInjective([i \in DOMAIN table |-> Identifier[t][table[i].primitive]])

Accepted(model) ==
  /\ Selected(model)
  /\ \A run \in AnnotatedRuns(model) : Readable(run)
  /\ \E initializer \in Names : Initializers(model) = {initializer}
  /\ Actions(model) # {} /\ Actions(model) \subseteq model.defined
  /\ model.state = "record"
  /\ DirectivesClaimOnce(model)
  /\ MethodsDistinct(model)

InferProject ==
  /\ phase = "inferring"
  /\ Accepted(project)
  /\ records' = OwnershipTable(project)
  /\ phase' = "inferred"
  /\ UNCHANGED <<project, tapes, tape, ownership, index, runs, verdict>>

RejectProject ==
  /\ phase = "inferring"
  /\ ~Accepted(project)
  /\ phase' = "rejected"
  /\ UNCHANGED <<project, tapes, scheduleVars>>

-----------------------------------------------------------------------------
\* generateConformanceTraces, for the application inferredApp makes of it.
\* A bare directive requires what every step but a block is called.
RequiredCapabilities(run) ==
  LET directive == DirectiveLines(run)[1] IN
  IF directive.kind = "bare"
    THEN {step.name : step \in {step \in Range(Tail(run.steps)) :
                                   step.kind \notin {"observation", "block"}}}
    ELSE Range(directive.capabilities)

InVocabulary(model, run) ==
  /\ RequiredCapabilities(run) \subseteq ProjectCapabilities(model)
  /\ run.steps[1].kind = "name" /\ run.steps[1].name \in Initializers(model)
  /\ Range(ActionTape(run)) \subseteq Actions(model)

Observes(run) ==
  /\ \A step \in Range(run.steps) : step.kind # "block"
  /\ \E step \in Range(run.steps) : step.kind = "observation"

UnusedCapabilities(model) ==
  ProjectCapabilities(model)
    \ UNION {RequiredCapabilities(run) : run \in AnnotatedRuns(model)}

\* `quint test` runs the tests that carry no annotation as well.
Generable(model) ==
  /\ \A run \in AnnotatedRuns(model) : InVocabulary(model, run) /\ Observes(run) /\ run.tested
  /\ \A run \in Range(model.runs) : run.tested => run.passes
  /\ UnusedCapabilities(model) = {}

GenerateArtifact ==
  /\ phase = "inferred"
  /\ Generable(project)
  /\ tapes' = [i \in DOMAIN ConformanceRuns(project) |-> ActionTape(ConformanceRuns(project)[i])]
  /\ phase' = "generated"
  /\ UNCHANGED <<project, scheduleVars>>

RefuseGeneration ==
  /\ phase = "inferred"
  /\ ~Generable(project)
  /\ phase' = "unreadable"
  /\ UNCHANGED <<project, tapes, scheduleVars>>

-----------------------------------------------------------------------------

BeginScenario ==
  /\ tape' = Head(tapes)
  /\ tapes' = Tail(tapes)
  /\ index' = 0
  /\ runs' = <<>>

\* The table is collected before the first scenario, and only then.
RefineAll ==
  /\ phase = "generated"
  /\ BeginScenario
  /\ phase' = "refining"
  /\ UNCHANGED <<project, records, ownership, verdict>>

ScheduleScenario ==
  /\ phase = "refining"
  /\ ScheduleNext
  /\ UNCHANGED inferenceVars

\* refine_scenario refuses a scenario in which nothing is evaluated.
NextScenario ==
  /\ phase = "refining" /\ verdict = "scheduled" /\ tape # <<>>
  /\ tapes # <<>>
  /\ BeginScenario
  /\ verdict' = "scheduling"
  /\ UNCHANGED <<project, phase, records, ownership>>

AllRefined ==
  /\ phase = "refining" /\ verdict = "scheduled" /\ tape # <<>>
  /\ tapes = <<>>
  /\ phase' = "refined"
  /\ UNCHANGED <<project, tapes, scheduleVars>>

\* The first scenario that cannot be scheduled, or that the implementation does
\* not follow, ends the test.
ScenarioFails ==
  /\ phase = "refining" /\ verdict # "scheduling"
  /\ phase' = "failed"
  /\ UNCHANGED <<project, tapes, scheduleVars>>

InferenceNext ==
  \/ InferProject
  \/ RejectProject
  \/ GenerateArtifact
  \/ RefuseGeneration
  \/ RefineAll
  \/ ScheduleScenario
  \/ NextScenario
  \/ AllRefined
  \/ ScenarioFails

InferenceSpec == InferenceInit /\ [][InferenceNext]_<<inferenceVars, scheduleVars>>

-----------------------------------------------------------------------------
\* Fault: a command for one action is taken for an ordinary action.
ArmAcceptsByLength(model, primitive, owned) ==
  \/ \E directive \in Range(model.directives) :
       /\ Len(directive.actions) > 1
       /\ directive.name = primitive /\ directive.actions = owned
  \/ owned = <<primitive>>

\* The branch of the generated driver for `primitive` accepts the actions.
ArmAccepts(model, primitive, owned) ==
  IF \E directive \in Range(model.directives) : directive.name = primitive
    THEN \E directive \in Range(model.directives) :
           directive.name = primitive /\ directive.actions = owned
    ELSE owned = <<primitive>>

\* The generated table satisfies what the scheduler wants of tables, and what
\* docs/reference/model.md says of commands: every action some scenario
\* executes has exactly one, and a command has no others.
OwnsEveryActionOnce ==
  phase \notin {"inferring", "rejected"} =>
    /\ Generated(records)
    /\ UNION {Range(records[i].refines) : i \in DOMAIN records} = Actions(project)

\* The compiler reads the runs twice, with two pieces of code. The second finds
\* every capability, action and initializer in the vocabulary that the first
\* has made, and uses all of it: whatever it still refuses concerns observation
\* blocks and Quint's own tests, which the first does not look at.
ReadingsAgree ==
  phase \notin {"inferring", "rejected"} =>
    /\ \A run \in AnnotatedRuns(project) : InVocabulary(project, run)
    /\ UnusedCapabilities(project) = {}

\* The scheduler (runtime) and the driver (generated) agree on commands: no run
\* of actions that one cuts is refused by the other's branch for its primitive.
ArmsAcceptRuns ==
  \A i \in DOMAIN runs : ArmAccepts(project, runs[i].primitive, runs[i].owned)

\* An accepted model fails in scheduling only if a scenario breaks up a command
\* of several actions and cannot be performed by any choice of commands. The
\* table is never at fault.
AcceptedIsSchedulable ==
  /\ verdict \notin {"badTable", "ambiguous"}
  /\ verdict \in Errors =>
       /\ ~HasTiling
       /\ \E directive \in Range(project.directives) :
            /\ Len(directive.actions) > 1
            /\ tape[index + 1] \in Range(directive.actions)

=============================================================================
