# Quint refinements, specified

TLA+ modules for this repository: what the runtimes accept and reject, how the
compiler and they exchange an artifact, and what can be relied on when a test
"refines" a Quint model. TLC checks the modules on small instances, TLAPS proves
the most important properties for every instance.

The reference is the Rust binding (`bindings/rust/src`), which the Go and
TypeScript bindings port function by function, and the compiler
(`packages/compiler`).

## The system

A user annotates a Quint model: `@primitive` names the commands of the
implementation, `@conformance` marks the runs to be replayed. The compiler runs
those through Quint and writes one JSON artifact with scenarios (actions with their
arguments, guards, assignments and the states Quint reached) and one adapter per
language. A test calls the runtime with the artifact, and the runtime drives the
implementation along each scenario and judges the evidence it reports.

```
model.qnt --compile--> quint-refinements.json --parse--> scenarios, obligations
                       generated adapter      ---------> ownership tables, retrieve list
scenario --schedule--> runs of primitives --dispatch--> implementation
implementation --evidence--> tape --reduce, judge--> projected state, verdict
```

| Component | Source | State it keeps | Operations | Interacts with |
|---|---|---|---|---|
| Ownership tables | `ownership.rs` | none | validate, collect descriptors, coverage | scheduler, by value |
| Scheduler | `schedule.rs` | index into the tape, runs cut so far | `schedule_primitive_runs` | runner |
| Session and loop | `drive.rs` | evidence tape, projected state, index, count, `awaiting_observation` | `new`, `next_action`, `record`, `finish`; the async loop | calls the reducer; is called by any harness; awaits a driver |
| Primitive runner | `drive.rs` | tape, reduced state, `action_offset` | `refine_scenario`, `..._async` | scheduler, reducer, driver callback |
| Reducer and tape evaluator | `evaluate.rs` | none (projected state is passed through) | pre-guards, one action step, prefix, whole tape | expression evaluator, values |
| Expression evaluator | `evaluate.rs` | environment, assignment sink | one function per operator | evidence (`resolve_name`, `resolve_call`) |
| Runtime values | `evaluate.rs` | none | decode, merge, compare | reducer |
| Artifact reader | `artifact.rs` | none | parse | everything, by value |
| Fixture table | `fixtures.rs` | the constants twice: as values and as JSON | `new`, `from_artifact`, `insert`, `insert_set`, `validate`, `validate_entries` | filled by adapters, compared with the artifact, read by the evaluator (`BoundEvidence`) |
| Compiler, inference | `cli.mjs` | none | `inferProject`: commands, actions and vocabulary from comments and runs; text of the adapters | scheduler and runner, through the generated adapter |
| Compiler, command line | `cli.mjs` | files of the project | `compile`, `compile --check`, `new` | Quint, rustfmt, gofmt, the user |
| Compiler, traces | `generate.mjs` | temporary directory | parse Quint's JSON, inline definitions, extract obligations and fixtures, share lists, digest | Quint |
| Go and TypeScript runtimes | `bindings/go`, `bindings/typescript/src` | as the Rust runtime | as the Rust runtime | |
| Raft examples | `examples/rust/raft`, `examples/rust/raft_network` | terms, roles, votes, logs, commit indices; the messages sent | timeouts, votes, appends, commits; the delivery of any message | driven by generated tests |

What is hard, and what makes each part correct:

* **Scheduler.** A greedy cut without backtracking; tables may overlap, nest or
  repeat names. Correct if the runs tile the tape, no command is cut apart, every
  run has one owner, and for generated tables no possible cut is missed.
* **Session.** A harness may call in any order, retry after errors, and answer with
  anything; `record` pushes evidence before it judges it. Correct if actions are
  handed out in order once each with the right arguments, a rejection cannot be
  talked away, evidence and model cannot drift apart, and the session accepts what
  the batch evaluator accepts.
* **Runner.** Three counts of actions (runs, offset, tape) must stay together
  across a driver's answers of any length; a diverged implementation must not be
  driven further.
* **Reducer.** Evidence is sparse, so the projected state is partly the model's
  own; correct if that hides nothing the obligations read.
* **Branching bodies.** Evaluated twice, against different states; correct if both
  passes see the same alternative, and that is one Quint could take.
* **Values.** Merge and comparison have to agree for every shape of value.
* **Expressions and inlining.** The compiler turns a body into guards by substitution;
  lambdas, lets, parameters and definitions share names. Correct if a guard says of
  every state what the body says in Quint.
* **Fixtures.** Compared as JSON, used as values, both written by the same calls.
  Correct if a table that passed holds the constants the guards were compiled with.
* **Artifact.** Obligations by index, two schemas, edits by hand; correct if nothing
  a file declares for a step is lost or misread.
* **Inference.** Ownership comes from comments and runs together, is checked once, and
  then relied on by scheduler and generated driver; correct if every accepted model
  yields a table on which neither can go wrong, and if the second reading of the runs
  finds what the first did.
* **Compile.** Three readings of the sources and several writes, each of which may
  fail; correct if `--check` notices every outcome and the user's files are kept.
* **Raft clusters.** Elections overlap, a deposed leader goes on appending, messages are
  late, repeated, reordered and lost. Correct if no node forgets or rewrites an entry it
  knows to be committed.

## The modules

| Module | Models | Extended by |
|---|---|---|
| `Ownership` | records, their validation and collection, how a record fits the tape | `Schedule` |
| `Schedule` | `collect_ownership_records` and the loop of `schedule_primitive_runs` | `Refine`, `Inference`, `MCSchedule` |
| `QuintModel` | what the artifact says of a Quint model: actions, guards, alternatives, scenarios | `ActionStep`, `ModelRun` |
| `ModelRun` | abstract: a run of the model along a scenario | instantiated by `Session` |
| `ActionStep` | `evaluate_projected_action_step` and the batch evaluation of a tape | `Session`, `Refine` |
| `Session` | `RefinementSession` and `run_refined_actions_async` | `MCSession` |
| `Refine` | `refine_scenario(_async)`: composes `Schedule` and `ActionStep` | `MCRefine` |
| `Values` | the kinds of `RuntimeValue` | `Merging`, `Expressions` |
| `Merging` | `merge_state_value`, `structural_difference`; what an observation says of a value | `Alternatives`, `MCValues` |
| `Alternatives` | the two passes over `any`/`if` bodies, and the judgement of what they captured | `MCAlternatives` |
| `Expressions` | `evaluate_expression`, the built-in operators, free names | `Inlining` |
| `Inlining` | what the compiler makes of a body; what the body means in Quint | `Fixtures` |
| `Fixtures` | `FixtureTable` between compiler, adapter and evaluator: composes with `Inlining` | `MCFixtures` |
| `Artifact` | `shareAssertionLists`, edits, `ConformanceArtifact` | `MCArtifact` |
| `Inference` | `inferProject`, the runs' second reading, the generated `refine_all` and dispatch; composes with `Schedule` | `MCInference` |
| `Compile` | `compileProject`, `writeOrCheck`, its user and failures | `MCCompile` |
| `Consensus` | abstract: what the Raft examples promise about commits | instantiated by `Raft` |
| `Raft` | the cluster whose nodes call each other | `RaftNetwork`, `MCRaftFive` |
| `RaftNetwork` | the cluster whose nodes send messages | `MCRaft` |
| `Schedule_proofs`, `ActionStep_proofs`, `Session_proofs`, `Refine_proofs`, `Alternatives_proofs` (with `Merging`), `Inference_proofs`, `Compile_proofs` (with `Artifact`), `RaftNetwork_proofs` (both clusters) | theorems | |
| `MCModel` | a five-action Quint model shared by `MCSession` and `MCRefine` | |
| `MCReducer` | both questions about one step side by side: `MCAlternatives`, `MCFixtures` | |

**Schedule.** `records` and `tape` are the arguments, `index` and `runs` the local
variables of the loop, `ownership` the collected descriptors; `verdict` is the error
or success returned. Each turn of the loop is one of `ScheduleCompound`,
`ScheduleSingleton`, or a refusal. `Run.at` is a history field (the offset at which
the run starts).

**QuintModel and ActionStep.** A state assigns values to fields. An action has a
guard, and one or more alternatives, each with a condition (`Enabled`) and an
assignment (`Apply`). `Reads` are the dependencies of its obligations, `Retrieve` the
fields the adapter retrieves. Evidence is a partial state, or `Unresolved` for an
adapter whose `resolve_name` fails. `Validates` is the whole of
`evaluate_projected_action_step`: capture, required observations, merge,
post-guards, next. Its order of guards before assignments within a body is what
`Alternatives!TakesFirstAlternative` shows to be sound.

**Session.** The variables are the fields of the struct, plus `caller`, `status` and
`reply` (the result of the last call) and the history `dispatched`. Every method is
a set of actions, one per way it returns: `NextAction`, `NoMoreActions`,
`RefuseNextAction`; `Record`, `RejectRecord`, `RefuseRecord`; `Finish`. A harness may
call any of them at any time; the loop only in its order. `RejectRecord` keeps what
the code keeps: evidence is pushed, index and `awaiting` stay.

**Refine.** `phase` is the program counter of `refine_scenario`. `RunPrimitive`
resolves and dispatches a run, `AcceptTape`/`RejectTape`/`RefuseTape` are the three
outcomes of what the driver returns (right, diverged, wrong length). Without an
initial state nothing fills in missing fields, and adapters of such scenarios are
given complete states (`Answer`).

**Alternatives.** A body is a tree of guards, assignments, `all`, `any` and
conditions, evaluated with a sink as the code does; `Outcomes` is Quint's own meaning
of it, which the code is compared with. `Tree` is the set of all bodies and what they
are made of, `Updates` those that assign the state, which Quint's effect checker finds in
every alternative or in none.

**Values, Merging.** Values are tagged by the name of their one field. `Says` and `Whole`
are definitions of what an observation means that do not mention merging. The functions
of the source call themselves on what is inside a value or a body; so do these, as
recursive functions over the sets `Value` and `Tree`. What is inside is in the same set
and nested less deep (`Depth`, `Height`), which is all that is assumed of the sets: both
may be infinite, and there is no bound on depth.

**Expressions.** Expressions are tagged as the artifact's JSON is: a name, a literal, a
call, a lambda, a let. `ValueOf` is `evaluate_expression` with its environment in front
of the evidence; an error is a value of its own and stops the evaluation where the code
returns `Err`. Sets are evaluated in the order of their items, which decides which error
is met first.

**Inlining.** `Inline` replaces parameters and calls of definitions, renaming binders that
would capture a name an argument brings along (`Marked` is `freshBoundName`); `Conjuncts`
takes the body apart into guards. `Meaning` is the reference: an evaluation with lexical
scope, no substitution and no renaming, which shares only the built-in operators with
the code. Definitions without parameters written with `val` are not inlined
(`shouldInlineDefinition` takes `def` only); the constants are such definitions.

**Fixtures.** `call` is an action of the source with its arguments. `Compile` writes its
guards and the constants they name; `New`, `FromArtifact`, `Insert` and `InsertSet` fill the
table's two maps, `Validate` and `ValidateEntries` are the two judges, and `Judge` evaluates
the guards on the validated table in some state. One action is a scenario of its own: a
scenario's fixtures are the union over its steps, and `validate` looks only at the one
selected.

**Raft, RaftNetwork.** The variables are the fields of the nodes, per node; an entry is its
term, as commands are never compared. In `Raft` a vote and an append are one call that
reads one node and writes another. In `RaftNetwork` every request and answer is a message
that stays in `msgs`, as the code keeps it, and is delivered by index from outside: any
number of times, in any order. An action per handler. `Consensus` knows only what each node
has learned; `Learned` is the refinement mapping, the committed start of a log.

**Artifact.** `ShareStep` is one turn of the compiler's map over steps, `EditFile`
an edit in the user's repository, `ReadHeader`/`ReadStep`/`Load` the reader with its
refusals. Contents of obligation lists are model values; a list's identity is its
JSON, which is what the compiler's map is keyed by.

**Inference.** `project` is the parsed model: comments by the kinds the directives'
patterns tell apart, steps of a run by the kinds of their expression. `Accepted` is the
conjunction of `inferProject`'s checks, `Generable` of those of
`generateConformanceTraces`; `RefineAll` and `NextScenario` feed the scenarios to the
actions of `Schedule` one after another, with the table collected once. Which method a
name becomes in a language is the parameter `Identifier`.

**Compile.** `run[p]` is one invocation with what it has read so far. Contents of a
file are the versions of the model that went into it. `Fail` may happen between any
two steps (Quint or a formatter refuses, the process is killed), `FailWriting` in a
write. All invocations use the same paths and layout.

### How PROJECT.json maps definitions

Every definition names the lines it translates. Where several definitions translate
one Rust function (an action and the refusal that is its complement, a helper and
its use), the first cites Rust and the others the same function of the Go or
TypeScript port, which was compared with it: the ports are so covered line by line
where the models are.

## What is checked

`tlc -config <cfg> <module>` for each of the runs; `compile` and `raft` take one to two
minutes, the others seconds. Deadlock is not checked where the system stops for good
(calls that return, sessions that end, a cluster at the bound of its terms).

| Run | States | Question |
|---|---|---|
| `schedule` | 6,847 | Is every tape cut correctly by every shape of table? |
| `session` | 24,075 | Does the session keep its promises under any harness, and implement `ModelRun`? |
| `refine` | 3,506 | Do scheduling, dispatch and reduction stay together for any driver? |
| `reducer` | 321,836 | What one step captures, merges and accepts; what its guards and fixtures say: is it what Quint says? |
| `artifact` | 243,860 | Does the runtime read what was compiled, whatever is edited in between? |
| `inference` | 2,532 | Can a model that was accepted fail later for reasons its author could not see? |
| `compile` | 2,471,958 | Does `--check` notice every way runs and edits can leave a project? |
| `raft` | 1,121,886 | Do both clusters keep what they committed through any elections and deliveries? |
| `session_snapshot`, `refine_arguments`, `reducer_any`, `raft_five` | | violated, see Findings |

Properties of the passing runs, by module (each is stated in words where it is
defined):

* `Schedule`: `ScheduleTypeOK`, `RunsTileTape`, `NoSplitCompound`, `SoleOwner`,
  `GreedyIsComplete`.
* `Session`: `SessionTypeOK`, `FollowsTrace`, `DispatchedInOrder`, `TapeMatchesIndex`,
  `BatchAgrees` (step by step and batch evaluation accept the same),
  `FaithfulIsAccepted`, `RejectionIsFinal`, `LoopReturns`, `ImplementsModel`.
* `Refine`: `DispatchesScenario`, `DrivesOnlyAlongTrace`, `AcceptedFollowsModel`,
  `FaithfulIsAccepted`.
* `Alternatives`: `CapturedIsPossible`, `TakesFirstAlternative`, and of the values it merges
  `AcceptsWhatIsSaid`, `MergedSaysObserved`.
* `Fixtures`: `FixturesAreTheModels`, `GuardsMeanTheModels`.
* `Artifact`: `LoadsWhatWasCompiled`, `ObligationsAreKept`, `TableInOrder`,
  `RetrieveIsComplete`.
* `Inference`: `OwnsEveryActionOnce`, `ReadingsAgree`, `ArmsAcceptRuns`,
  `AcceptedIsSchedulable`.
* `Compile`: `CheckIsExact`, `OutputsBelongTogether`, `MainIsKept`.
* `Raft`, `RaftNetwork`: `ElectionSafety`, `LeaderCompleteness`, `CommittedOnMajority`,
  `MatchedIsStored`, `RaftImplementsConsensus`.

Each has a mutant in PROJECT.json, a small bug in a mapped definition under which
TLC finds the property violated. The mutants are the operators marked `Fault:`.

### Bounds, and why they are enough

* `schedule`: 3 action names, tapes of at most 4, 15 tables. Commands have at most
  three actions, so a tape of four has room for a command before, after or across
  another, and for a sequence that runs off the end.
* `session`, `refine`: a model of two fields (one retrieved, one not) with two values
  each, five actions that differ in what the reducer tells apart (guarded, argument
  from the state, `if`, `any`, reads of an unretrieved field), scenarios of at most
  two actions (three in `refine`), all partial evidence over them.
  `MaxSnapshots = 4` leaves room for two retries in a session of one action, one in
  one of two. Drift between two counts shows at the second action.
* `artifact`: sources of two steps over three lists (the empty list included), one
  edit. Sharing needs two uses of a list and an order needs two lists.
* `reducer`: 292 values, containers of at most two entries, nested two deep (merge and
  comparison are recursive with no state, so a level within a level exercises each
  recursive call; `Value` has 1060, with what they are merged to); 4640 bodies of two
  alternatives, and two in one of two; 216 calls of actions of two conjuncts over seven constants, one of each kind of value, and five
  definitions, whose binders share the names of each other and of the parameters they
  are called with. A name can only be captured by a binder it is moved under, so a
  definition called under a binder, with a binder of its own, and once within another
  definition has every case. A table is offered, name by name, the constant itself,
  a value of another kind or with an item or a field more or less, an empty record, the record
  a variant is written as, and each under both spellings of a set (no constant has sets inside
  a list, a tuple or another set, so these are only compared as fields); 18 states.
* `inference`: 702 models: 52 lists of one or two runs (18 of the runs unusual in one
  way each) with 12 lists of directives, other targets, and the model-wide conditions
  one at a time. Two runs and two directives are what the checks compare; three
  actions leave room for a command of two and one beside it. Collisions are of
  spelling (`pay_order`, `payOrder`), of one language only, and with reserved names.
* `compile`: two invocations out of five command lines, two versions of the model, one
  edit by hand. One invocation reads at most two versions of the model; the damage of
  a third invocation is that of the second.
* `raft`: three nodes, logs of at most two entries. Direct calls: four terms, in which a
  leader is deposed and elected again while another one commits. With messages: two terms
  and four requests sent (answers are not bounded, nor how often a message is delivered):
  an election, an append, and two that race with them. Nodes are interchangeable, so they
  are a symmetry set; the temporal property of the run is a safety property. `raft_five`
  has five nodes, of which three campaign, one after another, and two only vote.

### Fairness

`Schedule` is one synchronous call: its steps are weakly fair. In `Session` only the
loop's own steps (`LoopStep`) are fair: a harness need not call again and a driver need
not answer. `LoopReturns` therefore assumes in its statement that the
driver always answers or fails eventually (`[]<>`), which is the promise
`AsyncPrimitiveDriver` makes and nothing in this code could enforce; there is no timeout.
The other modules state safety only: the Raft examples promise nothing about progress, as
whoever drives them decides what is delivered.

## What is proved

TLAPS checks these for all values of the constants, under the assumptions named in
the modules: tables and tapes are sequences over their sets; a guard is Boolean, an
action applied to a state is a state; the fields an action reads are fields; a value
merged with itself is that value (`MergeAssumption`, which theorem `MergedWithItself` states of
`Merging!Merge`); values and bodies are nested finitely, of the kinds `RuntimeValue` and a
body have, and values are closed under merging (`ValueAssumption`, `BodyAssumption`,
`MergedIsValue`); an action assigns the state in one conjunct, and in every alternative
(`EffectAssumption`, which Quint's effect checker enforces); an empty list reads no field; a `main.rs` somebody
wrote is a file; `Unresolved`, `Omitted` are not ordinary values. A Quint model defines
finitely many actions, names are not blank and a bare `@conformance` lists no capabilities
(the patterns of the directives allow nothing else); code is generated for one language at
least, as `compile` writes Rust where nothing else is asked for.

| Theorem | States | Argument |
|---|---|---|
| `ScheduleTyped`, `RunsTile` | `ScheduleTypeOK`, `RunsTileTape` | Every step that changes `runs` is a `Cut`, and a cut appends what occurs at `index` and moves `index` past it (`CutKeepsTiling`). |
| `NeverSplits` | `NoSplitCompound` | A run of one action is only cut when no compound fits and none is broken there; descriptors never change after collection (`Collected`). |
| `OwnersAreSole` | `SoleOwner` | Identifiers are distinct because duplicates were refused, and a cut is only made when one descriptor fits. |
| `GreedyComplete` | `GreedyIsComplete` | In a generated table every action has one record (`OnePlace`), so at most one fits at an index (`FittingAreAlone`). As long as the walk goes on, its index is in the range of every tiling of the tape (`Greedy`); where none fits there is no tiling (`TilingGoesOn`). |
| `SessionTyped`, `RejectionFinal` | `SessionTypeOK`, `RejectionIsFinal` | Neither is inductive without `RejectedStays`: more than one evidence per validated action means that the next to be judged has already failed. |
| `TapeMatches` | `TapeMatchesIndex` | `RejectedStays`, and a finished session has nothing out and nothing left. |
| `SessionImplementsModel` | `ImplementsModel` | A judged evidence is a model step (`ValidatedIsModelStep`), everything else a stutter of `ModelRun` with `taken <- nextIndex`. |
| `SessionFollowsTrace` | `FollowsTrace` | On a valid scenario the `next` obligation pins the merged state to Quint's (`ValidatedFollowsQuint`); merged fields are the observed ones, so evidence agrees too (`ValidatedEvidenceAgrees`). |
| `DispatchInOrder` | `DispatchedInOrder` | From `FollowsTrace`: arguments are resolved in a state that is Quint's. |
| `SessionAgreesWithBatch` | `BatchAgrees` | `EvaluateTape` is a recursive function on the number of steps; it is unfolded to "the first steps, then one more" by taking the least number where that would fail (`ActionStep_proofs`). The session's tape only grows beyond what it has judged, so each judged evidence adds that one step. |
| `SessionAcceptsFaithful` | `FaithfulIsAccepted` | Quint's own states satisfy every obligation that can be read, since observed fields are merged into themselves (`MergeAssumption`). |
| `DispatchesInOrder` | `DispatchesScenario` | `DriveInv`: the offset is where the next run starts, the tape has one evidence more than that, and the runs tile the scenario (`RunsTile` is used through `Refine`'s composition with `Schedule`). |
| `DrivesAlongTrace`, `AcceptedIsRun` | `DrivesOnlyAlongTrace`, `AcceptedFollowsModel` | `Reduced`: the projected state is what the whole tape reduces to, although it is reduced anew after every command; `OnTrace`: on a valid scenario that state, and the evidence before it, is Quint's. |
| `FaithfulDriven` | `FaithfulIsAccepted` (`Refine`) | As for the session, for all the steps a command adds at once (`Followable`). |
| `TablesOwnOnce` | `OwnsEveryActionOnce` | The rows are the directives and, once each, the actions none of them claims (`Rows`, `RowFields`); the checks of `inferProject` keep the rows of directives apart, and methods distinct in one language are distinct names (`RowsApart`). |
| `TheReadingsAgree` | `ReadingsAgree` | An accepted run has no step the two readings classify differently, so that what a bare directive requires is the run's actions in both (`CapabilitiesAgree`). |
| `ArmsFitRuns` | `ArmsAcceptRuns` | A run is a row, its command and all its actions (`RunsAreRows`); a row that is no directive's has no directive's name (`ArmTakesRow`). |
| `AcceptedSchedules` | `AcceptedIsSchedulable` | `InferenceInv`: tapes are sequences of the model's actions, each of which has a row, so where nothing fits the row is one of several actions (`GivesUpAtLongCommand`); that nothing else could be done is `Greedy`, kept by the steps of `Schedule` (`GreedyStep`) and begun anew with each scenario. |
| `EqualIsSame`, `MergedSays`, `WholeReplaces`, `UnchangedIsSaid`, `MergedWithItself` | what merging and comparing amount to, for values nested to any depth | Induction on depth, kind by kind (`NestedInduction`). That each recursive function exists at all, and so has its equation, is `NestedRecursion`: its value at `x` depends on what is nested in `x` only. |
| `VerdictIsOfThePasses` | `PassesAgree` | The inductive invariant of the next four: what was captured, merged and judged is what the two passes over the body make of the state Quint reached and the observation. |
| `CapturedIsAlwaysPossible` | `CapturedIsPossible` | By induction on height: whatever the sink held, after a capture pass that is true it holds an outcome of the body (`Capturing`), as a branch given up cannot leave its assignment where another succeeds; a check pass without an error takes the branches the capture pass took, so if it is true, what that captured is the state after (`Checking`; comparing is equality by `EqualIsSame`). |
| `AlwaysTakesFirstAlternative` | `TakesFirstAlternative` | Where guards come first, in either pass: a body without an outcome is false, another takes its first outcome, or is an error where a check pass has another state after (`Settles`, `SettlesEvery`). By induction on height, for any number of conjuncts and alternatives. |
| `AlwaysAcceptsWhatIsSaid` | `AcceptsWhatIsSaid` | Both passes settle on the same alternative, so acceptance means that merging changed nothing, and that is what the observation says (`UnchangedIsSaid`). |
| `MergedAlwaysSaysObserved` | `MergedSaysObserved` | `MergedSays`, `WholeReplaces`. |
| `ArtifactTyped`, `ArtifactInvariant` | `ArtifactTypeOK`, `ArtifactInv` | The invariant says of each step in the file that the runtime would accept it and resolve it to the compiled one (`Describes`), through references that stay valid as the table grows (`InternExtends`, `ReferenceLeadsBack`). |
| `ArtifactLoads` | `LoadsWhatWasCompiled` | `Describes`, while nothing was edited. |
| `ArtifactKeepsObligations` | `ObligationsAreKept` | What was read was accepted, and acceptance rules out the mixed forms. |
| `TableOrdered` | `TableInOrder` | Sharing one list keeps the order and extends it by at most one (`InternOnce`), the guards of a step before its next obligations (`SharingInOrder`). |
| `RetrieveComplete` | `RetrieveIsComplete` | The generator's union ranges over the steps the reader returns, and a step without a list reads what the empty list reads. |
| `CheckExact`, `OutputsTogether` | `CheckIsExact`, `OutputsBelongTogether` | `CompileInv`: unless disturbed, what an invocation has read is the model, and what it has passed by in its fixed order of outputs is what it generates; `disturbed` is what every step of somebody else adds to. |
| `MainKept` | `MainIsKept` | An invocation only writes `main.rs` after it has looked and found none. While the file has been there from the start, nobody is between that look and the write (`Kept`). |
| `RaftTyped`, `RaftElectionSafe` | `RaftTypeOK`, `ElectionSafety` | Two majorities meet (`QuorumsIntersect`), and a node that voted for a candidate has seen its term and, while that is its term, remembers the vote (`VotersHaveSeenTerm`, `VotesAreSingle`); leaders have a majority. |
| `NetworkTyped`, `NetworkElectionSafe` | `NetworkTypeOK`, `ElectionSafety` | A vote is counted in a later step than it is given, so the votes of the argument are the granting messages: never two for one term (`GrantedOnce`), known to their sender while in the term (`VotersRemember`), and every counted vote is among them (`VotesWereGranted`). Late and repeated deliveries change none of it, as messages never leave. |
| `RaftLogsMatch` | `LogsMatch` | `LogInv`: a term whose leader was elected has a quorum nobody else can win any more (`Elected`), so entries of one term come from one leader, which has all of them (`LeadersHoldOwn`). Any number of nodes. |
| `RaftLeadersComplete`, `RaftCommittedOnMajority`, `RaftCommittedAgree` | `LeaderCompleteness`, `CommittedOnMajority`, `CommittedAgree`, at most four nodes | `CommitInv`: the nodes that store an entry block every election without them, and every log or vote beyond its term has it (`Protected`). The proof needs that an entry the leader and one other node share blocks (`PairsBlock`), because `commit` may count copies the leader did not send; that is where five nodes fail. |
| `RaftAgrees` | `RaftImplementsConsensus`, at most four nodes | A step changes `commit` at one node, what is committed keeps its place (`CommittedStays`), and the committed starts of any two nodes agree (`CommitInvAgrees`). |
| `NetworkMatchedIsStored` | `MatchedIsStored` | `NetworkLogInv` speaks of every log a node keeps or a message carries: each term was won by one node (`ElectedBy`), whose appends, however late, are starts of one log (`AppendsAgree`), so a follower that acked one still has it, also when a shorter one comes after it (`AcksWereStored`). |
| `NetworkLeadersComplete`, `NetworkCommittedOnMajority`, `NetworkCommittedAgree` | `LeaderCompleteness`, `CommittedOnMajority`, `CommittedAgree` | `NetworkCommitInv`: an entry is either lost for its term, as a quorum has moved on without acking it (`Lost`), or kept by all who acked it, by whoever they voted for later, and by all later logs (`Kept`). A leader that may commit has heard from a quorum, so the entry is not lost (`CommittableIsSecured`). Any number of nodes, no bound on terms or messages is used. |
| `NetworkAgrees` | `RaftImplementsConsensus` | As for `RaftAgrees`, with the commit index that travels in an append (`CommittedIsKept`). |

The two clusters need different invariants. With messages, who stores an entry for its
leader is on record in the acks, and an ack is of the leader's term; that quorum is one the
next leader must have met. The direct call counts what nodes store when it looks, whoever
gave it to them, so its invariant has to hold of any two nodes that share an entry.

Only model-checked: liveness (`LoopReturns`), as fairness is out of the provers' reach,
and the properties of `Fixtures`, which are about the expression evaluator and the inliner:
these are written with recursive operators (`Expressions`, `Inlining`), as inlining goes on
with what a substitution returns, and the meaning of a call with the body of a definition,
which are not inside what they were applied to. Where the recursion is along a sequence (`Those`, the `filter` of the
compiler's readings, and `EvaluateTape`), into a value or into a body, it is written as a
recursive function over a set, and what it computes is proved by induction.

## Findings

The run in brackets is one that TLC finds violated.

1. **Snapshots are not compared completely** (`session_snapshot`). README.md:180 promises
   a match with the complete snapshot; a field that no obligation reads is taken from
   the model and compared with itself.
2. **Arguments of a compound command may be stale** (`refine_arguments`). All actions of
   a command are resolved before its first, while drive.rs:18 says "against the
   current reduced state".
3. **`any` settles on the first enabled alternative** (`reducer_any`). When Quint took a
   later one, an implementation that reaches Quint's state is rejected: in the second
   pass an assignment that does not match is an error, not false. For the same reason an
   alternative that assigns before the guard that rules it out makes the only reachable
   state unacceptable.
4. **Five nodes of the direct-call Raft cluster lose a committed entry** (`raft_five`).
   `commit` counts every node that stores the leader's entry, also one that has gone to a
   newer term and has the entry from another leader; nothing tells the old leader that
   it was deposed. It commits, and a leader of a term in between, whose election it has not
   seen, overwrites its log. model.qnt:282 ("Nodes agree on every entry either has committed")
   and raft.md:173 promise otherwise, and raft.md:533 says of larger clusters that "only the
   model changes". The guide's cluster has three nodes; up to four it is proved safe. The
   cluster with messages counts acks of its own term and is proved safe at every size.

Observations that no run states:

* The Raft examples' invariant `leaderCompleteness` (raft_network/model.qnt:486-494) lets a
  leader be newer than a commit when its term is newer than the entry's. A leader deposed in
  term 2 that still leads lacks an entry of term 1 which the leader of term 3 commits: the
  invariant fails although the code is right. `LeaderCompleteness` here asks for a leader at
  least as new as the node that knows of the commit.
* `refine_scenario` rejects a hydrated scenario without actions, a session finishes it
  with a count of 0.
* `assert`ions of observation steps are only evaluated by a harness that calls
  `evaluate_refined_runtime_assertions`; neither `refine_scenario` nor the generated runners do.
* `finish` consumes the session in Rust; in Go and TypeScript it can be called again.
* Integer overflow panics or wraps in Rust by build profile, is an error in Go and does not happen in TypeScript.
* JSON `null` for an optional field of a step counts as absent in Rust and present in
  TypeScript.
* `compile` looks for `src/main.rs`, starts rustfmt and then writes: a file saved in
  between is overwritten. A scaffold cut short by a crash is never repaired.
* Quint is asked for the traces of tests matching `Run$`: an annotated run with another
  name passes every documented rule (docs/reference/model.md shows `run name = init`)
  and then fails with "missing ITF trace"; and a failing test of that form without an
  annotation, which model.md:24 calls ignored, fails the compilation. Both are in
  `Generable`.
* A scenario without an action compiles and can be passed by no implementation, as
  `refine_scenario` refuses it (`ScenarioFails` with an empty tape).
* Whether a run breaks up a command of several actions is first seen by the scheduler at
  run time; `AcceptedIsSchedulable` says that this is all that can be.
* A changed field has to be reported by its top-level name only; a record may leave out
  the nested field that changed.
* A list passes for a set and a set for a list with the same items, as the table compares
  JSON; `insert_set` for a constant that is a `List` is accepted, and a guard that indexes it
  is then an error. A record of a tag and a payload passes for the variant.
* In entry mode an object without fields passes for every constant written as an object, sets,
  tuples, maps and variants included (fixtures.rs:149 speaks of records): a Rust struct that
  serializes to `{}` is never refused. `FixturesAreTheModels` says what passes, and that
  nothing else does.
* A Quint record whose fields are just `tag` and `value` is decoded as a variant, though
  evaluate.rs:54 speaks of values that do not collapse.
* docs/how-it-works.md:27 says "Helper definitions are inlined": a helper written with `val`
  is not. In lower case it stays a free name, in upper case it becomes its own text.
* A binder with the name of a definition or a constant captures it when a definition is
  inlined under it (`Unshadowed` excludes such models).
* The vocabulary holds every name a definition of the model leaves open, so
  `validate_scenario_names` refuses next to nothing.

## What is not modelled

* The expression vocabulary that `inferProject` collects, the text of the adapters beyond
  table, dispatch and loop, and identifiers character by character.
* Integers near the ends of i64, operators a snapshot brings (`resolve_call`) and
  `replicaPoolKey`.
* JSON syntax, what `from_itf_json` refuses and the fields it drops, final runtime
  assertions and the older evaluators that skip model-scope obligations. In `Session` and
  `Refine` a model's guards and assignments are parameters.
* Adapters that alias their live state as evidence (Go, TypeScript): evidence is a value.
* Formatting, wording of errors, logging, `new` and the website.
* The other examples: bookkeeping of a single process, one call after another.
* The Raft examples' requests that are refused with an error, which change nothing, and
  their commands, of which only the term is compared.

## Plan

Written first: the path from scenario to verdict (`Schedule`, `ActionStep`, `Session`,
`Refine`), then what it takes as given (`Alternatives`, `Merging`, `Artifact`), what feeds it
(`Inference`, `Compile`), the guards and constants of a step (`Expressions`, `Inlining`,
`Fixtures`), and the largest programs under test (`Raft`, `RaftNetwork`). Next, in order:

1. Final runtime assertions and the evaluators for scenarios without initial state.
2. Arithmetic of the expression evaluator with its width.
3. Theorems of `Inlining`: that a body and its guards mean the same needs an order on
   expressions in which what inlining returns is smaller than the call it replaces.
