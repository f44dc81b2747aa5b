-------------------------------- MODULE Compile -------------------------------
(***************************************************************************)
(* `quint-refinements compile` and `compile --check` as runs on the files  *)
(* of a project (packages/compiler/cli.mjs: compileProject). A run reads   *)
(* the model three times, then writes or compares its outputs one by one;  *)
(* it may fail or be killed between any two of these, while the user       *)
(* edits the model and other runs write the same files.                    *)
(***************************************************************************)
EXTENDS Naturals

CONSTANTS
  Processes,  \* invocations of the compiler
  Options,    \* the command lines they are given, for the same paths and layout
  Absent,     \* no such file
  Scaffold,   \* the src/main.rs the compiler proposes
  Foreign,    \* contents no run writes: by hand, or cut short in a write
  MaxVersion, \* bound: versions of the model
  MaxEdits    \* bound: changes to files by hand

Adapters == {"rust", "go", "typescript"}
Outputs == {"artifact"} \cup Adapters

\* The flags that matter here. "default" is the Rust adapter at its usual path.
Option == [check : BOOLEAN, rust : {"default", "path"}, go : BOOLEAN, typescript : BOOLEAN]

ASSUME OptionsAssumption == Options \subseteq Option

\* A file written by hand is there.
ASSUME ForeignAssumption == Foreign # Absent

ASSUME BoundsAssumption == MaxVersion \in Nat \ {0} /\ MaxEdits \in Nat

VARIABLES
  model,     \* version of the Quint sources on disk
  files,     \* contents of the outputs
  main,      \* contents of src/main.rs
  edits,     \* changes made by hand so far
  run,       \* the state of every invocation
  disturbed  \* history: what others changed since the invocation began

compileVars == <<model, files, main, edits, run, disturbed>>

\* An output is determined by the version of the model that was parsed, the one
\* Quint ran and (artifact only) the one the digest was taken of.
Versions == 1 .. MaxVersion

\* Go and TypeScript alone leave the Rust adapter out.
EmitsRust(option) == option.rust = "path" \/ ~(option.go \/ option.typescript)

Selected(option) ==
  {"artifact"}
    \cup {t \in {"rust"} : EmitsRust(option)}
    \cup {t \in {"go"} : option.go}
    \cup {t \in {"typescript"} : option.typescript}

\* One invocation: what it has read so far (0: not yet) and has still to emit. From
\* "idle" it goes through "parsed", "traced", "emitting" and "scaffolding" to "ok",
\* "drifted" or "failed".
Idle(option) ==
  [phase |-> "idle", option |-> option, parsed |-> 0, traced |-> 0, digested |-> 0,
   pending |-> {}]

\* A new project and one that has been compiled, with or without a main.rs.
CompileInit ==
  /\ model = 1
  /\ files \in { [t \in Outputs |-> Absent],
                 [t \in Outputs |-> IF t = "artifact" THEN <<1, 1, 1>> ELSE <<1, 1>>] }
  /\ main \in {Absent, Foreign}
  /\ edits = 0
  /\ \E option \in [Processes -> Options] : run = [p \in Processes |-> Idle(option[p])]
  /\ disturbed = [p \in Processes |-> {}]

Disturb(what, others) ==
  disturbed' = [p \in Processes |-> IF p \in others THEN disturbed[p] \cup {what} ELSE disturbed[p]]

-----------------------------------------------------------------------------
\* The user.
EditModel ==
  /\ model < MaxVersion
  /\ model' = model + 1
  /\ Disturb("model", Processes)
  /\ UNCHANGED <<files, main, edits, run>>

EditOutput ==
  /\ edits < MaxEdits
  /\ \E t \in Outputs : files' = [files EXCEPT ![t] = Foreign]
  /\ edits' = edits + 1
  /\ Disturb("files", Processes)
  /\ UNCHANGED <<model, main, run>>

WriteMain ==
  /\ edits < MaxEdits
  /\ main' = Foreign
  /\ edits' = edits + 1
  /\ UNCHANGED <<model, files, run, disturbed>>

-----------------------------------------------------------------------------
\* One run.
\* The first reading of the sources: `quint parse`.
Start(p) ==
  /\ run[p].phase = "idle"
  /\ run' = [run EXCEPT ![p].phase = "parsed", ![p].parsed = model,
                        ![p].pending = Selected(run[p].option)]
  /\ disturbed' = [disturbed EXCEPT ![p] = {}]
  /\ UNCHANGED <<model, files, main, edits>>

\* Quint runs the scenarios of the sources as they are now.
Trace(p) ==
  /\ run[p].phase = "parsed"
  /\ run' = [run EXCEPT ![p].phase = "traced", ![p].traced = model]
  /\ UNCHANGED <<model, files, main, edits, disturbed>>

\* digestModel, the last thing before the outputs.
Digest(p) ==
  /\ run[p].phase = "traced"
  /\ run' = [run EXCEPT ![p].phase = "emitting", ![p].digested = model]
  /\ UNCHANGED <<model, files, main, edits, disturbed>>

Rank(t) == CASE t = "artifact" -> 1 [] t = "rust" -> 2 [] t = "go" -> 3 [] t = "typescript" -> 4

NextOutput(p) ==
  CHOOSE t \in run[p].pending : \A u \in run[p].pending : Rank(t) <= Rank(u)

Generated(p, t) ==
  IF t = "artifact" THEN <<run[p].parsed, run[p].traced, run[p].digested>>
  ELSE <<run[p].parsed, run[p].traced>>

Emitting(p) == run[p].phase = "emitting" /\ run[p].pending # {}

End(p, phase) == run' = [run EXCEPT ![p].phase = phase]

Emitted(p, t) == run' = [run EXCEPT ![p].pending = @ \ {t}]

\* Fault: outputs are scaffolded, as main.rs is, and never written again.
WriteMissing(p) ==
  LET t == NextOutput(p) IN
  /\ Emitting(p)
  /\ ~run[p].option.check
  /\ files' = IF files[t] = Absent THEN [files EXCEPT ![t] = Generated(p, t)] ELSE files
  /\ Emitted(p, t)
  /\ Disturb("files", Processes \ {p})
  /\ UNCHANGED <<model, main, edits>>

\* writeOrCheck
WriteOutput(p) ==
  LET t == NextOutput(p) IN
  /\ Emitting(p)
  /\ ~run[p].option.check
  /\ files' = [files EXCEPT ![t] = Generated(p, t)]
  /\ Emitted(p, t)
  /\ Disturb("files", Processes \ {p})
  /\ UNCHANGED <<model, main, edits>>

\* Fault: an adapter only has to exist.
SameArtifact(p, t) == files[t] # Absent /\ (t = "artifact" => files[t] = Generated(p, t))

Same(p, t) == files[t] = Generated(p, t)

CheckOutput(p) ==
  LET t == NextOutput(p) IN
  /\ Emitting(p)
  /\ run[p].option.check
  /\ IF Same(p, t) THEN Emitted(p, t) ELSE End(p, "drifted")
  /\ UNCHANGED <<model, files, main, edits, disturbed>>

\* Fault: the file is not looked for.
ScaffoldAlways(p) ==
  LET option == run[p].option IN
  /\ run[p].phase = "emitting"
  /\ run[p].pending = {}
  /\ End(p, IF EmitsRust(option) /\ ~option.check /\ option.rust = "default"
              THEN "scaffolding" ELSE "ok")
  /\ UNCHANGED <<model, files, main, edits, disturbed>>

\* The main.rs is looked for once all outputs are there ...
LookForMain(p) ==
  LET option == run[p].option IN
  /\ run[p].phase = "emitting"
  /\ run[p].pending = {}
  /\ End(p, IF /\ EmitsRust(option) /\ ~option.check
               /\ option.rust = "default" /\ main = Absent
              THEN "scaffolding" ELSE "ok")
  /\ UNCHANGED <<model, files, main, edits, disturbed>>

\* ... and written after rustfmt has formatted it.
WriteScaffold(p) ==
  /\ run[p].phase = "scaffolding"
  /\ main' = Scaffold
  /\ End(p, "ok")
  /\ UNCHANGED <<model, files, edits, disturbed>>

\* Parsing, Quint, a formatter or a write fails, or the run is killed.
Fail(p) ==
  /\ run[p].phase \in {"parsed", "traced", "emitting", "scaffolding"}
  /\ End(p, "failed")
  /\ UNCHANGED <<model, files, main, edits, disturbed>>

\* The same in the middle of a write, which leaves the file cut short.
FailWriting(p) ==
  /\ Emitting(p)
  /\ ~run[p].option.check
  /\ files' = [files EXCEPT ![NextOutput(p)] = Foreign]
  /\ End(p, "failed")
  /\ Disturb("files", Processes \ {p})
  /\ UNCHANGED <<model, main, edits>>

FailScaffolding(p) ==
  /\ run[p].phase = "scaffolding"
  /\ main' = Foreign
  /\ End(p, "failed")
  /\ UNCHANGED <<model, files, edits, disturbed>>

RunStep(p) ==
  \/ Start(p)
  \/ Trace(p)
  \/ Digest(p)
  \/ WriteOutput(p)
  \/ CheckOutput(p)
  \/ LookForMain(p)
  \/ WriteScaffold(p)
  \/ Fail(p)
  \/ FailWriting(p)
  \/ FailScaffolding(p)

CompileNext ==
  \/ EditModel
  \/ EditOutput
  \/ WriteMain
  \/ \E p \in Processes : RunStep(p)

CompileSpec == CompileInit /\ [][CompileNext]_compileVars

-----------------------------------------------------------------------------
\* What the model on disk produces.
Current(t) == files[t] = IF t = "artifact" THEN <<model, model, model>> ELSE <<model, model>>

Undisturbed(p) == disturbed[p] = {}

\* "Write nothing. Fail if a generated file differs from what the model
\* produces": while nobody else touches the project, `--check` passes only when
\* all selected outputs are what the model produces, however earlier runs ended
\* (before their adapters, in a write), and reports drift only when one is not.
CheckIsExact ==
  \A p \in Processes :
    run[p].option.check /\ Undisturbed(p) =>
      /\ run[p].phase = "ok" => \A t \in Selected(run[p].option) : Current(t)
      /\ run[p].phase = "drifted" => \E t \in Selected(run[p].option) : ~Current(t)

\* A run that succeeds leaves an artifact and adapters that come from the same
\* readings, even when the model was edited under it; and they are current when
\* it was not.
OutputsBelongTogether ==
  \A p \in Processes :
    run[p].phase = "ok" /\ "files" \notin disturbed[p] =>
      \A t \in Selected(run[p].option) :
        /\ files[t] = Generated(p, t)
        /\ Undisturbed(p) => Current(t)

\* "Scaffold it once and never overwrite it": a main.rs that is there before the
\* first run is there after the last, whatever runs fail or overlap.
MainIsKept == main = Foreign => [](main = Foreign)

=============================================================================
