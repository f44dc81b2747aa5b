---------------------------- MODULE Compile_proofs ---------------------------
(***************************************************************************)
(* What `compile` and `compile --check` promise of the files of a project, *)
(* for any number of invocations that overlap, fail and are interrupted;   *)
(* and of the artifact among those files: what was compiled is what is     *)
(* read, for every model and however many obligations its steps share, and *)
(* no edit of the file makes the runtime drop an obligation the file still *)
(* declares.                                                               *)
(***************************************************************************)
EXTENDS Compile, Artifact, TLAPS

Phases ==
  {"idle", "parsed", "traced", "emitting", "scaffolding", "ok", "drifted", "failed"}

Invocation ==
  [phase : Phases, option : Option, parsed : Nat, traced : Nat, digested : Nat,
   pending : SUBSET Outputs]

Typed ==
  /\ model \in Nat
  /\ files = [t \in Outputs |-> files[t]]
  /\ run \in [Processes -> Invocation]
  /\ disturbed \in [Processes -> SUBSET {"model", "files"}]

\* The first of the outputs still pending is one of them.
LEMMA NextIsPending ==
  ASSUME NEW p \in Processes, run[p].pending \in SUBSET Outputs, run[p].pending # {}
  PROVE  NextOutput(p) \in run[p].pending
<1> DEFINE S == run[p].pending
<1>1. /\ Rank("artifact") = 1 /\ Rank("rust") = 2 /\ Rank("go") = 3 /\ Rank("typescript") = 4
  BY DEF Rank
<1>2. \A u \in S : u \in {"artifact", "rust", "go", "typescript"}
  BY DEF Outputs, Adapters
<1>3. \E t \in S : \A u \in S : Rank(t) <= Rank(u)
  <2>1. CASE "artifact" \in S
    BY <1>1, <1>2, <2>1
  <2>2. CASE "artifact" \notin S /\ "rust" \in S
    BY <1>1, <1>2, <2>2
  <2>3. CASE "artifact" \notin S /\ "rust" \notin S /\ "go" \in S
    BY <1>1, <1>2, <2>3
  <2>4. CASE "artifact" \notin S /\ "rust" \notin S /\ "go" \notin S
    BY <1>1, <1>2, <2>4
  <2> QED
    BY <2>1, <2>2, <2>3, <2>4
<1> QED
  BY <1>3 DEF NextOutput

LEMMA SelectedAreOutputs == \A option : Selected(option) \in SUBSET Outputs
  BY DEF Selected, Outputs, Adapters

-----------------------------------------------------------------------------
\* What invocation p has read, unless the model was edited since it began.
ReadsModel(p) ==
  "model" \notin disturbed[p] =>
    /\ run[p].phase \notin {"idle", "failed"} => run[p].parsed = model
    /\ run[p].phase \notin {"idle", "parsed", "failed"} => run[p].traced = model
    /\ run[p].phase \notin {"idle", "parsed", "traced", "failed"} => run[p].digested = model

\* What it has emitted, or compared, unless others wrote files since.
EmitsGenerated(p) ==
  /\ run[p].phase \in {"scaffolding", "ok"} => run[p].pending = {}
  /\ "files" \notin disturbed[p] =>
       /\ run[p].phase \in {"parsed", "traced"} => run[p].pending = Selected(run[p].option)
       /\ run[p].phase \in {"emitting", "scaffolding", "ok"} =>
            \A t \in Selected(run[p].option) \ run[p].pending : files[t] = Generated(p, t)
       /\ run[p].phase = "drifted" =>
            \E t \in Selected(run[p].option) : files[t] # Generated(p, t)

PendingSelected(p) == run[p].pending \subseteq Selected(run[p].option)

CompileInv ==
  /\ Typed
  /\ \A p \in Processes : ReadsModel(p) /\ EmitsGenerated(p) /\ PendingSelected(p)

LEMMA InitInv == CompileInit => CompileInv
<1> SUFFICES ASSUME CompileInit PROVE CompileInv
  OBVIOUS
<1>1. PICK option \in [Processes -> Options] : run = [p \in Processes |-> Idle(option[p])]
  BY DEF CompileInit
<1>2. ASSUME NEW p \in Processes
      PROVE  run[p] \in Invocation /\ run[p].phase = "idle" /\ run[p].pending = {}
  <2>1. option[p] \in Option
    BY OptionsAssumption
  <2> QED
    BY <1>1, <2>1 DEF Idle, Invocation, Phases
<1>3. run \in [Processes -> Invocation]
  BY <1>1, <1>2
<1>4. files = [t \in Outputs |-> files[t]]
  BY DEF CompileInit
<1>5. Typed
  BY <1>3, <1>4 DEF CompileInit, Typed
<1> QED
  BY <1>2, <1>5 DEF CompileInv, ReadsModel, EmitsGenerated, PendingSelected

-----------------------------------------------------------------------------
\* An invocation does not notice what is not about it.
LEMMA OthersKeep ==
  ASSUME CompileInv, NEW q \in Processes,
         run'[q] = run[q], disturbed[q] \subseteq disturbed'[q],
         model' = model \/ "model" \in disturbed'[q],
         files' = files \/ "files" \in disturbed'[q]
  PROVE  ReadsModel(q)' /\ EmitsGenerated(q)' /\ PendingSelected(q)'
<1>1. ReadsModel(q) /\ EmitsGenerated(q) /\ PendingSelected(q)
  BY DEF CompileInv
<1>2. \A t : Generated(q, t)' = Generated(q, t)
  BY DEF Generated
<1>3. ReadsModel(q)'
  BY <1>1 DEF ReadsModel
<1>4. EmitsGenerated(q)'
  BY <1>1, <1>2 DEF EmitsGenerated
<1>5. PendingSelected(q)'
  BY <1>1 DEF PendingSelected
<1> QED
  BY <1>3, <1>4, <1>5

LEMMA UserStep ==
  ASSUME CompileInv, EditModel \/ EditOutput \/ WriteMain \/ UNCHANGED compileVars
  PROVE  CompileInv'
<1>1. UNCHANGED run
  BY DEF EditModel, EditOutput, WriteMain, compileVars
<1>2. /\ model' \in Nat /\ files' = [t \in Outputs |-> files'[t]]
      /\ disturbed' \in [Processes -> SUBSET {"model", "files"}]
      /\ \A q \in Processes :
           /\ disturbed[q] \subseteq disturbed'[q]
           /\ model' = model \/ "model" \in disturbed'[q]
           /\ files' = files \/ "files" \in disturbed'[q]
  <2>1. Typed
    BY DEF CompileInv
  <2>2. CASE EditModel
    BY <2>1, <2>2 DEF EditModel, Disturb, Typed
  <2>3. CASE EditOutput
    BY <2>1, <2>3 DEF EditOutput, Disturb, Typed
  <2>4. CASE WriteMain \/ UNCHANGED compileVars
    BY <2>1, <2>4 DEF WriteMain, compileVars, Typed
  <2> QED
    BY <2>2, <2>3, <2>4
<1>3. Typed'
  BY <1>1, <1>2 DEF CompileInv, Typed
<1> QED
  BY <1>1, <1>2, <1>3, OthersKeep DEF CompileInv

\* A step of invocation p leaves the others' records alone.
LEMMA OneMoves ==
  ASSUME Typed, NEW p \in Processes, NEW new \in Invocation, run' = [run EXCEPT ![p] = new]
  PROVE  /\ run' \in [Processes -> Invocation]
         /\ run'[p] = new
         /\ \A q \in Processes \ {p} : run'[q] = run[q]
  BY DEF Typed

\* It suffices to look at the invocation that moves.
LEMMA RunKeeps ==
  ASSUME CompileInv, NEW p \in Processes, NEW new \in Invocation,
         run' = [run EXCEPT ![p] = new], model' = model,
         files' = [t \in Outputs |-> files'[t]],
         disturbed' \in [Processes -> SUBSET {"model", "files"}],
         \A q \in Processes \ {p} :
           disturbed[q] \subseteq disturbed'[q] /\ (files' = files \/ "files" \in disturbed'[q]),
         ReadsModel(p)', EmitsGenerated(p)', PendingSelected(p)'
  PROVE  CompileInv'
<1>1. Typed
  BY DEF CompileInv
<1>2. /\ run' \in [Processes -> Invocation]
      /\ \A q \in Processes \ {p} : run'[q] = run[q]
  BY <1>1, OneMoves
<1>3. Typed'
  BY <1>1, <1>2 DEF Typed
<1>4. \A q \in Processes \ {p} : ReadsModel(q)' /\ EmitsGenerated(q)' /\ PendingSelected(q)'
  BY <1>2, OthersKeep
<1> QED
  BY <1>3, <1>4 DEF CompileInv

LEMMA ReadingStep ==
  ASSUME CompileInv, NEW p \in Processes, Start(p) \/ Trace(p) \/ Digest(p)
  PROVE  CompileInv'
<1>1. run[p] \in Invocation /\ Typed /\ ReadsModel(p) /\ EmitsGenerated(p) /\ PendingSelected(p)
  BY DEF CompileInv, Typed
<1>2. CASE Start(p)
  <2> DEFINE new == [run[p] EXCEPT !.phase = "parsed", !.parsed = model,
                                   !.pending = Selected(run[p].option)]
  <2>1. new \in Invocation
    BY <1>1, SelectedAreOutputs DEF Invocation, Phases, Typed
  <2>2. /\ run' = [run EXCEPT ![p] = new] /\ UNCHANGED <<model, files>>
        /\ disturbed' = [disturbed EXCEPT ![p] = {}]
    BY <1>2 DEF Start
  <2>3. /\ new.phase = "parsed" /\ new.parsed = model /\ new.option = run[p].option
        /\ new.pending = Selected(run[p].option)
    BY <1>1 DEF Invocation
  <2>4. run'[p] = new
    BY <1>1, <2>1, <2>2, OneMoves
  <2> HIDE DEF new
  <2>5. ReadsModel(p)' /\ EmitsGenerated(p)' /\ PendingSelected(p)'
    BY <2>2, <2>3, <2>4 DEF ReadsModel, EmitsGenerated, PendingSelected
  <2>6. /\ disturbed' \in [Processes -> SUBSET {"model", "files"}]
        /\ \A q \in Processes \ {p} : disturbed'[q] = disturbed[q]
        /\ files' = [t \in Outputs |-> files'[t]]
    BY <1>1, <2>2 DEF Typed
  <2> QED
    BY <2>1, <2>2, <2>5, <2>6, RunKeeps
<1>3. ASSUME NEW new \in Invocation, run' = [run EXCEPT ![p] = new],
             UNCHANGED <<model, files, disturbed>>,
             new.option = run[p].option, new.pending = run[p].pending,
             \/ /\ run[p].phase = "parsed" /\ new.phase = "traced"
                /\ new.parsed = run[p].parsed /\ new.traced = model
             \/ /\ run[p].phase = "traced" /\ new.phase = "emitting"
                /\ new.parsed = run[p].parsed /\ new.traced = run[p].traced /\ new.digested = model
      PROVE  CompileInv'
  <2>1. run'[p] = new
    BY <1>1, <1>3, OneMoves
  <2>2. ReadsModel(p)'
    BY <1>1, <1>3, <2>1 DEF ReadsModel
  <2>3. EmitsGenerated(p)'
    BY <1>1, <1>3, <2>1 DEF EmitsGenerated
  <2>4. PendingSelected(p)'
    BY <1>1, <1>3, <2>1 DEF PendingSelected
  <2>5. disturbed' \in [Processes -> SUBSET {"model", "files"}] /\ files' = [t \in Outputs |-> files'[t]]
    BY <1>1, <1>3 DEF Typed
  <2> QED
    BY <1>3, <2>2, <2>3, <2>4, <2>5, RunKeeps
<1>4. CASE Trace(p)
  <2> DEFINE new == [run[p] EXCEPT !.phase = "traced", !.traced = model]
  <2>1. /\ new \in Invocation /\ new.phase = "traced" /\ new.traced = model
        /\ new.parsed = run[p].parsed /\ new.option = run[p].option /\ new.pending = run[p].pending
    BY <1>1 DEF Invocation, Phases, Typed
  <2>2. /\ run' = [run EXCEPT ![p] = new] /\ UNCHANGED <<model, files, disturbed>>
        /\ run[p].phase = "parsed"
    BY <1>4 DEF Trace
  <2> HIDE DEF new
  <2> QED
    BY <1>3, <2>1, <2>2
<1>5. CASE Digest(p)
  <2> DEFINE new == [run[p] EXCEPT !.phase = "emitting", !.digested = model]
  <2>1. /\ new \in Invocation /\ new.phase = "emitting" /\ new.digested = model
        /\ new.parsed = run[p].parsed /\ new.traced = run[p].traced
        /\ new.option = run[p].option /\ new.pending = run[p].pending
    BY <1>1 DEF Invocation, Phases, Typed
  <2>2. /\ run' = [run EXCEPT ![p] = new] /\ UNCHANGED <<model, files, disturbed>>
        /\ run[p].phase = "traced"
    BY <1>5 DEF Digest
  <2> HIDE DEF new
  <2> QED
    BY <1>3, <2>1, <2>2
<1> QED
  BY <1>2, <1>4, <1>5

\* An invocation that only ends, or goes on to main.rs.
LEMMA EndKeeps ==
  ASSUME CompileInv, NEW p \in Processes, NEW x \in Phases, End(p, x), model' = model,
         UNCHANGED <<files, disturbed>>,
         \/ x = "failed"
         \/ /\ x \in {"scaffolding", "ok"} /\ run[p].phase \in {"emitting", "scaffolding"}
            /\ run[p].pending = {}
         \/ /\ x = "drifted" /\ run[p].phase = "emitting"
            /\ \E t \in Selected(run[p].option) : files[t] # Generated(p, t)
  PROVE  CompileInv'
<1> DEFINE new == [run[p] EXCEPT !.phase = x]
<1>1. run[p] \in Invocation /\ Typed /\ ReadsModel(p) /\ EmitsGenerated(p) /\ PendingSelected(p)
  BY DEF CompileInv, Typed
<1>2. /\ new \in Invocation /\ new.phase = x /\ new.option = run[p].option /\ new.pending = run[p].pending
      /\ new.parsed = run[p].parsed /\ new.traced = run[p].traced /\ new.digested = run[p].digested
  BY <1>1 DEF Invocation
<1>3. run' = [run EXCEPT ![p] = new]
  BY DEF End
<1> HIDE DEF new
<1>4. run'[p] = new
  BY <1>1, <1>2, <1>3, OneMoves
<1>5. \A t : Generated(p, t)' = Generated(p, t)
  BY <1>2, <1>4 DEF Generated
<1>6. ReadsModel(p)' /\ PendingSelected(p)'
  BY <1>1, <1>2, <1>4 DEF ReadsModel, PendingSelected
<1>7. EmitsGenerated(p)'
  BY <1>1, <1>2, <1>4, <1>5 DEF EmitsGenerated
<1>8. disturbed' \in [Processes -> SUBSET {"model", "files"}] /\ files' = [t \in Outputs |-> files'[t]]
  BY <1>1 DEF Typed
<1> QED
  BY <1>2, <1>3, <1>6, <1>7, <1>8, RunKeeps

\* An output that now is as generated is no longer pending.
LEMMA EmittedKeeps ==
  ASSUME CompileInv, NEW p \in Processes, Emitting(p), NEW t \in run[p].pending,
         Emitted(p, t), model' = model,
         files' = [files EXCEPT ![t] = Generated(p, t)],
         disturbed' \in [Processes -> SUBSET {"model", "files"}],
         disturbed'[p] = disturbed[p],
         \A q \in Processes \ {p} :
           disturbed[q] \subseteq disturbed'[q] /\ (files' = files \/ "files" \in disturbed'[q])
  PROVE  CompileInv'
<1> DEFINE new == [run[p] EXCEPT !.pending = run[p].pending \ {t}]
<1>1. run[p] \in Invocation /\ Typed /\ ReadsModel(p) /\ EmitsGenerated(p) /\ PendingSelected(p)
  BY DEF CompileInv, Typed
<1>2. /\ new \in Invocation /\ new.phase = run[p].phase /\ new.option = run[p].option
      /\ new.pending = run[p].pending \ {t}
      /\ new.parsed = run[p].parsed /\ new.traced = run[p].traced /\ new.digested = run[p].digested
  BY <1>1 DEF Invocation
<1>3. run' = [run EXCEPT ![p] = new]
  BY DEF Emitted
<1> HIDE DEF new
<1>4. run'[p] = new
  BY <1>1, <1>2, <1>3, OneMoves
<1>5. \A u : Generated(p, u)' = Generated(p, u)
  BY <1>2, <1>4 DEF Generated
<1>6. t \in Outputs /\ \A u \in Outputs : files'[u] = IF u = t THEN Generated(p, t) ELSE files[u]
  BY <1>1 DEF Typed, Invocation
<1>7. files' = [u \in Outputs |-> files'[u]]
  BY <1>1, <1>6 DEF Typed
<1>8. ReadsModel(p)' /\ PendingSelected(p)'
  BY <1>1, <1>2, <1>4 DEF ReadsModel, PendingSelected
<1>9. EmitsGenerated(p)'
  <2>1. run[p].phase = "emitting"
    BY DEF Emitting
  <2>2. ASSUME "files" \notin disturbed[p], NEW u \in Selected(run[p].option) \ new.pending
        PROVE  files'[u] = Generated(p, u)
    <3>1. u \in Outputs
      BY SelectedAreOutputs
    <3>2. u # t => files[u] = Generated(p, u)
      BY <1>1, <1>2, <2>1, <2>2 DEF EmitsGenerated
    <3> QED
      BY <1>6, <3>1, <3>2
  <2> QED
    BY <1>2, <1>4, <1>5, <2>1, <2>2 DEF EmitsGenerated
<1> QED
  BY <1>2, <1>3, <1>7, <1>8, <1>9, RunKeeps

LEMMA EmittingStep ==
  ASSUME CompileInv, NEW p \in Processes, WriteOutput(p) \/ CheckOutput(p) \/ LookForMain(p)
  PROVE  CompileInv'
<1>1. run[p] \in Invocation /\ Typed
  BY DEF CompileInv, Typed
<1>2. ASSUME Emitting(p)
      PROVE  /\ NextOutput(p) \in run[p].pending /\ NextOutput(p) \in Selected(run[p].option)
             /\ NextOutput(p) \in Outputs
  <2>1. NextOutput(p) \in run[p].pending
    BY <1>1, <1>2, NextIsPending DEF Emitting, Invocation
  <2> QED
    BY <2>1, SelectedAreOutputs DEF CompileInv, PendingSelected
<1>3. CASE WriteOutput(p)
  <2>1. /\ Emitting(p) /\ model' = model /\ Emitted(p, NextOutput(p))
        /\ files' = [files EXCEPT ![NextOutput(p)] = Generated(p, NextOutput(p))]
        /\ Disturb("files", Processes \ {p})
    BY <1>3 DEF WriteOutput
  <2>2. /\ disturbed' \in [Processes -> SUBSET {"model", "files"}]
        /\ disturbed'[p] = disturbed[p]
        /\ \A q \in Processes \ {p} : disturbed[q] \subseteq disturbed'[q] /\ "files" \in disturbed'[q]
    BY <1>1, <2>1 DEF Disturb, Typed
  <2> QED
    BY <1>2, <2>1, <2>2, EmittedKeeps
<1>4. CASE CheckOutput(p)
  <2>1. Emitting(p) /\ UNCHANGED <<model, files, disturbed>>
    BY <1>4 DEF CheckOutput
  <2>2. CASE Same(p, NextOutput(p))
    <3>1. Emitted(p, NextOutput(p)) /\ files[NextOutput(p)] = Generated(p, NextOutput(p))
      BY <1>4, <2>2 DEF CheckOutput, Same
    <3>2. files' = [files EXCEPT ![NextOutput(p)] = Generated(p, NextOutput(p))]
      BY <1>1, <2>1, <3>1 DEF Typed
    <3>3. disturbed' \in [Processes -> SUBSET {"model", "files"}]
      BY <1>1, <2>1 DEF Typed
    <3> QED
      BY <1>2, <2>1, <3>1, <3>2, <3>3, EmittedKeeps
  <2>3. CASE ~Same(p, NextOutput(p))
    BY <1>2, <1>4, <2>1, <2>3, EndKeeps DEF CheckOutput, Same, Emitting, Phases
  <2> QED
    BY <2>2, <2>3
<1>5. CASE LookForMain(p)
  <2>1. /\ run[p].phase = "emitting" /\ run[p].pending = {} /\ UNCHANGED <<model, files, disturbed>>
        /\ End(p, "scaffolding") \/ End(p, "ok")
    BY <1>5 DEF LookForMain
  <2> QED
    BY <2>1, EndKeeps DEF Phases
<1> QED
  BY <1>3, <1>4, <1>5

LEMMA EndingStep ==
  ASSUME CompileInv, NEW p \in Processes,
         WriteScaffold(p) \/ Fail(p) \/ FailWriting(p) \/ FailScaffolding(p)
  PROVE  CompileInv'
<1>1. run[p] \in Invocation /\ Typed
  BY DEF CompileInv, Typed
<1>2. CASE WriteScaffold(p)
  <2>1. run[p].phase = "scaffolding" /\ End(p, "ok") /\ UNCHANGED <<model, files, disturbed>>
    BY <1>2 DEF WriteScaffold
  <2>2. run[p].pending = {}
    BY <2>1 DEF CompileInv, EmitsGenerated
  <2> QED
    BY <2>1, <2>2, EndKeeps DEF Phases
<1>3. CASE Fail(p) \/ FailScaffolding(p)
  BY <1>3, EndKeeps DEF Fail, FailScaffolding, Phases
<1>4. CASE FailWriting(p)
  <2> DEFINE new == [run[p] EXCEPT !.phase = "failed"]
             t == NextOutput(p)
  <2>1. /\ new \in Invocation /\ new.phase = "failed" /\ new.option = run[p].option
        /\ new.pending = run[p].pending
    BY <1>1 DEF Invocation, Phases
  <2>2. /\ run' = [run EXCEPT ![p] = new] /\ model' = model
        /\ files' = [files EXCEPT ![t] = Foreign] /\ Disturb("files", Processes \ {p})
    BY <1>4 DEF FailWriting, End
  <2> HIDE DEF new, t
  <2>3. run'[p] = new
    BY <1>1, <2>1, <2>2, OneMoves
  <2>4. ReadsModel(p)' /\ EmitsGenerated(p)' /\ PendingSelected(p)'
    BY <2>1, <2>3 DEF ReadsModel, EmitsGenerated, PendingSelected, CompileInv
  <2>5. /\ disturbed' \in [Processes -> SUBSET {"model", "files"}]
        /\ \A q \in Processes \ {p} : disturbed[q] \subseteq disturbed'[q] /\ "files" \in disturbed'[q]
    BY <1>1, <2>2 DEF Disturb, Typed
  <2>6. files' = [u \in Outputs |-> files'[u]]
    BY <1>1, <2>2 DEF Typed
  <2> QED
    BY <2>1, <2>2, <2>4, <2>5, <2>6, RunKeeps
<1> QED
  BY <1>2, <1>3, <1>4

LEMMA CompileInvariant == CompileSpec => []CompileInv
<1>1. CompileInv /\ [CompileNext]_compileVars => CompileInv'
  BY UserStep, ReadingStep, EmittingStep, EndingStep DEF CompileNext, RunStep
<1> QED
  BY InitInv, <1>1, PTL DEF CompileSpec

-----------------------------------------------------------------------------
\* Undisturbed, what an invocation generates is what the model on disk produces.
LEMMA GeneratesCurrent ==
  ASSUME CompileInv, NEW p \in Processes, Undisturbed(p), run[p].phase \in {"ok", "drifted"}, NEW t
  PROVE  Current(t) <=> files[t] = Generated(p, t)
<1>1. run[p].parsed = model /\ run[p].traced = model /\ run[p].digested = model
  BY DEF CompileInv, ReadsModel, Undisturbed
<1> QED
  BY <1>1 DEF Current, Generated

\* `compile --check` is exact for any number of invocations around it.
THEOREM CheckExact == CompileSpec => []CheckIsExact
<1>1. ASSUME CompileInv, NEW p \in Processes, Undisturbed(p)
      PROVE  /\ run[p].phase = "ok" => \A t \in Selected(run[p].option) : Current(t)
             /\ run[p].phase = "drifted" => \E t \in Selected(run[p].option) : ~Current(t)
  <2>1. EmitsGenerated(p) /\ "files" \notin disturbed[p]
    BY <1>1 DEF CompileInv, Undisturbed
  <2>2. run[p].phase = "ok" => \A t \in Selected(run[p].option) : files[t] = Generated(p, t)
    BY <2>1 DEF EmitsGenerated
  <2>3. run[p].phase = "drifted" => \E t \in Selected(run[p].option) : files[t] # Generated(p, t)
    BY <2>1 DEF EmitsGenerated
  <2> QED
    BY <1>1, <2>2, <2>3, GeneratesCurrent
<1>2. CompileInv => CheckIsExact
  BY <1>1 DEF CheckIsExact
<1> QED
  BY <1>2, CompileInvariant, PTL

\* A successful run's outputs come from the same readings.
THEOREM OutputsTogether == CompileSpec => []OutputsBelongTogether
<1>1. ASSUME CompileInv, NEW p \in Processes, run[p].phase = "ok", "files" \notin disturbed[p],
             NEW t \in Selected(run[p].option)
      PROVE  files[t] = Generated(p, t) /\ (Undisturbed(p) => Current(t))
  <2>1. files[t] = Generated(p, t)
    BY <1>1 DEF CompileInv, EmitsGenerated
  <2> QED
    BY <1>1, <2>1, GeneratesCurrent
<1>2. CompileInv => OutputsBelongTogether
  BY <1>1 DEF OutputsBelongTogether
<1> QED
  BY <1>2, CompileInvariant, PTL

-----------------------------------------------------------------------------
\* A main.rs that is there before any run looks for one is never written to.
Kept == main = Foreign /\ \A p \in Processes : run[p].phase # "scaffolding"

LEMMA KeptStep ==
  ASSUME CompileInv, Kept, [CompileNext]_compileVars
  PROVE  Kept'
<1>0. Typed
  BY DEF CompileInv
<1>1. CASE UNCHANGED run
  BY <1>0, <1>1 DEF Kept, Typed, CompileNext, RunStep, EditModel, EditOutput, WriteMain, compileVars, Start,
     Trace, Digest, WriteOutput, CheckOutput, LookForMain, WriteScaffold, Fail, FailWriting, FailScaffolding
<1>2. ASSUME NEW p \in Processes, RunStep(p)
      PROVE  Kept'
  <2>1. main' = main
    BY <1>2 DEF Kept, RunStep, Start, Trace, Digest, WriteOutput, CheckOutput, LookForMain,
       WriteScaffold, Fail, FailWriting, FailScaffolding
  <2>2. ASSUME NEW new, run' = [run EXCEPT ![p] = new], new.phase # "scaffolding"
        PROVE  Kept'
    BY <1>0, <2>1, <2>2 DEF Kept, Typed
  <2>3. run[p] \in Invocation /\ run[p].phase # "scaffolding"
    BY <1>0 DEF Typed, Kept
  <2>4. ASSUME NEW x, End(p, x), x # "scaffolding"
        PROVE  Kept'
    BY <2>2, <2>3, <2>4 DEF End, Invocation
  <2>5. ASSUME NEW t, Emitted(p, t)
        PROVE  Kept'
    <3> DEFINE new == [run[p] EXCEPT !.pending = run[p].pending \ {t}]
    <3>1. run' = [run EXCEPT ![p] = new]
      BY <2>5 DEF Emitted
    <3>2. new.phase = run[p].phase
      BY <2>3 DEF Invocation
    <3> HIDE DEF new
    <3> QED
      BY <2>2, <2>3, <3>1, <3>2
  <2>6. CASE Start(p)
    <3> DEFINE new == [run[p] EXCEPT !.phase = "parsed", !.parsed = model,
                                     !.pending = Selected(run[p].option)]
    <3>1. run' = [run EXCEPT ![p] = new]
      BY <2>6 DEF Start
    <3>2. new.phase = "parsed"
      BY <2>3 DEF Invocation
    <3> HIDE DEF new
    <3> QED
      BY <2>2, <3>1, <3>2
  <2>7. CASE Trace(p) \/ Digest(p)
    BY <2>2, <2>3, <2>7 DEF Trace, Digest, Invocation
  <2>8. CASE LookForMain(p)
    BY <2>4, <2>8, ForeignAssumption DEF LookForMain, Kept
  <2> QED
    BY <1>2, <2>3, <2>4, <2>5, <2>6, <2>7, <2>8
    DEF RunStep, WriteOutput, CheckOutput, WriteScaffold, Fail, FailWriting, FailScaffolding
<1> QED
  BY <1>1, <1>2 DEF CompileNext, EditModel, EditOutput, WriteMain, compileVars

\* A main.rs that is there before the first run is there after the last.
THEOREM MainKept == CompileSpec => MainIsKept
<1>1. CompileInit /\ main = Foreign => Kept
  BY DEF CompileInit, Idle, Kept
<1>2. CompileInv /\ Kept /\ [CompileNext]_compileVars => Kept'
  BY KeptStep
<1>3. Kept => main = Foreign
  BY DEF Kept
<1> QED
  BY <1>1, <1>2, <1>3, CompileInvariant, PTL DEF CompileSpec, MainIsKept

-----------------------------------------------------------------------------
\* The artifact.

\* Storing a list keeps what is stored where it is.
LEMMA InternExtends ==
  ASSUME NEW table \in Seq(Lists), NEW list \in Lists
  PROVE  /\ Intern(table, list) \in Seq(Lists)
         /\ Len(table) <= Len(Intern(table, list))
         /\ \A i \in DOMAIN table : Intern(table, list)[i] = table[i]
         /\ list = Empty \/ Has(Intern(table, list), list)
<1>1. CASE list = Empty \/ Has(table, list)
  BY <1>1 DEF Intern
<1>2. CASE ~(list = Empty \/ Has(table, list))
  <2>1. Intern(table, list) = Append(table, list)
    BY <1>2 DEF Intern
  <2>2. Append(table, list)[Len(table) + 1] = list
    OBVIOUS
  <2>3. Len(table) + 1 \in DOMAIN Append(table, list)
    OBVIOUS
  <2> QED
    BY <2>1, <2>2, <2>3 DEF Has
<1> QED
  BY <1>1, <1>2

\* A reference to a stored list leads back to it.
LEMMA ReferenceLeadsBack ==
  ASSUME NEW table \in Seq(Lists), NEW list \in Lists, list = Empty \/ Has(table, list)
  PROVE  /\ list = Empty => Reference(table, list) = Omitted
         /\ list # Empty =>
              /\ Reference(table, list) \in 0 .. Len(table) - 1
              /\ table[Reference(table, list) + 1] = list
<1>1. CASE list = Empty
  BY <1>1 DEF Reference
<1>2. CASE list # Empty
  <2> DEFINE i == CHOOSE k \in DOMAIN table : table[k] = list
  <2>1. i \in DOMAIN table /\ table[i] = list
    BY <1>2 DEF Has
  <2>2. i \in 1 .. Len(table)
    BY <2>1
  <2>3. Reference(table, list) = i - 1
    BY <1>2 DEF Reference
  <2> HIDE DEF i
  <2>4. Reference(table, list) \in 0 .. Len(table) - 1
    BY <2>2, <2>3
  <2>5. Reference(table, list) + 1 = i
    BY <2>2, <2>3
  <2> QED
    BY <1>2, <2>1, <2>4, <2>5
<1> QED
  BY <1>1, <1>2

-----------------------------------------------------------------------------
\* The inductive invariant. The i-th step of the file stands for the i-th that
\* was compiled; every step that has been read is one the runtime accepts.
Describes(i) == Accepts(file.steps[i]) /\ Resolved(file.steps[i]) = source[i]

Sharing ==
  /\ fileEdits = 0
  /\ file.version = 3
  /\ file.lists \in Seq(Lists)
  /\ position = Len(file.steps)
  /\ position <= Len(source)

Unedited ==
  /\ AcceptsHeader
  /\ Len(file.steps) = Len(source)

Reading ==
  /\ AcceptsHeader
  /\ position = Len(steps)
  /\ position <= Len(file.steps)
  /\ \A i \in 1 .. position : Accepts(file.steps[i]) /\ steps[i] = Resolved(file.steps[i])

ArtifactInv ==
  /\ ArtifactTypeOK
  /\ fileEdits = 0 => \A i \in DOMAIN file.steps : Describes(i)
  /\ phase = "sharing" => Sharing
  /\ phase # "sharing" /\ fileEdits = 0 => Unedited
  /\ phase \in {"sharing", "written"} => steps = <<>>
  /\ phase \in {"reading", "loaded"} => Reading
  /\ phase = "loaded" => position = Len(file.steps)
  /\ phase = "refused" /\ fileEdits = 0 => ~SpeaksVocabulary

LEMMA InitIsInv == ArtifactInit => ArtifactInv
<1> SUFFICES ASSUME ArtifactInit PROVE ArtifactInv
  OBVIOUS
<1>1. source \in Seq(Step)
  BY ListsAssumption DEF ArtifactInit
<1>2. fileEdits = 0 /\ steps = <<>> /\ position = 0 /\ fileEdits \in 0 .. MaxFileEdits
  BY EditsAssumption DEF ArtifactInit
<1>3. PICK vocabulary \in Vocabularies, hydrated \in BOOLEAN :
       \/ /\ phase = "sharing"
          /\ file = [version |-> 3, vocabulary |-> vocabulary, hydrated |-> hydrated,
                     lists |-> <<>>, steps |-> <<>>]
       \/ /\ phase = "written"
          /\ file = [version |-> 2, vocabulary |-> vocabulary, hydrated |-> hydrated,
                     lists |-> Omitted, steps |-> [i \in DOMAIN source |-> Inline(source[i])]]
  BY DEF ArtifactInit
<1>4. CASE phase = "sharing"
  <2>1. file = [version |-> 3, vocabulary |-> vocabulary, hydrated |-> hydrated,
                lists |-> <<>>, steps |-> <<>>]
    BY <1>3, <1>4
  <2>2. file \in File
    BY <2>1, <1>3 DEF File, Table
  <2>3. Sharing
    BY <2>1, <1>1, <1>2 DEF Sharing
  <2>4. ArtifactTypeOK
    BY <1>1, <1>2, <1>4, <2>2 DEF ArtifactTypeOK
  <2> QED
    BY <1>2, <1>4, <2>1, <2>3, <2>4 DEF ArtifactInv
<1>5. CASE phase = "written"
  <2> DEFINE inlined == [i \in DOMAIN source |-> Inline(source[i])]
  <2>1. file = [version |-> 2, vocabulary |-> vocabulary, hydrated |-> hydrated,
                lists |-> Omitted, steps |-> inlined]
    BY <1>3, <1>5
  <2>2. ASSUME NEW i \in DOMAIN source
        PROVE  Inline(source[i]) \in RawStep
    <3>1. source[i] \in Step
      BY <1>1
    <3> QED
      BY <3>1 DEF Inline, RawStep, Step
  <2>3. inlined \in Seq(RawStep) /\ Len(inlined) = Len(source)
    BY <1>1, <2>2
  <2>4. file \in File
    <3> HIDE DEF inlined
    <3> QED
      BY <2>1, <2>3, <1>3 DEF File, Table
  <2>5. Unedited
    BY <2>1, <2>3, <1>2 DEF Unedited, AcceptsHeader
  <2>6. ASSUME NEW i \in DOMAIN file.steps
        PROVE  Describes(i)
    <3>1. i \in DOMAIN source /\ file.steps[i] = Inline(source[i]) /\ source[i] \in Step
      BY <1>1, <2>1
    <3>2. source[i].guards # Omitted /\ source[i].next # Omitted
      BY <3>1, ListsAssumption DEF Step
    <3>3. Resolved(Inline(source[i])) = source[i]
      BY <3>1, <3>2 DEF Resolved, Resolve, Inline, Step
    <3>4. file.version = 2
      BY <2>1
    <3>5. Accepts(Inline(source[i]))
      BY <3>4 DEF Accepts, InRange, Inline
    <3> QED
      BY <3>1, <3>3, <3>5 DEF Describes
  <2>7. ArtifactTypeOK
    BY <1>1, <1>2, <1>5, <2>4 DEF ArtifactTypeOK
  <2> QED
    BY <1>2, <1>5, <2>5, <2>6, <2>7 DEF ArtifactInv
<1> QED
  BY <1>3, <1>4, <1>5

-----------------------------------------------------------------------------
\* What a reference of the file so far resolves to does not change when the
\* table grows.
LEMMA ShareStepIsInv == ArtifactInv /\ ShareStep => ArtifactInv'
<1> SUFFICES ASSUME ArtifactInv, ShareStep PROVE ArtifactInv'
  OBVIOUS
<1> DEFINE step == source[position + 1]
           guarded == Intern(file.lists, step.guards)
           table == Intern(guarded, step.next)
           raw == Shared(step, table)
<1>1. /\ ArtifactTypeOK /\ Sharing /\ steps = <<>> /\ fileEdits = 0 /\ phase = "sharing"
      /\ \A i \in DOMAIN file.steps : Describes(i)
  BY DEF ArtifactInv, ShareStep, Sharing
<1>2. /\ position < Len(source)
      /\ file' = [file EXCEPT !.lists = table, !.steps = Append(@, raw)]
      /\ position' = position + 1
      /\ UNCHANGED <<source, retrieve, steps, phase, fileEdits>>
  BY DEF ShareStep
<1>3. step \in Step /\ step.guards \in Lists /\ step.next \in Lists /\ step.assertions \in Lists
  <2>1. position + 1 \in 1 .. Len(source) /\ source \in Seq(Step)
    BY <1>1, <1>2 DEF ArtifactTypeOK
  <2>2. step \in Step
    BY <2>1
  <2> QED
    BY <2>2 DEF Step
<1>4. /\ guarded \in Seq(Lists) /\ Len(file.lists) <= Len(guarded)
      /\ \A i \in DOMAIN file.lists : guarded[i] = file.lists[i]
      /\ step.guards = Empty \/ Has(guarded, step.guards)
  BY <1>1, <1>3, InternExtends DEF Sharing
<1>5. /\ table \in Seq(Lists) /\ Len(guarded) <= Len(table)
      /\ \A i \in DOMAIN guarded : table[i] = guarded[i]
      /\ step.next = Empty \/ Has(table, step.next)
  <2> HIDE DEF guarded
  <2> QED
    BY <1>3, <1>4, InternExtends
<1> HIDE DEF guarded, table
<1>6. step.guards = Empty \/ Has(table, step.guards)
  <2>1. ASSUME NEW i \in DOMAIN guarded, guarded[i] = step.guards
        PROVE  i \in DOMAIN table /\ table[i] = step.guards
    BY <2>1, <1>4, <1>5
  <2> QED
    BY <1>4, <2>1 DEF Has
<1> HIDE DEF step
<1>7. /\ step.guards = Empty => raw.guardList = Omitted
      /\ step.guards # Empty =>
           raw.guardList \in 0 .. Len(table) - 1 /\ table[raw.guardList + 1] = step.guards
  BY <1>3, <1>5, <1>6, ReferenceLeadsBack DEF Shared
<1>8. /\ step.next = Empty => raw.nextList = Omitted
      /\ step.next # Empty =>
           raw.nextList \in 0 .. Len(table) - 1 /\ table[raw.nextList + 1] = step.next
  BY <1>3, <1>5, ReferenceLeadsBack DEF Shared
<1>9. raw.guards = Omitted /\ raw.next = Omitted /\ raw.assertions = step.assertions
  BY DEF Shared
<1>10. raw \in RawStep
  <2>1. raw.guardList \in Nat \cup {Omitted} /\ raw.nextList \in Nat \cup {Omitted}
    BY <1>5, <1>7, <1>8
  <2> QED
    BY <2>1, <1>3 DEF Shared, RawStep
<1> HIDE DEF raw
<1>11. file.steps \in Seq(RawStep) /\ file.lists \in Seq(Lists) /\ file.version = 3
  BY <1>1 DEF ArtifactTypeOK, File, Sharing
<1>12. /\ file' \in File /\ file'.version = 3 /\ file'.lists = table
       /\ file'.steps = Append(file.steps, raw)
  <2>1. file \in File /\ Append(file.steps, raw) \in Seq(RawStep) /\ table \in Table
    BY <1>1, <1>5, <1>10, <1>11 DEF ArtifactTypeOK, Table
  <2> QED
    BY <2>1, <1>2, <1>11 DEF File
<1>13. Omitted \notin Nat /\ Omitted \notin Seq(Lists)
  BY ListsAssumption
<1>14. StoredLists = file.lists /\ StoredLists' = table
  BY <1>5, <1>11, <1>12, <1>13 DEF StoredLists
<1>15. ASSUME NEW old \in RawStep, Accepts(old)
       PROVE  Accepts(old)' /\ Resolved(old)' = Resolved(old)
  <2>1. ASSUME NEW reference \in Nat \cup {Omitted}, InRange(reference)
        PROVE  /\ InRange(reference)'
               /\ reference # Omitted => table[reference + 1] = file.lists[reference + 1]
    <3>1. CASE reference = Omitted
      BY <3>1 DEF InRange
    <3>2. CASE reference # Omitted
      <4>1. PICK j \in DOMAIN file.lists : reference = j - 1
        BY <2>1, <3>2, <1>14 DEF InRange
      <4>2. j \in DOMAIN table /\ table[j] = file.lists[j] /\ j \in Nat
        BY <4>1, <1>4, <1>5, <1>11
      <4>3. reference + 1 = j
        BY <4>1, <4>2
      <4> QED
        BY <4>1, <4>2, <4>3, <1>14 DEF InRange
    <3> QED
      BY <3>1, <3>2
  <2>2. /\ old.guardList \in Nat \cup {Omitted} /\ old.nextList \in Nat \cup {Omitted}
        /\ InRange(old.guardList) /\ InRange(old.nextList)
        /\ old.guards = Omitted /\ old.next = Omitted
    BY <1>11, <1>15 DEF Accepts, RawStep
  <2>3. Accepts(old)'
    <3>1. InRange(old.guardList)'
      BY <2>1, <2>2
    <3>2. InRange(old.nextList)'
      BY <2>1, <2>2
    <3> QED
      BY <3>1, <3>2, <2>2, <1>12 DEF Accepts
  <2>4. /\ Resolve(old.guardList, old.guards)' = Resolve(old.guardList, old.guards)
        /\ Resolve(old.nextList, old.next)' = Resolve(old.nextList, old.next)
    BY <2>1, <2>2, <1>14 DEF Resolve
  <2> QED
    BY <2>3, <2>4 DEF Resolved
<1>16. ASSUME NEW new \in RawStep, new = raw
       PROVE  Accepts(new)' /\ Resolved(new)' = step
  <2>1. Accepts(new)'
    <3>1. ASSUME NEW reference, reference = Omitted \/ reference \in 0 .. Len(table) - 1
          PROVE  InRange(reference)'
      <4>1. CASE reference = Omitted
        BY <4>1 DEF InRange
      <4>2. CASE reference \in 0 .. Len(table) - 1
        <5>1. reference + 1 \in DOMAIN table /\ (reference + 1) - 1 = reference
          BY <1>5, <4>2
        <5> QED
          BY <5>1, <1>14 DEF InRange
      <4> QED
        BY <3>1, <4>1, <4>2
    <3> QED
      BY <3>1, <1>7, <1>8, <1>9, <1>12, <1>16 DEF Accepts
  <2>2. /\ Resolve(new.guardList, new.guards)' = step.guards
        /\ Resolve(new.nextList, new.next)' = step.next
    <3>1. \A k \in 0 .. Len(table) - 1 : k # Omitted
      BY <1>5, <1>13
    <3> QED
      BY <3>1, <1>7, <1>8, <1>9, <1>14, <1>16 DEF Resolve
  <2>3. step = [guards |-> step.guards, next |-> step.next, assertions |-> step.assertions]
    BY <1>3 DEF Step
  <2> QED
    BY <2>1, <2>2, <2>3, <1>9, <1>16 DEF Resolved
<1>17. ASSUME NEW i \in DOMAIN file'.steps
       PROVE  Describes(i)'
  <2>1. CASE i \in DOMAIN file.steps
    <3>1. file'.steps[i] = file.steps[i] /\ file.steps[i] \in RawStep
      BY <2>1, <1>10, <1>11, <1>12
    <3>2. Accepts(file.steps[i]) /\ Resolved(file.steps[i]) = source[i]
      BY <2>1, <1>1 DEF Describes
    <3>3. PICK old \in RawStep : old = file.steps[i]
      BY <3>1
    <3>4. Accepts(old)' /\ Resolved(old)' = source[i]
      BY <3>2, <3>3, <1>15
    <3> QED
      BY <3>1, <3>3, <3>4, <1>2 DEF Describes
  <2>2. CASE i \notin DOMAIN file.steps
    <3>1. i = position + 1 /\ file'.steps[i] = raw
      BY <2>2, <1>1, <1>10, <1>11, <1>12 DEF Sharing
    <3>2. PICK new \in RawStep : new = raw
      BY <1>10
    <3>3. Accepts(new)' /\ Resolved(new)' = step
      BY <3>2, <1>16
    <3> QED
      BY <3>1, <3>2, <3>3, <1>2 DEF Describes, step
  <2> QED
    BY <2>1, <2>2
<1>18. Sharing'
  <2>1. Len(file'.steps) = Len(file.steps) + 1 /\ position = Len(file.steps) /\ position \in Nat
    BY <1>1, <1>10, <1>11, <1>12 DEF Sharing
  <2> QED
    BY <2>1, <1>1, <1>2, <1>5, <1>12 DEF Sharing, ArtifactTypeOK
<1>19. ArtifactTypeOK'
  BY <1>1, <1>2, <1>12 DEF ArtifactTypeOK
<1> QED
  BY <1>1, <1>2, <1>17, <1>18, <1>19 DEF ArtifactInv

-----------------------------------------------------------------------------
\* While the file stays as it is, so does everything that is read off it.
LEMMA FileKept ==
  ASSUME UNCHANGED <<source, file>>
  PROVE  /\ AcceptsHeader' = AcceptsHeader
         /\ SpeaksVocabulary' = SpeaksVocabulary
         /\ \A raw : Accepts(raw)' = Accepts(raw) /\ Resolved(raw)' = Resolved(raw)
         /\ \A i : Describes(i)' = Describes(i)
<1>1. AcceptsHeader' = AcceptsHeader /\ SpeaksVocabulary' = SpeaksVocabulary
  BY DEF AcceptsHeader, SpeaksVocabulary
<1>2. \A raw : Accepts(raw)' = Accepts(raw) /\ Resolved(raw)' = Resolved(raw)
  BY DEF Accepts, Resolved, Resolve, InRange, StoredLists
<1>3. \A i : Describes(i)' = Describes(i)
  BY DEF Describes, Accepts, Resolved, Resolve, InRange, StoredLists
<1> QED
  BY <1>1, <1>2, <1>3

\* A step that leaves the source and the file alone keeps what the file stands for.
LEMMA KeepsFile ==
  ASSUME ArtifactInv, UNCHANGED <<source, file, fileEdits>>
  PROVE  /\ fileEdits' = 0 => \A i \in DOMAIN file'.steps : Describes(i)'
         /\ Unedited => Unedited'
<1>1. fileEdits' = 0 => \A i \in DOMAIN file'.steps : Describes(i)'
  BY FileKept DEF ArtifactInv
<1>2. Unedited => Unedited'
  BY FileKept DEF Unedited
<1> QED
  BY <1>1, <1>2

LEMMA WriteIsInv == ArtifactInv /\ Write => ArtifactInv'
<1> SUFFICES ASSUME ArtifactInv, Write PROVE ArtifactInv'
  OBVIOUS
<1>1. /\ Sharing /\ position = Len(source) /\ fileEdits = 0 /\ steps = <<>>
      /\ phase' = "written" /\ UNCHANGED <<source, file, steps, position, fileEdits>>
  BY DEF ArtifactInv, Write, Sharing
<1>2. Unedited'
  BY <1>1, KeepsFile DEF Unedited, Sharing, AcceptsHeader
<1>3. ArtifactTypeOK'
  BY <1>1 DEF ArtifactInv, ArtifactTypeOK
<1> QED
  BY <1>1, <1>2, <1>3, KeepsFile DEF ArtifactInv

LEMMA EditFileIsInv == ArtifactInv /\ EditFile => ArtifactInv'
<1> SUFFICES ASSUME ArtifactInv, EditFile PROVE ArtifactInv'
  OBVIOUS
<1>1. file \in File /\ file.steps \in Seq(RawStep)
  BY DEF ArtifactInv, ArtifactTypeOK, File
<1>2. file' \in File
  <2>1. CASE \E version \in EditedVersions : file' = [file EXCEPT !.version = version]
    BY <1>1, <2>1, EditsAssumption DEF File
  <2>2. CASE \E table \in EditedTables : file' = [file EXCEPT !.lists = table]
    BY <1>1, <2>2, EditsAssumption DEF File
  <2>3. ASSUME NEW i \in DOMAIN file.steps, NEW raw \in EditedSteps,
               file' = [file EXCEPT !.steps[i] = raw]
        PROVE  file' \in File
    <3>1. raw \in RawStep
      BY EditsAssumption
    <3>2. [file.steps EXCEPT ![i] = raw] \in Seq(RawStep)
      BY <1>1, <3>1
    <3>3. file' = [file EXCEPT !.steps = [file.steps EXCEPT ![i] = raw]]
      BY <2>3, <1>1 DEF File
    <3> QED
      BY <1>1, <3>2, <3>3 DEF File
  <2> QED
    BY <2>1, <2>2, <2>3 DEF EditFile
<1>3. /\ fileEdits < MaxFileEdits /\ fileEdits' = fileEdits + 1 /\ fileEdits' # 0 /\ fileEdits' \in 0 .. MaxFileEdits
      /\ phase = "written" /\ steps = <<>> /\ UNCHANGED <<source, retrieve, steps, position, phase>>
  BY EditsAssumption DEF ArtifactInv, ArtifactTypeOK, EditFile
<1>4. ArtifactTypeOK'
  BY <1>2, <1>3 DEF ArtifactInv, ArtifactTypeOK
<1> QED
  BY <1>3, <1>4 DEF ArtifactInv

LEMMA HeaderIsInv == ArtifactInv /\ (ReadHeader \/ RefuseHeader) => ArtifactInv'
<1>1. ASSUME ArtifactInv, ReadHeader PROVE ArtifactInv'
  <2>1. /\ AcceptsHeader /\ phase = "written" /\ steps = <<>> /\ phase' = "reading"
        /\ position' = 0 /\ UNCHANGED <<source, file, retrieve, steps, fileEdits>>
    BY <1>1 DEF ArtifactInv, ReadHeader
  <2>2. Reading'
    <3>1. AcceptsHeader' /\ Len(file.steps) \in Nat
      BY <1>1, <2>1, FileKept DEF ArtifactInv, ArtifactTypeOK, File
    <3> QED
      BY <2>1, <3>1 DEF Reading
  <2>3. fileEdits = 0 => Unedited
    BY <1>1, <2>1 DEF ArtifactInv
  <2>4. ArtifactTypeOK'
    BY <1>1, <2>1 DEF ArtifactInv, ArtifactTypeOK
  <2> QED
    BY <1>1, <2>1, <2>2, <2>3, <2>4, KeepsFile DEF ArtifactInv
<1>2. ASSUME ArtifactInv, RefuseHeader PROVE ArtifactInv'
  <2>1. /\ ~AcceptsHeader /\ phase = "written" /\ phase' = "refused"
        /\ UNCHANGED <<source, file, retrieve, steps, position, fileEdits>>
    BY <1>2 DEF RefuseHeader
  <2>2. fileEdits # 0
    BY <1>2, <2>1 DEF ArtifactInv, Unedited
  <2>3. ArtifactTypeOK'
    BY <1>2, <2>1 DEF ArtifactInv, ArtifactTypeOK
  <2> QED
    BY <2>1, <2>2, <2>3 DEF ArtifactInv
<1> QED
  BY <1>1, <1>2

LEMMA ReadStepIsInv == ArtifactInv /\ ReadStep => ArtifactInv'
<1> SUFFICES ASSUME ArtifactInv, ReadStep PROVE ArtifactInv'
  OBVIOUS
<1> DEFINE read == Resolved(file.steps[position + 1])
<1>1. /\ phase = "reading" /\ position < Len(file.steps) /\ Accepts(file.steps[position + 1])
      /\ steps' = Append(steps, read) /\ position' = position + 1
      /\ UNCHANGED <<source, file, retrieve, phase, fileEdits>>
  BY DEF ReadStep
<1>2. ArtifactTypeOK /\ Reading /\ (fileEdits = 0 => Unedited)
  BY <1>1 DEF ArtifactInv
<1>3. file.steps \in Seq(RawStep) /\ file.lists \in Table /\ position \in Nat /\ steps \in Seq(Step)
  BY <1>2 DEF ArtifactTypeOK, File
<1>4. read \in Step
  <2>1. PICK raw \in RawStep : raw = file.steps[position + 1]
    BY <1>1, <1>3
  <2>2. StoredLists \in Seq(Lists)
    BY <1>3 DEF StoredLists, Table
  <2>3. ASSUME NEW reference \in Nat \cup {Omitted}, NEW inline \in Lists \cup {Omitted},
               InRange(reference)
        PROVE  Resolve(reference, inline) \in Lists
    <3>1. CASE reference = Omitted
      BY <3>1, ListsAssumption DEF Resolve
    <3>2. CASE reference # Omitted
      <4>1. PICK j \in DOMAIN StoredLists : reference = j - 1
        BY <2>3, <3>2 DEF InRange
      <4>2. reference + 1 = j /\ StoredLists[j] \in Lists
        BY <2>2, <4>1
      <4> QED
        BY <3>2, <4>2 DEF Resolve
    <3> QED
      BY <3>1, <3>2
  <2>4. InRange(raw.guardList) /\ InRange(raw.nextList)
    BY <1>1, <2>1 DEF Accepts
  <2>5. /\ raw.guardList \in Nat \cup {Omitted} /\ raw.nextList \in Nat \cup {Omitted}
        /\ raw.guards \in Lists \cup {Omitted} /\ raw.next \in Lists \cup {Omitted}
        /\ raw.assertions \in Lists
    BY DEF RawStep
  <2>6. Resolve(raw.guardList, raw.guards) \in Lists /\ Resolve(raw.nextList, raw.next) \in Lists
    BY <2>3, <2>4, <2>5
  <2> QED
    BY <2>1, <2>5, <2>6 DEF Resolved, Step
<1> HIDE DEF read
<1>5. steps' \in Seq(Step) /\ Len(steps') = position + 1
  BY <1>1, <1>2, <1>3, <1>4 DEF Reading
<1>6. ASSUME NEW i \in 1 .. position'
      PROVE  Accepts(file.steps[i]) /\ steps'[i] = Resolved(file.steps[i])
  <2>1. CASE i = position + 1
    BY <2>1, <1>1, <1>2, <1>3, <1>4 DEF Reading, read
  <2>2. CASE i # position + 1
    <3>1. i \in 1 .. position /\ steps'[i] = steps[i]
      BY <2>2, <1>1, <1>2, <1>3, <1>4 DEF Reading
    <3> QED
      BY <3>1, <1>2 DEF Reading
  <2> QED
    BY <2>1, <2>2
<1>7. Reading'
  <2>1. \A i \in 1 .. position' : (Accepts(file.steps[i]) /\ steps[i] = Resolved(file.steps[i]))'
    <3> SUFFICES ASSUME NEW i \in 1 .. position'
                 PROVE  (Accepts(file.steps[i]) /\ steps[i] = Resolved(file.steps[i]))'
      OBVIOUS
    <3>1. Accepts(file.steps[i])'
      BY <1>1, <1>6 DEF Accepts, InRange, StoredLists
    <3>2. steps'[i] = Resolved(file.steps[i])'
      BY <1>1, <1>6 DEF Resolved, Resolve, StoredLists
    <3> QED
      BY <3>1, <3>2
  <2>2. position' <= Len(file'.steps)
    BY <1>1, <1>3
  <2> QED
    BY <1>1, <1>2, <1>5, <2>1, <2>2, FileKept DEF Reading
<1>8. ArtifactTypeOK'
  BY <1>1, <1>2, <1>5 DEF ArtifactTypeOK
<1> QED
  BY <1>1, <1>2, <1>7, <1>8, KeepsFile DEF ArtifactInv

LEMMA EndIsInv == ArtifactInv /\ (RefuseStep \/ Load) => ArtifactInv'
<1>1. ASSUME ArtifactInv, RefuseStep PROVE ArtifactInv'
  <2>1. /\ phase = "reading" /\ position < Len(file.steps) /\ ~Accepts(file.steps[position + 1])
        /\ phase' = "refused" /\ UNCHANGED <<source, file, retrieve, steps, position, fileEdits>>
    BY <1>1 DEF RefuseStep
  <2>2. fileEdits # 0
    <3>1. position + 1 \in DOMAIN file.steps
      BY <1>1, <2>1 DEF ArtifactInv, ArtifactTypeOK, File
    <3> QED
      BY <1>1, <2>1, <3>1 DEF ArtifactInv, Describes
  <2>3. ArtifactTypeOK'
    BY <1>1, <2>1 DEF ArtifactInv, ArtifactTypeOK
  <2> QED
    BY <2>1, <2>2, <2>3 DEF ArtifactInv
<1>2. ASSUME ArtifactInv, Load PROVE ArtifactInv'
  <2>1. /\ phase = "reading" /\ position = Len(file.steps)
        /\ phase' = (IF SpeaksVocabulary THEN "loaded" ELSE "refused")
        /\ UNCHANGED <<source, file, retrieve, steps, position, fileEdits>>
    BY <1>2 DEF Load
  <2>2. Reading /\ (fileEdits = 0 => Unedited) /\ ArtifactTypeOK
    BY <1>2, <2>1 DEF ArtifactInv
  <2>3. Reading'
    BY <2>1, <2>2 DEF Reading, AcceptsHeader, Accepts, InRange, Resolved, Resolve, StoredLists
  <2>4. ArtifactTypeOK'
    BY <2>1, <2>2 DEF ArtifactTypeOK
  <2> QED
    BY <1>2, <2>1, <2>2, <2>3, <2>4, KeepsFile, FileKept DEF ArtifactInv
<1> QED
  BY <1>1, <1>2

LEMMA StutterIsInv == ArtifactInv /\ UNCHANGED artifactVars => ArtifactInv'
<1> SUFFICES ASSUME ArtifactInv, UNCHANGED artifactVars PROVE ArtifactInv'
  OBVIOUS
<1>1. UNCHANGED <<source, file, retrieve, steps, position, phase, fileEdits>>
  BY DEF artifactVars
<1>2. Reading => Reading'
  BY <1>1 DEF Reading, AcceptsHeader, Accepts, InRange, Resolved, Resolve, StoredLists
<1>3. Sharing => Sharing'
  BY <1>1 DEF Sharing
<1>4. ArtifactTypeOK => ArtifactTypeOK'
  BY <1>1 DEF ArtifactTypeOK
<1> QED
  BY <1>1, <1>2, <1>3, <1>4, KeepsFile, FileKept DEF ArtifactInv

\* The invariant holds in every state, for every model, every vocabulary and
\* every edit of the file.
THEOREM ArtifactInvariant == ArtifactSpec => []ArtifactInv
<1>1. ArtifactInv /\ [ArtifactNext]_artifactVars => ArtifactInv'
  BY ShareStepIsInv, WriteIsInv, EditFileIsInv, HeaderIsInv, ReadStepIsInv, EndIsInv, StutterIsInv
     DEF ArtifactNext
<1> QED
  BY InitIsInv, <1>1, PTL DEF ArtifactSpec

\* Compiler, file and reader keep their types, for any sources and edits.
THEOREM ArtifactTyped == ArtifactSpec => []ArtifactTypeOK
<1>1. ArtifactInv => ArtifactTypeOK
  BY DEF ArtifactInv
<1> QED
  BY ArtifactInvariant, <1>1, PTL

\* What the compiler shared is what the runtime resolves, step by step.
THEOREM ArtifactLoads == ArtifactSpec => []LoadsWhatWasCompiled
<1>1. ArtifactInv => LoadsWhatWasCompiled
  <2> SUFFICES ASSUME ArtifactInv, fileEdits = 0
               PROVE  /\ phase = "loaded" => steps = source
                      /\ phase = "refused" => ~SpeaksVocabulary
    BY DEF LoadsWhatWasCompiled
  <2>1. ASSUME phase = "loaded" PROVE steps = source
    <3>1. Reading /\ Unedited /\ position = Len(file.steps)
      BY <2>1 DEF ArtifactInv
    <3>2. steps \in Seq(Step) /\ source \in Seq(Step) /\ file.steps \in Seq(RawStep)
      BY DEF ArtifactInv, ArtifactTypeOK, File
    <3>3. Len(steps) = Len(source)
      BY <3>1 DEF Reading, Unedited
    <3>4. \A i \in 1 .. Len(steps) : steps[i] = source[i]
      <4> SUFFICES ASSUME NEW i \in 1 .. Len(steps) PROVE steps[i] = source[i]
        OBVIOUS
      <4>1. i \in 1 .. position /\ i \in DOMAIN file.steps
        BY <3>1, <3>2 DEF Reading
      <4> QED
        BY <3>1, <4>1 DEF Reading, ArtifactInv, Describes
    <3> QED
      BY <3>2, <3>3, <3>4
  <2> QED
    BY <2>1 DEF ArtifactInv
<1> QED
  BY <1>1, ArtifactInvariant, PTL

\* However the file was edited, what is loaded has every obligation it declares.
THEOREM ArtifactKeepsObligations == ArtifactSpec => []ObligationsAreKept
<1>1. ArtifactInv => ObligationsAreKept
  <2> SUFFICES ASSUME ArtifactInv, phase = "loaded" PROVE ObligationsAreKept
    BY DEF ObligationsAreKept
  <2>1. Reading /\ position = Len(file.steps) /\ Len(steps) = Len(file.steps)
    BY DEF ArtifactInv, Reading
  <2>2. steps \in Seq(Step) /\ file.steps \in Seq(RawStep) /\ file.lists \in Table
    BY DEF ArtifactInv, ArtifactTypeOK, File
  <2>3. file.version \in 2 .. 3
    BY <2>1 DEF Reading, AcceptsHeader
  <2>4. ASSUME NEW reference, reference # Omitted, InRange(reference)
        PROVE  /\ reference < Len(file.lists)
               /\ \A inline : Resolve(reference, inline) = file.lists[reference + 1]
    <3>1. PICK j \in DOMAIN StoredLists : reference = j - 1
      BY <2>4 DEF InRange
    <3>2. file.lists # Omitted
      BY <3>1 DEF StoredLists
    <3>3. StoredLists = file.lists /\ file.lists \in Seq(Lists)
      BY <2>2, <3>2 DEF StoredLists, Table
    <3>4. reference < Len(file.lists)
      BY <3>1, <3>3
    <3> QED
      BY <2>4, <3>3, <3>4 DEF Resolve
  <2>5. ASSUME NEW i \in DOMAIN steps, NEW raw \in RawStep, raw = file.steps[i]
        PROVE  /\ raw.guards # Omitted => steps[i].guards = raw.guards /\ raw.guardList = Omitted
               /\ raw.next # Omitted => steps[i].next = raw.next /\ raw.nextList = Omitted
               /\ raw.guardList # Omitted =>
                    raw.guardList < Len(file.lists) /\ steps[i].guards = file.lists[raw.guardList + 1]
               /\ raw.nextList # Omitted =>
                    raw.nextList < Len(file.lists) /\ steps[i].next = file.lists[raw.nextList + 1]
    <3>1. i \in 1 .. position
      BY <2>1, <2>2
    <3>2. Accepts(raw) /\ steps[i] = Resolved(raw)
      BY <2>1, <2>5, <3>1 DEF Reading
    <3>3. /\ InRange(raw.guardList) /\ InRange(raw.nextList)
          /\ raw.guards # Omitted \/ raw.next # Omitted => file.version = 2
          /\ file.version = 2 => raw.guardList = Omitted /\ raw.nextList = Omitted
      BY <2>3, <3>2 DEF Accepts
    <3>4. /\ steps[i].guards = Resolve(raw.guardList, raw.guards)
          /\ steps[i].next = Resolve(raw.nextList, raw.next)
      BY <3>2 DEF Resolved
    <3>5. /\ raw.guards # Omitted => steps[i].guards = raw.guards /\ raw.guardList = Omitted
          /\ raw.next # Omitted => steps[i].next = raw.next /\ raw.nextList = Omitted
      BY <3>3, <3>4 DEF Resolve
    <3> QED
      BY <2>4, <3>3, <3>4, <3>5
  <2>6. \A i \in DOMAIN steps : file.steps[i] \in RawStep
    BY <2>1, <2>2
  <2> QED
    BY <2>1, <2>5, <2>6 DEF ObligationsAreKept
<1> QED
  BY <1>1, ArtifactInvariant, PTL

-----------------------------------------------------------------------------
\* The lists a row of the file names, and those named before row p.
Named(raw) == {raw.guardList, raw.nextList} \ {Omitted}

NamedBefore(rows, p, k) == \E q \in 1 .. p - 1 : k \in Named(rows[q])

NamesInOrder(rows, p) ==
  /\ rows[p].guardList # Omitted => \A k \in 0 .. rows[p].guardList - 1 : NamedBefore(rows, p, k)
  /\ rows[p].nextList # Omitted =>
       \A k \in 0 .. rows[p].nextList - 1 : NamedBefore(rows, p, k) \/ k = rows[p].guardList

InOrder(table, rows) ==
  /\ \A i, j \in DOMAIN table : table[i] = table[j] => i = j
  /\ \A i \in DOMAIN table : \E p \in DOMAIN rows : i - 1 \in Named(rows[p])
  /\ \A p \in DOMAIN rows : NamesInOrder(rows, p)
\* Storing a list adds it at the end, or nothing.
LEMMA InternOnce ==
  ASSUME NEW table \in Seq(Lists), NEW list \in Lists,
         \A i, j \in DOMAIN table : table[i] = table[j] => i = j
  PROVE  /\ \A i, j \in DOMAIN Intern(table, list) :
              Intern(table, list)[i] = Intern(table, list)[j] => i = j
         /\ \/ Intern(table, list) = table
            \/ /\ Len(Intern(table, list)) = Len(table) + 1
               /\ Intern(table, list)[Len(table) + 1] = list /\ list # Empty
<1>1. CASE list = Empty \/ Has(table, list)
  BY <1>1 DEF Intern
<1>2. CASE ~(list = Empty \/ Has(table, list))
  <2>1. Intern(table, list) = Append(table, list)
    BY <1>2 DEF Intern
  <2>2. /\ Len(Append(table, list)) = Len(table) + 1 /\ Append(table, list)[Len(table) + 1] = list
        /\ DOMAIN Append(table, list) = DOMAIN table \cup {Len(table) + 1}
        /\ \A i \in DOMAIN table : Append(table, list)[i] = table[i]
    OBVIOUS
  <2>3. \A i \in DOMAIN table : table[i] # list
    BY <1>2 DEF Has
  <2> QED
    BY <1>2, <2>1, <2>2, <2>3
<1> QED
  BY <1>1, <1>2

\* A new row names what is new in the table, guards first.
LEMMA SharingInOrder ==
  ASSUME NEW table \in Seq(Lists), NEW rows \in Seq(RawStep), InOrder(table, rows),
         NEW step \in Step, NEW guarded, NEW shared, NEW raw \in RawStep,
         guarded = Intern(table, step.guards), shared = Intern(guarded, step.next),
         raw = Shared(step, shared)
  PROVE  InOrder(shared, Append(rows, raw))
<1>0. Omitted \notin Nat
  BY ListsAssumption
<1>1. step.guards \in Lists /\ step.next \in Lists
  BY DEF Step
<1>2. /\ guarded \in Seq(Lists) /\ \A i \in DOMAIN table : guarded[i] = table[i]
      /\ step.guards = Empty \/ Has(guarded, step.guards)
      /\ \A i, j \in DOMAIN guarded : guarded[i] = guarded[j] => i = j
      /\ \/ Len(guarded) = Len(table)
         \/ /\ Len(guarded) = Len(table) + 1
            /\ guarded[Len(table) + 1] = step.guards /\ step.guards # Empty
  <2>1. \A i, j \in DOMAIN table : table[i] = table[j] => i = j
    BY DEF InOrder
  <2>2. /\ guarded \in Seq(Lists) /\ \A i \in DOMAIN table : guarded[i] = table[i]
        /\ step.guards = Empty \/ Has(guarded, step.guards)
    BY <1>1, InternExtends
  <2> QED
    BY <1>1, <2>1, <2>2, InternOnce
<1>3. /\ shared \in Seq(Lists) /\ \A i \in DOMAIN guarded : shared[i] = guarded[i]
      /\ step.next = Empty \/ Has(shared, step.next)
      /\ \A i, j \in DOMAIN shared : shared[i] = shared[j] => i = j
      /\ \/ Len(shared) = Len(guarded)
         \/ /\ Len(shared) = Len(guarded) + 1
            /\ shared[Len(guarded) + 1] = step.next /\ step.next # Empty
  <2>1. /\ shared \in Seq(Lists) /\ \A i \in DOMAIN guarded : shared[i] = guarded[i]
        /\ step.next = Empty \/ Has(shared, step.next)
    BY <1>1, <1>2, InternExtends
  <2> QED
    BY <1>1, <1>2, <2>1, InternOnce
<1>4. /\ step.next = Empty => raw.nextList = Omitted
      /\ step.next # Empty => raw.nextList \in 0 .. Len(shared) - 1 /\ shared[raw.nextList + 1] = step.next
  BY <1>1, <1>3, ReferenceLeadsBack DEF Shared
<1>5. PICK n \in Nat : n = Len(table)
  OBVIOUS
<1>6. step.guards # Empty => \E i \in 1 .. Len(guarded) : shared[i] = step.guards
  BY <1>2, <1>3 DEF Has
<1>7. /\ step.guards = Empty => raw.guardList = Omitted
      /\ step.guards # Empty =>
           raw.guardList \in 0 .. Len(guarded) - 1 /\ shared[raw.guardList + 1] = step.guards
  <2>1. DOMAIN guarded \subseteq DOMAIN shared
    BY <1>2, <1>3
  <2>2. step.guards = Empty \/ Has(shared, step.guards)
    BY <1>2, <1>3, <2>1 DEF Has
  <2>3. /\ step.guards = Empty => raw.guardList = Omitted
        /\ step.guards # Empty =>
             raw.guardList \in 0 .. Len(shared) - 1 /\ shared[raw.guardList + 1] = step.guards
    BY <1>1, <1>3, <2>2, ReferenceLeadsBack DEF Shared
  <2>4. ASSUME step.guards # Empty
        PROVE  raw.guardList \in 0 .. Len(guarded) - 1
    <3>1. PICK i \in 1 .. Len(guarded) : shared[i] = step.guards
      BY <1>6, <2>4
    <3>2. i \in DOMAIN shared /\ raw.guardList + 1 \in DOMAIN shared
      BY <1>2, <1>3, <2>1, <2>3, <2>4
    <3>3. raw.guardList + 1 = i
      BY <1>3, <2>3, <2>4, <3>1, <3>2
    <3> QED
      BY <1>2, <2>3, <2>4, <3>3
  <2> QED
    BY <2>3, <2>4
<1>8. /\ Len(guarded) = n \/ (Len(guarded) = n + 1 /\ raw.guardList = n)
      /\ Len(shared) = Len(guarded) \/ (Len(shared) = Len(guarded) + 1 /\ raw.nextList = Len(guarded))
  <2>1. ASSUME Len(guarded) = n + 1, guarded[n + 1] = step.guards, step.guards # Empty
        PROVE  raw.guardList = n
    <3>1. shared[n + 1] = step.guards /\ n + 1 \in DOMAIN shared /\ raw.guardList + 1 \in DOMAIN shared
      BY <1>2, <1>3, <1>5, <1>7, <2>1
    <3>2. raw.guardList + 1 = n + 1
      BY <1>3, <1>7, <2>1, <3>1
    <3> QED
      BY <1>5, <1>7, <2>1, <3>2
  <2>2. ASSUME Len(shared) = Len(guarded) + 1, shared[Len(guarded) + 1] = step.next, step.next # Empty
        PROVE  raw.nextList = Len(guarded)
    <3>1. Len(guarded) + 1 \in DOMAIN shared /\ raw.nextList + 1 \in DOMAIN shared
      BY <1>2, <1>3, <1>4, <2>2
    <3>2. raw.nextList + 1 = Len(guarded) + 1
      BY <1>3, <1>4, <2>2, <3>1
    <3> QED
      BY <1>2, <1>4, <2>2, <3>2
  <2> QED
    BY <1>2, <1>3, <1>5, <2>1, <2>2
<1> DEFINE longer == Append(rows, raw)
<1>9. /\ longer \in Seq(RawStep) /\ DOMAIN longer = 1 .. Len(rows) + 1 /\ Len(rows) \in Nat
      /\ \A p \in 1 .. Len(rows) : longer[p] = rows[p]
      /\ longer[Len(rows) + 1] = raw
  OBVIOUS
<1> HIDE DEF longer
<1>10. ASSUME NEW k \in 0 .. n - 1
       PROVE  NamedBefore(longer, Len(rows) + 1, k)
  <2>1. k + 1 \in DOMAIN table /\ (k + 1) - 1 = k
    BY <1>5
  <2>2. PICK q \in DOMAIN rows : k \in Named(rows[q])
    BY <2>1 DEF InOrder
  <2> QED
    BY <1>9, <2>2 DEF NamedBefore
<1>11. ASSUME NEW i \in DOMAIN shared
       PROVE  \E p \in DOMAIN longer : i - 1 \in Named(longer[p])
  <2>1. i \in 1 .. n \/ (i = n + 1 /\ raw.guardList = i - 1) \/ raw.nextList = i - 1
    BY <1>3, <1>5, <1>8
  <2>2. CASE i \in 1 .. n
    <3>1. NamedBefore(longer, Len(rows) + 1, i - 1)
      BY <1>5, <1>10, <2>2
    <3> QED
      BY <1>9, <3>1 DEF NamedBefore
  <2>3. CASE raw.guardList = i - 1 \/ raw.nextList = i - 1
    <3>1. i - 1 \in Nat
      BY <1>3
    <3>2. i - 1 \in Named(raw)
      BY <1>0, <2>3, <3>1 DEF Named
    <3> QED
      BY <1>9, <3>2
  <2> QED
    BY <2>1, <2>2, <2>3
<1>12. ASSUME NEW p \in DOMAIN longer
       PROVE  NamesInOrder(longer, p)
  <2>1. CASE p \in 1 .. Len(rows)
    <3>1. NamesInOrder(rows, p) /\ longer[p] = rows[p]
      BY <1>9, <2>1 DEF InOrder
    <3>2. \A k : NamedBefore(rows, p, k) => NamedBefore(longer, p, k)
      BY <1>9, <2>1 DEF NamedBefore
    <3> QED
      BY <3>1, <3>2 DEF NamesInOrder
  <2>2. CASE p = Len(rows) + 1
    <3>1. longer[p] = raw
      BY <1>9, <2>2
    <3>2. ASSUME raw.guardList # Omitted, NEW k \in 0 .. raw.guardList - 1
          PROVE  NamedBefore(longer, p, k)
      <4>1. raw.guardList \in 0 .. Len(guarded) - 1
        BY <1>7, <3>2
      <4>2. k \in 0 .. n - 1
        BY <1>2, <1>5, <1>8, <3>2, <4>1
      <4> QED
        BY <1>10, <2>2, <4>2
    <3>3. ASSUME raw.nextList # Omitted, NEW k \in 0 .. raw.nextList - 1
          PROVE  NamedBefore(longer, p, k) \/ k = raw.guardList
      <4>1. raw.nextList \in 0 .. Len(shared) - 1
        BY <1>4, <3>3
      <4>2. k \in 0 .. n - 1 \/ k = raw.guardList
        BY <1>2, <1>3, <1>5, <1>8, <3>3, <4>1
      <4> QED
        BY <1>10, <2>2, <4>2
    <3> QED
      BY <3>1, <3>2, <3>3 DEF NamesInOrder
  <2> QED
    BY <1>9, <2>1, <2>2
<1> QED
  BY <1>3, <1>11, <1>12 DEF InOrder, longer

Orderly ==
  /\ fileEdits = 0 /\ file.version = 3 => file.lists \in Seq(Lists) /\ InOrder(file.lists, file.steps)
  /\ phase = "sharing" => retrieve = Omitted
  /\ fileEdits = 0 /\ retrieve # Omitted => file.version = 3 /\ retrieve = GeneratedDependencies

LEMMA OrderlyInitially == ArtifactInit => Orderly
<1> SUFFICES ASSUME ArtifactInit PROVE Orderly
  OBVIOUS
<1>1. \/ file.version = 3 /\ file.lists = <<>> /\ file.steps = <<>>
      \/ file.version = 2
  BY DEF ArtifactInit
<1>2. InOrder(<<>>, <<>>) /\ <<>> \in Seq(Lists)
  BY DEF InOrder
<1>3. fileEdits = 0 /\ retrieve = Omitted
  BY DEF ArtifactInit
<1>4. CASE file.version = 3 /\ file.lists = <<>> /\ file.steps = <<>>
  BY <1>2, <1>3, <1>4 DEF Orderly
<1>5. CASE file.version = 2
  BY <1>3, <1>5 DEF Orderly
<1> QED
  BY <1>1, <1>4, <1>5

LEMMA ShareStepOrderly ==
  ASSUME ArtifactInv, ArtifactInv', Orderly, ShareStep
  PROVE  Orderly'
<1> DEFINE step == source[position + 1]
           guarded == Intern(file.lists, step.guards)
           shared == Intern(guarded, step.next)
           raw == Shared(step, shared)
<1>1. /\ phase = "sharing" /\ position < Len(source) /\ UNCHANGED <<source, retrieve, phase, fileEdits>>
      /\ file' = [file EXCEPT !.lists = shared, !.steps = Append(@, raw)]
  BY DEF ShareStep
<1>2. /\ source \in Seq(Step) /\ position \in Nat /\ fileEdits = 0 /\ file.version = 3
      /\ file.lists \in Seq(Lists) /\ file.steps \in Seq(RawStep) /\ file \in File
      /\ file'.steps \in Seq(RawStep) /\ file' \in File
  BY <1>1 DEF ArtifactInv, ArtifactTypeOK, Sharing, File
<1>3. step \in Step
  BY <1>1, <1>2
<1> HIDE DEF raw, shared
<1>4. file'.version = 3 /\ file'.lists = shared /\ file'.steps = Append(file.steps, raw)
  BY <1>1, <1>2 DEF File
<1>5. raw \in RawStep
  <2>1. Append(file.steps, raw)[Len(file.steps) + 1] = raw
    BY <1>2
  <2>2. Len(file.steps) + 1 \in DOMAIN Append(file.steps, raw)
    BY <1>2
  <2> QED
    BY <1>2, <1>4, <2>1, <2>2
<1>6. step.guards \in Lists /\ step.next \in Lists
  BY <1>3 DEF Step
<1>7. guarded \in Seq(Lists)
  BY <1>2, <1>6, InternExtends
<1>8. shared \in Seq(Lists)
  BY <1>6, <1>7, InternExtends DEF shared
<1>9. InOrder(shared, Append(file.steps, raw))
  BY <1>2, <1>3, <1>5, SharingInOrder DEF Orderly, raw, shared
<1> QED
  BY <1>1, <1>2, <1>4, <1>8, <1>9 DEF Orderly

LEMMA OrderlyStep ==
  ASSUME ArtifactInv, ArtifactInv', Orderly, [ArtifactNext]_artifactVars
  PROVE  Orderly'
<1>1. CASE UNCHANGED <<file, retrieve, fileEdits>> /\ phase' # "sharing"
  BY <1>1 DEF Orderly, GeneratedDependencies
<1>2. CASE Write
  <2>1. /\ file.version = 3 /\ retrieve' = GeneratedDependencies /\ phase' = "written"
        /\ UNCHANGED <<file, fileEdits>>
    BY <1>2 DEF Write, ArtifactInv, Sharing
  <2> QED
    BY <2>1 DEF Orderly, GeneratedDependencies
<1>3. CASE EditFile
  <2>1. fileEdits' # 0 /\ phase' # "sharing"
    BY <1>3 DEF EditFile, ArtifactInv, ArtifactTypeOK
  <2> QED
    BY <2>1 DEF Orderly
<1>4. CASE UNCHANGED artifactVars
  BY <1>4 DEF artifactVars, Orderly, GeneratedDependencies
<1> QED
  BY <1>1, <1>2, <1>3, <1>4, ShareStepOrderly
  DEF ArtifactNext, ReadHeader, RefuseHeader, ReadStep, RefuseStep, Load

LEMMA OrderlyAlways == ArtifactSpec => []Orderly
  BY OrderlyInitially, OrderlyStep, ArtifactInvariant, PTL DEF ArtifactSpec

\* The table has each list once, none that is not named, in the order in which
\* the steps name them.
THEOREM TableOrdered == ArtifactSpec => []TableInOrder
<1>1. ASSUME ArtifactInv, Orderly
      PROVE  TableInOrder
  <2> SUFFICES ASSUME file.version = 3, fileEdits = 0
               PROVE  TableInOrder
    BY DEF TableInOrder
  <2>1. InOrder(file.lists, file.steps)
    BY <1>1 DEF Orderly
  <2>2. \A p : References(p) = Named(file.steps[p])
    BY DEF References, Named
  <2>3. ASSUME NEW p \in DOMAIN file.steps
        PROVE  LET before == UNION {References(q) : q \in 1 .. p - 1}
                   raw == file.steps[p]
               IN /\ raw.guardList # Omitted => 0 .. raw.guardList - 1 \subseteq before
                  /\ raw.nextList # Omitted =>
                       0 .. raw.nextList - 1 \subseteq before \cup {raw.guardList}
    <3> DEFINE before == UNION {References(q) : q \in 1 .. p - 1}
    <3>1. NamesInOrder(file.steps, p)
      BY <2>1 DEF InOrder
    <3>2. \A k : NamedBefore(file.steps, p, k) => k \in before
      BY <2>2 DEF NamedBefore
    <3> HIDE DEF before
    <3>3. /\ file.steps[p].guardList # Omitted => 0 .. file.steps[p].guardList - 1 \subseteq before
          /\ file.steps[p].nextList # Omitted =>
               0 .. file.steps[p].nextList - 1 \subseteq before \cup {file.steps[p].guardList}
      BY <3>1, <3>2 DEF NamesInOrder
    <3> QED
      BY <3>3 DEF before
  <2> QED
    BY <2>1, <2>2, <2>3 DEF TableInOrder, InOrder
<1> QED
  BY <1>1, ArtifactInvariant, OrderlyAlways, PTL

\* The adapter retrieves what the loaded obligations read, no more and no less.
THEOREM RetrieveComplete == ArtifactSpec => []RetrieveIsComplete
<1>1. ASSUME ArtifactInv, Orderly
      PROVE  RetrieveIsComplete
  <2> DEFINE Read(i) == Dependencies(steps[i].guards) \cup Dependencies(steps[i].next)
                          \cup Dependencies(steps[i].assertions)
  <2> SUFFICES ASSUME phase = "loaded", fileEdits = 0, retrieve # Omitted
               PROVE  retrieve = UNION {Read(i) : i \in DOMAIN steps}
    BY DEF RetrieveIsComplete
  <2>1. /\ file.version = 3 /\ retrieve = GeneratedDependencies
        /\ file.lists \in Seq(Lists) /\ InOrder(file.lists, file.steps)
    BY <1>1 DEF Orderly
  <2>2. /\ Reading /\ position = Len(file.steps) /\ Len(steps) = Len(file.steps)
        /\ steps \in Seq(Step) /\ file.steps \in Seq(RawStep)
    BY <1>1 DEF ArtifactInv, ArtifactTypeOK, Reading, File
  <2>3. DOMAIN steps = DOMAIN file.steps /\ StoredLists = file.lists
    BY <2>1, <2>2, ListsAssumption DEF StoredLists
  <2>4. ASSUME NEW i \in DOMAIN steps
        PROVE  /\ steps[i].assertions = file.steps[i].assertions
               /\ \/ file.steps[i].guardList = Omitted /\ steps[i].guards = Empty
                  \/ /\ file.steps[i].guardList + 1 \in DOMAIN file.lists
                     /\ steps[i].guards = file.lists[file.steps[i].guardList + 1]
               /\ \/ file.steps[i].nextList = Omitted /\ steps[i].next = Empty
                  \/ /\ file.steps[i].nextList + 1 \in DOMAIN file.lists
                     /\ steps[i].next = file.lists[file.steps[i].nextList + 1]
    <3>1. PICK raw \in RawStep : raw = file.steps[i]
      BY <2>2, <2>3
    <3>2. Accepts(raw) /\ steps[i] = Resolved(raw)
      BY <2>2, <3>1 DEF Reading
    <3>3. raw.guards = Omitted /\ raw.next = Omitted /\ InRange(raw.guardList) /\ InRange(raw.nextList)
      BY <2>1, <3>2 DEF Accepts
    <3>4. ASSUME NEW reference, reference # Omitted, InRange(reference)
          PROVE  reference + 1 \in DOMAIN file.lists
      <4>1. PICK j \in DOMAIN file.lists : reference = j - 1
        BY <2>3, <3>4 DEF InRange
      <4> QED
        BY <2>1, <4>1
    <3>5. /\ steps[i].guards = Resolve(raw.guardList, raw.guards)
          /\ steps[i].next = Resolve(raw.nextList, raw.next)
          /\ steps[i].assertions = raw.assertions
      BY <3>2 DEF Resolved
    <3> QED
      BY <2>3, <3>1, <3>3, <3>4, <3>5 DEF Resolve
  <2> DEFINE listed == UNION {Dependencies(file.lists[k]) : k \in DOMAIN file.lists}
             asserted == UNION {Dependencies(file.steps[k].assertions) : k \in DOMAIN file.steps}
  <2>5. retrieve = listed \cup asserted
    BY <2>1 DEF GeneratedDependencies
  <2>6. \A x : x \in listed <=> \E k \in DOMAIN file.lists : x \in Dependencies(file.lists[k])
    OBVIOUS
  <2>7. \A x : x \in asserted <=>
               \E k \in DOMAIN file.steps : x \in Dependencies(file.steps[k].assertions)
    OBVIOUS
  <2> HIDE DEF listed, asserted
  <2>8. ASSUME NEW x \in retrieve
        PROVE  \E i \in DOMAIN steps : x \in Read(i)
    <3>1. CASE \E k \in DOMAIN file.lists : x \in Dependencies(file.lists[k])
      <4>1. PICK k \in DOMAIN file.lists : x \in Dependencies(file.lists[k])
        BY <3>1
      <4>2. PICK p \in DOMAIN file.steps : k - 1 \in Named(file.steps[p])
        BY <2>1 DEF InOrder
      <4>3. \/ file.steps[p].guardList = k - 1 /\ file.steps[p].guardList # Omitted
            \/ file.steps[p].nextList = k - 1 /\ file.steps[p].nextList # Omitted
        BY <4>2 DEF Named
      <4>4. (k - 1) + 1 = k
        BY <2>1
      <4>5. steps[p].guards = file.lists[k] \/ steps[p].next = file.lists[k]
        BY <2>3, <2>4, <4>3, <4>4
      <4> QED
        BY <2>3, <4>1, <4>5
    <3>2. CASE \E k \in DOMAIN file.steps : x \in Dependencies(file.steps[k].assertions)
      BY <2>3, <2>4, <3>2
    <3> QED
      BY <2>5, <2>6, <2>7, <3>1, <3>2
  <2>9. ASSUME NEW i \in DOMAIN steps, NEW x \in Read(i)
        PROVE  x \in retrieve
    <3>1. CASE x \in Dependencies(steps[i].guards)
      BY <2>5, <2>6, <2>4, <3>1, DependenciesAssumption
    <3>2. CASE x \in Dependencies(steps[i].next)
      BY <2>5, <2>6, <2>4, <3>2, DependenciesAssumption
    <3>3. CASE x \in Dependencies(steps[i].assertions)
      BY <2>5, <2>7, <2>3, <2>4, <3>3
    <3> QED
      BY <3>1, <3>2, <3>3
  <2> HIDE DEF Read
  <2> DEFINE read == UNION {Read(i) : i \in DOMAIN steps}
  <2>10. \A x : x \in read <=> \E i \in DOMAIN steps : x \in Read(i)
    OBVIOUS
  <2> HIDE DEF read
  <2>11. \A x : x \in retrieve <=> x \in read
    BY <2>8, <2>9, <2>10
  <2> QED
    BY <2>11, <2>5 DEF read, listed, asserted
<1> QED
  BY <1>1, ArtifactInvariant, OrderlyAlways, PTL

=============================================================================
