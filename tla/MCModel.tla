-------------------------------- MODULE MCModel ------------------------------
(***************************************************************************)
(* A small Quint model that instantiates QuintModel and ActionStep: a      *)
(* field x that is retrieved and a field z that is not, five actions that  *)
(* differ in what the reducers tell apart, and scenarios of at most two.   *)
(***************************************************************************)
EXTENDS Naturals, Sequences, TLC

CONSTANTS
  x, z,                          \* the fields
  inc, stamp, flip, choose, peek \* the actions

MCFields == {x, z}
MCValues == 0 .. 1
MCActions == {inc, stamp, flip, choose, peek}

\* flip is `if (x == 0) all { z' = 1 } else all { x' = 0 }`; choose is an `any`
\* of one alternative that is always enabled and one enabled when z == 0.
MCBranching == {flip, choose}
MCBranches(a) == IF a \in MCBranching THEN 2 ELSE 1

\* inc requires x == 0, peek requires z == 0; the others have no pre-guard.
MCGuard(a, s) ==
  /\ a = inc => s[x] = 0
  /\ a = peek => s[z] = 0
MCGuardCount(a) == IF a \in {inc, peek} THEN 1 ELSE 0
MCGuardReads(a) == CASE a = inc -> {x} [] a = peek -> {z} [] OTHER -> {}

MCEnabled(a, k, s) ==
  CASE a = flip /\ k = 1 -> s[x] = 0
    [] a = flip /\ k = 2 -> s[x] # 0
    [] a = choose /\ k = 2 -> s[z] = 0
    [] OTHER -> TRUE

\* stamp(state.x) writes its argument to z.
MCArgument(a, s) == s[x]

MCApply(a, k, s, v) ==
  CASE a \in {inc, peek} -> [s EXCEPT ![x] = 1]
    [] a = stamp -> [s EXCEPT ![z] = v]
    [] a = flip -> IF k = 1 THEN [s EXCEPT ![z] = 1] ELSE [s EXCEPT ![x] = 0]
    [] a = choose -> IF k = 1 THEN [s EXCEPT ![x] = 0] ELSE [s EXCEPT ![x] = 1]

MCMergeValue(m, o) == o

MCReads(a) == IF a = peek THEN {x, z} ELSE {x}

-----------------------------------------------------------------------------
At(vx, vz) == (x :> vx) @@ (z :> vz)

Traced(actions, trace) ==
  [hydrated |-> TRUE, initial |-> trace[1], actions |-> actions, trace |-> trace]

\* Scenarios as Quint ran them: each action alone where it matters, arguments
\* that depend on the state, both branches of flip, and a choose
\* that took its first and one that took its second alternative.
RunScenarios ==
  { Traced(<<inc, stamp>>, <<At(0, 0), At(1, 0), At(1, 1)>>),
    Traced(<<flip, inc>>, <<At(0, 0), At(0, 1), At(1, 1)>>),
    Traced(<<flip, inc>>, <<At(1, 0), At(0, 0), At(1, 0)>>),
    Traced(<<inc, peek>>, <<At(0, 0), At(1, 0), At(1, 0)>>),
    Traced(<<choose>>, <<At(1, 0), At(0, 0)>>),
    Traced(<<choose, stamp>>, <<At(0, 0), At(1, 0), At(1, 1)>>),
    Traced(<<>>, <<At(0, 0)>>) }

\* Artifacts that have drifted from their model: a pre-guard that is false on
\* the trace and a `next` that is not what the branch reaches; and hand-written
\* scenarios without an initial state.
DriftedScenarios ==
  { Traced(<<inc, inc>>, <<At(0, 0), At(1, 0), At(1, 0)>>),
    Traced(<<flip>>, <<At(0, 0), At(1, 0)>>),
    [Traced(<<inc, stamp>>, <<At(0, 0), At(1, 0), At(1, 1)>>) EXCEPT !.hydrated = FALSE] }

MCScenarios == RunScenarios \cup DriftedScenarios

=============================================================================
