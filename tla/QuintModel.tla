------------------------------ MODULE QuintModel -----------------------------
(***************************************************************************)
(* What the runtimes know of a Quint model: one state record, the actions  *)
(* of its conformance runs, and the scenarios Quint produced from them.    *)
(* An action is split the way the compiler splits its `all { }` body: the  *)
(* conjuncts without `state'` are pre-guards; what remains is one          *)
(* assignment, or (`any`, `if`) a list of alternatives tried in order.     *)
(***************************************************************************)
EXTENDS Naturals, Sequences

CONSTANTS
  Fields,            \* fields of the record `var state`
  Values,            \* values a field may hold
  Actions,           \* action calls of the scenarios, arguments included
  Branching,         \* the calls whose body is not a single assignment
  Guard(_, _),       \* Guard(a, s): every pre-guard of a holds in s
  Branches(_),       \* how many alternatives the body of a has
  Enabled(_, _, _),  \* Enabled(a, k, s): the guards inside alternative k hold in s
  Argument(_, _),    \* Argument(a, s): the argument of a, evaluated in s
  Apply(_, _, _, _), \* Apply(a, k, s, v): what alternative k assigns, for argument v
  Scenarios          \* the scenarios of the artifact

State == [Fields -> Values]

\* `initial` is absent in artifacts of hand-written projects: `hydrated` says
\* whether it is there. `trace` is Quint's own run of the scenario: the artifact
\* keeps its first state and, for a branching action, the state after it.
Scenario ==
  [hydrated : BOOLEAN, initial : State, actions : Seq(Actions), trace : Seq(State)]

ASSUME ActionAssumption ==
  /\ Branching \subseteq Actions
  /\ \A a \in Actions : Branches(a) \in Nat
  /\ \A a \in Actions : a \notin Branching => Branches(a) = 1

ASSUME StateAssumption ==
  \A a \in Actions, s \in State :
    /\ a \notin Branching => Enabled(a, 1, s)
    /\ Argument(a, s) \in Values
    /\ \A k \in 1 .. Branches(a), t \in State : Apply(a, k, s, Argument(a, t)) \in State

ASSUME ScenarioAssumption ==
  /\ Scenarios \subseteq Scenario
  /\ \A sc \in Scenarios : Len(sc.trace) = Len(sc.actions) + 1

\* Alternative k may take s to t.
Takes(a, k, s, t) ==
  Guard(a, s) /\ Enabled(a, k, s) /\ t = Apply(a, k, s, Argument(a, s))

ModelStep(a, s, t) == \E k \in 1 .. Branches(a) : Takes(a, k, s, t)

\* The scenario is one Quint has run, not one edited or drifted since.
Valid(sc) ==
  /\ sc.hydrated
  /\ sc.trace[1] = sc.initial
  /\ \A i \in 1 .. Len(sc.actions) : ModelStep(sc.actions[i], sc.trace[i], sc.trace[i + 1])

=============================================================================
