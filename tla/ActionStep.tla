------------------------------ MODULE ActionStep -----------------------------
(***************************************************************************)
(* The reducer for one action: evaluate_projected_action_step of           *)
(* bindings/rust/src/evaluate.rs. From the projected state and the         *)
(* evidence recorded after the action it decides whether the action's      *)
(* obligations hold, and returns the next projected state: the model's own *)
(* assignment overlaid with the observed fields.                           *)
(***************************************************************************)
EXTENDS QuintModel

CONSTANTS
  Retrieve,         \* state fields named by a `path:state.f` of the retrieve list
  Reads(_),         \* state fields the obligations of an action depend on
  GuardReads(_),    \* those its pre-guards depend on
  GuardCount(_),    \* how many pre-guards the action has
  MergeValue(_, _), \* MergeValue(m, o): model value m overlaid with observed o
  Unresolved        \* an adapter that cannot answer: resolve_name returned Err

\* Snapshots are sparse: an adapter may leave out fields.
Evidence == (UNION {[observed -> Values] : observed \in SUBSET Fields}) \cup {Unresolved}

ASSUME RetrieveAssumption ==
  /\ Retrieve \subseteq Fields
  /\ \A a \in Actions :
       Reads(a) \subseteq Fields /\ GuardReads(a) \subseteq Reads(a) /\ GuardCount(a) \in Nat

ASSUME UnresolvedAssumption ==
  \A observed \in SUBSET Fields : Unresolved \notin [observed -> Values]

\* A value overlaid with itself is that value (theorem MergedWithItself of Alternatives_proofs).
ASSUME MergeAssumption == \A v \in Values : MergeValue(v, v) = v

-----------------------------------------------------------------------------
\* The alternative an `any` or `if` settles on: evaluation stops at the first
\* one whose guards hold, and the capture takes its assignment.
CanAssign(a, s) == \E k \in 1 .. Branches(a) : Enabled(a, k, s)

Captured(a, s) ==
  CHOOSE k \in 1 .. Branches(a) : Enabled(a, k, s) /\ \A j \in 1 .. k - 1 : ~Enabled(a, j, s)

ModelNext(a, s) == Apply(a, Captured(a, s), s, Argument(a, s))

MergedFields(a) == Retrieve \cup Reads(a)

\* merge_observed_state: a field the snapshot leaves out, and one that nothing
\* retrieves, keeps the model's value.
MergeObservedState(a, model, observed) ==
  [f \in Fields |-> IF f \in MergedFields(a) \cap DOMAIN observed
                      THEN MergeValue(model[f], observed[f])
                      ELSE model[f]]

\* Fault: any observation at all will do.
SomethingObserved(a, s, observed) == DOMAIN observed # {}

\* require_changed_observations
ChangedFieldsObserved(a, s, observed) ==
  \A f \in Reads(a) : ModelNext(a, s)[f] # s[f] => f \in DOMAIN observed

\* Every dependency of the obligations is on the retrieve list.
Supported(a) == Reads(a) \subseteq Retrieve

PreGuardsHold(a, s) == GuardReads(a) \subseteq Retrieve /\ Guard(a, s)

\* Fault: the merged state is not compared with the assignment.
ValidatesGuardsOnly(a, s, reached, observed) ==
  /\ Supported(a) /\ PreGuardsHold(a, s) /\ CanAssign(a, s) /\ observed # Unresolved

\* The action takes the projected state s to the merged one. `reached` is the
\* state Quint reached, which is the `next` obligation of a branching action;
\* its body then is a post-guard.
Validates(a, s, reached, observed) ==
  /\ Supported(a)
  /\ PreGuardsHold(a, s)
  /\ CanAssign(a, s)
  /\ observed # Unresolved
  /\ ChangedFieldsObserved(a, s, observed)
  /\ LET merged == MergeObservedState(a, ModelNext(a, s), observed)
     IN merged = ModelNext(a, s) /\ (a \in Branching => merged = reached)

ObligationCount(a) == GuardCount(a) + IF a \in Branching THEN 2 ELSE 1

-----------------------------------------------------------------------------
\* Evidence that says nothing against the model being in state s.
Agrees(observed, s) ==
  /\ observed # Unresolved
  /\ \A f \in Retrieve \cap DOMAIN observed : MergeValue(s[f], observed[f]) = s[f]

-----------------------------------------------------------------------------
\* The batch evaluator, evaluate_projected_action_steps and
\* evaluate_projected_prefix_state: the first n actions of sc judged against a
\* tape of n + 1 snapshots, from the initial state of the artifact.
EvaluateTape(sc, tape, n) ==
  LET prefix[i \in 0 .. n] ==
        IF i = 0
          THEN [ok |-> tape[1] = sc.initial, state |-> sc.initial, evaluated |-> 0]
          ELSE LET before == prefix[i - 1]
                   action == sc.actions[i]
               IN IF before.ok /\ Validates(action, before.state, sc.trace[i + 1], tape[i + 1])
                    THEN [ok |-> TRUE,
                          state |-> MergeObservedState(action, ModelNext(action, before.state), tape[i + 1]),
                          evaluated |-> before.evaluated + ObligationCount(action)]
                    ELSE [before EXCEPT !.ok = FALSE]
  IN prefix[n]

=============================================================================
