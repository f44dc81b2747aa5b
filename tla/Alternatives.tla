----------------------------- MODULE Alternatives -----------------------------
(***************************************************************************)
(* One step of the projected tape evaluator: the body of the action (`any`,*)
(* `if` and what is nested in them) is evaluated with an assignment sink to*)
(* learn what the model assigns, the observation is merged into that, and  *)
(* the body is evaluated again to check the merged state                   *)
(* (evaluate_projected_action_step and the assign, evaluate_short_circuit  *)
(* and evaluate_ite parts of evaluate_call, bindings/rust/src/evaluate.rs).*)
(* The state is one field. ActionStep takes the result, `Captured`, for    *)
(* bodies that write guards before assignments.                            *)
(***************************************************************************)
EXTENDS Merging

CONSTANTS
  Tree,       \* actions and what they are made of, in the state before them
  Height(_),  \* how deep a body is nested
  Updates,    \* the bodies that assign the state (Quint's effect of an action)
  Bodies,     \* the actions
  Reports(_), \* what an adapter may report after such an action
  Nothing     \* no assignment, nothing merged

\* A body is a tree, tagged like a value. A guard is its value in the state
\* before ("fails" when it cannot be evaluated there, like an index out of
\* bounds), an assignment the value it assigns there.
Guard == {"true", "false", "fails"}

Grown(b) ==
  \/ DOMAIN b = {"guard"} /\ b.guard \in Guard
  \/ DOMAIN b = {"assign"} /\ b.assign \in Value
  \/ DOMAIN b = {"all"} /\ b.all \in Seq(Tree)
  \/ DOMAIN b = {"any"} /\ b.any \in Seq(Tree)
  \/ DOMAIN b = {"condition", "then", "else"} /\ b.condition \in Guard

\* The bodies directly inside a body.
Within(b) ==
  CASE Is("all", b) -> Range(b.all)
    [] Is("any", b) -> Range(b.any)
    [] Is("condition", b) -> {b.then, b.else}
    [] OTHER -> {}

ASSUME BodyAssumption ==
  /\ \A b \in Tree :
       /\ Height(b) \in Nat
       /\ Grown(b)
       /\ \A c \in Within(b) : c \in Tree /\ Height(c) < Height(b)
  /\ Bodies \subseteq Tree
  /\ \A b \in Bodies : Reports(b) \subseteq Value
  /\ Nothing \notin Value

\* Quint checks the effects of a model: an action assigns the state in one of
\* its conjuncts, and in every alternative.
ASSUME EffectAssumption ==
  /\ Bodies \subseteq Updates
  /\ \A b \in Tree :
       /\ Is("guard", b) => b \notin Updates
       /\ Is("assign", b) => b \in Updates
       /\ Is("all", b) =>
            /\ b \in Updates <=> \E i \in DOMAIN b.all : b.all[i] \in Updates
            /\ \A i, j \in DOMAIN b.all :
                 b.all[i] \in Updates /\ b.all[j] \in Updates => i = j
       /\ Is("any", b) => \A i \in DOMAIN b.any : b.any[i] \in Updates <=> b \in Updates
       /\ Is("condition", b) =>
            (b.then \in Updates <=> b \in Updates) /\ (b.else \in Updates <=> b \in Updates)

-----------------------------------------------------------------------------
\* Evaluation threads the sink: a result is a value ("true", "false" or
\* "error") and what the sink holds afterwards.
Result(value, sink) == [value |-> value, sink |-> sink]

Sinks == Value \cup {Nothing}

\* Fault: the first assignment stays in the sink.
AssignOnce(target, pass, sink) ==
  Result("true", IF sink # Nothing THEN sink ELSE target)

\* assign: captured in the first pass; in the second an error unless the state
\* after the action is the assigned one.
Assign(target, pass, sink) ==
  CASE pass.capture -> Result("true", target)
    [] ~pass.capture /\ Equal(target, pass.after) -> Result("true", sink)
    [] OTHER -> Result("error", sink)

Opposite(decisive) == IF decisive = "true" THEN "false" ELSE "true"

\* Fault: every argument is evaluated before one decides.
EvaluateEach(decisive, arguments, sink) ==
  LET result[i \in 0 .. Len(arguments)] ==
        IF i = 0 THEN Result(Opposite(decisive), sink)
        ELSE LET before == result[i - 1]
                 next == arguments[i][before.sink]
             IN IF next.value # "error" /\ before.value \in {decisive, "error"}
                  THEN Result(before.value, next.sink)
                  ELSE next
  IN result[Len(arguments)]

\* evaluate_short_circuit: the first decisive argument, or an error before it.
\* An argument is what it evaluates to with each sink; the i-th result is that
\* of the first i.
ShortCircuit(decisive, arguments, sink) ==
  LET result[i \in 0 .. Len(arguments)] ==
        IF i = 0 THEN Result(Opposite(decisive), sink)
        ELSE LET before == result[i - 1]
             IN IF before.value \in {decisive, "error"} THEN before
                ELSE arguments[i][before.sink]
  IN result[Len(arguments)]

EvaluateParts(evaluate, b, pass, sink) ==
  LET each(arguments) == [i \in DOMAIN arguments |-> evaluate[arguments[i]]]
  IN CASE Is("guard", b) -> Result(IF b.guard = "fails" THEN "error" ELSE b.guard, sink)
       [] Is("assign", b) -> Assign(b.assign, pass, sink)
       [] Is("all", b) -> ShortCircuit("false", each(b.all), sink)
       [] Is("any", b) -> ShortCircuit("true", each(b.any), sink)
       [] Is("condition", b) ->
            IF b.condition = "fails" THEN Result("error", sink)
            ELSE evaluate[IF b.condition = "true" THEN b.then ELSE b.else][sink]

Evaluating(pass) ==
  LET evaluate[b \in Tree] == [sink \in Sinks |-> EvaluateParts(evaluate, b, pass, sink)]
  IN evaluate

Evaluate(b, pass, sink) == Evaluating(pass)[b][sink]

CapturePass == [capture |-> TRUE, after |-> Nothing]
CheckPass(after) == [capture |-> FALSE, after |-> after]

-----------------------------------------------------------------------------
VARIABLES
  body,     \* the body of the action
  reached,  \* the state Quint reached, `next` in the artifact
  observed, \* what the adapter reported after the action
  captured, \* what the capture pass found
  merged,   \* the projected state after the action
  verdict   \* "open", "captured", then "accepted" or "rejected"

alternativesVars == <<body, reached, observed, captured, merged, verdict>>

\* The states Quint may reach: every alternative of an `any` is one, whatever
\* the order of the conjuncts. A body that assigns nothing leaves Nothing.
OutcomesOf(outcomes, b) ==
  CASE Is("guard", b) -> IF b.guard = "true" THEN {Nothing} ELSE {}
    [] Is("assign", b) -> {b.assign}
    [] Is("all", b) ->
         LET each == {outcomes[b.all[i]] : i \in DOMAIN b.all}
             assigned == (UNION each) \ {Nothing}
         IN CASE {} \in each -> {}
              [] {} \notin each /\ assigned = {} -> {Nothing}
              [] OTHER -> assigned
    [] Is("any", b) -> UNION {outcomes[b.any[i]] : i \in DOMAIN b.any}
    [] Is("condition", b) ->
         CASE b.condition = "true" -> outcomes[b.then]
           [] b.condition = "false" -> outcomes[b.else]
           [] OTHER -> {}

OutcomesIn(trees) ==
  LET outcomes[b \in trees] == OutcomesOf(outcomes, b) IN outcomes

Outcomes(b) == OutcomesIn(Tree)[b]

AlternativesInit ==
  /\ body \in Bodies
  /\ reached \in Outcomes(body)
  /\ observed \in Reports(body)
  /\ captured = Nothing
  /\ merged = Nothing
  /\ verdict = "open"

\* The capture pass: what does the model assign? The observation is merged in.
Capture ==
  LET result == Evaluate(body, CapturePass, Nothing) IN
  /\ verdict = "open"
  /\ IF result.value = "true" /\ result.sink # Nothing
       THEN /\ captured' = result.sink
            /\ merged' = Merge(result.sink, observed)
            /\ verdict' = "captured"
       ELSE verdict' = "rejected" /\ UNCHANGED <<captured, merged>>
  /\ UNCHANGED <<body, reached, observed>>

\* The check pass, on the merged state, and the `next` obligation with the state
\* Quint reached.
Check ==
  LET result == Evaluate(body, CheckPass(merged), Nothing) IN
  /\ verdict = "captured"
  /\ verdict' = (IF result.value = "true" /\ Equal(reached, merged)
                   THEN "accepted" ELSE "rejected")
  /\ UNCHANGED <<body, reached, observed, captured, merged>>

AlternativesNext == Capture \/ Check

AlternativesSpec == AlternativesInit /\ [][AlternativesNext]_alternativesVars

-----------------------------------------------------------------------------
\* What was captured is a state Quint may reach from here: an assignment of an
\* alternative that was given up is never mistaken for the model's. And an
\* accepted projection stands at the very state Quint reached, so the next step
\* is judged from there.
CapturedIsPossible ==
  /\ verdict = "captured" => captured \in Outcomes(body)
  /\ verdict = "accepted" => merged = captured /\ captured = reached

\* A body and all that is in it.
PartsIn(trees) ==
  LET parts[b \in trees] == {b} \cup UNION {parts[c] : c \in Within(b)} IN parts

\* The guards of each alternative come before its assignment.
GuardsFirst(b) ==
  \A c \in PartsIn(Tree)[b] :
    Is("all", c) => \A i \in DOMAIN c.all : i < Len(c.all) => Is("guard", c.all[i])

\* What is directly inside a body and not behind a conjunct that is false.
Needed(b) ==
  CASE Is("all", b) ->
         {b.all[i] : i \in {k \in DOMAIN b.all :
                              \A j \in 1 .. k - 1 : b.all[j] # [guard |-> "false"]}}
    [] Is("condition", b) -> {IF b.condition = "true" THEN b.then ELSE b.else}
    [] OTHER -> Within(b)

NeedsIn(trees) ==
  LET needs[b \in trees] == {b} \cup UNION {needs[c] : c \in Needed(b)} IN needs

\* A guard that cannot be evaluated is only there behind one that is false.
Protected(b) ==
  \A c \in NeedsIn(Tree)[b] :
    /\ Is("guard", c) => c.guard # "fails"
    /\ Is("condition", c) => c.condition # "fails"

\* The alternatives of an `any` that are possible, and the first of them.
Possible(alternatives) == {i \in DOMAIN alternatives : Outcomes(alternatives[i]) # {}}
FirstPossible(alternatives) ==
  CHOOSE i \in Possible(alternatives) : \A j \in Possible(alternatives) : i <= j

FirstOf(first, b) ==
  CASE Is("assign", b) -> b.assign
    [] Is("all", b) /\ b.all # <<>> -> first[b.all[Len(b.all)]]
    [] Is("any", b) /\ Possible(b.any) # {} -> first[b.any[FirstPossible(b.any)]]
    [] Is("condition", b) -> first[IF b.condition = "true" THEN b.then ELSE b.else]
    [] OTHER -> Nothing

FirstIn(trees) ==
  LET first[b \in trees] == FirstOf(first, b) IN first

FirstOutcome(b) == FirstIn(Tree)[b]

\* With guards first the reducer settles on the first alternative that is
\* possible: no guard that relies on an earlier one is evaluated when that is
\* false, and nothing behind the alternative that decides.
TakesFirstAlternative ==
  GuardsFirst(body) /\ Protected(body) =>
    /\ verdict = "captured" => captured = FirstOutcome(body)
    /\ verdict = "rejected" => captured = FirstOutcome(body)

\* Of an implementation that took the same alternative, exactly the observations
\* are accepted that say nothing the model does not: the merge hides no
\* difference (an entry the implementation lost, an item too few, another
\* alternative of a union) and makes none up.
AcceptsWhatIsSaid ==
  GuardsFirst(body) /\ Protected(body) /\ verdict \in {"accepted", "rejected"} =>
    (verdict = "accepted" <=> reached = FirstOutcome(body) /\ Says(observed, reached))

\* Whatever was wrong with an observation, the projected state has taken it over:
\* the merged value says all the observation said. Nothing of the model is left
\* in it once all of it has been observed, so what is compared is the
\* implementation.
MergedSaysObserved ==
  merged # Nothing =>
    /\ Says(observed, merged)
    /\ Whole(observed, captured) => merged = observed

\* "An action with no single assignment (`if`/`else`, `any`) leaves exactly the
\* state Quint reached." An implementation that does is not rejected, whichever
\* alternative Quint took.
ReachingQuintIsAccepted ==
  observed = reached /\ Protected(body) => verdict # "rejected"

=============================================================================
