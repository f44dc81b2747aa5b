--------------------------- MODULE ActionStep_proofs --------------------------
(***************************************************************************)
(* What one judged action, and the batch evaluation of a tape of them,     *)
(* guarantee for every model: the lemmas session and runner share.         *)
(***************************************************************************)
EXTENDS ActionStep, TLAPS, WellFoundedInduction

\* Inductions below are by a least counterexample.
LEMMA LeastNatural ==
  ASSUME NEW S \in SUBSET Nat, S # {}
  PROVE  \E k \in S : \A j \in S : ~(j < k)
<1>1. PICK k \in S : \A j \in S : ~(<<j, k>> \in OpToRel(<, Nat))
  BY NatLessThanWellFounded, WFMin
<1> QED
  BY <1>1 DEF OpToRel

\* Where some alternative is enabled, the captured one is the first of them.
LEMMA CapturedIsEnabled ==
  ASSUME NEW a \in Actions, NEW s \in State, CanAssign(a, s)
  PROVE  Captured(a, s) \in 1 .. Branches(a) /\ Enabled(a, Captured(a, s), s)
<1> DEFINE Possible == {k \in 1 .. Branches(a) : Enabled(a, k, s)}
<1>1. Branches(a) \in Nat
  BY ActionAssumption
<1>2. Possible \subseteq Nat /\ Possible # {}
  BY <1>1 DEF CanAssign
<1> HIDE DEF Possible
<1>4. PICK k \in Possible : \A j \in Possible : ~(j < k)
  BY <1>2, LeastNatural
<1>5. \A j \in 1 .. k - 1 : ~Enabled(a, j, s)
  BY <1>1, <1>4 DEF Possible
<1>6. k \in 1 .. Branches(a) /\ Enabled(a, k, s)
  BY DEF Possible
<1> QED
  BY <1>5, <1>6 DEF Captured

\* An accepted action is a step of the model, and the state it leads to is the
\* model's own assignment.
LEMMA ValidatedIsModelStep ==
  ASSUME NEW a \in Actions, NEW s \in State, NEW reached, NEW observed,
         Validates(a, s, reached, observed)
  PROVE  /\ ModelNext(a, s) \in State
         /\ MergeObservedState(a, ModelNext(a, s), observed) = ModelNext(a, s)
         /\ ModelStep(a, s, ModelNext(a, s))
<1>1. CanAssign(a, s) /\ Guard(a, s)
  BY DEF Validates, PreGuardsHold
<1>2. Captured(a, s) \in 1 .. Branches(a) /\ Enabled(a, Captured(a, s), s)
  BY <1>1, CapturedIsEnabled
<1>3. ModelNext(a, s) \in State
  BY <1>2, StateAssumption DEF ModelNext
<1>4. MergeObservedState(a, ModelNext(a, s), observed) = ModelNext(a, s)
  BY DEF Validates
<1>5. Takes(a, Captured(a, s), s, ModelNext(a, s))
  BY <1>1, <1>2 DEF Takes, ModelNext
<1> QED
  BY <1>2, <1>3, <1>4, <1>5 DEF ModelStep

\* Where Quint has taken a step, an accepted action takes the same one.
LEMMA ValidatedFollowsQuint ==
  ASSUME NEW a \in Actions, NEW s \in State, NEW reached, NEW observed,
         Validates(a, s, reached, observed), ModelStep(a, s, reached)
  PROVE  ModelNext(a, s) = reached
<1>1. CASE a \in Branching
  BY <1>1 DEF Validates
<1>2. CASE a \notin Branching
  <2>1. Branches(a) = 1
    BY <1>2, ActionAssumption
  <2>2. Captured(a, s) = 1
    BY <2>1, CapturedIsEnabled DEF Validates
  <2> QED
    BY <2>1, <2>2 DEF ModelStep, Takes, ModelNext
<1> QED
  BY <1>1, <1>2

\* Accepted evidence agrees with the model in every retrieved field, and shows
\* every field of the obligations that changed.
LEMMA ValidatedEvidenceAgrees ==
  ASSUME NEW a \in Actions, NEW s \in State, NEW reached, NEW observed,
         Validates(a, s, reached, observed)
  PROVE  /\ Agrees(observed, ModelNext(a, s))
         /\ \A f \in Reads(a) : ModelNext(a, s)[f] # s[f] => f \in DOMAIN observed
<1> DEFINE next == ModelNext(a, s)
           merged == MergeObservedState(a, next, observed)
<1>1. merged = next /\ observed # Unresolved /\ ChangedFieldsObserved(a, s, observed)
  BY DEF Validates
<1>2. ASSUME NEW f \in Retrieve \cap DOMAIN observed
      PROVE  MergeValue(next[f], observed[f]) = next[f]
  <2>1. f \in Fields /\ f \in MergedFields(a) \cap DOMAIN observed
    BY <1>2, RetrieveAssumption DEF MergedFields
  <2>2. merged[f] = MergeValue(next[f], observed[f])
    BY <2>1 DEF MergeObservedState
  <2> QED
    BY <2>2, <1>1
<1> HIDE DEF next, merged
<1>3. Agrees(observed, next)
  BY <1>1, <1>2 DEF Agrees
<1> QED
  BY <1>1, <1>3 DEF next, ChangedFieldsObserved

-----------------------------------------------------------------------------
\* The batch evaluation, unfolded: what it starts from, and one turn of it.
TapeStart(sc, tape) == [ok |-> tape[1] = sc.initial, state |-> sc.initial, evaluated |-> 0]

TapeTurn(sc, tape, i, before) ==
  IF before.ok /\ Validates(sc.actions[i], before.state, sc.trace[i + 1], tape[i + 1])
    THEN [ok |-> TRUE,
          state |-> MergeObservedState(sc.actions[i], ModelNext(sc.actions[i], before.state), tape[i + 1]),
          evaluated |-> before.evaluated + ObligationCount(sc.actions[i])]
    ELSE [before EXCEPT !.ok = FALSE]

Unrolled(sc, tape, n, g) ==
  g = [i \in 0 .. n |-> IF i = 0 THEN TapeStart(sc, tape) ELSE TapeTurn(sc, tape, i, g[i - 1])]

\* The recursion has a solution for every length: a shortest one without would
\* extend the solution before it.
LEMMA UnrolledExists ==
  ASSUME NEW sc, NEW tape, NEW n \in Nat
  PROVE  \E g : Unrolled(sc, tape, n, g)
<1> DEFINE Bad == {k \in Nat : ~ \E g : Unrolled(sc, tape, k, g)}
<1> SUFFICES ASSUME Bad # {} PROVE FALSE
  OBVIOUS
<1>1. Bad \subseteq Nat
  OBVIOUS
<1>2. PICK k \in Bad : \A j \in Bad : ~(j < k)
  BY <1>1, LeastNatural, Zenon
<1>3. CASE k = 0
  <2> DEFINE g == [i \in 0 .. 0 |-> TapeStart(sc, tape)]
  <2>1. Unrolled(sc, tape, 0, g)
    BY DEF Unrolled
  <2> QED
    BY <1>3, <2>1
<1>4. CASE k # 0
  <2>1. k - 1 \in Nat /\ k - 1 < k /\ k \in Nat
    BY <1>4
  <2>2. PICK h : Unrolled(sc, tape, k - 1, h)
    BY <2>1, <1>2
  <2> DEFINE g == [i \in 0 .. k |-> IF i < k THEN h[i] ELSE TapeTurn(sc, tape, k, h[k - 1])]
  <2>3. \A i \in 0 .. k - 1 :
          h[i] = IF i = 0 THEN TapeStart(sc, tape) ELSE TapeTurn(sc, tape, i, h[i - 1])
    BY <2>2 DEF Unrolled
  <2>4. \A i \in 0 .. k :
          g[i] = IF i = 0 THEN TapeStart(sc, tape) ELSE TapeTurn(sc, tape, i, g[i - 1])
    <3> SUFFICES ASSUME NEW i \in 0 .. k
                 PROVE  g[i] = IF i = 0 THEN TapeStart(sc, tape) ELSE TapeTurn(sc, tape, i, g[i - 1])
      OBVIOUS
    <3>1. i # 0 => i - 1 \in 0 .. k - 1 /\ i - 1 \in 0 .. k /\ g[i - 1] = h[i - 1]
      BY <2>1
    <3>2. CASE i < k
      BY <2>1, <2>3, <3>1, <3>2
    <3>3. CASE i = k
      BY <2>1, <3>1, <3>3, <1>4
    <3> QED
      BY <3>2, <3>3, <2>1
  <2>5. Unrolled(sc, tape, k, g)
    BY <2>4 DEF Unrolled
  <2> QED
    BY <2>5
<1> QED
  BY <1>3, <1>4

\* All solutions agree where both are defined.
LEMMA UnrolledUnique ==
  ASSUME NEW sc, NEW tape, NEW m \in Nat, NEW n \in Nat, NEW g, NEW h,
         Unrolled(sc, tape, m, g), Unrolled(sc, tape, n, h),
         NEW i \in Nat, i <= m, i <= n
  PROVE  g[i] = h[i]
<1> DEFINE Bad == {k \in Nat : k <= m /\ k <= n /\ g[k] # h[k]}
<1> SUFFICES ASSUME Bad # {} PROVE FALSE
  OBVIOUS
<1>1. Bad \subseteq Nat
  OBVIOUS
<1>2. PICK k \in Bad : \A j \in Bad : ~(j < k)
  BY <1>1, LeastNatural, Zenon
<1>3. k \in 0 .. m /\ k \in 0 .. n
  OBVIOUS
<1>4. /\ g[k] = IF k = 0 THEN TapeStart(sc, tape) ELSE TapeTurn(sc, tape, k, g[k - 1])
      /\ h[k] = IF k = 0 THEN TapeStart(sc, tape) ELSE TapeTurn(sc, tape, k, h[k - 1])
  BY <1>3 DEF Unrolled
<1>5. k # 0 => g[k - 1] = h[k - 1]
  BY <1>2
<1> QED
  BY <1>4, <1>5

LEMMA EvaluateTapeUnrolls ==
  ASSUME NEW sc, NEW tape, NEW n \in Nat
  PROVE  \E g : Unrolled(sc, tape, n, g) /\ EvaluateTape(sc, tape, n) = g[n]
<1> DEFINE g == CHOOSE g : Unrolled(sc, tape, n, g)
<1>1. Unrolled(sc, tape, n, g)
  BY UnrolledExists
<1>2. EvaluateTape(sc, tape, n) = g[n]
  BY DEF EvaluateTape, Unrolled, TapeStart, TapeTurn
<1> QED
  BY <1>1, <1>2

LEMMA EvaluateTapeStarts ==
  ASSUME NEW sc, NEW tape
  PROVE  EvaluateTape(sc, tape, 0) = TapeStart(sc, tape)
<1>1. PICK g : Unrolled(sc, tape, 0, g) /\ EvaluateTape(sc, tape, 0) = g[0]
  BY EvaluateTapeUnrolls
<1>2. 0 \in 0 .. 0
  OBVIOUS
<1> QED
  BY <1>1, <1>2 DEF Unrolled

LEMMA NothingJudged ==
  ASSUME NEW sc, NEW tape
  PROVE  /\ EvaluateTape(sc, tape, 0).ok <=> tape[1] = sc.initial
         /\ EvaluateTape(sc, tape, 0).state = sc.initial
         /\ EvaluateTape(sc, tape, 0).evaluated = 0
<1> DEFINE same == tape[1] = sc.initial
<1>1. EvaluateTape(sc, tape, 0) = [ok |-> same, state |-> sc.initial, evaluated |-> 0]
  BY EvaluateTapeStarts DEF TapeStart
<1>2. same \in BOOLEAN
  OBVIOUS
<1> HIDE DEF same
<1>3. (EvaluateTape(sc, tape, 0).ok = same) /\ EvaluateTape(sc, tape, 0).state = sc.initial
        /\ EvaluateTape(sc, tape, 0).evaluated = 0
  BY <1>1
<1> QED
  BY <1>2, <1>3, Zenon DEF same

LEMMA EvaluateTapeTurns ==
  ASSUME NEW sc, NEW tape, NEW n \in Nat
  PROVE  EvaluateTape(sc, tape, n + 1) = TapeTurn(sc, tape, n + 1, EvaluateTape(sc, tape, n))
<1>1. PICK g : Unrolled(sc, tape, n + 1, g) /\ EvaluateTape(sc, tape, n + 1) = g[n + 1]
  BY EvaluateTapeUnrolls
<1>2. PICK h : Unrolled(sc, tape, n, h) /\ EvaluateTape(sc, tape, n) = h[n]
  BY EvaluateTapeUnrolls
<1>3. g[n] = h[n]
  BY <1>1, <1>2, UnrolledUnique
<1>4. n + 1 \in 0 .. n + 1 /\ n + 1 # 0 /\ n + 1 - 1 = n
  OBVIOUS
<1>5. g[n + 1] = TapeTurn(sc, tape, n + 1, g[n])
  BY <1>1, <1>4 DEF Unrolled
<1> QED
  BY <1>1, <1>2, <1>3, <1>5

\* Only the evidence up to the last action judged is looked at.
LEMMA EvaluateTapePrefix ==
  ASSUME NEW sc, NEW tape, NEW longer, NEW n \in Nat,
         \A i \in 1 .. n + 1 : tape[i] = longer[i]
  PROVE  EvaluateTape(sc, tape, n) = EvaluateTape(sc, longer, n)
<1> DEFINE Bad == {k \in Nat : k <= n /\ EvaluateTape(sc, tape, k) # EvaluateTape(sc, longer, k)}
<1> SUFFICES ASSUME Bad # {} PROVE FALSE
  OBVIOUS
<1>1. Bad \subseteq Nat
  OBVIOUS
<1>2. PICK k \in Bad : \A j \in Bad : ~(j < k)
  BY <1>1, LeastNatural, Zenon
<1>3. k \in Nat /\ k <= n
  OBVIOUS
<1>4. CASE k = 0
  <2>1. tape[1] = longer[1]
    OBVIOUS
  <2> QED
    BY <1>4, <2>1, EvaluateTapeStarts DEF TapeStart
<1>5. CASE k # 0
  <2>1. PICK j \in Nat : k = j + 1 /\ j < k /\ j <= n
    <3>1. k - 1 \in Nat /\ k = k - 1 + 1 /\ k - 1 < k /\ k - 1 <= n
      BY <1>3, <1>5
    <3> QED
      BY <3>1
  <2>2. EvaluateTape(sc, tape, j) = EvaluateTape(sc, longer, j)
    BY <2>1, <1>2
  <2>3. tape[j + 1 + 1] = longer[j + 1 + 1]
    BY <2>1, <1>3
  <2>4. TapeTurn(sc, tape, j + 1, EvaluateTape(sc, tape, j))
          = TapeTurn(sc, longer, j + 1, EvaluateTape(sc, longer, j))
    BY <2>2, <2>3 DEF TapeTurn
  <2> QED
    BY <2>1, <2>4, EvaluateTapeTurns
<1> QED
  BY <1>4, <1>5

-----------------------------------------------------------------------------
LEMMA EvidenceTypes == State \subseteq Evidence /\ Unresolved \in Evidence
<1>1. [Fields -> Values] \in {[observed -> Values] : observed \in SUBSET Fields}
  OBVIOUS
<1>2. \A e \in [Fields -> Values] : e \in Evidence
  BY <1>1, Zenon DEF Evidence
<1>3. State \subseteq Evidence
  BY <1>2 DEF State
<1>4. Unresolved \in Evidence
  BY Zenon DEF Evidence
<1> QED
  BY <1>3, <1>4

LEMMA CountIsNatural ==
  ASSUME NEW a \in Actions
  PROVE  ObligationCount(a) \in Nat
  BY RetrieveAssumption DEF ObligationCount

LEMMA ScenarioTypes ==
  ASSUME NEW sc \in Scenarios
  PROVE  /\ sc.actions \in Seq(Actions) /\ Len(sc.actions) \in Nat
         /\ sc.trace \in Seq(State) /\ Len(sc.trace) = Len(sc.actions) + 1
         /\ sc.initial \in State
         /\ \A i \in 1 .. Len(sc.actions) : sc.actions[i] \in Actions
         /\ \A i \in 1 .. Len(sc.actions) + 1 : sc.trace[i] \in State
  BY ScenarioAssumption DEF Scenario

\* A complete observation of the state the model is in agrees with it.
LEMMA WholeAgrees ==
  ASSUME NEW s \in State
  PROVE  Agrees(s, s)
<1>1. s # Unresolved
  BY UnresolvedAssumption DEF State
<1>2. \A f \in Fields : s[f] \in Values
  BY DEF State
<1>3. \A f \in Retrieve \cap DOMAIN s : MergeValue(s[f], s[f]) = s[f]
  BY <1>2, MergeAssumption, RetrieveAssumption
<1> QED
  BY <1>1, <1>3 DEF Agrees

\* Evidence that reports the state Quint reached is accepted where Quint took the
\* first alternative, and the model is then in that state.
LEMMA FaithfulValidates ==
  ASSUME NEW a \in Actions, NEW s \in State, NEW t \in State,
         Supported(a), ModelStep(a, s, t), CanAssign(a, s), t = ModelNext(a, s)
  PROVE  /\ Validates(a, s, t, t)
         /\ MergeObservedState(a, ModelNext(a, s), t) = t
<1>1. PreGuardsHold(a, s)
  BY RetrieveAssumption DEF PreGuardsHold, Supported, ModelStep, Takes
<1>2. t # Unresolved
  BY UnresolvedAssumption DEF State
<1>3. DOMAIN t = Fields /\ \A f \in Fields : t[f] \in Values
  BY DEF State
<1>4. ChangedFieldsObserved(a, s, t)
  BY <1>3, RetrieveAssumption DEF ChangedFieldsObserved
<1>5. \A f \in Fields : MergeValue(t[f], t[f]) = t[f]
  BY <1>3, MergeAssumption
<1>6. t = [f \in Fields |-> t[f]]
  BY DEF State
<1>7. MergeObservedState(a, ModelNext(a, s), t) = [f \in Fields |-> t[f]]
  BY <1>5 DEF MergeObservedState
<1>8. MergeObservedState(a, ModelNext(a, s), t) = t
  BY <1>6, <1>7
<1> QED
  BY <1>1, <1>2, <1>4, <1>8 DEF Validates

-----------------------------------------------------------------------------
\* Whatever the tape, its reduction is in a state of the model.
Reduction == [ok : BOOLEAN, state : State, evaluated : Nat]

LEMMA TapeTurnTyped ==
  ASSUME NEW sc \in Scenarios, NEW tape, NEW i \in 1 .. Len(sc.actions), NEW before \in Reduction
  PROVE  /\ TapeTurn(sc, tape, i, before) \in Reduction
         /\ TapeTurn(sc, tape, i, before).ok =>
              /\ before.ok
              /\ Validates(sc.actions[i], before.state, sc.trace[i + 1], tape[i + 1])
              /\ TapeTurn(sc, tape, i, before).state = ModelNext(sc.actions[i], before.state)
<1> DEFINE a == sc.actions[i]
           judged == Validates(a, before.state, sc.trace[i + 1], tape[i + 1])
<1>0. a \in Actions /\ before.state \in State /\ before.ok \in BOOLEAN /\ before.evaluated \in Nat
  BY ScenarioTypes DEF Reduction
<1>1. CASE before.ok /\ judged
  <2>1. /\ ModelNext(a, before.state) \in State
        /\ MergeObservedState(a, ModelNext(a, before.state), tape[i + 1]) = ModelNext(a, before.state)
    BY <1>0, <1>1, ValidatedIsModelStep
  <2>2. before.evaluated + ObligationCount(a) \in Nat
    BY <1>0, CountIsNatural
  <2>3. TapeTurn(sc, tape, i, before)
          = [ok |-> TRUE, state |-> ModelNext(a, before.state),
             evaluated |-> before.evaluated + ObligationCount(a)]
    BY <1>1, <2>1 DEF TapeTurn
  <2> QED
    BY <1>1, <2>1, <2>2, <2>3 DEF Reduction
<1>2. CASE ~(before.ok /\ judged)
  <2>1. TapeTurn(sc, tape, i, before) = [before EXCEPT !.ok = FALSE]
    BY <1>2 DEF TapeTurn
  <2> QED
    BY <2>1 DEF Reduction
<1> QED
  BY <1>1, <1>2

LEMMA EvaluateTapeTyped ==
  ASSUME NEW sc \in Scenarios, NEW tape, NEW n \in 0 .. Len(sc.actions)
  PROVE  EvaluateTape(sc, tape, n) \in Reduction
<1> DEFINE Bad == {k \in 0 .. Len(sc.actions) : EvaluateTape(sc, tape, k) \notin Reduction}
<1> SUFFICES ASSUME Bad # {} PROVE FALSE
  OBVIOUS
<1>0. Len(sc.actions) \in Nat /\ sc.initial \in State
  BY ScenarioTypes
<1>1. Bad \subseteq Nat
  OBVIOUS
<1>2. PICK k \in Bad : \A j \in Bad : ~(j < k)
  BY <1>1, LeastNatural, Zenon
<1>3. CASE k = 0
  <2>1. TapeStart(sc, tape) \in Reduction
    BY <1>0 DEF TapeStart, Reduction
  <2> QED
    BY <1>3, <2>1, EvaluateTapeStarts
<1>4. CASE k # 0
  <2>1. PICK j \in Nat : k = j + 1 /\ j < k /\ j \in 0 .. Len(sc.actions) /\ j + 1 \in 1 .. Len(sc.actions)
    <3>1. k - 1 \in Nat /\ k = k - 1 + 1 /\ k - 1 < k /\ k \in 1 .. Len(sc.actions)
      BY <1>0, <1>4
    <3> QED
      BY <3>1, <1>0
  <2>2. EvaluateTape(sc, tape, j) \in Reduction
    BY <2>1, <1>2
  <2> QED
    BY <2>1, <2>2, EvaluateTapeTurns, TapeTurnTyped
<1> QED
  BY <1>3, <1>4

\* Along a scenario Quint has run, a tape that is accepted so far is in Quint's
\* state, and no evidence in it says anything against Quint's states.
LEMMA TapeFollowsTrace ==
  ASSUME NEW sc \in Scenarios, Valid(sc), NEW tape, NEW n \in 0 .. Len(sc.actions),
         EvaluateTape(sc, tape, n).ok
  PROVE  /\ EvaluateTape(sc, tape, n).state = sc.trace[n + 1]
         /\ \A i \in 1 .. n + 1 : Agrees(tape[i], sc.trace[i])
<1> DEFINE Follows(k) == /\ EvaluateTape(sc, tape, k).state = sc.trace[k + 1]
                         /\ \A i \in 1 .. k + 1 : Agrees(tape[i], sc.trace[i])
           Bad == {k \in 0 .. Len(sc.actions) : EvaluateTape(sc, tape, k).ok /\ ~Follows(k)}
<1> SUFFICES ASSUME Bad # {} PROVE FALSE
  OBVIOUS
<1>0. Len(sc.actions) \in Nat /\ sc.initial \in State /\ sc.trace[1] = sc.initial
  BY ScenarioTypes DEF Valid
<1>1. Bad \subseteq Nat
  OBVIOUS
<1>2. PICK k \in Bad : \A j \in Bad : ~(j < k)
  BY <1>1, LeastNatural, Zenon
<1>3. CASE k = 0
  <2>1. EvaluateTape(sc, tape, 0).state = sc.initial /\ tape[1] = sc.initial
    BY <1>3, NothingJudged
  <2>2. Agrees(tape[1], sc.trace[1])
    BY <2>1, <1>0, WholeAgrees
  <2> QED
    BY <1>0, <1>3, <2>1, <2>2
<1>4. CASE k # 0
  <2>1. PICK j \in Nat : k = j + 1 /\ j < k /\ j \in 0 .. Len(sc.actions) /\ j + 1 \in 1 .. Len(sc.actions)
    <3>1. k - 1 \in Nat /\ k = k - 1 + 1 /\ k - 1 < k /\ k \in 1 .. Len(sc.actions)
      BY <1>0, <1>4
    <3> QED
      BY <3>1, <1>0
  <2> DEFINE before == EvaluateTape(sc, tape, j)
             after == EvaluateTape(sc, tape, k)
             a == sc.actions[k]
  <2>2. before \in Reduction /\ after = TapeTurn(sc, tape, k, before) /\ after.ok
    BY <2>1, EvaluateTapeTyped, EvaluateTapeTurns
  <2> HIDE DEF before, after
  <2>3. before.ok /\ Validates(a, before.state, sc.trace[k + 1], tape[k + 1])
          /\ after.state = ModelNext(a, before.state)
    <3>1. k \in 1 .. Len(sc.actions)
      BY <2>1
    <3> QED
      BY <2>2, <3>1, TapeTurnTyped
  <2>4. Follows(j)
    BY <2>1, <2>3, <1>2 DEF before
  <2>5. before.state = sc.trace[k] /\ before.state \in State /\ a \in Actions /\ sc.trace[k + 1] \in State
    BY <2>1, <2>2, <2>4, ScenarioTypes DEF before, Reduction
  <2>6. ModelStep(a, sc.trace[k], sc.trace[k + 1])
    BY <2>1 DEF Valid
  <2>7. after.state = sc.trace[k + 1]
    BY <2>3, <2>5, <2>6, ValidatedFollowsQuint
  <2>8. Agrees(tape[k + 1], sc.trace[k + 1])
    BY <2>3, <2>5, <2>7, ValidatedEvidenceAgrees
  <2>9. \A i \in 1 .. k + 1 : i = k + 1 \/ i \in 1 .. j + 1
    BY <2>1
  <2> QED
    BY <2>4, <2>7, <2>8, <2>9 DEF after
<1> QED
  BY <1>3, <1>4

\* Every alternative Quint took is the first one that was possible.
TookFirst(sc) ==
  \A i \in 1 .. Len(sc.actions) :
    CanAssign(sc.actions[i], sc.trace[i]) /\ sc.trace[i + 1] = ModelNext(sc.actions[i], sc.trace[i])

\* A tape that reports Quint's own states is accepted, action by action.
LEMMA FaithfulTapeAccepted ==
  ASSUME NEW sc \in Scenarios, Valid(sc), TookFirst(sc),
         \A i \in 1 .. Len(sc.actions) : Supported(sc.actions[i]),
         NEW tape, NEW n \in 0 .. Len(sc.actions),
         \A i \in 1 .. n + 1 : tape[i] = sc.trace[i]
  PROVE  /\ EvaluateTape(sc, tape, n).ok
         /\ n > 0 => EvaluateTape(sc, tape, n).evaluated > 0
<1> DEFINE Accepted(k) == /\ EvaluateTape(sc, tape, k).ok
                          /\ k > 0 => EvaluateTape(sc, tape, k).evaluated > 0
           Bad == {k \in 0 .. n : ~Accepted(k)}
<1> SUFFICES ASSUME Bad # {} PROVE FALSE
  OBVIOUS
<1>0. Len(sc.actions) \in Nat /\ sc.initial \in State /\ sc.trace[1] = sc.initial /\ n \in Nat
  BY ScenarioTypes DEF Valid
<1>1. Bad \subseteq Nat
  OBVIOUS
<1>2. PICK k \in Bad : \A j \in Bad : ~(j < k)
  BY <1>1, LeastNatural, Zenon
<1>3. CASE k = 0
  <2>1. tape[1] = sc.initial
    BY <1>0
  <2>3. EvaluateTape(sc, tape, 0).ok
    BY <2>1, NothingJudged
  <2> QED
    BY <1>3, <2>3
<1>4. CASE k # 0
  <2>1. PICK j \in Nat : /\ k = j + 1 /\ j < k
                         /\ j \in 0 .. n /\ j \in 0 .. Len(sc.actions) /\ k \in 1 .. Len(sc.actions)
    <3>1. k - 1 \in Nat /\ k = k - 1 + 1 /\ k - 1 < k /\ k \in 1 .. n
      BY <1>0, <1>4
    <3> QED
      BY <3>1, <1>0
  <2> DEFINE before == EvaluateTape(sc, tape, j)
             after == EvaluateTape(sc, tape, k)
             a == sc.actions[k]
  <2>2. before \in Reduction /\ after = TapeTurn(sc, tape, k, before)
    BY <2>1, EvaluateTapeTyped, EvaluateTapeTurns
  <2>3. before.ok
    BY <2>1, <1>2
  <2>4. before.state = sc.trace[k]
    BY <2>1, <2>3, TapeFollowsTrace
  <2> HIDE DEF before, after
  <2>5. a \in Actions /\ sc.trace[k] \in State /\ sc.trace[k + 1] \in State /\ tape[k + 1] = sc.trace[k + 1]
    BY <2>1, ScenarioTypes
  <2>6. /\ Supported(a) /\ ModelStep(a, sc.trace[k], sc.trace[k + 1])
        /\ CanAssign(a, sc.trace[k]) /\ sc.trace[k + 1] = ModelNext(a, sc.trace[k])
    BY <2>1 DEF Valid, TookFirst
  <2>7. Validates(a, before.state, sc.trace[k + 1], tape[k + 1])
    BY <2>4, <2>5, <2>6, FaithfulValidates
  <2>8. after.ok /\ after.evaluated = before.evaluated + ObligationCount(a)
    <3>1. after = [ok |-> TRUE,
                   state |-> MergeObservedState(a, ModelNext(a, before.state), tape[k + 1]),
                   evaluated |-> before.evaluated + ObligationCount(a)]
      BY <2>2, <2>3, <2>7 DEF TapeTurn
    <3> QED
      BY <3>1
  <2>9. ObligationCount(a) \in Nat /\ ObligationCount(a) > 0 /\ before.evaluated \in Nat
    BY <2>2, <2>5, RetrieveAssumption DEF ObligationCount, Reduction
  <2> QED
    BY <2>8, <2>9 DEF after
<1> QED
  BY <1>3, <1>4

=============================================================================
