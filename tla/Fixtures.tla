------------------------------- MODULE Fixtures -------------------------------
(***************************************************************************)
(* The constants of a model between the compiler, the production code and  *)
(* the evaluator: the compiler writes the constants an action's guards name*)
(* into the artifact, an implementation builds a FixtureTable from them or *)
(* from values of its own, validation compares the two, and the guards are *)
(* evaluated on the table in front of the snapshot                         *)
(* (bindings/rust/src/fixtures.rs).                                        *)
(***************************************************************************)
EXTENDS Inlining

CONSTANTS
  Constants,  \* what the model defines with pure val: name -> value
  Actions,    \* calls of actions: [params |-> names, body |-> e, args |-> expressions]
  States,     \* values of the model's state
  Units,      \* variants without a payload, whose value is their text
  Offers(_)   \* what production code may offer for some names: [name |-> n, value |-> v, json |-> j]

\* JSON is tagged like a value: [array |-> s], [object |-> f], or a literal.
Marker(mark, items) == [object |-> (mark :> [array |-> items])]
Variant(tag, payload) == [object |-> ("tag" :> Text(tag) @@ "value" :> payload)]

\* concreteValue, and how an implementation that follows ITF writes a value;
\* `plain` if it writes its sets as arrays.
RECURSIVE Json(_, _)
Json(v, plain) ==
  LET each(items) == [i \in DOMAIN items |-> Json(items[i], plain)] IN
  CASE Is("set", v) ->
         IF plain THEN [array |-> Reverse(each(Ordered(v.set)))]
                  ELSE Marker("#set", each(Ordered(v.set)))
    [] Is("list", v) -> [array |-> each(v.list)]
    [] Is("tuple", v) -> Marker("#tup", each(v.tuple))
    [] Is("map", v) ->
         LET keys == Ordered(DOMAIN v.map)
         IN Marker("#map", [i \in DOMAIN keys |->
              [array |-> <<Json(keys[i], plain), Json(v.map[keys[i]], plain)>>]])
    [] Is("record", v) -> [object |-> [field \in DOMAIN v.record |-> Json(v.record[field], plain)]]
    [] Is("absent", v) -> Variant("Absent", Marker("#tup", <<>>))
    [] Is("present", v) -> Variant("Present", Json(v.present, plain))
    [] Is("tag", v) -> Variant(v.tag, Json(v.value, plain))
    [] OTHER -> IF Is("text", v) /\ v.text \in Units THEN Variant(v.text, Marker("#tup", <<>>)) ELSE v

VariantValue(tag, payload) ==
  CASE tag = "Absent" -> [absent |-> TRUE]
    [] tag = "Present" -> [present |-> payload]
    [] OTHER -> IF payload = [tuple |-> <<>>] THEN Text(tag) ELSE [tag |-> tag, value |-> payload]

\* from_itf_json. The fields ITF adds to a record are left out of JSON here.
RECURSIVE Decoded(_)
Decoded(j) ==
  LET each(items) == [i \in DOMAIN items |-> Decoded(items[i])]
      marked(mark) == Is("object", j) /\ mark \in DOMAIN j.object
      items(mark) == j.object[mark].array
  IN CASE Is("array", j) -> [list |-> each(j.array)]
       [] marked("#tup") -> [tuple |-> each(items("#tup"))]
       [] marked("#set") -> Set(Range(each(items("#set"))))
       [] marked("#map") ->
            [map |-> FromPairs([i \in DOMAIN items("#map") |-> Decoded(items("#map")[i].array[1])],
                               [i \in DOMAIN items("#map") |-> Decoded(items("#map")[i].array[2])])]
       [] Is("object", j) /\ DOMAIN j.object = {"tag", "value"} ->
            VariantValue(j.object["tag"].text, Decoded(j.object["value"]))
       [] OTHER ->
            IF Is("object", j)
              THEN [record |-> [field \in DOMAIN j.object |-> Decoded(j.object[field])]]
              ELSE j

\* set_json_equal: the sorted arrays are equal.
SameItems(s, t) ==
  LET count(u, item) == Cardinality({i \in DOMAIN u : u[i] = item})
  IN Len(s) = Len(t) /\ \A item \in Range(s) : count(s, item) = count(t, item)

IsSetOf(array, j) == "#set" \in DOMAIN j.object /\ SameItems(array, j.object["#set"].array)

\* fixture_json_equal and fixture_json_matches: a match leaves fields out.
RECURSIVE JsonEqual(_, _)
JsonEqual(mine, theirs) ==
  \/ mine = theirs
  \/ Is("array", mine) /\ Is("object", theirs) /\ IsSetOf(mine.array, theirs)
  \/ /\ Both("object", mine, theirs) /\ DOMAIN mine.object = DOMAIN theirs.object
     /\ \A field \in DOMAIN mine.object : JsonEqual(mine.object[field], theirs.object[field])

RECURSIVE JsonMatches(_, _)
JsonMatches(mine, theirs) ==
  \/ mine = theirs
  \/ Is("array", mine) /\ Is("object", theirs) /\ IsSetOf(mine.array, theirs)
  \/ /\ Both("object", mine, theirs) /\ DOMAIN mine.object \subseteq DOMAIN theirs.object
     /\ \A field \in DOMAIN mine.object : JsonMatches(mine.object[field], theirs.object[field])

-----------------------------------------------------------------------------
VARIABLES
  call,     \* the call of an action, in the source of the model
  state,    \* the model's state its guards are judged in
  guards,   \* its compiled guards
  fixtures, \* the artifact's fixtures: name -> JSON
  values,   \* FixtureTable.values
  json,     \* FixtureTable.json
  phase,    \* "source", "compiled", "open", "validated", "entries", "refused" or "judged"
  outcome   \* of the guards: "none", "enabled", "disabled" or "error"

fixturesVars == <<call, state, guards, fixtures, values, json, phase, outcome>>

\* collectExpressionNames of the arguments, collectNamedFixtures and
\* collectUniverseFixtureNames of the body.
FixtureNames(a) ==
  DOMAIN Constants \cap
    (ExpressionNames(InlinedBody(a), {}) \cup UNION {ExpressionNames(a.args[i], {}) : i \in DOMAIN a.args})

\* The vocabulary's expression names: what definitions leave open (cli.mjs).
Vocabulary(a) ==
  {State} \cup ExpressionNames(a.body, Range(a.params))
    \cup UNION {ExpressionNames(Definitions[d].body, Range(Definitions[d].params)) :
                  d \in DOMAIN Definitions}

\* validate_scenario_names
NamesAreOwned ==
  \A i \in DOMAIN guards :
    ExpressionNames(guards[i], {}) \subseteq {State} \cup DOMAIN values \cup Vocabulary(call)

\* BoundEvidence: fixtures, then the snapshot.
Evidence(snapshot) == values @@ (State :> snapshot)

OutcomeOf(result) ==
  CASE result = Bool(TRUE) -> "enabled"
    [] result = Bool(FALSE) -> "disabled"
    [] OTHER -> "error"

FixturesInit ==
  /\ call \in Actions
  /\ state = NoNames
  /\ guards = <<>>
  /\ fixtures = NoNames
  /\ values = NoNames
  /\ json = NoNames
  /\ phase = "source"
  /\ outcome = "none"

\* extractActionObligations, resolveFixtures
Compile ==
  /\ phase = "source"
  /\ guards' = Conjuncts(InlinedBody(call), NoNames)
  /\ fixtures' = [name \in FixtureNames(call) |-> Json(Constants[name], FALSE)]
  /\ phase' = "compiled"
  /\ UNCHANGED <<call, state, values, json, outcome>>

\* FixtureTable::new
New ==
  /\ phase = "compiled"
  /\ phase' = "open"
  /\ UNCHANGED <<call, state, guards, fixtures, values, json, outcome>>

\* FixtureTable::from_artifact
FromArtifact ==
  /\ phase = "compiled"
  /\ values' = [name \in DOMAIN fixtures |-> Decoded(fixtures[name])]
  /\ json' = fixtures
  /\ phase' = "open"
  /\ UNCHANGED <<call, state, guards, fixtures, outcome>>

\* Fault: the JSON that came with the artifact stays.
InsertValueOnly(name, v, j) ==
  /\ values' = Updated(values, name, v)
  /\ json' = IF name \in DOMAIN json THEN json ELSE Updated(json, name, j)

InsertBoth(name, v, j) ==
  /\ values' = Updated(values, name, v)
  /\ json' = Updated(json, name, j)

\* FixtureTable::insert of a value, with the JSON its type writes.
Insert(offer) ==
  /\ phase = "open"
  /\ InsertBoth(offer.name, offer.value, offer.json)
  /\ UNCHANGED <<call, state, guards, fixtures, phase, outcome>>

\* FixtureTable::insert_set of the items of a list.
InsertSet(offer) ==
  /\ phase = "open"
  /\ Is("list", offer.value)
  /\ InsertBoth(offer.name, Set(Range(offer.value.list)),
                [array |-> [i \in DOMAIN offer.value.list |-> Json(offer.value.list[i], FALSE)]])
  /\ UNCHANGED <<call, state, guards, fixtures, phase, outcome>>

\* FixtureTable::validate
Validate ==
  /\ phase = "open"
  /\ phase' = IF /\ DOMAIN fixtures = DOMAIN json
                 /\ \A name \in DOMAIN json : JsonEqual(json[name], fixtures[name])
                 /\ NamesAreOwned
                THEN "validated" ELSE "refused"
  /\ UNCHANGED <<call, state, guards, fixtures, values, json, outcome>>

\* FixtureTable::validate_entries
ValidateEntries ==
  /\ phase = "open"
  /\ phase' = IF /\ DOMAIN json \subseteq DOMAIN fixtures
                 /\ \A name \in DOMAIN json : JsonMatches(json[name], fixtures[name])
                THEN "entries" ELSE "refused"
  /\ UNCHANGED <<call, state, guards, fixtures, values, json, outcome>>

\* The guards in their order, up to the first that does not hold.
Judge ==
  /\ phase = "validated"
  /\ state' \in States
  /\ outcome' = OutcomeOf(Decide(FALSE, guards, NoNames, Evidence(state')))
  /\ phase' = "judged"
  /\ UNCHANGED <<call, guards, fixtures, values, json>>

FixturesNext ==
  \/ Compile
  \/ New
  \/ FromArtifact
  \/ \E offer \in Offers(DOMAIN fixtures) : Insert(offer) \/ InsertSet(offer)
  \/ Validate
  \/ ValidateEntries
  \/ Judge

FixturesSpec == FixturesInit /\ [][FixturesNext]_fixturesVars

-----------------------------------------------------------------------------
\* The fields of the object a record or a variant is written as.
HasFields(v) ==
  \/ \E kind \in {"record", "tag", "present", "absent"} : Is(kind, v)
  \/ Is("text", v) /\ v.text \in Units
Fields(v) ==
  IF Is("record", v) THEN v.record
  ELSE "tag" :> Text(TagOf(v)) @@ "value" :> IF Is("absent", v) THEN [tuple |-> <<>>] ELSE PayloadOf(v)

\* What passes for a value: the comparison is of JSON, where a list and a set
\* with the same items are alike, and a variant and a record of its tag and its
\* payload. With `part`, fields may be left out, so an object without fields passes
\* for everything that is written as an object.
RECURSIVE PassesFor(_, _, _)
PassesFor(v, w, part) ==
  \/ v = w
  \/ /\ Is("list", v) /\ Is("set", w)
     /\ Range(v.list) = w.set /\ Len(v.list) = Cardinality(w.set)
  \/ Is("set", v) /\ Is("list", w) /\ v.set = Range(w.list)
  \/ /\ HasFields(v) /\ HasFields(w) /\ ~Both("text", v, w)
     /\ DOMAIN Fields(v) \subseteq DOMAIN Fields(w)
     /\ part \/ DOMAIN Fields(v) = DOMAIN Fields(w)
     /\ \A field \in DOMAIN Fields(v) : PassesFor(Fields(v)[field], Fields(w)[field], part)
  \/ part /\ v = [record |-> <<>>] /\ \E kind \in {"set", "tuple", "map"} : Is(kind, w)

\* A validated table has every constant the guards were compiled with, and
\* production values that are the model's, up to a list in the place of a set or
\* a set in the place of a list: a value inserted over the artifact's own, or a
\* record with a field too few or renamed, does not pass for the constant. What
\* validate_entries lets pass leaves out constants and fields, down to the last.
FixturesAreTheModels ==
  /\ phase \in {"validated", "judged"} => DOMAIN values = FixtureNames(call)
  /\ phase \in {"validated", "judged", "entries"} =>
       \A name \in DOMAIN values : PassesFor(values[name], Constants[name], phase = "entries")

\* Names that something in an expression binds.
RECURSIVE Binders(_)
Binders(e) ==
  CASE Is("call", e) -> UNION {Binders(e.args[i]) : i \in DOMAIN e.args}
    [] Is("lambda", e) -> Range(e.lambda) \cup Binders(e.body)
    [] Is("let", e) -> {e.let} \cup Binders(e.value) \cup Binders(e.body)
    [] OTHER -> {}

\* No binder has the name of a constant or a definition.
Unshadowed(a) ==
  LET top == DOMAIN Constants \cup {<<d>> : d \in DOMAIN Definitions}
      bodies == {a.body} \cup Range(a.args) \cup {Definitions[d].body : d \in DOMAIN Definitions}
  IN top \cap (Range(a.params) \cup UNION {Binders(e) : e \in bodies}) = {}

\* Replaced parameters, inlined definitions, conjuncts taken apart and constants
\* fetched from a table: the artifact's own fixtures are never refused, and with
\* the model's values in the table the guards say of a state what the body of the
\* action says in Quint, whatever names its lambdas, lets and definitions share.
GuardsMeanTheModels ==
  LET meaning == ActionMeaning(call, Constants @@ (State :> state))
      asInModel == values = [name \in FixtureNames(call) |-> Constants[name]]
  IN Unshadowed(call) =>
       /\ phase = "refused" => json # fixtures
       /\ phase = "judged" /\ asInModel /\ ~Failed(meaning) => outcome = OutcomeOf(meaning)
===============================================================================
