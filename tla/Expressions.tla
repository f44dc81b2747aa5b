------------------------------ MODULE Expressions -----------------------------
(***************************************************************************)
(* Normalized expressions, the names they leave open, and what the runtime *)
(* makes of them (evaluate_expression and evaluate_call,                   *)
(* bindings/rust/src/evaluate.rs). Integers are far from the ends of i64,  *)
(* and no snapshot has operators of its own (resolve_call).                *)
(***************************************************************************)
EXTENDS Values, Integers, FiniteSets, SequencesExt, TLC

CONSTANT Constructors \* operators in upper case that are not built in

\* An expression is tagged like a value, and a bool, an int or a text is both:
\*   [name |-> n], [call |-> operator, args |-> expressions],
\*   [lambda |-> parameters, body |-> e], [let |-> n, value |-> e, body |-> e].
\* A name is a tuple of its text and the marks renaming has put on it.
Bool(b) == [bool |-> b]
Set(items) == [set |-> items]
Fails(why) == [fails |-> why]
Failed(v) == Is("fails", v)

State == <<"state">>

-----------------------------------------------------------------------------
\* expression_names_bound, and freeNames of the compiler.
RECURSIVE ExpressionNames(_, _)
ExpressionNames(e, bound) ==
  CASE Is("name", e) -> {e.name} \ bound
    [] Is("call", e) -> UNION {ExpressionNames(e.args[i], bound) : i \in DOMAIN e.args}
    [] Is("lambda", e) -> ExpressionNames(e.body, bound \cup Range(e.lambda))
    [] Is("let", e) ->
         ExpressionNames(e.value, bound) \cup ExpressionNames(e.body, bound \cup {e.let})
    [] OTHER -> {}

-----------------------------------------------------------------------------
\* The built-in operators on evaluated arguments.
SizeOf(v) ==
  CASE Is("list", v) -> Len(v.list)
    [] Is("tuple", v) -> Len(v.tuple)
    [] Is("set", v) -> Cardinality(v.set)
    [] Is("map", v) -> Cardinality(DOMAIN v.map)
    [] Is("record", v) -> Cardinality(DOMAIN v.record)

Sizable(v) == \E kind \in {"list", "tuple", "set", "map", "record"} : Is(kind, v)

Updated(f, key, v) ==
  [k \in DOMAIN f \cup {key} |-> IF k = key THEN v ELSE f[k]]

\* map_from_values and record_from_values: the last of equal keys counts.
LastAt(keys, key) == CHOOSE i \in DOMAIN keys : keys[i] = key /\ \A j \in i + 1 .. Len(keys) : keys[j] # key
FromPairs(keys, items) == [key \in Range(keys) |-> items[LastAt(keys, key)]]

MapOf(values) ==
  IF \A i \in DOMAIN values : Is("tuple", values[i]) /\ Len(values[i].tuple) = 2
    THEN [map |-> FromPairs([i \in DOMAIN values |-> values[i].tuple[1]],
                            [i \in DOMAIN values |-> values[i].tuple[2]])]
    ELSE Fails("Map")

RecordOf(values) ==
  LET pairs == 1 .. Len(values) \div 2
  IN IF Len(values) % 2 = 0 /\ \A i \in pairs : Is("text", values[2 * i - 1])
       THEN [record |-> FromPairs([i \in pairs |-> values[2 * i - 1].text],
                                  [i \in pairs |-> values[2 * i]])]
       ELSE Fails("Rec")

Unary(operator, v) ==
  CASE operator = "not" /\ Is("bool", v) -> Bool(~v.bool)
    [] operator = "Present" -> [present |-> v]
    [] operator = "length" /\ Is("list", v) -> [int |-> Len(v.list)]
    [] operator = "size" /\ Sizable(v) -> [int |-> SizeOf(v)]
    [] operator = "indices" /\ Is("list", v) -> Set({[int |-> i - 1] : i \in DOMAIN v.list})
    [] operator = "keys" /\ Is("map", v) -> Set(DOMAIN v.map)
    [] operator \in Constructors -> [tag |-> operator, value |-> v]
    [] OTHER -> Fails("operator")

Binary(operator, v, w) ==
  CASE operator = "eq" -> Bool(v = w)
    [] operator = "neq" -> Bool(v # w)
    [] operator = "variant" /\ Is("text", v) -> [tag |-> v.text, value |-> w]
    [] operator = "field" /\ Is("record", v) /\ Is("text", w) ->
         IF w.text \in DOMAIN v.record THEN v.record[w.text] ELSE Fails("field")
    [] operator = "get" /\ Is("record", v) /\ Is("text", w) ->
         IF w.text \in DOMAIN v.record THEN v.record[w.text] ELSE [absent |-> TRUE]
    [] operator = "get" /\ Is("map", v) ->
         IF w \in DOMAIN v.map THEN v.map[w] ELSE Fails("key")
    [] operator = "contains" /\ Is("set", v) -> Bool(w \in v.set)
    [] operator = "union" /\ Both("set", v, w) -> Set(v.set \cup w.set)
    [] operator = "exclude" /\ Both("set", v, w) -> Set(v.set \ w.set)
    [] operator = "ilt" /\ Both("int", v, w) -> Bool(v.int < w.int)
    [] operator = "igt" /\ Both("int", v, w) -> Bool(v.int > w.int)
    [] operator = "ilte" /\ Both("int", v, w) -> Bool(v.int <= w.int)
    [] operator = "igte" /\ Both("int", v, w) -> Bool(v.int >= w.int)
    [] operator = "iadd" /\ Both("int", v, w) -> [int |-> v.int + w.int]
    [] operator = "isub" /\ Both("int", v, w) -> [int |-> v.int - w.int]
    [] operator = "append" /\ Is("list", v) -> [list |-> Append(v.list, w)]
    [] operator = "concat" /\ Both("list", v, w) -> [list |-> v.list \o w.list]
    [] operator = "nth" /\ Is("list", v) /\ Is("int", w) ->
         IF w.int + 1 \in DOMAIN v.list THEN v.list[w.int + 1] ELSE Fails("index")
    [] OTHER -> Fails("operator")

Update(operator, v, key, w) ==
  CASE operator \in {"with", "set"} /\ Is("record", v) /\ Is("text", key) ->
         [record |-> Updated(v.record, key.text, w)]
    [] operator = "set" /\ Is("map", v) ->
         IF key \in DOMAIN v.map THEN [map |-> Updated(v.map, key, w)] ELSE Fails("key")
    [] operator = "put" /\ Is("map", v) -> [map |-> Updated(v.map, key, w)]
    [] OTHER -> Fails("operator")

Built(operator, values) ==
  CASE operator = "List" -> [list |-> values]
    [] operator = "Tup" -> [tuple |-> values]
    [] operator = "Set" -> Set(Range(values))
    [] operator = "Map" -> MapOf(values)
    [] operator = "Rec" -> RecordOf(values)
    [] OTHER ->
         CASE Len(values) = 1 -> Unary(operator, values[1])
           [] Len(values) = 2 -> Binary(operator, values[1], values[2])
           [] Len(values) = 3 -> Update(operator, values[1], values[2], values[3])
           [] OTHER -> Fails("operator")

-----------------------------------------------------------------------------
\* The evaluator. `env` has what binders bound, `live` the names the evidence
\* resolves: fixtures, then the snapshot.
Lookup(name, env, live) ==
  IF name \in DOMAIN env THEN env[name]
  ELSE IF name = <<"disabled">> THEN Bool(FALSE)
  ELSE IF name \in DOMAIN live THEN live[name]
  ELSE IF name = <<"Absent">> THEN [absent |-> TRUE]
  ELSE Fails("name")

\* An inner binder hides an outer one.
Bind(params, values, env) ==
  [name \in Range(params) |-> values[LastAt(params, name)]] @@ env

\* What is done with results, unless one of them failed: then the first that did.
FirstFailure(results) ==
  results[CHOOSE i \in DOMAIN results :
    Failed(results[i]) /\ \A j \in 1 .. i - 1 : ~Failed(results[j])]
Succeeded(results) == \A i \in DOMAIN results : ~Failed(results[i])
AllBool(results) == \A i \in DOMAIN results : Is("bool", results[i])

\* The items of a collection, in an order that the collection determines.
Ordered(values) == SetToSeq(values)
ItemsOf(v) ==
  CASE Is("set", v) -> Ordered(v.set)
    [] Is("list", v) -> v.list
    [] Is("tuple", v) -> v.tuple
    [] Is("map", v) -> [i \in DOMAIN Ordered(DOMAIN v.map) |-> v.map[Ordered(DOMAIN v.map)[i]]]
    [] Is("record", v) ->
         [i \in DOMAIN Ordered(DOMAIN v.record) |-> v.record[Ordered(DOMAIN v.record)[i]]]

\* The variant that matchVariant takes apart; a unit variant is its tag.
TagOf(v) ==
  CASE Is("absent", v) -> "Absent"
    [] Is("present", v) -> "Present"
    [] Is("tag", v) -> v.tag
    [] Is("text", v) -> v.text
PayloadOf(v) ==
  CASE Is("present", v) -> v.present
    [] Is("tag", v) -> v.value
    [] Is("text", v) -> [tuple |-> <<>>]
Matchable(v) == \E kind \in {"absent", "present", "tag", "text"} : Is(kind, v)

RECURSIVE ValueOf(_, _, _)

\* evaluate_lambda
Apply(lambda, values, env, live) ==
  IF Is("lambda", lambda) /\ Len(lambda.lambda) = Len(values)
    THEN ValueOf(lambda.body, Bind(lambda.lambda, values, env), live)
    ELSE Fails("lambda")

ApplyEach(lambda, items, env, live) ==
  [i \in DOMAIN items |-> Apply(lambda, <<items[i]>>, env, live)]

\* evaluate_quantifier: every item is looked at, whatever the first ones say,
\* and a further parameter of the lambda stays unbound.
OverItems(operator, v, lambda, env, live) ==
  LET items == ItemsOf(v)
      results == [i \in DOMAIN items |->
        ValueOf(lambda.body, Bind(<<lambda.lambda[1]>>, <<items[i]>>, env), live)]
      wrong == CHOOSE i \in DOMAIN results :
        ~Is("bool", results[i]) /\ \A j \in 1 .. i - 1 : Is("bool", results[j])
  IN IF ~Sizable(v) THEN Fails(operator)
     ELSE IF ~AllBool(results)
       THEN IF Failed(results[wrong]) THEN results[wrong] ELSE Fails(operator)
     ELSE IF operator = "forall" THEN Bool(\A i \in DOMAIN results : results[i].bool)
     ELSE Bool(\E i \in DOMAIN results : results[i].bool)

\* evaluate_filter
Filter(v, lambda, env, live) ==
  LET items == ItemsOf(v)
      results == ApplyEach(lambda, items, env, live)
      kept == SelectSeq([i \in DOMAIN items |-> <<items[i], results[i]>>], LAMBDA r : r[2].bool)
  IN IF ~(Is("set", v) \/ Is("list", v)) THEN Fails("filter")
     ELSE IF ~Succeeded(results) THEN FirstFailure(results)
     ELSE IF ~AllBool(results) THEN Fails("filter")
     ELSE IF Is("set", v) THEN Set({kept[i][1] : i \in DOMAIN kept})
     ELSE [list |-> [i \in DOMAIN kept |-> kept[i][1]]]

\* evaluate_map
MapOver(operator, v, lambda, env, live) ==
  LET keys == Ordered(v.set)
      results == ApplyEach(lambda, keys, env, live)
  IN IF ~Is("set", v) THEN Fails(operator)
     ELSE IF ~Succeeded(results) THEN FirstFailure(results)
     ELSE IF operator = "map" THEN Set(Range(results))
     ELSE [map |-> FromPairs(keys, results)]

\* evaluate_fold
RECURSIVE FoldItems(_, _, _, _, _)
FoldItems(items, accumulator, lambda, env, live) ==
  IF items = <<>> \/ Failed(accumulator) THEN accumulator
  ELSE FoldItems(Tail(items), Apply(lambda, <<accumulator, Head(items)>>, env, live),
                 lambda, env, live)

Fold(v, initial, lambda, env, live) ==
  IF Is("set", v)
    THEN FoldItems(Ordered(v.set), ValueOf(initial, env, live), lambda, env, live)
    ELSE Fails("fold")

\* evaluate_match_variant: `_` matches what no branch before it did. The lambda
\* of an Absent branch has a parameter that stays unbound.
Match(v, branches, env, live) ==
  LET hits == {i \in 1 .. Len(branches) \div 2 : branches[2 * i - 1].text \in {TagOf(v), "_"}}
      lambda == branches[2 * (CHOOSE i \in hits : \A j \in hits : i <= j)]
      bound == IF Is("absent", v) THEN env
               ELSE Bind(<<lambda.lambda[1]>>, <<PayloadOf(v)>>, env)
  IN IF ~Matchable(v) THEN Fails("matchVariant")
     ELSE IF hits = {} THEN Fails("matchVariant")
     ELSE ValueOf(lambda.body, bound, live)

\* evaluate_short_circuit
RECURSIVE Decide(_, _, _, _)
Decide(decisive, args, env, live) ==
  LET first == ValueOf(Head(args), env, live) IN
  IF args = <<>> THEN Bool(~decisive)
  ELSE IF Failed(first) \/ first = Bool(decisive) THEN first
  ELSE IF first = Bool(~decisive) THEN Decide(decisive, Tail(args), env, live)
  ELSE Fails("bool")

\* evaluate_ite
Branch(condition, args, env, live) ==
  IF condition = Bool(TRUE) THEN ValueOf(args[2], env, live)
  ELSE IF condition = Bool(FALSE) THEN ValueOf(args[3], env, live)
  ELSE Fails("ite")

Quantifiers == {"forall", "exists"}
TakesFirst == Quantifiers \cup {"filter", "map", "mapBy", "fold", "matchVariant", "ite"}

\* The operators that look at their first argument before the others.
OnFirst(operator, first, args, env, live) ==
  CASE operator \in Quantifiers -> OverItems(operator, first, args[2], env, live)
    [] operator = "filter" -> Filter(first, args[2], env, live)
    [] operator \in {"map", "mapBy"} -> MapOver(operator, first, args[2], env, live)
    [] operator = "fold" -> Fold(first, args[2], args[3], env, live)
    [] operator = "matchVariant" -> Match(first, Tail(args), env, live)
    [] operator = "ite" -> Branch(first, args, env, live)

Call(operator, args, env, live) ==
  LET first == ValueOf(args[1], env, live)
      results == [i \in DOMAIN args |-> ValueOf(args[i], env, live)]
  IN IF operator \in {"and", "actionAll"} THEN Decide(FALSE, args, env, live)
     ELSE IF operator \in {"or", "actionAny"} THEN Decide(TRUE, args, env, live)
     ELSE IF operator \in TakesFirst
       THEN IF Failed(first) THEN first ELSE OnFirst(operator, first, args, env, live)
     ELSE IF Succeeded(results) THEN Built(operator, results)
     ELSE FirstFailure(results)

ValueOf(e, env, live) ==
  CASE Is("name", e) -> Lookup(e.name, env, live)
    [] Is("call", e) -> Call(e.call, e.args, env, live)
    [] Is("let", e) ->
         LET value == ValueOf(e.value, env, live)
         IN IF Failed(value) THEN value ELSE ValueOf(e.body, Bind(<<e.let>>, <<value>>, env), live)
    [] Is("lambda", e) -> Fails("kind")
    [] OTHER -> e
===============================================================================
