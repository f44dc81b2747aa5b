------------------------------- MODULE Inlining -------------------------------
(***************************************************************************)
(* How the compiler makes guards out of the body of an action: parameters  *)
(* are replaced by arguments and calls of definitions by their bodies,     *)
(* without capturing a name, and the conjuncts are taken apart             *)
(* (packages/compiler/generate.mjs); and what the body means in Quint.     *)
(* Quint has refused recursive definitions before.                         *)
(***************************************************************************)
EXTENDS Expressions

CONSTANT Definitions \* what the model defines with def: [params |-> names, body |-> e]

Without(f, names) == Restrict(f, DOMAIN f \ names)

RECURSIVE AllNames(_)
AllNames(e) ==
  CASE Is("name", e) -> {e.name}
    [] Is("call", e) -> UNION {AllNames(e.args[i]) : i \in DOMAIN e.args}
    [] Is("lambda", e) -> Range(e.lambda) \cup AllNames(e.body)
    [] Is("let", e) -> {e.let} \cup AllNames(e.value) \cup AllNames(e.body)
    [] OTHER -> {}

\* renameBoundOccurrences, for all of `fresh` at once: a binder hides the name.
RECURSIVE Rename(_, _)
Rename(e, fresh) ==
  CASE Is("name", e) -> IF e.name \in DOMAIN fresh THEN [name |-> fresh[e.name]] ELSE e
    [] Is("call", e) -> [e EXCEPT !.args = [i \in DOMAIN e.args |-> Rename(e.args[i], fresh)]]
    [] Is("lambda", e) -> [e EXCEPT !.body = Rename(e.body, Without(fresh, Range(e.lambda)))]
    [] Is("let", e) -> [e EXCEPT !.value = Rename(e.value, fresh),
                                 !.body = Rename(e.body, Without(fresh, {e.let}))]
    [] OTHER -> e

\* freshBoundName
Marked(name, used) ==
  LET k == CHOOSE k \in 1 .. Cardinality(used) + 1 :
             Append(name, k) \notin used /\ \A j \in 1 .. k - 1 : Append(name, j) \in used
  IN Append(name, k)

\* The names an expression substituted for another brings along.
Brought(mapping) == UNION {ExpressionNames(mapping[name], {}) : name \in DOMAIN mapping}

\* Fault: binders keep their names.
KeepBinders(e, binders, mapping) == [name \in {} |-> name]

\* The new names of binders of e that would capture one of those.
Renaming(e, binders, mapping) ==
  LET used == AllNames(e) \cup Brought(mapping) \cup DOMAIN mapping
  IN [name \in binders \cap Brought(mapping) |-> Marked(name, used)]

Renamed(name, fresh) == IF name \in DOMAIN fresh THEN fresh[name] ELSE name

\* substituteNames
RECURSIVE Substitute(_, _)
Substitute(e, mapping) ==
  CASE Is("name", e) -> IF e.name \in DOMAIN mapping THEN mapping[e.name] ELSE e
    [] Is("call", e) ->
         [e EXCEPT !.args = [i \in DOMAIN e.args |-> Substitute(e.args[i], mapping)]]
    [] Is("lambda", e) ->
         LET fresh == Renaming(e, Range(e.lambda), mapping)
         IN [lambda |-> [i \in DOMAIN e.lambda |-> Renamed(e.lambda[i], fresh)],
             body |-> Substitute(Rename(e.body, fresh), Without(mapping, Range(e.lambda)))]
    [] Is("let", e) ->
         LET fresh == Renaming(e, {e.let}, mapping)
         IN [let |-> Renamed(e.let, fresh),
             value |-> Substitute(e.value, mapping),
             body |-> Substitute(Rename(e.body, fresh), Without(mapping, {e.let}))]
    [] OTHER -> e

Given(params, args) == [name \in Range(params) |-> args[LastAt(params, name)]]

\* A name that stands for a definition without parameters.
Nullary(name) ==
  Len(name) = 1 /\ name[1] \in DOMAIN Definitions /\ Definitions[name[1]].params = <<>>

\* inlineExpr and instantiateDef
RECURSIVE Inline(_, _)
Inline(e, bound) ==
  CASE Is("name", e) ->
         IF e.name \notin bound /\ Nullary(e.name)
           THEN Inline(Definitions[e.name[1]].body, bound) ELSE e
    [] Is("lambda", e) -> [e EXCEPT !.body = Inline(e.body, bound \cup Range(e.lambda))]
    [] Is("let", e) -> [e EXCEPT !.value = Inline(e.value, bound),
                                 !.body = Inline(e.body, bound \cup {e.let})]
    [] Is("call", e) ->
         LET args == [i \in DOMAIN e.args |-> Inline(e.args[i], bound)]
         IN IF e.call \in DOMAIN Definitions
              THEN LET d == Definitions[e.call]
                   IN Inline(Substitute(d.body, Given(d.params, args)), bound)
              ELSE [e EXCEPT !.args = args]
    [] OTHER -> e

\* flattenActionAll: the conjuncts, with what they are under let replaced.
RECURSIVE Conjuncts(_, _)
Conjuncts(e, lets) ==
  IF Is("call", e) /\ e.call = "actionAll"
    THEN FlattenSeq([i \in DOMAIN e.args |-> Conjuncts(e.args[i], lets)])
  ELSE IF Is("let", e)
    THEN Conjuncts(e.body, Updated(lets, e.let, Substitute(e.value, lets)))
  ELSE <<Substitute(e, lets)>>

\* What extractActionObligations takes apart for a call of an action.
InlinedBody(a) == Inline(Substitute(a.body, Given(a.params, a.args)), {})

-----------------------------------------------------------------------------
\* The meaning of an expression: a name is what the nearest binder says, or the
\* top level of the model; a definition sees its parameters and nothing of where
\* it is called. `live` has the constants and the state. An expression fails
\* where Quint does not give it a value.
Under(env, params, values) ==
  [name \in DOMAIN env \cup Range(params) |->
     IF name \in Range(params) THEN values[CHOOSE i \in DOMAIN params : params[i] = name]
     ELSE env[name]]

NoNames == [name \in {} |-> name]

RECURSIVE Meaning(_, _, _)

\* What a lambda says of every value of a set.
Image(lambda, values, env, live) ==
  [v \in values |-> Meaning(lambda.body, Under(env, lambda.lambda, <<v>>), live)]

Members(v) == IF Is("set", v) THEN v.set ELSE IF Is("list", v) THEN Range(v.list) ELSE {}

Comprehension(operator, v, lambda, env, live) ==
  LET image == Image(lambda, Members(v), env, live) IN
  IF \E w \in Members(v) : Failed(image[w]) THEN Fails(operator)
  ELSE CASE operator = "forall" -> Bool(\A w \in Members(v) : image[w].bool)
         [] operator = "exists" -> Bool(\E w \in Members(v) : image[w].bool)
         [] operator = "filter" /\ Is("set", v) -> Set({w \in v.set : image[w].bool})
         [] operator = "filter" /\ Is("list", v) ->
              [list |-> SelectSeq(v.list, LAMBDA w : image[w].bool)]
         [] operator = "map" -> Set({image[w] : w \in v.set})
         [] operator = "mapBy" -> [map |-> image]

\* The branch of the value's variant, or the one for all others.
Chosen(v, branches) ==
  LET of(tag) == {i \in 1 .. Len(branches) \div 2 : branches[2 * i - 1] = Text(tag)}
  IN branches[2 * (CHOOSE i \in IF of(TagOf(v)) # {} THEN of(TagOf(v)) ELSE of("_") : TRUE)]

Decided(operator, args, env, live) ==
  LET values == [i \in DOMAIN args |-> Meaning(args[i], env, live)]
      decisive == Bool(operator \in {"or", "actionAny"})
      undecided == {i \in DOMAIN args : values[i] # Bool(~decisive.bool)}
  IN IF undecided = {} THEN Bool(~decisive.bool)
     ELSE values[CHOOSE i \in undecided : \A j \in undecided : i <= j]

Meaning(e, env, live) ==
  CASE Is("name", e) ->
         CASE e.name \in DOMAIN env -> env[e.name]
           [] e.name \notin DOMAIN env /\ Nullary(e.name) ->
                Meaning(Definitions[e.name[1]].body, NoNames, live)
           [] OTHER -> IF e.name \in DOMAIN live THEN live[e.name] ELSE Fails("name")
    [] Is("let", e) ->
         LET value == Meaning(e.value, env, live)
         IN IF Failed(value) THEN value ELSE Meaning(e.body, Under(env, <<e.let>>, <<value>>), live)
    [] Is("call", e) ->
         LET first == Meaning(e.args[1], env, live)
             lambda == e.args[2]
             values == [i \in DOMAIN e.args |-> Meaning(e.args[i], env, live)]
         IN CASE e.call \in {"and", "actionAll", "or", "actionAny"} ->
                   Decided(e.call, e.args, env, live)
              [] e.call \in TakesFirst /\ Failed(first) -> first
              [] e.call = "ite" /\ ~Failed(first) ->
                   Meaning(IF first.bool THEN e.args[2] ELSE e.args[3], env, live)
              [] e.call \in {"forall", "exists", "filter", "map", "mapBy"} /\ ~Failed(first) ->
                   Comprehension(e.call, first, lambda, env, live)
              [] e.call = "fold" /\ ~Failed(first) ->
                   FoldSet(LAMBDA v, acc :
                             Meaning(e.args[3].body, Under(env, e.args[3].lambda, <<acc, v>>), live),
                           values[2], first.set)
              [] e.call = "matchVariant" /\ ~Failed(first) ->
                   LET branch == Chosen(first, Tail(e.args))
                       payload == IF Is("absent", first) THEN [tuple |-> <<>>] ELSE PayloadOf(first)
                   IN Meaning(branch.body, Under(env, branch.lambda, <<payload>>), live)
              [] OTHER ->
                   IF ~Succeeded(values) THEN FirstFailure(values)
                   ELSE IF e.call \in DOMAIN Definitions
                     THEN Meaning(Definitions[e.call].body,
                                  Under(NoNames, Definitions[e.call].params, values), live)
                   ELSE Built(e.call, values)
    [] Is("lambda", e) -> Fails("kind")
    [] OTHER -> e

ActionMeaning(a, live) ==
  Meaning(a.body, Under(NoNames, a.params, [i \in DOMAIN a.args |-> Meaning(a.args[i], NoNames, live)]), live)
===============================================================================
