------------------------------ MODULE MCFixtures -----------------------------
(***************************************************************************)
(* A model with seven constants and five definitions, whose lambdas and    *)
(* lets share names with the ones they are called under; actions of two    *)
(* conjuncts over them, called with every argument; and for each constant  *)
(* the values production code could have in its place.                     *)
(***************************************************************************)
EXTENDS Fixtures

N(name) == [name |-> <<name>>]
C(operator, args) == [call |-> operator, args |-> args]
L(name, e) == [lambda |-> <<<<name>>>>, body |-> e]
L2(name, other, e) == [lambda |-> <<<<name>>, <<other>>>>, body |-> e]
Let(name, value, e) == [let |-> <<name>>, value |-> value, body |-> e]
I(n) == [int |-> n]
T(text) == [text |-> text]
Field(e, field) == C("field", <<e, T(field)>>)

MCConstants ==
  <<"nodes">> :> [set |-> {I(1), I(2)}]
    @@ <<"limit">> :> I(2)
    @@ <<"order">> :> [list |-> <<I(1), I(2)>>]
    @@ <<"roster">> :> [record |-> ("head" :> I(1) @@ "ids" :> [set |-> {I(1), I(2)}])]
    @@ <<"weights">> :> [map |-> (I(1) :> I(1) @@ I(2) :> I(1))]
    @@ <<"open">> :> T("Open")
    @@ <<"kinds">> :> [set |-> {T("Open"), [tag |-> "Held", value |-> I(1)]}]

D(params, body) == [params |-> [i \in DOMAIN params |-> <<params[i]>>], body |-> body]

MCDefinitions ==
  [above |-> D(<<"n">>, C("exists", <<N("nodes"), L("m", C("igt", <<N("m"), N("n")>>))>>)),
   top |-> D(<<>>, C("length", <<Field(N("state"), "items")>>)),
   within |-> D(<<"n">>, Let("m", C("iadd", <<N("n"), N("top")>>), C("ilte", <<N("m"), N("limit")>>))),
   total |-> D(<<"s">>, C("fold", <<N("s"), I(0), L2("n", "m", C("iadd", <<N("n"), N("m")>>))>>)),
   between |-> D(<<"m", "n">>,
     C("and", <<C("ilte", <<N("m"), N("n")>>),
                C("not", <<C("exists", <<C("filter", <<N("nodes"), L("n", C("igt", <<N("n"), N("m")>>))>>),
                                         L("m", C("ilt", <<N("m"), N("n")>>))>>)>>)>>))]

MCStates ==
  {[record |-> ("items" :> [list |-> s] @@ "count" :> I(n) @@ "kind" :> k)] :
     s \in {<<>>, <<I(2)>>, <<I(1), I(2)>>}, n \in {0, 2},
     k \in {T("Open"), [tag |-> "Held", value |-> I(2)], [absent |-> TRUE]}}

\* Conjuncts over parameters n and s.
Count == Field(N("state"), "count")
Conjunct ==
  {C("contains", <<N("nodes"), N("n")>>),
   C("above", <<N("n")>>),
   C("within", <<C("iadd", <<N("n"), I(1)>>)>>),
   C("exists", <<N("nodes"), L("m", C("above", <<N("m")>>))>>),
   C("exists", <<N("nodes"), L("n", C("within", <<N("n")>>))>>),
   C("exists", <<N("nodes"), L("m", C("between", <<N("n"), N("m")>>))>>),
   C("forall", <<N("nodes"), L("n", C("exists", <<N("nodes"), L("m", C("between", <<N("n"), N("m")>>))>>))>>),
   C("eq", <<C("total", <<C("map", <<N("s"), L("m", C("iadd", <<N("m"), N("n")>>))>>)>>), I(3)>>),
   C("ite", <<C("ilt", <<N("top"), N("n")>>), C("within", <<N("top")>>), C("above", <<Count>>)>>),
   C("eq", <<C("nth", <<Field(N("state"), "items"), N("n")>>), N("limit")>>),
   C("eq", <<C("keys", <<C("mapBy", <<N("s"), L("m", N("n"))>>)>>), N("nodes")>>),
   C("forall", <<N("nodes"), L("m", C("ilt", <<I(0), C("get", <<N("weights"), N("m")>>)>>))>>),
   C("eq", <<Field(N("roster"), "ids"), N("s")>>),
   C("eq", <<C("with", <<N("roster"), T("head"), N("n")>>), N("roster")>>),
   C("eq", <<Field(N("state"), "items"), N("order")>>),
   C("contains", <<N("kinds"), Field(N("state"), "kind")>>),
   C("or", <<C("eq", <<Field(N("state"), "kind"), N("open")>>), C("above", <<Count>>)>>),
   C("matchVariant", <<Field(N("state"), "kind"), T("Held"), L("m", C("igt", <<N("m"), N("n")>>)),
                       T("Absent"), L("_", [bool |-> TRUE]), T("_"), L("m", C("above", <<N("n")>>))>>)}

\* One conjunct, two, one of them under a let of n or m, and nested conjuncts.
Body ==
  {C("actionAll", <<c>>) : c \in Conjunct}
    \cup {Let("m", C("iadd", <<N("n"), I(1)>>),
            C("actionAll", <<C("igt", <<N("m"), N("top")>>),
              Let("n", N("m"), C("actionAll", <<c, C("eq", <<N("m"), N("n")>>)>>))>>)) : c \in Conjunct}

A(body, n, s) == [params |-> <<<<"n">>, <<"s">>>>, body |-> body, args |-> <<n, s>>]

MCActions == {A(body, n, s) : body \in Body, n \in {I(0), I(1), N("limit")},
                              s \in {N("nodes"), C("filter", <<N("nodes"), L("n", C("igt", <<N("n"), I(1)>>))>>)}}

\* A value as it is written with sets as objects or as arrays.
Written(name, v) == {[name |-> <<name>>, value |-> v, json |-> Json(v, plain)] : plain \in BOOLEAN}

AllOffers ==
  Written("nodes", MCConstants[<<"nodes">>]) \cup Written("nodes", [set |-> {I(2)}])
    \cup Written("nodes", [list |-> <<I(2), I(1)>>]) \cup Written("nodes", [list |-> <<I(1), I(2), I(2)>>])
    \cup Written("limit", I(2)) \cup Written("limit", I(1))
    \cup Written("order", [list |-> <<I(1), I(2)>>]) \cup Written("order", [list |-> <<I(2), I(1)>>])
    \cup Written("roster", [record |-> ("head" :> I(1) @@ "ids" :> [list |-> <<I(1), I(2)>>])])
    \cup Written("roster", [record |-> ("ids" :> [set |-> {I(1), I(2)}])])
    \cup Written("roster", [record |-> ("first" :> I(1) @@ "ids" :> [set |-> {I(1), I(2)}])])
    \cup Written("roster", [record |-> ("head" :> I(1) @@ "ids" :> [set |-> {I(1), I(2)}] @@ "more" :> I(0))])
    \cup Written("weights", [map |-> (I(1) :> I(1))])
    \cup Written("open", T("Open")) \cup {[name |-> <<"open">>, value |-> T("Open"), json |-> T("Open")]}
    \cup Written("kinds", MCConstants[<<"kinds">>])
    \cup UNION {Written(name, [record |-> <<>>]) : name \in {"nodes", "order", "roster", "weights", "open"}}
    \cup {[name |-> <<"open">>, value |-> [record |-> fields],
           json |-> [object |-> [field \in DOMAIN fields |->
                       IF field = "tag" THEN fields.tag ELSE Json(fields[field], FALSE)]]] :
             fields \in {"tag" :> T("Open"), "tag" :> T("Shut"),
                        "tag" :> T("Open") @@ "value" :> [tuple |-> <<>>],
                        "tag" :> T("Open") @@ "value" :> I(1)}}
    \cup Written("spare", I(1))

MCOffers(names) == {offer \in AllOffers : offer.name \in names \cup {<<"spare">>}}

MCConstructors == {"Held"}
MCUnits == {"Open"}
==============================================================================
