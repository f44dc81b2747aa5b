------------------------------ MODULE MCSchedule -----------------------------
(***************************************************************************)
(* Bounds for Schedule: three action names, every tape of at most four     *)
(* actions, and ownership tables of each shape the schedulers tell apart.  *)
(***************************************************************************)
EXTENDS Schedule

CONSTANTS a, b, c, p, q, r, blank

MCNames == {a, b, c}
MCPrimitives == {p, q, r, blank}

\* A record of the current form, one with aliases, and one of the legacy form.
Refines(primitive, names) ==
  [primitive |-> primitive, refines |-> names, aliases |-> {}, actions |-> {}]
Aliased(primitive, name, names) ==
  [primitive |-> primitive, refines |-> <<name>>, aliases |-> names, actions |-> {}]
Legacy(primitive, names) ==
  [primitive |-> primitive, refines |-> <<>>, aliases |-> {}, actions |-> names]

\* The tables inferProject can generate over a, b and c.
GeneratedTables ==
  { <<Refines(p, <<a>>), Refines(q, <<b>>), Refines(r, <<c>>)>>,
    <<Refines(p, <<a, b>>), Refines(q, <<c>>)>>,
    <<Refines(p, <<b, a, c>>)>>,
    <<Refines(p, <<c, a>>)>> }

\* Hand-written tables: overlapping, nested, repeated, aliased and invalid ones.
WrittenTables ==
  { <<Refines(p, <<a, b>>), Refines(q, <<a, b, c>>), Refines(r, <<c>>)>>,
    <<Refines(p, <<a, b>>), Refines(q, <<b, c>>), Refines(r, <<a>>)>>,
    <<Refines(p, <<a, a>>), Refines(q, <<a>>), Refines(r, <<b>>)>>,
    <<Refines(p, <<a, b, c>>), Aliased(q, c, {a, b})>>,
    <<Aliased(p, a, {b}), Aliased(q, c, {b})>>,
    <<Legacy(p, {a, b}), Refines(q, <<c, a>>)>>,
    <<Legacy(p, {a, b}), Legacy(q, {b, c})>>,
    <<Refines(p, <<a>>), Refines(p, <<b>>)>>,
    <<Refines(blank, <<a>>)>>,
    <<[primitive |-> p, refines |-> <<a, b>>, aliases |-> {c}, actions |-> {}]>>,
    <<>> }

MCTables == GeneratedTables \cup WrittenTables

MCTapes == UNION {[1 .. n -> MCNames] : n \in 0 .. 4}

=============================================================================
