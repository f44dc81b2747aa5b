------------------------------ MODULE MCRefine -------------------------------
(***************************************************************************)
(* Refine on the model of MCModel: its scenarios and one of three actions, *)
(* owned one by one, in compound commands of two and three actions, and by *)
(* tables that leave an action unowned or a sequence broken.               *)
(***************************************************************************)
EXTENDS Refine, MCModel

CONSTANTS p, q, r, s, t, blank

MCPrimitives == {p, q, r, s, t, blank}

MCName(a) == a

Refines(primitive, names) ==
  [primitive |-> primitive, refines |-> names, aliases |-> {}, actions |-> {}]

MCTables ==
  { <<Refines(p, <<inc>>), Refines(q, <<stamp>>), Refines(r, <<flip>>),
      Refines(s, <<choose>>), Refines(t, <<peek>>)>>,
    <<Refines(p, <<inc, stamp>>), Refines(q, <<flip>>), Refines(r, <<choose>>)>>,
    <<Refines(p, <<flip, inc>>), Refines(q, <<choose, stamp>>), Refines(r, <<inc, inc>>)>>,
    <<Refines(p, <<inc, stamp, flip>>)>> }

RefineScenarios ==
  MCScenarios \cup
    {Traced(<<inc, stamp, flip>>, <<At(0, 0), At(1, 0), At(1, 1), At(0, 1)>>)}

MCTapes == {ActionNames(sc) : sc \in RefineScenarios}

=============================================================================
