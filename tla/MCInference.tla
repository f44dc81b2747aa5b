----------------------------- MODULE MCInference -----------------------------
(***************************************************************************)
(* Bounds for Inference: scenarios over three actions, comments of each    *)
(* kind inferProject tells apart, and names that collide or are reserved.  *)
(***************************************************************************)
EXTENDS Inference

CONSTANTS init, other, pay, pay2, ship, \* pay2 is pay in another spelling
          order, order2,                \* commands; Go and TypeScript drop a _ of order2
          snapshot, blank, group

MCNames == {init, other, pay, pay2, ship}
MCPrimitives == MCNames \cup {order, order2, snapshot, blank}
MCCapabilities == MCNames \cup {group}
MCAdapters == {"rust", "go", "typescript"}

MCIdentifier ==
  [t \in MCAdapters |->
     [name \in MCPrimitives |->
        CASE name = pay2 -> pay
          [] name = order2 /\ t # "rust" -> order
          [] OTHER -> name]]

MCReserved == [t \in MCAdapters |-> {snapshot}]

Line(kind, capabilities) == [kind |-> kind, capabilities |-> capabilities]
Bare == <<Line("bare", <<>>)>>
Steps(names) == [i \in DOMAIN names |->
                   [kind |-> IF i = 1 THEN "name" ELSE "call", name |-> names[i]]]
Final(kind) == <<[kind |-> kind, name |-> init]>>
Scenario(names) ==
  [doc |-> Bare, steps |-> Steps(<<init>> \o names) \o Final("observation"),
   tested |-> TRUE, passes |-> TRUE]

Tapes2 == { <<>>, <<pay>>, <<pay, ship>>, <<ship, pay>>, <<pay, ship, pay>>,
            <<ship, pay, ship>>, <<pay, pay2>>, <<pay, other, ship>> }

\* Faulty and unusual runs.
OddRuns ==
  LET run == Scenario(<<pay>>) IN
  { [run EXCEPT !.doc = <<>>],
    [run EXCEPT !.doc = <<>>, !.passes = FALSE],
    [run EXCEPT !.doc = <<Line("mention", <<>>)>>],
    [run EXCEPT !.doc = <<Line("mention", <<>>)>> \o Bare],
    [run EXCEPT !.doc = Bare \o Bare],
    [run EXCEPT !.doc = <<Line("malformed", <<>>)>>],
    [run EXCEPT !.doc = <<Line("requires", <<group>>)>>],
    [run EXCEPT !.doc = <<Line("requires", <<group, pay>>)>>],
    [run EXCEPT !.doc = <<Line("requires", <<group, group>>)>>],
    [run EXCEPT !.tested = FALSE],
    [run EXCEPT !.passes = FALSE],
    [run EXCEPT !.steps = Steps(<<init>>)],
    [run EXCEPT !.steps = Steps(<<init, pay>>)],
    [run EXCEPT !.steps = Steps(<<init, pay>>) \o Final("block")],
    [run EXCEPT !.steps = Steps(<<init, pay>>) \o Final("other")],
    [run EXCEPT !.steps = Final("observation") \o Steps(<<init, pay>>)],
    [run EXCEPT !.steps = Steps(<<other, pay>>) \o Final("observation")],
    [run EXCEPT !.steps = Final("observation") \o @] }

RunLists ==
  {<<Scenario(names)>> : names \in Tapes2}
    \cup {<<Scenario(<<pay, ship>>), Scenario(names)>> : names \in Tapes2}
    \cup {<<run>> : run \in OddRuns}
    \cup {<<Scenario(<<ship>>), run>> : run \in OddRuns}

Command(name, actions) == [name |-> name, actions |-> actions]

DirectiveLists ==
  { <<>>,
    <<Command(order, <<pay, ship>>)>>,
    <<Command(order, <<pay>>)>>,
    <<Command(pay, <<ship>>)>>,
    <<Command(ship, <<pay, ship>>)>>,
    <<Command(snapshot, <<pay>>)>>,
    <<Command(order, <<>>)>>,
    <<Command(order, <<pay, pay>>)>>,
    <<Command(order, <<pay, other>>)>>,
    <<Command(order, <<pay>>), Command(order2, <<ship>>)>>,
    <<Command(order, <<pay, ship>>), Command(order2, <<ship>>)>>,
    <<Command(order, <<ship>>), Command(order, <<pay>>)>> }

Usual(list, directives) ==
  [runs |-> list, directives |-> directives, defined |-> MCNames, rivals |-> FALSE,
   requested |-> "nothing", state |-> "record", targets |-> {"rust"}]

OddProjects ==
  LET model == Usual(<<Scenario(<<pay, ship>>)>>, <<Command(order, <<pay, ship>>)>>) IN
  { [model EXCEPT !.defined = {init, pay}],
    [model EXCEPT !.rivals = TRUE],
    [model EXCEPT !.rivals = TRUE, !.requested = "this"],
    [model EXCEPT !.requested = "unknown"],
    [model EXCEPT !.state = "scalar"],
    [model EXCEPT !.state = "several"] }

MCProjects ==
  {Usual(list, directives) : list \in RunLists, directives \in DirectiveLists}
    \cup {[Usual(list, directives) EXCEPT !.targets = targets] :
            list \in {<<Scenario(<<pay, ship>>)>>, <<Scenario(<<pay2, ship>>)>>},
            directives \in DirectiveLists,
            targets \in {{"go"}, {"typescript"}, {"rust", "go"}}}
    \cup OddProjects

\* Schedule's own initial states are not used here.
MCTables == {<<>>}
MCTapes == {<<>>}

=============================================================================
