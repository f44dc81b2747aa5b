---------------------------- MODULE MCAlternatives ----------------------------
(***************************************************************************)
(* A single assignment of every value of MCValues with every report; and   *)
(* bodies of one and two levels that assign numbers: alternatives with a   *)
(* guard before, after or around their assignment, pairs of them, and pairs*)
(* inside others.                                                          *)
(***************************************************************************)
EXTENDS Alternatives, MCValues

Assigns == {[assign |-> s] : s \in Numbers}
Guards == {[guard |-> g] : g \in {"true", "false", "fails"}}

Alternative ==
  Assigns
    \cup {[all |-> <<g, a>>] : g \in Guards, a \in Assigns}
    \cup {[all |-> <<a, g>>] : g \in Guards, a \in Assigns}
    \cup {[all |-> <<g, h, a>>] : g, h \in Guards, a \in Assigns}

Anys(first, second) == {[any |-> <<v, w>>] : v \in first, w \in second}

Conditions(first, second) ==
  {[condition |-> c, then |-> v, else |-> w] :
     c \in {"true", "false", "fails"}, v \in first, w \in second}

Pairs == Anys(Alternative, Alternative) \cup Conditions(Alternative, Alternative)

\* Alternatives to nest: one conjunct of each kind.
Small == Assigns \cup {[all |-> <<g, a>>] : g \in {[guard |-> "false"]}, a \in Assigns}

Nested ==
  Anys(Anys(Small, Small), Small) \cup Anys(Small, Conditions(Small, Small))
    \cup {[all |-> <<g, v>>] : g \in Guards, v \in Anys(Small, Small)}
    \cup {[all |-> <<v, g>>] : g \in Guards, v \in Anys(Small, Small)}
    \cup Conditions(Anys(Small, Small), Small)

AllBodies == {[assign |-> v] : v \in MCReported} \cup Pairs \cup Nested
MCBodies == AllBodies

MCReports(b) == IF Is("assign", b) THEN MCReported ELSE Numbers

\* The bodies and what they are made of.
Trees ==
  AllBodies \cup Guards \cup Alternative \cup Small
    \cup Anys(Small, Small) \cup Conditions(Small, Small)
MCTree == Trees

RECURSIVE MCHeight(_)
MCHeight(b) ==
  IF Within(b) = {} THEN 0 ELSE 1 + Max({MCHeight(c) : c \in Within(b)})

RECURSIVE Writes(_)
Writes(b) == Is("assign", b) \/ \E c \in Within(b) : Writes(c)
Writing == {b \in Trees : Writes(b)}
MCUpdates == Writing

\* Alternatives of one `any`, for the shortest counterexample.
MCAnys == Anys(Alternative, Alternative)

=============================================================================
