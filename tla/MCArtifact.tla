------------------------------ MODULE MCArtifact -----------------------------
(***************************************************************************)
(* Artifact with two lists of obligations on action steps and one on an    *)
(* observation, every model of at most two steps, and one edit.            *)
(***************************************************************************)
EXTENDS Artifact, TLC, SequencesExt

CONSTANTS a, b, c, \* lists of obligations
          ours, newer \* vocabularies

MCLists == {Empty, a, b, c}

MCDependencies(list) ==
  CASE list = a -> {"path:state.x"}
    [] list = b -> {"path:state.x", "path:state.y"}
    [] list = c -> {"path:state.z"}
    [] OTHER -> {}

ActionSteps == [guards : {Empty, a, b}, next : {Empty, a, b}, assertions : {Empty}]
Observation == [guards |-> Empty, next |-> Empty, assertions |-> c]
MCSources == BoundedSeq(ActionSteps \cup {Observation}, 2)

MCTables == {Omitted, <<>>, <<a>>, <<b, a>>}

MCEditedSteps ==
  [guards : {Omitted, Empty, a}, next : {Omitted, b},
   guardList : {Omitted, 0}, nextList : {Omitted, 0, 1}, assertions : {Empty}]

=============================================================================
