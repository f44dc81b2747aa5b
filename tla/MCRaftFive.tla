----------------------------- MODULE MCRaftFive ------------------------------
(***************************************************************************)
(* Five nodes of the direct-call Raft cluster: the smallest cluster in     *)
(* which two nodes can hold an entry without meeting every majority.       *)
(***************************************************************************)
EXTENDS Raft

CONSTANTS n1, n2, n3, n4, n5

\* Histories in which n1, n2 and n3 campaign in this order and n4 and n5 only
\* vote; n1 appends one entry and n2 none.
ThreeCampaign ==
  /\ term[n1] <= 1 /\ Len(log[n1]) <= 1
  /\ term[n2] <= 2 /\ log[n2] = <<>>
  /\ role[n4] = "Follower" /\ role[n5] = "Follower"
==============================================================================
