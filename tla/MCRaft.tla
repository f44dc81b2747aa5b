------------------------------- MODULE MCRaft --------------------------------
(***************************************************************************)
(* Three nodes of either Raft cluster: the initial state picks the one.    *)
(***************************************************************************)
EXTENDS RaftNetwork, TLC

CONSTANTS n1, n2, n3,
          Networks,      \* which clusters are checked
          MaxNetworkTerm \* bound: MaxTerm where messages are exchanged

VARIABLE network \* does the cluster exchange messages?

MCInit == NetworkInit /\ network \in Networks

MCNext ==
  /\ \/ network /\ NetworkNext /\ (\A n \in Node : term'[n] <= MaxNetworkTerm)
     \/ ~network /\ RaftNext /\ UNCHANGED <<matched, msgs>>
  /\ UNCHANGED network

MCSpec == MCInit /\ [][MCNext]_<<networkVars, network>>

Symmetry == Permutations(Node)
==============================================================================
