------------------------------ MODULE Consensus ------------------------------
(***************************************************************************)
(* What both Raft examples promise about commits, whatever the elections   *)
(* and the messages that led to them: every node learns a growing sequence *)
(* of entries, and no two nodes ever learn conflicting ones.               *)
(***************************************************************************)
EXTENDS Sequences, SequencesExt

CONSTANT Node \* the members of the cluster

VARIABLE learned \* the entries each node knows to be committed, in order

ConsensusInit == learned = [n \in Node |-> <<>>]

\* Node n learns more entries: it forgets none, and what it knows agrees with
\* what every other node knows.
Learn(n) ==
  /\ learned'[n] # learned[n]
  /\ IsPrefix(learned[n], learned'[n])
  /\ \A m \in Node \ {n} :
       /\ learned'[m] = learned[m]
       /\ IsPrefix(learned[m], learned'[n]) \/ IsPrefix(learned'[n], learned[m])

ConsensusNext == \E n \in Node : Learn(n)

ConsensusSpec == ConsensusInit /\ [][ConsensusNext]_learned
==============================================================================
