-------------------------------- MODULE Raft ---------------------------------
(***************************************************************************)
(* The Raft cluster of examples/rust/raft/src/main.rs: the code under test *)
(* of that guide project. Its nodes share one process, so a vote and an    *)
(* append are single calls that read one node and write another. A call    *)
(* the code refuses with an Err changes nothing and is no step here.       *)
(***************************************************************************)
EXTENDS Integers, Sequences, FiniteSets

CONSTANTS Node,    \* the names the cluster is built from
          Nobody,  \* the empty voted_for
          MaxTerm, \* bound: no node times out beyond this term
          MaxLog   \* bound: no leader appends beyond this length

ASSUME NodeAssumption == IsFiniteSet(Node) /\ Nobody \notin Node
ASSUME RaftBounds == MaxTerm \in Nat /\ MaxLog \in Nat

VARIABLES
  term,     \* term[n]: the newest term n has seen
  role,     \* role[n]: Follower, Candidate or Leader
  votedFor, \* votedFor[n]: whom n voted for in its term
  votes,    \* votes[n]: who voted for n, kept when n steps down
  log,      \* log[n]: the terms of n's entries; commands do not matter
  commit    \* commit[n]: how many entries of its log n knows committed

electionVars == <<term, role, votedFor, votes>>
raftVars == <<term, role, votedFor, votes, log, commit>>

Roles == {"Follower", "Candidate", "Leader"}

RaftTypeOK ==
  /\ term \in [Node -> Nat]
  /\ role \in [Node -> Roles]
  /\ votedFor \in [Node -> Node \cup {Nobody}]
  /\ votes \in [Node -> SUBSET Node]
  /\ log \in [Node -> Seq(Nat)]
  /\ commit \in [Node -> Nat]

RaftInit ==
  /\ term = [n \in Node |-> 0]
  /\ role = [n \in Node |-> "Follower"]
  /\ votedFor = [n \in Node |-> Nobody]
  /\ votes = [n \in Node |-> {}]
  /\ log = [n \in Node |-> <<>>]
  /\ commit = [n \in Node |-> 0]

-----------------------------------------------------------------------------
IsQuorum(nodes) == Cardinality(nodes) >= Cardinality(Node) \div 2 + 1

LastTerm(entries) == IF entries = <<>> THEN 0 ELSE entries[Len(entries)]

\* Fault: the longer log wins, whatever its last term.
LongerLog(a, b) == Len(a) >= Len(b)

\* rank(a) >= rank(b), the tuple order of (last term, length).
UpToDate(a, b) ==
  \/ LastTerm(a) > LastTerm(b)
  \/ LastTerm(a) = LastTerm(b) /\ Len(a) >= Len(b)

Larger(a, b) == IF a >= b THEN a ELSE b

Holds(n, i, t) == i \in 1 .. Len(log[n]) /\ log[n][i] = t

-----------------------------------------------------------------------------
Timeout(n) ==
  /\ role[n] # "Leader"
  /\ term[n] < MaxTerm
  /\ term' = [term EXCEPT ![n] = @ + 1]
  /\ role' = [role EXCEPT ![n] = "Candidate"]
  /\ votedFor' = [votedFor EXCEPT ![n] = n]
  /\ votes' = [votes EXCEPT ![n] = {n}]
  /\ UNCHANGED <<log, commit>>

\* request_vote: the voter answers within the candidate's call.
GrantVote(voter, candidate) ==
  /\ role[candidate] = "Candidate"
  /\ term[candidate] > term[voter]
  /\ UpToDate(log[candidate], log[voter])
  /\ term' = [term EXCEPT ![voter] = term[candidate]]
  /\ role' = [role EXCEPT ![voter] = "Follower"]
  /\ votedFor' = [votedFor EXCEPT ![voter] = candidate]
  /\ votes' = [votes EXCEPT ![candidate] = @ \cup {voter}]
  /\ UNCHANGED <<log, commit>>

BecomeLeader(n) ==
  /\ role[n] = "Candidate"
  /\ IsQuorum(votes[n])
  /\ role' = [role EXCEPT ![n] = "Leader"]
  /\ UNCHANGED <<term, votedFor, votes, log, commit>>

ClientRequest(leader) ==
  /\ role[leader] = "Leader"
  /\ Len(log[leader]) < MaxLog
  /\ log' = [log EXCEPT ![leader] = Append(@, term[leader])]
  /\ UNCHANGED <<electionVars, commit>>

\* Fault: a deposed leader still appends.
AppendFromAnyLeader(leader, follower) ==
  /\ leader # follower
  /\ role[leader] = "Leader"
  /\ role' = [role EXCEPT ![follower] = "Follower"]
  /\ log' = [log EXCEPT ![follower] = log[leader]]
  /\ commit' = [commit EXCEPT ![follower] = Larger(@, commit[leader])]
  /\ UNCHANGED <<term, votedFor, votes>>

AppendEntries(leader, follower) ==
  /\ leader # follower
  /\ role[leader] = "Leader"
  /\ term[leader] >= term[follower]
  /\ term' = [term EXCEPT ![follower] = term[leader]]
  /\ role' = [role EXCEPT ![follower] = "Follower"]
  /\ log' = [log EXCEPT ![follower] = log[leader]]
  /\ commit' = [commit EXCEPT ![follower] = Larger(@, commit[leader])]
  /\ UNCHANGED <<votedFor, votes>>

\* Fault: an entry counts as stored where any entry has its index.
CommitAnyEntry(leader, i) ==
  /\ role[leader] = "Leader"
  /\ i > commit[leader]
  /\ IsQuorum({n \in Node : i <= Len(log[n])})
  /\ commit' = [commit EXCEPT ![leader] = i]
  /\ UNCHANGED <<electionVars, log>>

\* The nodes are searched for an entry of the leader's term at this index; the
\* leader is only one of them.
Commit(leader, i) ==
  /\ role[leader] = "Leader"
  /\ i > commit[leader]
  /\ IsQuorum({n \in Node : Holds(n, i, term[leader])})
  /\ commit' = [commit EXCEPT ![leader] = i]
  /\ UNCHANGED <<electionVars, log>>

RaftNext ==
  \/ \E n \in Node :
       \/ Timeout(n)
       \/ BecomeLeader(n)
       \/ ClientRequest(n)
       \/ \E i \in 1 .. MaxLog : Commit(n, i)
  \/ \E m, n \in Node : GrantVote(m, n) \/ AppendEntries(m, n)

RaftSpec == RaftInit /\ [][RaftNext]_raftVars

-----------------------------------------------------------------------------
(* Properties. *)

\* No two nodes lead in the same term, though votes are kept across terms and
\* a candidate counts them in a later call than the one that won them
\* (electionSafety of model.qnt).
ElectionSafety ==
  \A m, n \in Node :
    role[m] = "Leader" /\ role[n] = "Leader" /\ term[m] = term[n] => m = n

\* A leader holds what every node of its term or an older one has learned: no
\* election can lose a committed entry, though only the voters' last entries
\* are compared.
LeaderCompleteness ==
  \A n, leader \in Node :
    role[leader] = "Leader" /\ term[n] <= term[leader] =>
      \A i \in 1 .. commit[n] :
        i <= Len(log[n]) /\ Holds(leader, i, log[n][i])

\* commit never points past the log, though neither commit nor the append of
\* a shorter log looks at the length, and a committed entry stays on a
\* majority from the moment it commits (committedOnMajority of model.qnt).
CommittedOnMajority ==
  \A n \in Node : \A i \in 1 .. commit[n] :
    /\ i <= Len(log[n])
    /\ IsQuorum({m \in Node : Holds(m, i, log[n][i])})

\* The committed entries of a node's log; one it has lost reads as term 0.
Learned ==
  [n \in Node |->
     [i \in 1 .. commit[n] |-> IF i <= Len(log[n]) THEN log[n][i] ELSE 0]]

\* "Nodes agree on every entry either has committed" (committedAgree of
\* model.qnt).
CommittedAgree ==
  \A m, n \in Node : \A i \in 1 .. commit[m] :
    i <= commit[n] => Learned[m][i] = Learned[n][i]

\* The elections and appends implement the agreement the examples promise: no
\* stale leader, late append or shorter log makes a node forget or rewrite an
\* entry it has learned.
Agreed == INSTANCE Consensus WITH learned <- Learned
RaftImplementsConsensus == Agreed!ConsensusSpec
==============================================================================
