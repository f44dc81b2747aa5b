-------------------------- MODULE RaftNetwork_proofs --------------------------
(***************************************************************************)
(* What the two clusters guarantee for every number of nodes, every bound  *)
(* on the terms and every log length: first the one of direct calls        *)
(* (examples/rust/raft), then the one of messages (raft_network), for      *)
(* every order of deliveries, losses and duplicates.                       *)
(***************************************************************************)
EXTENDS RaftNetwork, TLAPS, FiniteSetTheorems

(* The cluster of direct calls. *)

\* Two quorums of the cluster share a node.
LEMMA QuorumsIntersect ==
  ASSUME NEW P \in SUBSET Node, NEW Q \in SUBSET Node, IsQuorum(P), IsQuorum(Q)
  PROVE  P \cap Q # {}
<1>1. Cardinality(Node) \in Nat
  BY NodeAssumption, FS_CardinalityType
<1>2. Cardinality(P) \in Nat /\ Cardinality(Q) \in Nat
  BY NodeAssumption, FS_Subset, FS_CardinalityType
<1>3. Cardinality(P) + Cardinality(Q) > Cardinality(Node)
  BY <1>1, <1>2 DEF IsQuorum
<1> QED
  BY <1>3, NodeAssumption, FS_MajoritiesIntersect

\* Every action leaves the types as they are.
LEMMA RaftTypeStep ==
  ASSUME RaftTypeOK, [RaftNext]_raftVars
  PROVE  RaftTypeOK'
<1> USE DEF RaftTypeOK
<1>1. ASSUME NEW n \in Node, Timeout(n)
      PROVE  RaftTypeOK'
  BY <1>1 DEF Timeout, Roles
<1>2. ASSUME NEW n \in Node, BecomeLeader(n)
      PROVE  RaftTypeOK'
  BY <1>2 DEF BecomeLeader, Roles
<1>3. ASSUME NEW n \in Node, ClientRequest(n)
      PROVE  RaftTypeOK'
  <2>1. Append(log[n], term[n]) \in Seq(Nat)
    OBVIOUS
  <2> QED
    BY <1>3, <2>1 DEF ClientRequest, electionVars
<1>4. ASSUME NEW n \in Node, NEW i \in 1 .. MaxLog, Commit(n, i)
      PROVE  RaftTypeOK'
  BY <1>4, RaftBounds DEF Commit, electionVars
<1>5. ASSUME NEW m \in Node, NEW n \in Node, GrantVote(m, n)
      PROVE  RaftTypeOK'
  BY <1>5 DEF GrantVote, Roles
<1>6. ASSUME NEW m \in Node, NEW n \in Node, AppendEntries(m, n)
      PROVE  RaftTypeOK'
  BY <1>6 DEF AppendEntries, Roles, Larger
<1>7. CASE UNCHANGED raftVars
  BY <1>7 DEF raftVars
<1> QED
  BY <1>1, <1>2, <1>3, <1>4, <1>5, <1>6, <1>7 DEF RaftNext

LEMMA RaftTypeInit == RaftInit => RaftTypeOK
  BY DEF RaftInit, RaftTypeOK, Roles

\* Type correctness of the cluster whose nodes call each other.
THEOREM RaftTyped == RaftSpec => []RaftTypeOK
  BY RaftTypeInit, RaftTypeStep, PTL DEF RaftSpec

-----------------------------------------------------------------------------
\* A candidate or a leader: its votes are those of its current term. The
\* votes of a follower are left over from an older election.
Campaigns(n) == role[n] # "Follower"

\* Who has voted for a candidate has been in its term, and never returns to an
\* older one.
VotersHaveSeenTerm ==
  \A n \in Node : Campaigns(n) => \A v \in votes[n] : term[v] >= term[n]

\* A node has one vote in a term, although nothing looks at voted_for.
VotesAreSingle ==
  \A m, n \in Node :
    Campaigns(m) /\ Campaigns(n) /\ term[m] = term[n] /\ votes[m] \cap votes[n] # {}
      => m = n

LeadersHaveQuorums ==
  \A n \in Node : role[n] = "Leader" => IsQuorum(votes[n])

\* The inductive invariant behind ElectionSafety.
ElectionInv ==
  /\ RaftTypeOK
  /\ VotersHaveSeenTerm
  /\ VotesAreSingle
  /\ LeadersHaveQuorums

LEMMA ElectionInit == RaftInit => ElectionInv
<1> SUFFICES ASSUME RaftInit PROVE ElectionInv
  OBVIOUS
<1>1. \A n \in Node : role[n] = "Follower"
  BY DEF RaftInit
<1> QED
  BY <1>1, RaftTypeInit
  DEF ElectionInv, VotersHaveSeenTerm, VotesAreSingle, LeadersHaveQuorums, Campaigns

LEMMA ElectionStep ==
  ASSUME ElectionInv, [RaftNext]_raftVars
  PROVE  ElectionInv'
<1>0. RaftTypeOK /\ RaftTypeOK'
  BY RaftTypeStep DEF ElectionInv
<1> USE DEF Campaigns
<1>1. ASSUME NEW n \in Node, Timeout(n)
      PROVE  ElectionInv'
  <2>1. /\ term' = [term EXCEPT ![n] = term[n] + 1]
        /\ role' = [role EXCEPT ![n] = "Candidate"]
        /\ votes' = [votes EXCEPT ![n] = {n}]
    BY <1>1 DEF Timeout
  <2>2. VotersHaveSeenTerm'
    BY <1>0, <2>1 DEF ElectionInv, VotersHaveSeenTerm, RaftTypeOK
  <2>3. VotesAreSingle'
    <3> SUFFICES ASSUME NEW a \in Node, NEW b \in Node, Campaigns(a)', Campaigns(b)',
                        term'[a] = term'[b], NEW v \in votes'[a], v \in votes'[b]
                 PROVE  a = b
      BY DEF VotesAreSingle
    <3>1. CASE a # n /\ b # n
      BY <1>0, <2>1, <3>1 DEF ElectionInv, VotesAreSingle, RaftTypeOK
    <3>2. ASSUME NEW c \in Node, c # n, Campaigns(c), n \in votes[c]
          PROVE  term'[c] # term'[n]
      BY <1>0, <2>1, <3>2 DEF ElectionInv, VotersHaveSeenTerm, RaftTypeOK
    <3> QED
      BY <1>0, <2>1, <3>1, <3>2 DEF RaftTypeOK
  <2>4. LeadersHaveQuorums'
    BY <1>0, <2>1 DEF ElectionInv, LeadersHaveQuorums, IsQuorum, RaftTypeOK
  <2> QED
    BY <1>0, <2>2, <2>3, <2>4 DEF ElectionInv
<1>2. ASSUME NEW n \in Node, BecomeLeader(n)
      PROVE  ElectionInv'
  BY <1>0, <1>2
  DEF BecomeLeader, ElectionInv, VotersHaveSeenTerm, VotesAreSingle,
      LeadersHaveQuorums, IsQuorum, RaftTypeOK
<1>3. ASSUME NEW v \in Node, NEW n \in Node, GrantVote(v, n)
      PROVE  ElectionInv'
  <2>1. /\ role[n] = "Candidate"
        /\ term[n] > term[v]
        /\ term' = [term EXCEPT ![v] = term[n]]
        /\ role' = [role EXCEPT ![v] = "Follower"]
        /\ votes' = [votes EXCEPT ![n] = votes[n] \cup {v}]
    BY <1>3 DEF GrantVote
  <2>2. /\ \A x \in Node : term[x] \in Nat /\ votes[x] \subseteq Node
        /\ \A x \in Node : term'[x] = IF x = v THEN term[n] ELSE term[x]
        /\ \A x \in Node : role'[x] = IF x = v THEN "Follower" ELSE role[x]
        /\ \A x \in Node : votes'[x] = IF x = n THEN votes[n] \cup {v} ELSE votes[x]
    BY <1>0, <2>1 DEF RaftTypeOK
  <2>6. n # v
    BY <2>1, <2>2
  <2>7. \A x \in Node : Campaigns(x)' => x # v /\ Campaigns(x) /\ term'[x] = term[x]
    BY <2>2
  <2>3. VotersHaveSeenTerm'
    <3> SUFFICES ASSUME NEW x \in Node, Campaigns(x)', NEW w \in votes'[x]
                 PROVE  term'[w] >= term'[x]
      BY DEF VotersHaveSeenTerm
    <3>1. Campaigns(x) /\ term'[x] = term[x]
      BY <2>7
    <3>2. CASE w = v /\ x = n
      BY <2>2, <2>6, <3>2
    <3>3. CASE w \in votes[x]
      <4>1. term[w] >= term[x] /\ w \in Node
        BY <2>2, <3>1, <3>3 DEF ElectionInv, VotersHaveSeenTerm
      <4>2. term'[w] >= term[w]
        BY <2>1, <2>2, <4>1
      <4> QED
        BY <2>2, <3>1, <4>1, <4>2
    <3> QED
      BY <2>2, <3>2, <3>3
  <2>4. VotesAreSingle'
    <3> SUFFICES ASSUME NEW a \in Node, NEW b \in Node, Campaigns(a)', Campaigns(b)',
                        term'[a] = term'[b], NEW w \in votes'[a], w \in votes'[b]
                 PROVE  a = b
      BY DEF VotesAreSingle
    <3>1. /\ Campaigns(a) /\ Campaigns(b)
          /\ term[a] = term[b]
      BY <2>7
    <3>2. CASE w \in votes[a] /\ w \in votes[b]
      BY <3>1, <3>2 DEF ElectionInv, VotesAreSingle
    <3>3. ASSUME NEW c \in Node, Campaigns(c), term[c] = term[n]
          PROVE  v \notin votes[c]
      <4>1. ~(term[v] >= term[c])
        BY <2>1, <2>2, <3>3
      <4> QED
        BY <3>3, <4>1 DEF ElectionInv, VotersHaveSeenTerm
    <3>4. /\ a # n => w \in votes[a]
          /\ b # n => w \in votes[b]
      BY <2>2
    <3>5. CASE w # v
      BY <2>2, <3>2, <3>5
    <3>6. CASE w = v
      BY <3>1, <3>2, <3>3, <3>4, <3>6
    <3> QED
      BY <3>5, <3>6
  <2>5. LeadersHaveQuorums'
    BY <1>0, <2>1 DEF ElectionInv, LeadersHaveQuorums, IsQuorum, RaftTypeOK
  <2> QED
    BY <1>0, <2>3, <2>4, <2>5 DEF ElectionInv
<1>4. ASSUME NEW m \in Node, NEW n \in Node, AppendEntries(m, n)
      PROVE  ElectionInv'
  <2>1. /\ term[m] >= term[n]
        /\ term' = [term EXCEPT ![n] = term[m]]
        /\ role' = [role EXCEPT ![n] = "Follower"]
        /\ votes' = votes
    BY <1>4 DEF AppendEntries
  <2>5. /\ \A x \in Node : term[x] \in Nat /\ votes[x] \subseteq Node
        /\ \A x \in Node : term'[x] = IF x = n THEN term[m] ELSE term[x]
        /\ \A x \in Node : role'[x] = IF x = n THEN "Follower" ELSE role[x]
    BY <1>0, <2>1 DEF RaftTypeOK
  <2>2. VotersHaveSeenTerm'
    <3> SUFFICES ASSUME NEW x \in Node, Campaigns(x)', NEW w \in votes[x]
                 PROVE  term'[w] >= term'[x]
      BY <2>1 DEF VotersHaveSeenTerm
    <3>1. x # n /\ Campaigns(x) /\ term'[x] = term[x] /\ w \in Node
      BY <2>5
    <3>2. term[w] >= term[x]
      BY <3>1 DEF ElectionInv, VotersHaveSeenTerm
    <3>3. term'[w] >= term[w]
      BY <2>1, <2>5, <3>1
    <3> QED
      BY <2>5, <3>1, <3>2, <3>3
  <2>3. VotesAreSingle'
    BY <1>0, <2>1 DEF ElectionInv, VotesAreSingle, RaftTypeOK
  <2>4. LeadersHaveQuorums'
    BY <1>0, <2>1 DEF ElectionInv, LeadersHaveQuorums, IsQuorum, RaftTypeOK
  <2> QED
    BY <1>0, <2>2, <2>3, <2>4 DEF ElectionInv
<1>5. ASSUME UNCHANGED electionVars
      PROVE  ElectionInv'
  BY <1>0, <1>5
  DEF electionVars, ElectionInv, VotersHaveSeenTerm, VotesAreSingle,
      LeadersHaveQuorums, IsQuorum
<1>6. ASSUME NEW n \in Node, NEW i \in 1 .. MaxLog, Commit(n, i)
      PROVE  UNCHANGED electionVars
  BY <1>6 DEF Commit
<1>7. ASSUME NEW n \in Node, ClientRequest(n)
      PROVE  UNCHANGED electionVars
  BY <1>7 DEF ClientRequest
<1>8. CASE UNCHANGED raftVars
  BY <1>5, <1>8 DEF raftVars, electionVars
<1> QED
  BY <1>1, <1>2, <1>3, <1>4, <1>5, <1>6, <1>7, <1>8 DEF RaftNext

LEMMA ElectionInvIsSafe == ElectionInv => ElectionSafety
<1> SUFFICES ASSUME ElectionInv, NEW m \in Node, NEW n \in Node,
                    role[m] = "Leader", role[n] = "Leader", term[m] = term[n]
             PROVE  m = n
  BY DEF ElectionSafety
<1>1. IsQuorum(votes[m]) /\ IsQuorum(votes[n])
  BY DEF ElectionInv, LeadersHaveQuorums
<1>2. votes[m] \in SUBSET Node /\ votes[n] \in SUBSET Node
  BY DEF ElectionInv, RaftTypeOK
<1>3. votes[m] \cap votes[n] # {}
  BY <1>1, <1>2, QuorumsIntersect
<1> QED
  BY <1>3 DEF ElectionInv, VotesAreSingle, Campaigns

\* No two nodes of the direct-call cluster lead in the same term, for any
\* number of nodes and terms.
THEOREM RaftElectionSafe == RaftSpec => []ElectionSafety
<1>1. RaftSpec => []ElectionInv
  BY ElectionInit, ElectionStep, PTL DEF RaftSpec
<1> QED
  BY <1>1, ElectionInvIsSafe, PTL
-----------------------------------------------------------------------------
(* The logs, for clusters of every size. *)

\* A quorum has gone beyond term t without leaving a vote to anybody who still
\* campaigns in it: nobody else can be elected in t.
Elected(t) ==
  \E Q \in SUBSET Node :
    /\ IsQuorum(Q)
    /\ \A v \in Q :
         /\ term[v] >= t
         /\ \A c \in Node : role[c] = "Candidate" /\ term[c] = t => v \notin votes[c]

\* Entries are written by elected leaders only.
TermsWereWon ==
  /\ \A l \in Node : role[l] = "Leader" => Elected(term[l])
  /\ \A n \in Node : \A i \in 1 .. Len(log[n]) : Elected(log[n][i])

LogsOrdered ==
  \A n \in Node : \A i, j \in 1 .. Len(log[n]) : i <= j => log[n][i] <= log[n][j]

LogsBehindTerm ==
  \A n \in Node : \A i \in 1 .. Len(log[n]) : log[n][i] <= term[n]

\* Two logs with an entry of the same term, at one index or at two, are the same
\* up to the smaller one.
LogsMatch ==
  \A m, n \in Node : \A i \in 1 .. Len(log[m]) : \A j \in 1 .. Len(log[n]) :
    i <= j /\ log[m][i] = log[n][j] => \A k \in 1 .. i : log[m][k] = log[n][k]

\* Nobody has an entry of a leader's term that the leader does not have.
LeadersHoldOwn ==
  \A l, n \in Node : role[l] = "Leader" =>
    \A i \in 1 .. Len(log[n]) : log[n][i] = term[l] => Holds(l, i, term[l])

\* The inductive invariant of the logs.
LogInv ==
  /\ ElectionInv
  /\ TermsWereWon
  /\ LogsOrdered
  /\ LogsBehindTerm
  /\ LogsMatch
  /\ LeadersHoldOwn

LEMMA LogInit == RaftInit => LogInv
<1> SUFFICES ASSUME RaftInit PROVE LogInv
  OBVIOUS
<1>1. \A n \in Node : role[n] = "Follower" /\ log[n] = <<>> /\ Len(log[n]) = 0
  BY DEF RaftInit
<1> QED
  BY <1>1, ElectionInit
  DEF LogInv, TermsWereWon, LogsOrdered, LogsBehindTerm, LogsMatch, LeadersHoldOwn

\* Who leads after a step led before it in the same term, or has just been
\* elected; who is a candidate was one with the same votes, has just timed out,
\* or has been granted one vote by a node of an older term. No term shrinks.
LEMMA RolesStep ==
  ASSUME RaftTypeOK, [RaftNext]_raftVars, NEW n \in Node
  PROVE  /\ term'[n] >= term[n]
         /\ role'[n] = "Leader" =>
              /\ term'[n] = term[n] /\ votes'[n] = votes[n]
              /\ role[n] = "Leader" \/ (role[n] = "Candidate" /\ BecomeLeader(n))
         /\ role'[n] = "Candidate" =>
              \/ term'[n] = term[n] + 1 /\ votes'[n] = {n}
              \/ /\ role[n] = "Candidate" /\ term'[n] = term[n]
                 /\ \A v \in votes'[n] :
                      v \in votes[n] \/ (v \in Node /\ term[v] < term[n] /\ GrantVote(v, n))
<1> USE DEF RaftTypeOK, Roles
<1>0. term[n] \in Nat
  OBVIOUS
<1>1. ASSUME NEW a \in Node, Timeout(a)
      PROVE  /\ term'[n] = IF n = a THEN term[n] + 1 ELSE term[n]
             /\ role'[n] = IF n = a THEN "Candidate" ELSE role[n]
             /\ votes'[n] = IF n = a THEN {n} ELSE votes[n]
  BY <1>1 DEF Timeout
<1>2. ASSUME NEW a \in Node, BecomeLeader(a)
      PROVE  /\ term'[n] = term[n] /\ votes'[n] = votes[n]
             /\ role'[n] = IF n = a THEN "Leader" ELSE role[n]
  BY <1>2 DEF BecomeLeader
<1>3. ASSUME NEW a \in Node, BecomeLeader(a)
      PROVE  role[a] = "Candidate"
  BY <1>3 DEF BecomeLeader
<1>4. ASSUME UNCHANGED electionVars
      PROVE  term'[n] = term[n] /\ role'[n] = role[n] /\ votes'[n] = votes[n]
  BY <1>4 DEF electionVars
<1>5. ASSUME NEW v \in Node, NEW c \in Node, GrantVote(v, c)
      PROVE  /\ term[v] < term[c] /\ role[c] = "Candidate"
             /\ term'[n] = IF n = v THEN term[c] ELSE term[n]
             /\ role'[n] = IF n = v THEN "Follower" ELSE role[n]
             /\ votes'[n] = IF n = c THEN votes[n] \cup {v} ELSE votes[n]
  BY <1>5 DEF GrantVote
<1>6. ASSUME NEW a \in Node, NEW b \in Node, AppendEntries(a, b)
      PROVE  /\ term[a] >= term[b]
             /\ term'[n] = IF n = b THEN term[a] ELSE term[n]
             /\ role'[n] = IF n = b THEN "Follower" ELSE role[n]
             /\ votes'[n] = votes[n]
  BY <1>6 DEF AppendEntries
<1> HIDE DEF RaftTypeOK, Roles
<1>7. \A a \in Node : term[a] \in Nat
  BY DEF RaftTypeOK
<1>8. CASE \E a \in Node : Timeout(a)
  BY <1>1, <1>7, <1>8
<1>9. CASE \E a \in Node : BecomeLeader(a)
  BY <1>2, <1>3, <1>7, <1>9
<1>10. CASE \E v, c \in Node : GrantVote(v, c)
  <2>1. PICK v \in Node, c \in Node : GrantVote(v, c)
    BY <1>10
  <2>2. /\ term[v] < term[c] /\ role[c] = "Candidate"
        /\ term'[n] = IF n = v THEN term[c] ELSE term[n]
        /\ role'[n] = IF n = v THEN "Follower" ELSE role[n]
        /\ votes'[n] = IF n = c THEN votes[n] \cup {v} ELSE votes[n]
    BY <1>5, <2>1
  <2> QED
    BY <1>7, <2>1, <2>2
<1>11. CASE \E a, b \in Node : AppendEntries(a, b)
  BY <1>6, <1>7, <1>11
<1>12. CASE UNCHANGED electionVars
  BY <1>4, <1>7, <1>12
<1>13. ASSUME (\E a \in Node : ClientRequest(a) \/ \E i \in 1 .. MaxLog : Commit(a, i))
                \/ UNCHANGED raftVars
       PROVE  UNCHANGED electionVars
  BY <1>13 DEF ClientRequest, Commit, raftVars, electionVars
<1> QED
  BY <1>8, <1>9, <1>10, <1>11, <1>12, <1>13 DEF RaftNext

\* A log only grows at its leader, by an entry of its term, or becomes that of a
\* leader that is at least as new.
LEMMA LogsStep ==
  ASSUME RaftTypeOK, [RaftNext]_raftVars
  PROVE  \/ log' = log
         \/ \E l \in Node :
              /\ role[l] = "Leader" /\ UNCHANGED <<term, role, votes, commit>>
              /\ \A n \in Node : log'[n] = IF n = l THEN Append(log[l], term[l]) ELSE log[n]
         \/ \E l, f \in Node :
              /\ l # f /\ role[l] = "Leader" /\ term[l] >= term[f] /\ votes' = votes
              /\ \A n \in Node :
                   /\ log'[n] = IF n = f THEN log[l] ELSE log[n]
                   /\ term'[n] = IF n = f THEN term[l] ELSE term[n]
                   /\ role'[n] = IF n = f THEN "Follower" ELSE role[n]
                   /\ commit'[n] = IF n = f THEN Larger(commit[f], commit[l]) ELSE commit[n]
<1>1. ASSUME NEW l \in Node, ClientRequest(l)
      PROVE  /\ role[l] = "Leader" /\ UNCHANGED <<term, role, votes, commit>>
             /\ \A n \in Node : log'[n] = IF n = l THEN Append(log[l], term[l]) ELSE log[n]
  BY <1>1 DEF ClientRequest, electionVars, RaftTypeOK
<1>2. ASSUME NEW l \in Node, NEW f \in Node, AppendEntries(l, f)
      PROVE  /\ l # f /\ role[l] = "Leader" /\ term[l] >= term[f] /\ votes' = votes
             /\ \A n \in Node :
                  /\ log'[n] = IF n = f THEN log[l] ELSE log[n]
                  /\ term'[n] = IF n = f THEN term[l] ELSE term[n]
                  /\ role'[n] = IF n = f THEN "Follower" ELSE role[n]
                  /\ commit'[n] = IF n = f THEN Larger(commit[f], commit[l]) ELSE commit[n]
  BY <1>2 DEF AppendEntries, RaftTypeOK
<1>3. ASSUME UNCHANGED raftVars
             \/ (\E n \in Node : Timeout(n) \/ BecomeLeader(n) \/ \E i \in 1 .. MaxLog : Commit(n, i))
             \/ (\E m, n \in Node : GrantVote(m, n))
      PROVE  log' = log
  BY <1>3 DEF raftVars, Timeout, BecomeLeader, Commit, GrantVote
<1> QED
  BY <1>1, <1>2, <1>3 DEF RaftNext

\* Once won, a term stays won.
LEMMA ElectedStays ==
  ASSUME RaftTypeOK, RaftTypeOK', [RaftNext]_raftVars, NEW t \in Nat, Elected(t)
  PROVE  Elected(t)'
<1>1. PICK Q \in SUBSET Node :
        /\ IsQuorum(Q)
        /\ \A v \in Q :
             /\ term[v] >= t
             /\ \A c \in Node : role[c] = "Candidate" /\ term[c] = t => v \notin votes[c]
  BY DEF Elected
<1>2. \A n \in Node : term[n] \in Nat /\ term'[n] \in Nat
  BY DEF RaftTypeOK
<1>3. ASSUME NEW v \in Q
      PROVE  /\ term'[v] >= t
             /\ \A c \in Node : role'[c] = "Candidate" /\ term'[c] = t => v \notin votes'[c]
  BY <1>1, <1>2, <1>3, RolesStep
<1> QED
  BY <1>1, <1>3 DEF Elected, IsQuorum

LEMMA TermsWereWonStep ==
  ASSUME LogInv, ElectionInv', [RaftNext]_raftVars
  PROVE  TermsWereWon'
<1>1. RaftTypeOK /\ RaftTypeOK'
  BY DEF LogInv, ElectionInv
<1>2. \A t \in Nat : Elected(t) => Elected(t)'
  BY <1>1, ElectedStays
<1>3. \A n \in Node : term[n] \in Nat /\ log[n] \in Seq(Nat)
  BY <1>1 DEF RaftTypeOK
\* The votes that elect a leader close its term to all others.
<1>4. ASSUME NEW l \in Node, NEW t \in Nat, t = term[l], role[l] = "Candidate", BecomeLeader(l)
      PROVE  Elected(t)'
  <2>1. /\ role' = [role EXCEPT ![l] = "Leader"] /\ IsQuorum(votes[l])
        /\ term' = term /\ votes' = votes
    BY <1>4 DEF BecomeLeader
  <2>2. votes[l] \in SUBSET Node /\ role \in [Node -> Roles]
    BY <1>1 DEF RaftTypeOK
  <2>3. \A v \in votes[l] : term[v] >= t
    BY <1>4 DEF LogInv, ElectionInv, VotersHaveSeenTerm, Campaigns
  <2>4. ASSUME NEW v \in votes[l], NEW c \in Node, role'[c] = "Candidate", term[c] = t
        PROVE  v \notin votes[c]
    <3>1. c # l /\ role[c] = "Candidate"
      BY <2>1, <2>2, <2>4
    <3> QED
      BY <1>4, <2>4, <3>1 DEF LogInv, ElectionInv, VotesAreSingle, Campaigns
  <2> QED
    BY <2>1, <2>2, <2>3, <2>4 DEF Elected, IsQuorum
<1>5. ASSUME NEW l \in Node, NEW t \in Nat, role'[l] = "Leader", t = term'[l]
      PROVE  Elected(t)'
  <2>1. t = term[l] /\ (role[l] = "Leader" \/ (role[l] = "Candidate" /\ BecomeLeader(l)))
    BY <1>1, <1>5, RolesStep
  <2>2. CASE role[l] = "Leader"
    BY <1>2, <2>1, <2>2 DEF LogInv, TermsWereWon
  <2> QED
    BY <1>4, <2>1, <2>2
<1>6. ASSUME NEW n \in Node, NEW i \in 1 .. Len(log[n]), NEW t \in Nat, t = log[n][i]
      PROVE  Elected(t)'
  BY <1>2, <1>6 DEF LogInv, TermsWereWon
<1>7. ASSUME NEW n \in Node, NEW i \in 1 .. Len(log'[n]), NEW t \in Nat, t = log'[n][i]
      PROVE  Elected(t)'
  <2>1. CASE log' = log
    BY <1>6, <1>7, <2>1
  <2>2. ASSUME NEW l \in Node, role[l] = "Leader",
               log'[n] = IF n = l THEN Append(log[l], term[l]) ELSE log[n]
        PROVE  Elected(t)'
    <3>1. CASE n # l
      BY <1>6, <1>7, <2>2, <3>1
    <3>2. CASE n = l /\ i <= Len(log[l])
      <4>1. i \in 1 .. Len(log[l]) /\ log'[n][i] = log[l][i]
        BY <1>3, <1>7, <2>2, <3>2
      <4> QED
        BY <1>6, <1>7, <4>1
    <3>3. CASE n = l /\ ~(i <= Len(log[l]))
      <4>1. t = term[l]
        BY <1>3, <1>7, <2>2, <3>3
      <4> QED
        BY <1>2, <2>2, <4>1 DEF LogInv, TermsWereWon
    <3> QED
      BY <3>1, <3>2, <3>3
  <2>3. ASSUME NEW l \in Node, NEW f \in Node, log'[n] = IF n = f THEN log[l] ELSE log[n]
        PROVE  Elected(t)'
    BY <1>6, <1>7, <2>3
  <2> QED
    BY <1>1, <2>1, <2>2, <2>3, LogsStep
<1>8. \A n \in Node : term'[n] \in Nat /\ log'[n] \in Seq(Nat)
  BY <1>1 DEF RaftTypeOK
<1>9. \A n \in Node : \A i \in 1 .. Len(log'[n]) : log'[n][i] \in Nat
  BY <1>8
<1> QED
  BY <1>5, <1>7, <1>8, <1>9 DEF TermsWereWon

\* The entries of a log after its leader's append.
LEMMA Grown ==
  ASSUME RaftTypeOK, NEW l \in Node, log'[l] = Append(log[l], term[l])
  PROVE  /\ Len(log'[l]) = Len(log[l]) + 1 /\ Len(log[l]) \in Nat
         /\ \A i \in 1 .. Len(log'[l]) :
              /\ i = Len(log[l]) + 1 \/ i \in 1 .. Len(log[l])
              /\ log'[l][i] = IF i = Len(log[l]) + 1 THEN term[l] ELSE log[l][i]
<1> DEFINE s == log[l]
           r == Append(s, term[l])
<1>1. s \in Seq(Nat) /\ term[l] \in Nat
  BY DEF RaftTypeOK
<1> HIDE DEF s
<1>2. /\ Len(r) = Len(s) + 1 /\ Len(s) \in Nat
      /\ \A i \in 1 .. Len(r) :
           /\ i = Len(s) + 1 \/ i \in 1 .. Len(s)
           /\ r[i] = IF i = Len(s) + 1 THEN term[l] ELSE s[i]
  BY <1>1
<1>3. log'[l] = r
  BY DEF s
<1> HIDE DEF r
<1> QED
  BY <1>2, <1>3 DEF s

LEMMA LogsOrderedStep ==
  ASSUME LogInv, RaftTypeOK', [RaftNext]_raftVars
  PROVE  LogsOrdered' /\ LogsBehindTerm'
<1>1. RaftTypeOK /\ LogsOrdered /\ LogsBehindTerm
  BY DEF LogInv, ElectionInv
<1>2. \A n \in Node : /\ term[n] \in Nat /\ term'[n] \in Nat /\ term'[n] >= term[n]
                      /\ log[n] \in Seq(Nat)
  BY <1>1, RolesStep DEF RaftTypeOK
<1>3. \A n \in Node : \A i \in 1 .. Len(log[n]) : log[n][i] \in Nat
  BY <1>2
<1>4. CASE log' = log
  BY <1>1, <1>2, <1>3, <1>4 DEF LogsOrdered, LogsBehindTerm
<1>5. ASSUME NEW l \in Node, term' = term,
             \A n \in Node : log'[n] = IF n = l THEN Append(log[l], term[l]) ELSE log[n]
      PROVE  LogsOrdered' /\ LogsBehindTerm'
  <2>1. \A i \in 1 .. Len(log'[l]) :
          /\ i = Len(log[l]) + 1 \/ i \in 1 .. Len(log[l])
          /\ log'[l][i] = IF i = Len(log[l]) + 1 THEN term[l] ELSE log[l][i]
    BY <1>1, <1>5, Grown
  <2>2. Len(log'[l]) = Len(log[l]) + 1 /\ Len(log[l]) \in Nat
    BY <1>1, <1>5, Grown
  <2>3. ASSUME NEW n \in Node, NEW i \in 1 .. Len(log'[n]), NEW j \in 1 .. Len(log'[n]), i <= j
        PROVE  log'[n][i] <= log'[n][j] /\ log'[n][j] <= term'[n]
    <3>1. CASE n # l
      BY <1>1, <1>5, <2>3, <3>1 DEF LogsOrdered, LogsBehindTerm
    <3>2. CASE n = l /\ j \in 1 .. Len(log[l])
      <4>1. i \in 1 .. Len(log[l]) /\ log'[n][i] = log[l][i] /\ log'[n][j] = log[l][j]
        BY <2>1, <2>2, <2>3, <3>2
      <4> QED
        BY <1>1, <1>5, <2>3, <3>2, <4>1 DEF LogsOrdered, LogsBehindTerm
    <3>3. CASE n = l /\ j = Len(log[l]) + 1
      <4>1. log'[n][j] = term[l]
        BY <2>1, <2>3, <3>3
      <4>2. i \in 1 .. Len(log[l]) => log[l][i] <= term[l]
        BY <1>1 DEF LogsBehindTerm
      <4> QED
        BY <1>2, <1>5, <2>1, <2>3, <3>3, <4>1, <4>2
    <3> QED
      BY <2>1, <2>3, <3>1, <3>2, <3>3
  <2> QED
    BY <2>3, <1>2 DEF LogsOrdered, LogsBehindTerm
<1>6. ASSUME NEW l \in Node, NEW f \in Node,
             \A n \in Node : /\ log'[n] = IF n = f THEN log[l] ELSE log[n]
                             /\ term'[n] = IF n = f THEN term[l] ELSE term[n]
      PROVE  LogsOrdered' /\ LogsBehindTerm'
  BY <1>1, <1>2, <1>3, <1>6 DEF LogsOrdered, LogsBehindTerm
<1> QED
  BY <1>1, <1>4, <1>5, <1>6, LogsStep

LEMMA LogsMatchStep ==
  ASSUME LogInv, RaftTypeOK', [RaftNext]_raftVars
  PROVE  LogsMatch'
<1>1. RaftTypeOK /\ LogsMatch /\ LeadersHoldOwn
  BY DEF LogInv, ElectionInv
<1>2. \A n \in Node : term[n] \in Nat /\ log[n] \in Seq(Nat)
  BY <1>1 DEF RaftTypeOK
<1>3. CASE log' = log
  BY <1>1, <1>3 DEF LogsMatch
<1>4. ASSUME NEW l \in Node, role[l] = "Leader",
             \A n \in Node : log'[n] = IF n = l THEN Append(log[l], term[l]) ELSE log[n]
      PROVE  LogsMatch'
  <2>1. \A i \in 1 .. Len(log'[l]) :
          /\ i = Len(log[l]) + 1 \/ i \in 1 .. Len(log[l])
          /\ log'[l][i] = IF i = Len(log[l]) + 1 THEN term[l] ELSE log[l][i]
    BY <1>1, <1>4, Grown
  <2>2. Len(log'[l]) = Len(log[l]) + 1 /\ Len(log[l]) \in Nat
    BY <1>1, <1>4, Grown
  <2>3. ASSUME NEW n \in Node, NEW i \in 1 .. Len(log[n])
        PROVE  i \in 1 .. Len(log'[n]) /\ log'[n][i] = log[n][i]
    BY <1>4, <2>1, <2>2, <2>3
  <2>4. ASSUME NEW n \in Node, NEW i \in 1 .. Len(log'[n])
        PROVE  i \in 1 .. Len(log[n]) \/ (n = l /\ i = Len(log[l]) + 1 /\ log'[n][i] = term[l])
    BY <1>4, <2>1, <2>4
  \* The new entry is the first one of its term at its index.
  <2>5. ASSUME NEW n \in Node, NEW i \in 1 .. Len(log[n]), log[n][i] = term[l]
        PROVE  i \in 1 .. Len(log[l]) /\ log[l][i] = term[l]
    BY <1>1, <1>4, <2>5 DEF LeadersHoldOwn, Holds
  <2> SUFFICES ASSUME NEW m \in Node, NEW n \in Node,
                      NEW i \in 1 .. Len(log'[m]), NEW j \in 1 .. Len(log'[n]),
                      i <= j, log'[m][i] = log'[n][j], NEW k \in 1 .. i
               PROVE  log'[m][k] = log'[n][k]
    BY DEF LogsMatch
  <2>6. \A a \in Node : Len(log[a]) \in Nat /\ Len(log'[a]) \in Nat
    BY <1>2, <1>4, <2>2
  <2>7. CASE i \in 1 .. Len(log[m]) /\ j \in 1 .. Len(log[n])
    <3>1. log[m][i] = log[n][j]
      BY <2>3, <2>7
    <3>2. log[m][k] = log[n][k]
      BY <1>1, <2>7, <3>1 DEF LogsMatch
    <3>3. k \in 1 .. Len(log[m]) /\ k \in 1 .. Len(log[n])
      BY <2>6, <2>7
    <3> QED
      BY <2>3, <3>2, <3>3
  <2>8. CASE i \in 1 .. Len(log[m]) /\ n = l /\ j = Len(log[l]) + 1 /\ log'[n][j] = term[l]
    <3>1. log[m][i] = term[l]
      BY <2>3, <2>8
    <3>2. i \in 1 .. Len(log[l]) /\ log[l][i] = term[l]
      BY <2>5, <2>8, <3>1
    <3>3. log[m][k] = log[l][k]
      BY <1>1, <2>8, <3>1, <3>2 DEF LogsMatch
    <3>4. k \in 1 .. Len(log[m]) /\ k \in 1 .. Len(log[l])
      BY <2>6, <2>8, <3>2
    <3> QED
      BY <2>3, <2>8, <3>3, <3>4
  <2>9. CASE m = l /\ i = Len(log[l]) + 1 /\ log'[m][i] = term[l]
    <3>1. ~(j \in 1 .. Len(log[n]))
      BY <2>2, <2>3, <2>5, <2>9
    <3> QED
      BY <2>4, <2>9, <3>1
  <2> QED
    BY <2>4, <2>7, <2>8, <2>9
<1>5. ASSUME NEW l \in Node, NEW f \in Node,
             \A n \in Node : log'[n] = IF n = f THEN log[l] ELSE log[n]
      PROVE  LogsMatch'
  <2>1. \A n \in Node : \E o \in Node : log'[n] = log[o]
    BY <1>5
  <2>2. ASSUME NEW m \in Node, NEW n \in Node
        PROVE  \A i \in 1 .. Len(log'[m]) : \A j \in 1 .. Len(log'[n]) :
                 i <= j /\ log'[m][i] = log'[n][j] => \A k \in 1 .. i : log'[m][k] = log'[n][k]
    <3>1. PICK o \in Node, p \in Node : log'[m] = log[o] /\ log'[n] = log[p]
      BY <2>1
    <3>2. \A i \in 1 .. Len(log[o]) : \A j \in 1 .. Len(log[p]) :
            i <= j /\ log[o][i] = log[p][j] => \A k \in 1 .. i : log[o][k] = log[p][k]
      BY <1>1 DEF LogsMatch
    <3> QED
      BY <3>1, <3>2
  <2> QED
    BY <2>2 DEF LogsMatch
<1>6. CASE \E l \in Node :
             /\ role[l] = "Leader" /\ UNCHANGED <<term, role, votes, commit>>
             /\ \A n \in Node : log'[n] = IF n = l THEN Append(log[l], term[l]) ELSE log[n]
  <2>1. PICK l \in Node :
          /\ role[l] = "Leader" /\ UNCHANGED <<term, role, votes, commit>>
          /\ \A n \in Node : log'[n] = IF n = l THEN Append(log[l], term[l]) ELSE log[n]
    BY <1>6
  <2> QED
    BY <2>1, <1>4
<1>7. CASE \E l, f \in Node :
             /\ l # f /\ role[l] = "Leader" /\ term[l] >= term[f] /\ votes' = votes
             /\ \A n \in Node :
                  /\ log'[n] = IF n = f THEN log[l] ELSE log[n]
                  /\ term'[n] = IF n = f THEN term[l] ELSE term[n]
                  /\ role'[n] = IF n = f THEN "Follower" ELSE role[n]
                  /\ commit'[n] = IF n = f THEN Larger(commit[f], commit[l]) ELSE commit[n]
  <2>1. PICK l \in Node, f \in Node :
          \A n \in Node :
                  /\ log'[n] = IF n = f THEN log[l] ELSE log[n]
                  /\ term'[n] = IF n = f THEN term[l] ELSE term[n]
                  /\ role'[n] = IF n = f THEN "Follower" ELSE role[n]
                  /\ commit'[n] = IF n = f THEN Larger(commit[f], commit[l]) ELSE commit[n]
    BY <1>7
  <2>2. \A n \in Node : log'[n] = IF n = f THEN log[l] ELSE log[n]
    BY <2>1
  <2> QED
    BY <2>2, <1>5
<1> QED
  BY <1>1, <1>3, <1>6, <1>7, LogsStep

LEMMA LeadersHoldOwnStep ==
  ASSUME LogInv, RaftTypeOK', [RaftNext]_raftVars
  PROVE  LeadersHoldOwn'
<1>1. RaftTypeOK /\ LeadersHoldOwn /\ ElectionSafety
  BY ElectionInvIsSafe DEF LogInv, ElectionInv
<1>2. \A n \in Node : term[n] \in Nat /\ log[n] \in Seq(Nat) /\ votes[n] \in SUBSET Node
  BY <1>1 DEF RaftTypeOK
<1> SUFFICES ASSUME NEW l \in Node, NEW n \in Node, role'[l] = "Leader",
                    NEW i \in 1 .. Len(log'[n]), log'[n][i] = term'[l]
             PROVE  i \in 1 .. Len(log'[l]) /\ log'[l][i] = term'[l]
  BY DEF LeadersHoldOwn, Holds
<1>3. term'[l] = term[l] /\ (role[l] = "Leader" \/ (role[l] = "Candidate" /\ BecomeLeader(l)))
  BY <1>1, RolesStep
<1>4. CASE log' = log
  <2>1. CASE role[l] = "Leader"
    BY <1>1, <1>3, <1>4, <2>1 DEF LeadersHoldOwn, Holds
\* No one has an entry of a term that is only now won.
  <2>2. CASE role[l] = "Candidate" /\ BecomeLeader(l)
    <3>1. Elected(term[l])
      BY <1>3, <1>4 DEF LogInv, TermsWereWon
    <3>2. PICK Q \in SUBSET Node :
            /\ IsQuorum(Q)
            /\ \A v \in Q : \A c \in Node :
                 role[c] = "Candidate" /\ term[c] = term[l] => v \notin votes[c]
      BY <3>1 DEF Elected
    <3>3. IsQuorum(votes[l]) /\ Q \cap votes[l] = {}
      BY <2>2, <3>2 DEF BecomeLeader
    <3> QED
      BY <1>2, <3>2, <3>3, QuorumsIntersect
  <2> QED
    BY <1>3, <2>1, <2>2
<1>5. ASSUME NEW k \in Node, role[k] = "Leader", role' = role,
             \A a \in Node : log'[a] = IF a = k THEN Append(log[k], term[k]) ELSE log[a]
      PROVE  i \in 1 .. Len(log'[l]) /\ log'[l][i] = term'[l]
  <2>1. \A j \in 1 .. Len(log'[k]) :
          /\ j = Len(log[k]) + 1 \/ j \in 1 .. Len(log[k])
          /\ log'[k][j] = IF j = Len(log[k]) + 1 THEN term[k] ELSE log[k][j]
    BY <1>1, <1>5, Grown
  <2>2. Len(log'[k]) = Len(log[k]) + 1 /\ Len(log[k]) \in Nat
    BY <1>1, <1>5, Grown
  <2>3. CASE n = k /\ i = Len(log[k]) + 1
    <3>1. l = k
      BY <1>1, <1>3, <1>5, <2>1, <2>3 DEF ElectionSafety
    <3> QED
      BY <2>3, <3>1
  <2>4. CASE i \in 1 .. Len(log[n])
    <3>1. log[n][i] = term[l]
      BY <1>3, <1>5, <2>1, <2>2, <2>4
    <3>2. i \in 1 .. Len(log[l]) /\ log[l][i] = term[l]
      BY <1>1, <1>5, <2>4, <3>1 DEF LeadersHoldOwn, Holds
    <3> QED
      BY <1>3, <1>5, <2>1, <2>2, <3>2
  <2> QED
    BY <1>5, <2>1, <2>3, <2>4
<1>6. ASSUME NEW k \in Node, NEW f \in Node, role[k] = "Leader",
             \A a \in Node : /\ log'[a] = IF a = f THEN log[k] ELSE log[a]
                             /\ role'[a] = IF a = f THEN "Follower" ELSE role[a]
      PROVE  i \in 1 .. Len(log'[l]) /\ log'[l][i] = term'[l]
  <2>1. l # f /\ role[l] = "Leader" /\ log'[l] = log[l]
    BY <1>6
  <2> QED
    BY <1>1, <1>3, <1>6, <2>1 DEF LeadersHoldOwn, Holds
<1> QED
  BY <1>1, <1>4, <1>5, <1>6, LogsStep

LEMMA LogStep == LogInv /\ [RaftNext]_raftVars => LogInv'
<1> SUFFICES ASSUME LogInv, [RaftNext]_raftVars PROVE LogInv'
  OBVIOUS
<1>1. ElectionInv'
  BY ElectionStep DEF LogInv
<1>2. RaftTypeOK'
  BY <1>1 DEF ElectionInv
<1> QED
  BY <1>1, <1>2, TermsWereWonStep, LogsOrderedStep, LogsMatchStep, LeadersHoldOwnStep DEF LogInv

LEMMA NewLeaderIsFirst ==
  ASSUME LogInv, NEW l \in Node, BecomeLeader(l), NEW n \in Node, NEW i \in 1 .. Len(log[n])
  PROVE  log[n][i] # term[l]
<1> SUFFICES ASSUME log[n][i] = term[l] PROVE FALSE
  OBVIOUS
<1>1. Elected(term[l])
  BY DEF LogInv, TermsWereWon
<1>2. PICK Q \in SUBSET Node :
        /\ IsQuorum(Q)
        /\ \A v \in Q : \A c \in Node :
             role[c] = "Candidate" /\ term[c] = term[l] => v \notin votes[c]
  BY <1>1 DEF Elected
<1>3. IsQuorum(votes[l]) /\ Q \cap votes[l] = {} /\ votes[l] \in SUBSET Node
  BY <1>2 DEF BecomeLeader, LogInv, ElectionInv, RaftTypeOK
<1> QED
  BY <1>2, <1>3, QuorumsIntersect

\* Every log matches every other up to a common entry, for any number of nodes.
THEOREM RaftLogsMatch == RaftSpec => []LogsMatch
<1>1. LogInv => LogsMatch
  BY DEF LogInv
<1> QED
  BY <1>1, LogInit, LogStep, PTL DEF RaftSpec

-----------------------------------------------------------------------------
(* Committed entries, for clusters of at most four nodes. *)

\* Commit counts the nodes that hold an entry now, whatever their term. From
\* five nodes on, a count can reach a majority in a term that is over.
SmallCluster == Cardinality(Node) <= 4

Blocks(P) == \A Q \in SUBSET Node : IsQuorum(Q) => P \cap Q # {}

Holders(i, t) == {n \in Node : Holds(n, i, t)}

\* Whoever is still to win a term after t needs a vote from P, or has one: it
\* holds entry i of term t, and so does every log with a newer entry.
Protected(i, t) ==
  /\ \E P \in SUBSET Node :
       /\ Blocks(P)
       /\ \A p \in P :
            /\ Holds(p, i, t)
            /\ \A c \in Node :
                 Campaigns(c) /\ term[c] > t /\ p \in votes[c] => Holds(c, i, t)
  /\ \A n \in Node : \A j \in 1 .. Len(log[n]) : log[n][j] > t => Holds(n, i, t)

\* A leader's entry is protected as soon as its holders meet every quorum.
SharedIsProtected ==
  \A l \in Node : \A i, t \in Nat :
    role[l] = "Leader" /\ term[l] = t /\ Holds(l, i, t) /\ Blocks(Holders(i, t))
      => Protected(i, t)

\* Entry i of term t is on a majority, to stay.
Settled(i, t) == Protected(i, t) /\ IsQuorum(Holders(i, t))

CommittedIsStored ==
  \A n \in Node : \A k \in Nat \ {0} :
    commit[n] = k => \E t \in Nat : Holds(n, k, t) /\ Settled(k, t)

\* The inductive invariant behind LeaderCompleteness.
CommitInv ==
  /\ SmallCluster
  /\ LogInv
  /\ SharedIsProtected
  /\ CommittedIsStored

LEMMA QuorumsBlock ==
  ASSUME NEW P \in SUBSET Node, IsQuorum(P)
  PROVE  Blocks(P)
  BY QuorumsIntersect DEF Blocks

LEMMA PairsBlock ==
  ASSUME SmallCluster, NEW a \in Node, NEW b \in Node, a # b
  PROVE  Blocks({a, b})
<1> SUFFICES ASSUME NEW Q \in SUBSET Node, IsQuorum(Q), a \notin Q, b \notin Q
             PROVE  FALSE
  BY DEF Blocks
<1> DEFINE R == Node \ {a}
           S == R \ {b}
<1>1. IsFiniteSet(R) /\ Cardinality(R) = Cardinality(Node) - 1
  BY NodeAssumption, FS_RemoveElement
<1>2. b \in R
  OBVIOUS
<1>3. IsFiniteSet(S) /\ Cardinality(S) = Cardinality(R) - 1
  BY <1>1, <1>2, FS_RemoveElement
<1>4. Q \subseteq S
  OBVIOUS
<1>5. Cardinality(Q) <= Cardinality(S)
  BY <1>3, <1>4, FS_Subset
<1>6. Cardinality(Node) \in Nat /\ Cardinality(Q) \in Nat
  BY NodeAssumption, FS_Subset, FS_CardinalityType
<1>7. Cardinality(Q) >= Cardinality(Node) \div 2 + 1
  BY DEF IsQuorum
<1>8. Cardinality(Q) <= Cardinality(Node) - 2
  BY <1>1, <1>3, <1>5, <1>6
<1> HIDE DEF R, S
<1> QED
  BY <1>6, <1>7, <1>8 DEF SmallCluster

\* A leader at least as new as the term of a protected entry holds it, if one
\* of its nodes is not newer than the leader.
LEMMA LeadersHoldProtected ==
  ASSUME LogInv, NEW l \in Node, role[l] = "Leader", NEW i \in Nat, NEW t \in Nat,
         Protected(i, t), NEW n \in Node, Holds(n, i, t), term[l] >= term[n]
  PROVE  Holds(l, i, t)
<1>1. /\ term[l] \in Nat /\ term[n] \in Nat /\ t <= term[n]
      /\ votes[l] \in SUBSET Node /\ IsQuorum(votes[l])
  BY DEF LogInv, ElectionInv, RaftTypeOK, LogsBehindTerm, Holds, LeadersHaveQuorums
<1>2. CASE term[l] > t
  BY <1>1, <1>2 DEF Protected, Blocks, Campaigns
<1>3. CASE term[l] = t
  BY <1>3 DEF LogInv, LeadersHoldOwn, Holds
<1> QED
  BY <1>1, <1>2, <1>3

\* A candidate that is granted a vote holds what is protected at its voter.
LEMMA CandidatesHoldProtected ==
  ASSUME LogInv, NEW v \in Node, NEW c \in Node, GrantVote(v, c),
         NEW i \in Nat, NEW t \in Nat, Protected(i, t), Holds(v, i, t)
  PROVE  Holds(c, i, t)
<1> DEFINE a == Len(log[v])
           b == Len(log[c])
<1>0. log[v] \in Seq(Nat) /\ log[c] \in Seq(Nat) /\ i \in 1 .. a /\ log[v][i] = t
  BY DEF LogInv, ElectionInv, RaftTypeOK, Holds
<1>1. /\ a \in Nat /\ b \in Nat /\ i \in 1 .. a /\ a \in 1 .. a
      /\ log[v][a] \in Nat /\ log[v][i] = t
      /\ b # 0 => b \in 1 .. b /\ log[c][b] \in Nat
  BY <1>0
<1>2. log[v][a] >= t
  BY <1>1 DEF LogInv, LogsOrdered
<1>3. /\ LastTerm(log[v]) = log[v][a]
      /\ b # 0 => LastTerm(log[c]) = log[c][b]
      /\ b = 0 => LastTerm(log[c]) = 0
  <2>1. /\ log[v] \in Seq(Nat) /\ log[c] \in Seq(Nat)
        /\ log[v] # <<>>
        /\ b = 0 <=> log[c] = <<>>
    BY <1>0, <1>1
  <2> QED
    BY <2>1 DEF LastTerm
<1>4. b # 0 /\ (log[c][b] > log[v][a] \/ (log[c][b] = log[v][a] /\ b >= a))
  BY <1>1, <1>2, <1>3 DEF GrantVote, UpToDate
<1>5. CASE log[c][b] > t
  BY <1>1, <1>4, <1>5 DEF Protected
<1>6. CASE log[c][b] = log[v][a] /\ b >= a
  <2>1. \A k \in 1 .. a : log[v][k] = log[c][k]
    BY <1>1, <1>4, <1>6 DEF LogInv, LogsMatch
  <2> QED
    BY <1>1, <1>6, <2>1 DEF Holds
<1> QED
  BY <1>1, <1>2, <1>4, <1>5, <1>6

\* What is protected stays so, and nobody who holds it loses it.
LEMMA ProtectedStays ==
  ASSUME LogInv, LogInv', [RaftNext]_raftVars, NEW i \in Nat, NEW t \in Nat, Protected(i, t)
  PROVE  Protected(i, t)' /\ \A n \in Node : Holds(n, i, t) => Holds(n, i, t)'
<1>1. RaftTypeOK /\ RaftTypeOK'
  BY DEF LogInv, ElectionInv
<1>2. \A n \in Node : /\ term[n] \in Nat /\ log[n] \in Seq(Nat)
                      /\ \A j \in 1 .. Len(log[n]) : log[n][j] \in Nat
  BY <1>1 DEF RaftTypeOK
<1>3. ASSUME NEW l \in Node, role[l] = "Leader", term[l] > t
      PROVE  Holds(l, i, t)
  BY <1>1, <1>3 DEF Protected, Blocks, Campaigns, LogInv, ElectionInv, LeadersHaveQuorums,
                    RaftTypeOK
<1>4. ASSUME NEW n \in Node
      PROVE  /\ Holds(n, i, t) => Holds(n, i, t)'
             /\ \A j \in 1 .. Len(log'[n]) : log'[n][j] > t => Holds(n, i, t)'
  <2>1. CASE log' = log
    BY <2>1 DEF Holds, Protected
  <2>2. ASSUME NEW l \in Node, role[l] = "Leader",
               \A m \in Node : log'[m] = IF m = l THEN Append(log[l], term[l]) ELSE log[m]
        PROVE  /\ Holds(n, i, t) => Holds(n, i, t)'
               /\ \A j \in 1 .. Len(log'[n]) : log'[n][j] > t => Holds(n, i, t)'
    <3>1. CASE n # l
      BY <2>2, <3>1 DEF Holds, Protected
    <3>2. CASE n = l
      <4>1. log'[l] = Append(log[l], term[l])
        BY <2>2
      <4>2. /\ Len(log'[l]) = Len(log[l]) + 1 /\ Len(log[l]) \in Nat
            /\ \A j \in 1 .. Len(log'[l]) :
                 /\ j = Len(log[l]) + 1 \/ j \in 1 .. Len(log[l])
                 /\ log'[l][j] = IF j = Len(log[l]) + 1 THEN term[l] ELSE log[l][j]
        BY <1>1, <4>1, Grown
      <4>3. Holds(l, i, t) => Holds(l, i, t)'
        BY <4>2 DEF Holds
      <4>4. ASSUME NEW j \in 1 .. Len(log'[l]), log'[l][j] > t
            PROVE  Holds(l, i, t)
        BY <1>3, <2>2, <4>2, <4>4 DEF Protected
      <4> QED
        BY <3>2, <4>3, <4>4
    <3> QED
      BY <3>1, <3>2
  <2>3. ASSUME NEW l \in Node, NEW f \in Node, role[l] = "Leader", term[l] >= term[f],
               \A m \in Node : log'[m] = IF m = f THEN log[l] ELSE log[m]
        PROVE  /\ Holds(n, i, t) => Holds(n, i, t)'
               /\ \A j \in 1 .. Len(log'[n]) : log'[n][j] > t => Holds(n, i, t)'
    <3>1. Holds(f, i, t) => Holds(l, i, t)
      BY <2>3, LeadersHoldProtected
    <3>2. log'[n] = IF n = f THEN log[l] ELSE log[n]
      BY <2>3
    <3> QED
      BY <3>1, <3>2 DEF Holds, Protected
  <2> QED
    BY <1>1, <2>1, <2>2, <2>3, LogsStep
<1>5. PICK P \in SUBSET Node :
        /\ Blocks(P)
        /\ \A p \in P :
             /\ Holds(p, i, t)
             /\ \A c \in Node :
                  Campaigns(c) /\ term[c] > t /\ p \in votes[c] => Holds(c, i, t)
  BY DEF Protected
<1>6. ASSUME NEW p \in P, NEW c \in Node, Campaigns(c)', term'[c] > t, p \in votes'[c]
      PROVE  Holds(c, i, t)
  <2>1. role'[c] = "Leader" \/ role'[c] = "Candidate"
    BY <1>1, <1>6 DEF Campaigns, RaftTypeOK, Roles
  <2>2. CASE Campaigns(c) /\ term'[c] = term[c] /\ p \in votes[c]
    BY <1>5, <1>6, <2>2
  <2>3. CASE p = c
    BY <1>5, <2>3
  <2>4. CASE GrantVote(p, c)
    BY <1>5, <2>4, CandidatesHoldProtected
  <2> QED
    BY <1>1, <1>6, <2>1, <2>2, <2>3, <2>4, RolesStep DEF Campaigns
<1>7. Blocks(P)'
  BY <1>5 DEF Blocks, IsQuorum
<1> QED
  BY <1>4, <1>5, <1>6, <1>7 DEF Protected

\* An entry whose holders meet every quorum is protected while none of them has
\* left its term.
LEMMA FreshIsProtected ==
  ASSUME LogInv', NEW i \in Nat, NEW t \in Nat, NEW P \in SUBSET Node, Blocks(P),
         \A p \in P : Holds(p, i, t)' /\ term'[p] <= t
  PROVE  Protected(i, t)'
<1>1. Blocks(P)'
  BY DEF Blocks, IsQuorum
<1>2. \A n \in Node : /\ term'[n] \in Nat /\ log'[n] \in Seq(Nat)
                      /\ \A j \in 1 .. Len(log'[n]) : log'[n][j] \in Nat
  BY DEF LogInv, ElectionInv, RaftTypeOK
<1>3. ASSUME NEW p \in P, NEW c \in Node, Campaigns(c)', term'[c] > t, p \in votes'[c]
      PROVE  FALSE
  BY <1>2, <1>3 DEF LogInv, ElectionInv, VotersHaveSeenTerm
<1>4. ASSUME NEW n \in Node, NEW j \in 1 .. Len(log'[n]), log'[n][j] > t
      PROVE  FALSE
  <2> DEFINE u == log'[n][j]
  <2>1. u \in Nat
    BY <1>2
  <2>2. PICK Q \in SUBSET Node : IsQuorum(Q) /\ \A v \in Q : term'[v] >= u
    BY DEF LogInv, TermsWereWon, Elected, IsQuorum
  <2> QED
    BY <1>2, <1>4, <2>1, <2>2 DEF Blocks
<1> QED
  BY <1>1, <1>3, <1>4 DEF Protected

LEMMA SharedIsProtectedStep ==
  ASSUME CommitInv, LogInv', [RaftNext]_raftVars
  PROVE  SharedIsProtected'
<1>1. /\ SmallCluster /\ LogInv /\ RaftTypeOK /\ RaftTypeOK' /\ ElectionSafety
      /\ LeadersHoldOwn /\ LogsBehindTerm
  BY ElectionInvIsSafe DEF CommitInv, LogInv, ElectionInv
<1> SUFFICES ASSUME NEW l \in Node, NEW i \in Nat, NEW t \in Nat, role'[l] = "Leader",
                    term'[l] = t, Holds(l, i, t)', Blocks(Holders(i, t))'
             PROVE  Protected(i, t)'
  BY DEF SharedIsProtected
<1>2. Blocks(Holders(i, t)')
  BY DEF Blocks, IsQuorum, Holders, Holds
<1>3. t = term[l] /\ (role[l] = "Leader" \/ BecomeLeader(l))
  BY <1>1, RolesStep DEF Holds
\* Only what the step shares further was not protected before it.
<1>4. CASE role[l] = "Leader" /\ Holds(l, i, t) /\ Blocks(Holders(i, t))
  <2>1. Protected(i, t)
    BY <1>3, <1>4 DEF CommitInv, SharedIsProtected, Holds
  <2> QED
    BY <1>1, <1>3, <2>1, ProtectedStays
<1>5. CASE log' = log
  <2>1. Holders(i, t)' = Holders(i, t) /\ Holds(l, i, t)
    BY <1>5 DEF Holders, Holds
  <2>2. ~BecomeLeader(l)
    BY <1>1, <1>3, <2>1, NewLeaderIsFirst DEF Holds
  <2> QED
    BY <1>3, <1>4, <2>1, <2>2
<1>6. ASSUME NEW k \in Node, role[k] = "Leader", term' = term, role' = role,
             \A a \in Node : log'[a] = IF a = k THEN Append(log[k], term[k]) ELSE log[a]
      PROVE  Protected(i, t)'
  <2>1. /\ Len(log'[k]) = Len(log[k]) + 1 /\ Len(log[k]) \in Nat
        /\ \A j \in 1 .. Len(log'[k]) :
             /\ j = Len(log[k]) + 1 \/ j \in 1 .. Len(log[k])
             /\ log'[k][j] = IF j = Len(log[k]) + 1 THEN term[k] ELSE log[k][j]
    BY <1>1, <1>6, Grown
  <2>2. CASE Holds(l, i, t)
    <3>1. ASSUME NEW a \in Node, Holds(a, i, t)'
          PROVE  Holds(a, i, t)
      <4>1. CASE a # k
        BY <1>6, <3>1, <4>1 DEF Holds
      <4>2. CASE a = k /\ i = Len(log[k]) + 1
        <5>1. term[k] = t
          BY <2>1, <3>1, <4>2 DEF Holds
        <5>2. k = l
          BY <1>1, <1>3, <1>6, <5>1 DEF ElectionSafety
        <5> QED
          BY <2>1, <2>2, <4>2, <5>2 DEF Holds
      <4>3. CASE a = k /\ i \in 1 .. Len(log[k])
        BY <2>1, <3>1, <4>3 DEF Holds
      <4> QED
        BY <2>1, <3>1, <4>1, <4>2, <4>3 DEF Holds
    <3>2. Holders(i, t)' \subseteq Holders(i, t)
      BY <3>1 DEF Holders
    <3>3. Blocks(Holders(i, t))
      BY <1>2, <3>2 DEF Blocks
    <3> QED
      BY <1>4, <1>6, <2>2, <3>3
\* A new entry is its leader's only, which may be enough in a cluster of two.
  <2>3. CASE ~Holds(l, i, t)
    <3>1. l = k /\ i = Len(log[k]) + 1
      BY <1>6, <2>1, <2>3 DEF Holds
    <3>2. ASSUME NEW a \in Node, Holds(a, i, t)'
          PROVE  a = l
      <4> SUFFICES ASSUME a # l PROVE FALSE
        OBVIOUS
      <4>1. Holds(a, i, t)
        BY <1>6, <3>1, <3>2 DEF Holds
      <4> QED
        BY <1>1, <1>3, <1>6, <2>3, <3>1, <4>1 DEF LeadersHoldOwn, Holds
    <3>3. Holders(i, t)' \subseteq {l}
      BY <3>2 DEF Holders
    <3>4. Blocks({l})
      BY <1>2, <3>3 DEF Blocks
    <3>5. \A p \in {l} : Holds(p, i, t)' /\ term'[p] <= t
      OBVIOUS
    <3> QED
      BY <3>4, <3>5, FreshIsProtected
  <2> QED
    BY <2>2, <2>3
<1>7. ASSUME NEW k \in Node, NEW f \in Node, role[k] = "Leader", term[k] >= term[f], k # f,
             \A a \in Node : /\ log'[a] = IF a = f THEN log[k] ELSE log[a]
                             /\ term'[a] = IF a = f THEN term[k] ELSE term[a]
                             /\ role'[a] = IF a = f THEN "Follower" ELSE role[a]
      PROVE  Protected(i, t)'
  <2>1. l # f /\ role[l] = "Leader" /\ Holds(l, i, t) /\ term'[l] = t
    BY <1>7 DEF Holds
  <2>2. \A a \in Node : a # f => (Holds(a, i, t)' <=> Holds(a, i, t))
    BY <1>7 DEF Holds
  <2>3. CASE Holds(f, i, t) \/ ~Holds(f, i, t)'
    <3>1. Holders(i, t)' \subseteq Holders(i, t)
      BY <2>2, <2>3 DEF Holders
    <3>2. Blocks(Holders(i, t))
      BY <1>2, <3>1 DEF Blocks
    <3> QED
      BY <1>4, <2>1, <3>2
\* If it was a third node that shared it, the two of them met every quorum.
  <2>4. CASE ~Holds(f, i, t) /\ Holds(f, i, t)'
    <3>1. Holds(k, i, t)
      BY <1>7, <2>4 DEF Holds
    <3>2. CASE k # l
      <4>1. Blocks({k, l})
        BY <1>1, <3>2, PairsBlock
      <4>2. {k, l} \subseteq Holders(i, t)
        BY <2>1, <3>1 DEF Holders
      <4>3. Blocks(Holders(i, t))
        BY <4>1, <4>2 DEF Blocks
      <4> QED
        BY <1>4, <2>1, <4>3
    <3>3. CASE k = l
      <4>1. Blocks({l, f})
        BY <1>1, <2>1, PairsBlock
      <4>2. term'[f] = t /\ term'[l] = t
        BY <1>3, <1>7, <3>3
      <4>3. \A p \in {l, f} : Holds(p, i, t)' /\ term'[p] <= t
        BY <2>4, <4>2
      <4> QED
        BY <1>3, <4>1, <4>3, FreshIsProtected
    <3> QED
      BY <3>2, <3>3
  <2> QED
    BY <2>3, <2>4
<1> QED
  BY <1>1, <1>5, <1>6, <1>7, LogsStep

\* Who commits is a leader whose entry is on a quorum, or a follower that takes
\* over its leader's log with its commit.
LEMMA CommitsStep ==
  ASSUME RaftTypeOK, [RaftNext]_raftVars
  PROVE  \/ commit' = commit
         \/ \E l \in Node : \E i \in Nat :
              /\ log' = log
              /\ role[l] = "Leader" /\ i > commit[l] /\ IsQuorum(Holders(i, term[l]))
              /\ \A n \in Node : commit'[n] = IF n = l THEN i ELSE commit[n]
         \/ \E l, f \in Node :
              /\ role[l] = "Leader" /\ term[l] >= term[f]
              /\ \A n \in Node :
                   /\ log'[n] = IF n = f THEN log[l] ELSE log[n]
                   /\ commit'[n] = IF n = f THEN Larger(commit[f], commit[l]) ELSE commit[n]
<1>1. ASSUME NEW l \in Node, NEW i \in 1 .. MaxLog, Commit(l, i)
      PROVE  /\ log' = log /\ i \in Nat
             /\ role[l] = "Leader" /\ i > commit[l] /\ IsQuorum(Holders(i, term[l]))
             /\ \A n \in Node : commit'[n] = IF n = l THEN i ELSE commit[n]
  BY <1>1, RaftBounds DEF Commit, RaftTypeOK, Holders
<1>2. ASSUME NEW l \in Node, NEW f \in Node, AppendEntries(l, f)
      PROVE  /\ role[l] = "Leader" /\ term[l] >= term[f]
             /\ \A n \in Node :
                  /\ log'[n] = IF n = f THEN log[l] ELSE log[n]
                  /\ commit'[n] = IF n = f THEN Larger(commit[f], commit[l]) ELSE commit[n]
  BY <1>2 DEF AppendEntries, RaftTypeOK
<1>3. ASSUME UNCHANGED raftVars
             \/ (\E n \in Node : Timeout(n) \/ BecomeLeader(n) \/ ClientRequest(n))
             \/ (\E m, n \in Node : GrantVote(m, n))
      PROVE  commit' = commit
  BY <1>3 DEF raftVars, Timeout, BecomeLeader, ClientRequest, GrantVote
<1> QED
  BY <1>1, <1>2, <1>3 DEF RaftNext

LEMMA SettledStays ==
  ASSUME LogInv, LogInv', [RaftNext]_raftVars, NEW k \in Nat, NEW t \in Nat, Settled(k, t)
  PROVE  Settled(k, t)' /\ \A n \in Node : Holds(n, k, t) => Holds(n, k, t)'
<1>1. Protected(k, t)' /\ \A n \in Node : Holds(n, k, t) => Holds(n, k, t)'
  BY ProtectedStays DEF Settled
<1>2. Holders(k, t) \subseteq Holders(k, t)' /\ Holders(k, t)' \subseteq Node
  BY <1>1 DEF Holders
<1>3. /\ IsFiniteSet(Holders(k, t)')
      /\ Cardinality(Holders(k, t)) <= Cardinality(Holders(k, t)')
  BY <1>2, NodeAssumption, FS_Subset
<1>4. /\ Cardinality(Holders(k, t)) \in Nat /\ Cardinality(Holders(k, t)') \in Nat
      /\ Cardinality(Node) \in Nat
  BY <1>2, <1>3, NodeAssumption, FS_Subset, FS_CardinalityType
<1>5. IsQuorum(Holders(k, t))'
  BY <1>3, <1>4 DEF IsQuorum, Settled
<1> QED
  BY <1>1, <1>5 DEF Settled

LEMMA CommittedIsStoredStep ==
  ASSUME CommitInv, LogInv', [RaftNext]_raftVars
  PROVE  CommittedIsStored'
<1>1. LogInv /\ RaftTypeOK /\ SharedIsProtected /\ CommittedIsStored
  BY DEF CommitInv, LogInv, ElectionInv
<1>2. \A n \in Node : commit[n] \in Nat /\ term[n] \in Nat
  BY <1>1 DEF RaftTypeOK
\* It is enough that the entry was stored before the step.
<1> SUFFICES ASSUME NEW n \in Node, NEW k \in Nat \ {0}, commit'[n] = k
             PROVE  \E t \in Nat : Holds(n, k, t)' /\ Settled(k, t)
  BY <1>1, SettledStays DEF CommittedIsStored
<1>3. CASE commit[n] = k
  <2>1. PICK t \in Nat : Holds(n, k, t) /\ Settled(k, t)
    BY <1>1, <1>3 DEF CommittedIsStored
  <2> QED
    BY <1>1, <2>1, SettledStays
<1>4. ASSUME NEW l \in Node, role[l] = "Leader", IsQuorum(Holders(k, term[l])),
             l = n, log' = log
      PROVE  \E t \in Nat : Holds(n, k, t)' /\ Settled(k, t)
  <2>1. Holders(k, term[l]) \in SUBSET Node
    BY DEF Holders
  <2>2. Blocks(Holders(k, term[l]))
    BY <1>4, <2>1, QuorumsBlock
  <2>3. PICK m \in Node : Holds(m, k, term[l])
    BY <1>4, <2>1, QuorumsIntersect DEF Holders
  <2>4. Holds(l, k, term[l])
    BY <1>1, <1>4, <2>3 DEF LogInv, LeadersHoldOwn, Holds
  <2>5. Settled(k, term[l])
    BY <1>1, <1>2, <1>4, <2>2, <2>4 DEF SharedIsProtected, Settled
  <2>6. PICK t \in Nat : t = term[l]
    BY <1>2
  <2>7. Holds(n, k, t)'
    BY <1>4, <2>4, <2>6 DEF Holds
  <2> QED
    BY <2>5, <2>6, <2>7
<1>5. ASSUME NEW l \in Node, log'[n] = log[l], commit[l] = k
      PROVE  \E t \in Nat : Holds(n, k, t)' /\ Settled(k, t)
  <2>1. PICK t \in Nat : Holds(l, k, t) /\ Settled(k, t)
    BY <1>1, <1>5 DEF CommittedIsStored
  <2> QED
    BY <1>5, <2>1 DEF Holds
<1> QED
  BY <1>1, <1>2, <1>3, <1>4, <1>5, CommitsStep DEF Larger

LEMMA CommitInit == SmallCluster /\ RaftInit => CommitInv
<1> SUFFICES ASSUME SmallCluster, RaftInit PROVE CommitInv
  OBVIOUS
<1>1. \A n \in Node : role[n] = "Follower" /\ commit[n] = 0
  BY DEF RaftInit
<1> QED
  BY <1>1, LogInit DEF CommitInv, SharedIsProtected, CommittedIsStored

LEMMA CommitStep == CommitInv /\ [RaftNext]_raftVars => CommitInv'
<1> SUFFICES ASSUME CommitInv, [RaftNext]_raftVars PROVE CommitInv'
  OBVIOUS
<1>1. LogInv'
  BY LogStep DEF CommitInv
<1> QED
  BY <1>1, SharedIsProtectedStep, CommittedIsStoredStep DEF CommitInv, SmallCluster

\* What is committed somewhere is the start of every log that holds the last of
\* it.
LEMMA CommittedPrefix ==
  ASSUME CommitInv, NEW n \in Node, commit[n] # 0
  PROVE  \E t \in Nat :
           /\ Holds(n, commit[n], t) /\ Settled(commit[n], t)
           /\ \A m \in Node : Holds(m, commit[n], t) =>
                \A i \in 1 .. commit[n] : i \in 1 .. Len(log[n]) /\ Holds(m, i, log[n][i])
<1>1. commit[n] \in Nat \ {0} /\ \A m \in Node : Len(log[m]) \in Nat
  BY DEF CommitInv, LogInv, ElectionInv, RaftTypeOK
<1>2. PICK t \in Nat : Holds(n, commit[n], t) /\ Settled(commit[n], t)
  BY <1>1 DEF CommitInv, CommittedIsStored
<1>3. ASSUME NEW m \in Node, Holds(m, commit[n], t), NEW i \in 1 .. commit[n]
      PROVE  i \in 1 .. Len(log[n]) /\ Holds(m, i, log[n][i])
  <2>1. commit[n] \in 1 .. Len(log[n]) /\ commit[n] \in 1 .. Len(log[m])
        /\ log[n][commit[n]] = log[m][commit[n]]
    BY <1>2, <1>3 DEF Holds
  <2>2. log[n][i] = log[m][i]
    BY <1>1, <2>1 DEF CommitInv, LogInv, LogsMatch
  <2> QED
    BY <1>1, <2>1, <2>2 DEF Holds
<1> QED
  BY <1>2, <1>3

LEMMA CommitInvIsComplete == CommitInv => LeaderCompleteness
<1> SUFFICES ASSUME CommitInv, NEW n \in Node, NEW l \in Node, role[l] = "Leader",
                    term[n] <= term[l], NEW i \in 1 .. commit[n]
             PROVE  i <= Len(log[n]) /\ Holds(l, i, log[n][i])
  BY DEF LeaderCompleteness
<1>1. /\ LogInv /\ commit[n] \in Nat /\ commit[n] # 0
      /\ term[n] \in Nat /\ term[l] \in Nat /\ Len(log[n]) \in Nat
  BY DEF CommitInv, LogInv, ElectionInv, RaftTypeOK
<1>2. PICK t \in Nat :
        /\ Holds(n, commit[n], t) /\ Settled(commit[n], t)
        /\ \A m \in Node : Holds(m, commit[n], t) =>
             \A j \in 1 .. commit[n] : j \in 1 .. Len(log[n]) /\ Holds(m, j, log[n][j])
  BY <1>1, CommittedPrefix
<1>3. Holds(l, commit[n], t)
  BY <1>1, <1>2, LeadersHoldProtected DEF Settled
<1> QED
  BY <1>1, <1>2, <1>3

LEMMA CommitInvIsMajority == CommitInv => CommittedOnMajority
<1> SUFFICES ASSUME CommitInv, NEW n \in Node, NEW i \in 1 .. commit[n]
             PROVE  /\ i <= Len(log[n])
                    /\ IsQuorum({m \in Node : Holds(m, i, log[n][i])})
  BY DEF CommittedOnMajority
<1>1. commit[n] \in Nat /\ commit[n] # 0 /\ Len(log[n]) \in Nat
  BY DEF CommitInv, LogInv, ElectionInv, RaftTypeOK
<1>2. PICK t \in Nat :
        /\ Holds(n, commit[n], t) /\ Settled(commit[n], t)
        /\ \A m \in Node : Holds(m, commit[n], t) =>
             \A j \in 1 .. commit[n] : j \in 1 .. Len(log[n]) /\ Holds(m, j, log[n][j])
  BY <1>1, CommittedPrefix
<1> DEFINE P == Holders(commit[n], t)
           Q == {m \in Node : Holds(m, i, log[n][i])}
<1>3. P \subseteq Q /\ Q \subseteq Node
  BY <1>2 DEF Holders
<1>4. IsFiniteSet(Q) /\ Cardinality(P) <= Cardinality(Q)
  BY <1>3, NodeAssumption, FS_Subset
<1>5. Cardinality(P) \in Nat /\ Cardinality(Q) \in Nat /\ Cardinality(Node) \in Nat
  BY <1>3, <1>4, NodeAssumption, FS_Subset, FS_CardinalityType
<1>6. IsQuorum(P)
  BY <1>2 DEF Settled
<1> HIDE DEF P, Q
<1>7. IsQuorum(Q)
  BY <1>4, <1>5, <1>6 DEF IsQuorum
<1> QED
  BY <1>1, <1>2, <1>7 DEF Q

\* In a cluster of at most four nodes, a leader of any term holds what every node
\* of its term or an older one has learned.
THEOREM RaftLeadersComplete == SmallCluster /\ RaftSpec => []LeaderCompleteness
  BY CommitInit, CommitStep, CommitInvIsComplete, PTL DEF RaftSpec

\* In a cluster of at most four nodes, a committed entry stays on a majority.
THEOREM RaftCommittedOnMajority == SmallCluster /\ RaftSpec => []CommittedOnMajority
  BY CommitInit, CommitStep, CommitInvIsMajority, PTL DEF RaftSpec

-----------------------------------------------------------------------------
(* The refinement of Consensus. *)

LEMMA LearnedEntries ==
  ASSUME RaftTypeOK, NEW n \in Node
  PROVE  /\ Learned[n] \in Seq(Nat) /\ Len(Learned[n]) = commit[n] /\ commit[n] \in Nat
         /\ \A i \in 1 .. commit[n] :
              Learned[n][i] = IF i <= Len(log[n]) THEN log[n][i] ELSE 0
<1> DEFINE E == [i \in 1 .. commit[n] |-> IF i <= Len(log[n]) THEN log[n][i] ELSE 0]
<1>1. commit[n] \in Nat /\ Len(log[n]) \in Nat /\ log[n] \in Seq(Nat)
  BY DEF RaftTypeOK
<1>2. E \in [1 .. commit[n] -> Nat]
  BY <1>1
<1>3. E \in Seq(Nat) /\ Len(E) = commit[n]
  BY <1>1, <1>2
<1>4. Learned[n] = E
  BY DEF Learned
<1> QED
  BY <1>1, <1>3, <1>4

LEMMA LearnedEntriesNext ==
  ASSUME RaftTypeOK', NEW n \in Node
  PROVE  /\ Learned'[n] \in Seq(Nat) /\ Len(Learned'[n]) = commit'[n] /\ commit'[n] \in Nat
         /\ \A i \in 1 .. commit'[n] :
              Learned'[n][i] = IF i <= Len(log'[n]) THEN log'[n][i] ELSE 0
<1> DEFINE E == [i \in 1 .. commit'[n] |-> IF i <= Len(log'[n]) THEN log'[n][i] ELSE 0]
<1>1. commit'[n] \in Nat /\ Len(log'[n]) \in Nat /\ log'[n] \in Seq(Nat)
  BY DEF RaftTypeOK
<1>2. E \in [1 .. commit'[n] -> Nat]
  BY <1>1
<1>3. E \in Seq(Nat) /\ Len(E) = commit'[n]
  BY <1>1, <1>2
<1>4. Learned'[n] = E
  BY DEF Learned
<1> QED
  BY <1>1, <1>3, <1>4

\* Any two committed prefixes are those of one node: two majorities share one.
LEMMA CommitInvAgrees == CommitInv => CommittedAgree
<1> SUFFICES ASSUME CommitInv, NEW m \in Node, NEW n \in Node,
                    NEW i \in 1 .. commit[m], i <= commit[n]
             PROVE  Learned[m][i] = Learned[n][i]
  BY DEF CommittedAgree
<1>1. /\ RaftTypeOK /\ i \in 1 .. commit[n]
      /\ commit[m] \in Nat \ {0} /\ commit[n] \in Nat \ {0}
  BY DEF CommitInv, LogInv, ElectionInv, RaftTypeOK
<1>2. PICK s \in Nat :
        /\ Settled(commit[m], s)
        /\ \A q \in Node : Holds(q, commit[m], s) =>
             \A j \in 1 .. commit[m] : j \in 1 .. Len(log[m]) /\ Holds(q, j, log[m][j])
  BY <1>1, CommittedPrefix
<1>3. PICK t \in Nat :
        /\ Settled(commit[n], t)
        /\ \A q \in Node : Holds(q, commit[n], t) =>
             \A j \in 1 .. commit[n] : j \in 1 .. Len(log[n]) /\ Holds(q, j, log[n][j])
  BY <1>1, CommittedPrefix
<1>4. Holders(commit[m], s) \in SUBSET Node /\ Holders(commit[n], t) \in SUBSET Node
  BY DEF Holders
<1>5. PICK q \in Node : Holds(q, commit[m], s) /\ Holds(q, commit[n], t)
  BY <1>2, <1>3, <1>4, QuorumsIntersect DEF Settled, Holders
<1>6. /\ i \in 1 .. Len(log[m]) /\ log[q][i] = log[m][i]
      /\ i \in 1 .. Len(log[n]) /\ log[q][i] = log[n][i]
  BY <1>1, <1>2, <1>3, <1>5 DEF Holds
<1>7. ASSUME NEW a \in Node, i \in 1 .. commit[a], i \in 1 .. Len(log[a])
      PROVE  Learned[a][i] = log[a][i]
  <2>1. \A k \in 1 .. commit[a] :
          Learned[a][k] = IF k <= Len(log[a]) THEN log[a][k] ELSE 0
    BY <1>1, LearnedEntries
  <2> QED
    BY <1>7, <2>1
<1> QED
  BY <1>1, <1>6, <1>7

\* In a cluster of at most four nodes, no two nodes commit different entries.
THEOREM RaftCommittedAgree == SmallCluster /\ RaftSpec => []CommittedAgree
  BY CommitInit, CommitStep, CommitInvAgrees, PTL DEF RaftSpec

LEMMA CommitsGrow ==
  ASSUME RaftTypeOK, [RaftNext]_raftVars, NEW n \in Node
  PROVE  commit'[n] >= commit[n]
<1>1. \A m \in Node : commit[m] \in Nat
  BY DEF RaftTypeOK
<1>2. CASE commit' = commit
  BY <1>1, <1>2
<1>3. ASSUME NEW a \in Node, NEW k \in Nat, k >= commit[a],
             commit'[n] = IF n = a THEN k ELSE commit[n]
      PROVE  commit'[n] >= commit[n]
  BY <1>1, <1>3
<1>4. \A a, b \in Node : /\ Larger(commit[a], commit[b]) \in Nat
                        /\ Larger(commit[a], commit[b]) >= commit[a]
  BY <1>1 DEF Larger
<1> QED
  BY <1>1, <1>2, <1>3, <1>4, CommitsStep

\* What a node has committed stays at its place in its log.
LEMMA CommittedStays ==
  ASSUME CommitInv, LogInv', [RaftNext]_raftVars, NEW n \in Node, NEW i \in 1 .. commit[n]
  PROVE  /\ i \in 1 .. Len(log[n]) /\ i \in 1 .. Len(log'[n]) /\ log'[n][i] = log[n][i]
         /\ commit'[n] >= commit[n]
<1>1. /\ LogInv /\ RaftTypeOK /\ RaftTypeOK'
      /\ commit[n] \in Nat \ {0} /\ \A m \in Node : commit[m] \in Nat
  BY DEF CommitInv, LogInv, ElectionInv, RaftTypeOK
<1>2. PICK t \in Nat :
        /\ Holds(n, commit[n], t) /\ Settled(commit[n], t)
        /\ \A m \in Node : Holds(m, commit[n], t) =>
             \A j \in 1 .. commit[n] : j \in 1 .. Len(log[n]) /\ Holds(m, j, log[n][j])
  BY <1>1, CommittedPrefix
<1>3. i \in 1 .. Len(log[n])
  BY <1>2
<1>4. ASSUME log' = log
      PROVE  i \in 1 .. Len(log'[n]) /\ log'[n][i] = log[n][i]
  BY <1>3, <1>4
<1>5. ASSUME NEW l \in Node, log'[n] = IF n = l THEN Append(log[l], term[l]) ELSE log[n]
      PROVE  i \in 1 .. Len(log'[n]) /\ log'[n][i] = log[n][i]
  <2>1. CASE n # l
    BY <1>3, <1>5, <2>1
  <2>2. CASE n = l
    <3>1. /\ Len(log'[l]) = Len(log[l]) + 1 /\ Len(log[l]) \in Nat
          /\ \A j \in 1 .. Len(log'[l]) :
               log'[l][j] = IF j = Len(log[l]) + 1 THEN term[l] ELSE log[l][j]
      BY <1>1, <1>5, <2>2, Grown
    <3> QED
      BY <1>3, <2>2, <3>1
  <2> QED
    BY <2>1, <2>2
<1>6. ASSUME NEW l \in Node, NEW f \in Node, role[l] = "Leader", term[l] >= term[f],
             log'[n] = IF n = f THEN log[l] ELSE log[n]
      PROVE  i \in 1 .. Len(log'[n]) /\ log'[n][i] = log[n][i]
  <2>1. n = f => Holds(l, commit[n], t)
    BY <1>1, <1>2, <1>6, LeadersHoldProtected DEF Settled
  <2> QED
    BY <1>2, <1>3, <1>6, <2>1 DEF Holds
<1>7. i \in 1 .. Len(log'[n]) /\ log'[n][i] = log[n][i]
  BY <1>1, <1>4, <1>5, <1>6, LogsStep
<1>8. commit'[n] >= commit[n]
  BY <1>1, CommitsGrow
<1> QED
  BY <1>3, <1>7, <1>8

LEMMA PrefixOf ==
  ASSUME NEW s \in Seq(Nat), NEW r \in Seq(Nat), Len(s) <= Len(r),
         \A i \in 1 .. Len(s) : s[i] = r[i]
  PROVE  Agreed!IsPrefix(s, r)
  BY DEF Agreed!IsPrefix

LEMMA ConsensusInitially == RaftInit => Agreed!ConsensusInit
<1> SUFFICES ASSUME RaftInit PROVE Learned = [n \in Node |-> <<>>]
  BY DEF Agreed!ConsensusInit
<1>1. \A n \in Node : Len(Learned[n]) = 0 /\ Learned[n] \in Seq(Nat)
  BY RaftTypeInit, LearnedEntries DEF RaftInit
<1>2. \A n \in Node : Learned[n] = <<>>
  BY <1>1
<1> QED
  BY <1>2 DEF Learned

LEMMA SameEntries ==
  ASSUME NEW s \in Seq(Nat), NEW t \in Seq(Nat), Len(s) = Len(t),
         \A i \in 1 .. Len(s) : t[i] = s[i]
  PROVE  t = s
  OBVIOUS

\* Every step learns at one node, or nowhere.
LEMMA ConsensusStep ==
  ASSUME CommitInv, CommitInv', [RaftNext]_raftVars
  PROVE  [Agreed!ConsensusNext]_Learned
<1>0. CommitInv' => CommittedAgree'
  BY CommitInvAgrees, PTL
<1>1. RaftTypeOK /\ RaftTypeOK' /\ LogInv' /\ CommittedAgree'
  BY <1>0 DEF CommitInv, LogInv, ElectionInv
<1>2. ASSUME NEW n \in Node
      PROVE  /\ Learned[n] \in Seq(Nat) /\ Len(Learned[n]) = commit[n]
             /\ Learned'[n] \in Seq(Nat) /\ Len(Learned'[n]) = commit'[n]
             /\ commit[n] \in Nat /\ commit'[n] \in Nat
             /\ \A i \in 1 .. commit[n] : Learned'[n][i] = Learned[n][i]
             /\ commit'[n] >= commit[n]
  <2>1. /\ Learned[n] \in Seq(Nat) /\ Len(Learned[n]) = commit[n] /\ commit[n] \in Nat
        /\ \A i \in 1 .. commit[n] :
             Learned[n][i] = IF i <= Len(log[n]) THEN log[n][i] ELSE 0
    BY <1>1, LearnedEntries
  <2>2. /\ Learned'[n] \in Seq(Nat) /\ Len(Learned'[n]) = commit'[n] /\ commit'[n] \in Nat
        /\ \A i \in 1 .. commit'[n] :
             Learned'[n][i] = IF i <= Len(log'[n]) THEN log'[n][i] ELSE 0
    BY <1>1, LearnedEntriesNext
  <2>3. commit'[n] >= commit[n]
    BY <1>1, CommitsGrow
  <2>4. ASSUME NEW i \in 1 .. commit[n]
        PROVE  Learned'[n][i] = Learned[n][i]
    BY <1>1, <2>1, <2>2, <2>3, CommittedStays
  <2> QED
    BY <2>1, <2>2, <2>3, <2>4
<1>3. ASSUME NEW n \in Node, commit'[n] = commit[n]
      PROVE  Learned'[n] = Learned[n]
  <2>1. /\ Learned[n] \in Seq(Nat) /\ Len(Learned[n]) = commit[n]
        /\ Learned'[n] \in Seq(Nat) /\ Len(Learned'[n]) = commit[n]
        /\ \A i \in 1 .. commit[n] : Learned'[n][i] = Learned[n][i]
    BY <1>2, <1>3
  <2> QED
    BY <2>1, SameEntries
<1>4. CASE commit' = commit
  <2>1. \A n \in Node : Learned'[n] = Learned[n]
    BY <1>3, <1>4
  <2> QED
    BY <2>1 DEF Learned
<1>5. ASSUME NEW a \in Node, \A n \in Node \ {a} : commit'[n] = commit[n],
             commit'[a] # commit[a]
      PROVE  Agreed!Learn(a)
  <2>1. Learned'[a] # Learned[a]
    BY <1>2, <1>5
  <2>2. Agreed!IsPrefix(Learned[a], Learned'[a])
    BY <1>2, PrefixOf
  <2>3. ASSUME NEW m \in Node \ {a}
        PROVE  /\ Learned'[m] = Learned[m]
               /\ \/ Agreed!IsPrefix(Learned[m], Learned'[a])
                  \/ Agreed!IsPrefix(Learned'[a], Learned[m])
    <3>1. Learned'[m] = Learned[m]
      BY <1>3, <1>5
    <3>2. \A i \in 1 .. commit'[m] : i <= commit'[a] => Learned'[m][i] = Learned'[a][i]
      BY <1>1 DEF CommittedAgree
    <3>3. commit'[m] = commit[m]
      BY <1>5
    <3>4. CASE commit[m] <= commit'[a]
      <4>1. \A i \in 1 .. commit[m] : Learned[m][i] = Learned'[a][i]
        BY <1>2, <3>1, <3>2, <3>3, <3>4
      <4>2. /\ Learned[m] \in Seq(Nat) /\ Len(Learned[m]) = commit[m]
            /\ Learned'[a] \in Seq(Nat) /\ Len(Learned'[a]) = commit'[a]
        BY <1>2
      <4>3. Agreed!IsPrefix(Learned[m], Learned'[a])
        BY <3>4, <4>1, <4>2, PrefixOf
      <4> QED
        BY <3>1, <4>3
    <3>5. CASE commit'[a] <= commit[m]
      <4>1. \A i \in 1 .. commit'[a] : Learned'[a][i] = Learned[m][i]
        BY <1>2, <3>1, <3>2, <3>3, <3>5
      <4> QED
        BY <1>2, <3>1, <3>5, <4>1, PrefixOf
    <3> QED
      BY <1>2, <3>1, <3>4, <3>5
  <2> QED
    BY <2>1, <2>2, <2>3 DEF Agreed!Learn
<1>6. ASSUME NEW a \in Node, \A n \in Node \ {a} : commit'[n] = commit[n]
      PROVE  [Agreed!ConsensusNext]_Learned
  <2>1. CASE commit'[a] = commit[a]
    BY <1>1, <1>4, <1>6, <2>1 DEF RaftTypeOK
  <2>2. CASE commit'[a] # commit[a]
    BY <1>5, <1>6, <2>2 DEF Agreed!ConsensusNext
  <2> QED
    BY <2>1, <2>2
<1> QED
  BY <1>1, <1>4, <1>6, CommitsStep

\* The direct-call cluster of at most four nodes implements the agreement.
THEOREM RaftAgrees == SmallCluster /\ RaftSpec => RaftImplementsConsensus
<1>1. SmallCluster /\ RaftSpec => []CommitInv
  BY CommitInit, CommitStep, PTL DEF RaftSpec
<1>2. CommitInv /\ CommitInv' /\ [RaftNext]_raftVars => [Agreed!ConsensusNext]_Learned
  BY ConsensusStep
<1> QED
  BY <1>1, <1>2, ConsensusInitially, PTL
  DEF RaftSpec, RaftImplementsConsensus, Agreed!ConsensusSpec

-----------------------------------------------------------------------------
(* The cluster of messages. *)

\* What a message of each kind carries.
LEMMA MessageFields ==
  ASSUME NEW m \in Message
  PROVE  /\ m.src \in Node /\ m.dst \in Node /\ m.term \in Nat
         /\ m.kind = "RequestVote" => m.log \in Seq(Nat)
         /\ m.kind = "Vote" => m.ok \in BOOLEAN
         /\ m.kind = "Append" => m.log \in Seq(Nat) /\ m.commit \in Nat
         /\ m.kind = "Ack" => m.ok \in BOOLEAN /\ m.index \in Nat
  BY DEF Message

LEMMA AckIsMessage ==
  ASSUME NEW m \in Node, NEW n \in Node, NEW t \in Nat, NEW ok \in BOOLEAN, NEW i \in Nat
  PROVE  [kind |-> "Ack", src |-> m, dst |-> n, term |-> t, ok |-> ok, index |-> i] \in Message
  BY DEF Message

\* The head of deliver keeps the types.
LEMMA SeenTyped ==
  ASSUME NetworkTypeOK, NEW m \in msgs
  PROVE  /\ TermSeen(m) \in Nat
         /\ RoleSeen(m) \in Roles
         /\ VoteSeen(m) \in Node \cup {Nobody}
<1>1. m.dst \in Node /\ m.term \in Nat
  BY MessageFields DEF NetworkTypeOK
<1> QED
  BY <1>1 DEF NetworkTypeOK, RaftTypeOK, Roles, TermSeen, RoleSeen, VoteSeen, Larger

LEMMA NetworkTypeInit == NetworkInit => NetworkTypeOK
  BY DEF NetworkInit, RaftInit, NetworkTypeOK, RaftTypeOK, Roles

LEMMA NetworkTypeStep ==
  ASSUME NetworkTypeOK, [NetworkNext]_networkVars
  PROVE  NetworkTypeOK'
<1> USE DEF NetworkTypeOK, RaftTypeOK
<1>1. ASSUME NEW n \in Node, NetTimeout(n)
      PROVE  NetworkTypeOK'
  BY <1>1 DEF NetTimeout, Timeout, Roles
<1>2. ASSUME NEW n \in Node, NetBecomeLeader(n)
      PROVE  NetworkTypeOK'
  BY <1>2 DEF NetBecomeLeader, BecomeLeader, Roles
<1>3. ASSUME NEW n \in Node, NetClientRequest(n)
      PROVE  NetworkTypeOK'
  <2>1. Append(log[n], term[n]) \in Seq(Nat)
    OBVIOUS
  <2> QED
    BY <1>3, <2>1 DEF NetClientRequest, ClientRequest, electionVars
<1>4. ASSUME NEW n \in Node, NEW i \in 1 .. MaxLog, NetCommit(n, i)
      PROVE  NetworkTypeOK'
  BY <1>4, RaftBounds DEF NetCommit, electionVars
<1>5. ASSUME NEW m \in Node, NEW n \in Node, RequestVote(m, n)
      PROVE  NetworkTypeOK'
  <2>1. [kind |-> "RequestVote", src |-> m, dst |-> n, term |-> term[m],
         log |-> log[m]] \in Message
    BY DEF Message
  <2> QED
    BY <1>5, <2>1 DEF RequestVote, Send, raftVars
<1>6. ASSUME NEW m \in Node, NEW n \in Node, SendAppend(m, n)
      PROVE  NetworkTypeOK'
  <2>1. [kind |-> "Append", src |-> m, dst |-> n, term |-> term[m],
         log |-> log[m], commit |-> commit[m]] \in Message
    BY DEF Message
  <2> QED
    BY <1>6, <2>1 DEF SendAppend, Send, raftVars
<1>7. ASSUME NEW m \in msgs, ReceiveRequestVote(m)
      PROVE  NetworkTypeOK'
  <2>1. m.src \in Node /\ m.dst \in Node /\ m.term \in Nat
    BY MessageFields
  <2>2. Grants(m) \in BOOLEAN
    BY DEF Grants, Current, UpToDate
  <2>3. [kind |-> "Vote", src |-> m.dst, dst |-> m.src, term |-> TermSeen(m),
         ok |-> Grants(m)] \in Message
    BY <2>1, <2>2, SeenTyped DEF Message
  <2>4. term' \in [Node -> Nat] /\ role' \in [Node -> Roles]
    BY <1>7, <2>1, SeenTyped DEF ReceiveRequestVote
  <2>5. votedFor' \in [Node -> Node \cup {Nobody}]
    BY <1>7, <2>1, SeenTyped DEF ReceiveRequestVote
  <2>6. msgs' \subseteq Message
    BY <1>7, <2>3 DEF ReceiveRequestVote, Send
  <2> QED
    BY <1>7, <2>4, <2>5, <2>6 DEF ReceiveRequestVote
<1>8. ASSUME NEW m \in msgs, ReceiveVote(m)
      PROVE  NetworkTypeOK'
  <2>1. m.src \in Node /\ m.dst \in Node /\ m.term \in Nat
    BY MessageFields
  <2>2. /\ term' \in [Node -> Nat] /\ role' \in [Node -> Roles]
        /\ votedFor' \in [Node -> Node \cup {Nobody}]
    BY <1>8, <2>1, SeenTyped DEF ReceiveVote, SeeTerm
  <2>3. votes' \in [Node -> SUBSET Node]
    BY <1>8, <2>1 DEF ReceiveVote
  <2> QED
    BY <1>8, <2>2, <2>3 DEF ReceiveVote
<1>9. ASSUME NEW m \in msgs, ReceiveAppend(m)
      PROVE  NetworkTypeOK'
  <2>1. /\ m.src \in Node /\ m.dst \in Node /\ m.term \in Nat
        /\ m.log \in Seq(Nat) /\ m.commit \in Nat
    BY <1>9, MessageFields DEF ReceiveAppend
  <2>2. Stored(m) \in Seq(Nat) /\ Larger(commit[m.dst], m.commit) \in Nat
    BY <2>1 DEF Stored, Larger
  <2>3. [kind |-> "Ack", src |-> m.dst, dst |-> m.src, term |-> TermSeen(m),
         ok |-> Current(m), index |-> Len(m.log)] \in Message
    <3>1. Current(m) \in BOOLEAN /\ Len(m.log) \in Nat
      BY <2>1 DEF Current
    <3> QED
      BY <2>1, <3>1, SeenTyped, AckIsMessage
  <2>4. term' \in [Node -> Nat] /\ votedFor' \in [Node -> Node \cup {Nobody}]
    BY <1>9, <2>1, SeenTyped DEF ReceiveAppend
  <2>5. /\ role' \in [Node -> Roles]
        /\ log' \in [Node -> Seq(Nat)]
        /\ commit' \in [Node -> Nat]
    <3>1. CASE Current(m)
      <4>1. /\ role' = [role EXCEPT ![m.dst] = "Follower"]
            /\ log' = [log EXCEPT ![m.dst] = Stored(m)]
            /\ commit' = [commit EXCEPT ![m.dst] = Larger(commit[m.dst], m.commit)]
        BY <1>9, <3>1 DEF ReceiveAppend
      <4> QED
        BY <2>1, <2>2, <4>1 DEF Roles
    <3>2. CASE ~Current(m)
      BY <1>9, <3>2 DEF ReceiveAppend
    <3> QED
      BY <3>1, <3>2
  <2>6. msgs' \subseteq Message
    BY <1>9, <2>3 DEF ReceiveAppend, Send
  <2> QED
    BY <1>9, <2>4, <2>5, <2>6 DEF ReceiveAppend
<1>10. ASSUME NEW m \in msgs, ReceiveAck(m)
       PROVE  NetworkTypeOK'
  <2>1. /\ m.src \in Node /\ m.dst \in Node /\ m.term \in Nat
        /\ m.index \in Nat
    BY <1>10, MessageFields DEF ReceiveAck
  <2>2. /\ term' \in [Node -> Nat] /\ role' \in [Node -> Roles]
        /\ votedFor' \in [Node -> Node \cup {Nobody}]
    BY <1>10, <2>1, SeenTyped DEF ReceiveAck, SeeTerm
  <2>3. matched' \in [Node -> [Node -> Nat]]
    BY <1>10, <2>1 DEF ReceiveAck, Larger
  <2> QED
    BY <1>10, <2>2, <2>3 DEF ReceiveAck
<1>11. CASE UNCHANGED networkVars
  BY <1>11 DEF networkVars, raftVars
<1> QED
  BY <1>1, <1>2, <1>3, <1>4, <1>5, <1>6, <1>7, <1>8, <1>9, <1>10, <1>11 DEF NetworkNext

\* Type correctness of the cluster that exchanges messages.
THEOREM NetworkTyped == NetworkSpec => []NetworkTypeOK
  BY NetworkTypeInit, NetworkTypeStep, PTL DEF NetworkSpec

-----------------------------------------------------------------------------
\* The votes that were ever granted: the only trace of a vote that its voter
\* cannot forget.
Granted == {m \in msgs : m.kind = "Vote" /\ m.ok}

\* A granted vote is as old as its voter's term, or its voter still stands by it.
VotersRemember ==
  \A m \in Granted :
    /\ m.term <= term[m.src]
    /\ m.term = term[m.src] => votedFor[m.src] = m.dst

\* A node has one vote in a term, however often the request is delivered.
GrantedOnce ==
  \A m, k \in Granted : m.src = k.src /\ m.term = k.term => m.dst = k.dst

\* A candidate votes for itself, and every other vote it counts was granted to it
\* in its term, however late it arrived.
VotesWereGranted ==
  \A n \in Node : Campaigns(n) =>
    /\ votedFor[n] = n
    /\ \A v \in votes[n] \ {n} :
         \E m \in Granted : m.src = v /\ m.dst = n /\ m.term = term[n]

\* The inductive invariant behind ElectionSafety where votes are messages.
NetworkElectionInv ==
  /\ NetworkTypeOK
  /\ VotersRemember
  /\ GrantedOnce
  /\ VotesWereGranted
  /\ LeadersHaveQuorums

LEMMA NetworkElectionInit == NetworkInit => NetworkElectionInv
<1> SUFFICES ASSUME NetworkInit PROVE NetworkElectionInv
  OBVIOUS
<1>1. \A n \in Node : role[n] = "Follower"
  BY DEF NetworkInit, RaftInit
<1>2. Granted = {}
  BY DEF NetworkInit, Granted
<1> QED
  BY <1>1, <1>2, NetworkTypeInit
  DEF NetworkElectionInv, VotersRemember, GrantedOnce, VotesWereGranted,
      LeadersHaveQuorums, Campaigns

\* The head of deliver: a node that sees a newer term stops campaigning and
\* forgets its vote, any other stays as it is.
LEMMA SeenKeeps ==
  ASSUME NetworkTypeOK, NEW m \in msgs
  PROVE  /\ m.dst \in Node /\ m.src \in Node /\ m.term \in Nat
         /\ TermSeen(m) >= term[m.dst]
         /\ TermSeen(m) >= m.term
         /\ TermSeen(m) = term[m.dst] => VoteSeen(m) = votedFor[m.dst]
         /\ RoleSeen(m) # "Follower" =>
              TermSeen(m) = term[m.dst] /\ RoleSeen(m) = role[m.dst]
<1>1. m.dst \in Node /\ m.src \in Node /\ m.term \in Nat
  BY MessageFields DEF NetworkTypeOK
<1>2. term[m.dst] \in Nat
  BY <1>1 DEF NetworkTypeOK, RaftTypeOK
<1> QED
  BY <1>1, <1>2 DEF TermSeen, RoleSeen, VoteSeen, Larger

LEMMA GrantedTyped ==
  ASSUME NetworkTypeOK, NEW m \in Granted
  PROVE  m \in msgs /\ m.src \in Node /\ m.dst \in Node /\ m.term \in Nat
  BY MessageFields DEF NetworkTypeOK, Granted

\* A step that grants no vote and counts none keeps the invariant when no term
\* shrinks, and a node whose term grows or role changes stops campaigning.
LEMMA QuietStep ==
  ASSUME NetworkElectionInv, NetworkTypeOK', Granted' = Granted, votes' = votes,
         \A n \in Node :
           /\ term'[n] >= term[n]
           /\ term'[n] = term[n] => votedFor'[n] = votedFor[n]
           /\ Campaigns(n)' => term'[n] = term[n] /\ role'[n] = role[n]
  PROVE  NetworkElectionInv'
<1>0. NetworkTypeOK
  BY DEF NetworkElectionInv
<1>1. VotersRemember'
  <2> SUFFICES ASSUME NEW m \in Granted
               PROVE  /\ m.term <= term'[m.src]
                      /\ m.term = term'[m.src] => votedFor'[m.src] = m.dst
    BY DEF VotersRemember
  <2>1. /\ m.src \in Node /\ m.term \in Nat
        /\ term[m.src] \in Nat /\ term'[m.src] \in Nat
    BY <1>0, GrantedTyped DEF NetworkTypeOK, RaftTypeOK
  <2>2. /\ m.term <= term[m.src]
        /\ m.term = term[m.src] => votedFor[m.src] = m.dst
    BY DEF NetworkElectionInv, VotersRemember
  <2> QED
    BY <2>1, <2>2
<1>2. GrantedOnce'
  BY DEF NetworkElectionInv, GrantedOnce
<1>3. VotesWereGranted'
  <2> SUFFICES ASSUME NEW n \in Node, Campaigns(n)'
               PROVE  /\ votedFor'[n] = n
                      /\ \A v \in votes[n] \ {n} :
                           \E m \in Granted : m.src = v /\ m.dst = n /\ m.term = term'[n]
    BY DEF VotesWereGranted
  <2>1. Campaigns(n) /\ term'[n] = term[n] /\ votedFor'[n] = votedFor[n]
    BY DEF Campaigns
  <2> QED
    BY <2>1 DEF NetworkElectionInv, VotesWereGranted
<1>4. LeadersHaveQuorums'
  BY DEF NetworkElectionInv, LeadersHaveQuorums, Campaigns, IsQuorum
<1> QED
  BY <1>1, <1>2, <1>3, <1>4 DEF NetworkElectionInv

LEMMA TimeoutElects ==
  ASSUME NetworkElectionInv, NetworkTypeOK', NEW n \in Node, NetTimeout(n)
  PROVE  NetworkElectionInv'
<1>0. NetworkTypeOK
  BY DEF NetworkElectionInv
<1>1. /\ term' = [term EXCEPT ![n] = term[n] + 1]
      /\ role' = [role EXCEPT ![n] = "Candidate"]
      /\ votedFor' = [votedFor EXCEPT ![n] = n]
      /\ votes' = [votes EXCEPT ![n] = {n}]
      /\ Granted' = Granted
  BY DEF NetTimeout, Timeout, Granted
<1>2. VotersRemember'
  <2> SUFFICES ASSUME NEW m \in Granted
               PROVE  /\ m.term <= term'[m.src]
                      /\ m.term = term'[m.src] => votedFor'[m.src] = m.dst
    BY <1>1 DEF VotersRemember
  <2>1. m.src \in Node /\ m.term \in Nat /\ term[m.src] \in Nat
    BY <1>0, GrantedTyped DEF NetworkTypeOK, RaftTypeOK
  <2>2. /\ m.term <= term[m.src]
        /\ m.term = term[m.src] => votedFor[m.src] = m.dst
    BY DEF NetworkElectionInv, VotersRemember
  <2>3. term \in [Node -> Nat] /\ votedFor \in [Node -> Node \cup {Nobody}]
    BY <1>0 DEF NetworkTypeOK, RaftTypeOK
  <2> QED
    BY <1>1, <2>1, <2>2, <2>3
<1>3. GrantedOnce'
  BY <1>1 DEF NetworkElectionInv, GrantedOnce
<1>4. VotesWereGranted'
  <2> SUFFICES ASSUME NEW k \in Node, Campaigns(k)'
               PROVE  /\ votedFor'[k] = k
                      /\ \A v \in votes'[k] \ {k} :
                           \E m \in Granted : m.src = v /\ m.dst = k /\ m.term = term'[k]
    BY <1>1 DEF VotesWereGranted
  <2>1. CASE k = n
    BY <1>0, <1>1, <2>1 DEF NetworkTypeOK, RaftTypeOK
  <2>2. CASE k # n
    <3>1. /\ Campaigns(k) /\ term'[k] = term[k]
          /\ votedFor'[k] = votedFor[k] /\ votes'[k] = votes[k]
      BY <1>0, <1>1, <2>2 DEF Campaigns, NetworkTypeOK, RaftTypeOK
    <3> QED
      BY <3>1 DEF NetworkElectionInv, VotesWereGranted
  <2> QED
    BY <2>1, <2>2
<1>5. LeadersHaveQuorums'
  BY <1>0, <1>1
  DEF NetworkElectionInv, LeadersHaveQuorums, IsQuorum, NetworkTypeOK, RaftTypeOK
<1> QED
  BY <1>2, <1>3, <1>4, <1>5 DEF NetworkElectionInv

LEMMA LeaderIsElected ==
  ASSUME NetworkElectionInv, NetworkTypeOK', NEW n \in Node, NetBecomeLeader(n)
  PROVE  NetworkElectionInv'
<1>0. NetworkTypeOK
  BY DEF NetworkElectionInv
<1>1. /\ role[n] = "Candidate" /\ IsQuorum(votes[n])
      /\ role' = [role EXCEPT ![n] = "Leader"]
      /\ term' = term /\ votedFor' = votedFor /\ votes' = votes
      /\ Granted' = Granted
  BY DEF NetBecomeLeader, BecomeLeader, Granted
<1>2. VotersRemember' /\ GrantedOnce'
  BY <1>1 DEF NetworkElectionInv, VotersRemember, GrantedOnce
<1>3. VotesWereGranted'
  BY <1>0, <1>1
  DEF NetworkElectionInv, VotesWereGranted, Campaigns, NetworkTypeOK, RaftTypeOK
<1>4. LeadersHaveQuorums'
  BY <1>0, <1>1
  DEF NetworkElectionInv, LeadersHaveQuorums, IsQuorum, NetworkTypeOK, RaftTypeOK
<1> QED
  BY <1>2, <1>3, <1>4 DEF NetworkElectionInv

\* The only step that grants a vote: the voter writes it down as it answers.
LEMMA GrantIsRemembered ==
  ASSUME NetworkElectionInv, NetworkTypeOK', NEW m \in msgs, ReceiveRequestVote(m)
  PROVE  NetworkElectionInv'
<1>0. NetworkTypeOK
  BY DEF NetworkElectionInv
<1> DEFINE d == m.dst
           vote == [kind |-> "Vote", src |-> d, dst |-> m.src,
                    term |-> TermSeen(m), ok |-> Grants(m)]
<1>1. /\ term' = [term EXCEPT ![d] = TermSeen(m)]
      /\ role' = [role EXCEPT ![d] = RoleSeen(m)]
      /\ votedFor' = [votedFor EXCEPT ![d] = IF Grants(m) THEN m.src ELSE VoteSeen(m)]
      /\ votes' = votes
      /\ msgs' = msgs \cup {vote}
  BY DEF ReceiveRequestVote, Send
<1>2. /\ d \in Node /\ m.src \in Node
      /\ term \in [Node -> Nat] /\ votedFor \in [Node -> Node \cup {Nobody}]
      /\ role \in [Node -> Roles]
      /\ TermSeen(m) \in Nat /\ TermSeen(m) >= term[d]
      /\ TermSeen(m) = term[d] => VoteSeen(m) = votedFor[d]
      /\ RoleSeen(m) # "Follower" => TermSeen(m) = term[d] /\ RoleSeen(m) = role[d]
  BY <1>0, SeenKeeps, SeenTyped DEF NetworkTypeOK, RaftTypeOK
<1>3. Grants(m) => VoteSeen(m) \in {Nobody, m.src}
  BY DEF Grants
<1>4. /\ \A k \in Granted : k \in Granted'
      /\ \A k \in Granted' : k \in Granted \/ (k = vote /\ Grants(m))
  <2>1. vote.ok => Grants(m)
    OBVIOUS
  <2> HIDE DEF vote
  <2>2. ASSUME NEW k \in Granted'
        PROVE  k \in Granted \/ (k = vote /\ vote.ok)
    BY <1>1, <2>2 DEF Granted
  <2>3. \A k \in Granted : k \in Granted'
    BY <1>1 DEF Granted
  <2> QED
    BY <2>1, <2>2, <2>3
\* What d granted before is older than the term it is in now, or is the vote it
\* stands by.
<1>5. ASSUME NEW k \in Granted, k.src = d
      PROVE  /\ k.term <= TermSeen(m)
             /\ k.term = TermSeen(m) => VoteSeen(m) = k.dst
             /\ k.term = TermSeen(m) /\ Grants(m) => k.dst = m.src
  <2>1. k.term \in Nat /\ k.dst \in Node
    BY <1>0, GrantedTyped
  <2>2. /\ k.term <= term[d]
        /\ k.term = term[d] => votedFor[d] = k.dst
    BY <1>5 DEF NetworkElectionInv, VotersRemember
  <2>3. k.dst # Nobody /\ term[d] \in Nat
    BY <1>2, <2>1, NodeAssumption
  <2> QED
    BY <1>2, <1>3, <2>1, <2>2, <2>3
<1>6. VotersRemember'
  <2> SUFFICES ASSUME NEW k \in Granted'
               PROVE  /\ k.term <= term'[k.src]
                      /\ k.term = term'[k.src] => votedFor'[k.src] = k.dst
    BY DEF VotersRemember
  <2>1. CASE k = vote /\ Grants(m)
    BY <1>1, <1>2, <2>1
  <2>2. CASE k \in Granted /\ k.src = d
    BY <1>1, <1>2, <1>5, <2>2
  <2>3. CASE k \in Granted /\ k.src # d
    <3>1. k.src \in Node
      BY <1>0, <2>3, GrantedTyped
    <3>2. term'[k.src] = term[k.src] /\ votedFor'[k.src] = votedFor[k.src]
      BY <1>1, <1>2, <2>3, <3>1
    <3> QED
      BY <2>3, <3>2 DEF NetworkElectionInv, VotersRemember
  <2> QED
    BY <1>4, <2>1, <2>2, <2>3
<1>7. GrantedOnce'
  <2> SUFFICES ASSUME NEW k \in Granted', NEW l \in Granted',
                      k.src = l.src, k.term = l.term
               PROVE  k.dst = l.dst
    BY DEF GrantedOnce
  <2>1. CASE k \in Granted /\ l \in Granted
    BY <2>1 DEF NetworkElectionInv, GrantedOnce
  <2>2. ASSUME NEW j \in Granted, j.src = vote.src, j.term = vote.term, Grants(m)
        PROVE  j.dst = vote.dst
    BY <1>5, <2>2
  <2> QED
    BY <1>4, <2>1, <2>2
<1>8. VotesWereGranted'
  <2> SUFFICES ASSUME NEW n \in Node, Campaigns(n)'
               PROVE  /\ votedFor'[n] = n
                      /\ \A v \in votes[n] \ {n} :
                           \E k \in Granted' : k.src = v /\ k.dst = n /\ k.term = term'[n]
    BY <1>1 DEF VotesWereGranted
  <2>1. Campaigns(n) /\ term'[n] = term[n]
    BY <1>1, <1>2 DEF Campaigns
  <2>2. votedFor[n] = n /\ \A v \in votes[n] \ {n} :
          \E k \in Granted : k.src = v /\ k.dst = n /\ k.term = term[n]
    BY <2>1 DEF NetworkElectionInv, VotesWereGranted
  <2>3. votedFor'[n] = n
    <3>1. CASE n # d
      BY <1>1, <1>2, <2>2, <3>1
    <3>2. CASE n = d
      <4>1. TermSeen(m) = term[d] /\ VoteSeen(m) = d
        BY <1>1, <1>2, <2>2, <3>2 DEF Campaigns
      <4>2. Grants(m) => m.src = d
        BY <1>2, <1>3, <4>1, NodeAssumption
      <4> QED
        BY <1>1, <1>2, <3>2, <4>1, <4>2
    <3> QED
      BY <3>1, <3>2
  <2> QED
    BY <1>4, <2>1, <2>2, <2>3
<1>9. LeadersHaveQuorums'
  <2> SUFFICES ASSUME NEW n \in Node, role'[n] = "Leader"
               PROVE  IsQuorum(votes[n])
    BY <1>1 DEF LeadersHaveQuorums, IsQuorum
  <2>1. role[n] = "Leader"
    BY <1>1, <1>2
  <2> QED
    BY <2>1 DEF NetworkElectionInv, LeadersHaveQuorums
<1> QED
  BY <1>6, <1>7, <1>8, <1>9 DEF NetworkElectionInv

\* A vote counts in the term it was granted in: a late one is not current, and
\* one from a newer term deposes the candidate first.
LEMMA CountedVoteWasGranted ==
  ASSUME NetworkElectionInv, NetworkTypeOK', NEW m \in msgs, ReceiveVote(m)
  PROVE  NetworkElectionInv'
<1>0. NetworkTypeOK
  BY DEF NetworkElectionInv
<1> DEFINE d == m.dst
<1>1. /\ term' = [term EXCEPT ![d] = TermSeen(m)]
      /\ role' = [role EXCEPT ![d] = RoleSeen(m)]
      /\ votedFor' = [votedFor EXCEPT ![d] = VoteSeen(m)]
      /\ Granted' = Granted
  BY DEF ReceiveVote, SeeTerm, Granted
<1>2. /\ d \in Node /\ m.src \in Node /\ m.term \in Nat
      /\ term \in [Node -> Nat] /\ votedFor \in [Node -> Node \cup {Nobody}]
      /\ role \in [Node -> Roles] /\ votes \in [Node -> SUBSET Node]
      /\ TermSeen(m) \in Nat /\ TermSeen(m) >= term[d]
      /\ TermSeen(m) = term[d] => VoteSeen(m) = votedFor[d]
      /\ RoleSeen(m) # "Follower" => TermSeen(m) = term[d] /\ RoleSeen(m) = role[d]
  BY <1>0, SeenKeeps, SeenTyped DEF NetworkTypeOK, RaftTypeOK
<1>3. \A n \in Node :
        /\ term'[n] >= term[n]
        /\ term'[n] = term[n] => votedFor'[n] = votedFor[n]
        /\ Campaigns(n)' => term'[n] = term[n] /\ role'[n] = role[n]
  BY <1>1, <1>2 DEF Campaigns
<1>4. CASE m.ok /\ Current(m) /\ RoleSeen(m) = "Candidate"
  <2>1. votes' = [votes EXCEPT ![d] = votes[d] \cup {m.src}]
    BY <1>4 DEF ReceiveVote
  <2>2. m \in Granted /\ role[d] = "Candidate"
    BY <1>2, <1>4 DEF Granted, ReceiveVote
  <2>3. m.term = term[d]
    BY <1>2, <1>4 DEF Current, RoleSeen
  <2>4. VotersRemember'
    <3> SUFFICES ASSUME NEW k \in Granted
                 PROVE  /\ k.term <= term'[k.src]
                        /\ k.term = term'[k.src] => votedFor'[k.src] = k.dst
      BY <1>1 DEF VotersRemember
    <3>1. /\ k.src \in Node /\ k.term \in Nat
          /\ term[k.src] \in Nat /\ term'[k.src] \in Nat
      BY <1>0, GrantedTyped DEF NetworkTypeOK, RaftTypeOK
    <3>2. /\ k.term <= term[k.src]
          /\ k.term = term[k.src] => votedFor[k.src] = k.dst
      BY DEF NetworkElectionInv, VotersRemember
    <3> QED
      BY <1>3, <3>1, <3>2
  <2>5. GrantedOnce'
    BY <1>1 DEF NetworkElectionInv, GrantedOnce
  <2>6. VotesWereGranted'
    <3> SUFFICES ASSUME NEW n \in Node, Campaigns(n)'
                 PROVE  /\ votedFor'[n] = n
                        /\ \A v \in votes'[n] \ {n} :
                             \E k \in Granted : k.src = v /\ k.dst = n /\ k.term = term'[n]
      BY <1>1 DEF VotesWereGranted
    <3>1. Campaigns(n) /\ term'[n] = term[n] /\ votedFor'[n] = votedFor[n]
      BY <1>3 DEF Campaigns
    <3>2. votedFor[n] = n /\ \A v \in votes[n] \ {n} :
            \E k \in Granted : k.src = v /\ k.dst = n /\ k.term = term[n]
      BY <3>1 DEF NetworkElectionInv, VotesWereGranted
    <3>3. \A v \in votes'[n] : v \in votes[n] \/ (n = d /\ v = m.src)
      BY <1>2, <2>1
    <3>4. ASSUME NEW v \in votes'[n], v # n
          PROVE  \E k \in Granted : k.src = v /\ k.dst = n /\ k.term = term'[n]
      <4>1. CASE v \in votes[n]
        BY <3>1, <3>2, <3>4, <4>1
      <4>2. CASE n = d /\ v = m.src
        BY <2>2, <2>3, <3>1, <4>2
      <4> QED
        BY <3>3, <4>1, <4>2
    <3> QED
      BY <3>1, <3>2, <3>4
  <2>7. LeadersHaveQuorums'
    <3> SUFFICES ASSUME NEW n \in Node, role'[n] = "Leader"
                 PROVE  IsQuorum(votes'[n])
      BY DEF LeadersHaveQuorums, IsQuorum
    <3>1. n # d /\ role[n] = "Leader"
      BY <1>1, <1>2, <1>4
    <3>2. votes'[n] = votes[n]
      BY <1>2, <2>1, <3>1
    <3> QED
      BY <3>1, <3>2 DEF NetworkElectionInv, LeadersHaveQuorums
  <2> QED
    BY <2>4, <2>5, <2>6, <2>7 DEF NetworkElectionInv
<1>5. CASE ~(m.ok /\ Current(m) /\ RoleSeen(m) = "Candidate")
  <2>1. votes' = votes
    BY <1>5 DEF ReceiveVote
  <2> QED
    BY <1>1, <1>3, <2>1, QuietStep
<1> QED
  BY <1>4, <1>5

LEMMA AppendIsQuiet ==
  ASSUME NetworkElectionInv, NetworkTypeOK', NEW m \in msgs, ReceiveAppend(m)
  PROVE  NetworkElectionInv'
<1>0. NetworkTypeOK
  BY DEF NetworkElectionInv
<1> DEFINE d == m.dst
<1>1. /\ term' = [term EXCEPT ![d] = TermSeen(m)]
      /\ votedFor' = [votedFor EXCEPT ![d] = VoteSeen(m)]
      /\ votes' = votes
  BY DEF ReceiveAppend
<1>2. Granted' = Granted
  BY DEF ReceiveAppend, Send, Granted
<1>3. /\ d \in Node /\ m.term \in Nat
      /\ term \in [Node -> Nat] /\ votedFor \in [Node -> Node \cup {Nobody}]
      /\ role \in [Node -> Roles]
      /\ TermSeen(m) \in Nat /\ TermSeen(m) >= term[d]
      /\ TermSeen(m) = term[d] => VoteSeen(m) = votedFor[d]
  BY <1>0, SeenKeeps, SeenTyped DEF NetworkTypeOK, RaftTypeOK
<1>4. CASE Current(m)
  <2>1. role' = [role EXCEPT ![d] = "Follower"]
    BY <1>4 DEF ReceiveAppend
  <2>2. \A n \in Node :
          /\ term'[n] >= term[n]
          /\ term'[n] = term[n] => votedFor'[n] = votedFor[n]
          /\ Campaigns(n)' => term'[n] = term[n] /\ role'[n] = role[n]
    BY <1>1, <1>3, <2>1 DEF Campaigns
  <2> QED
    BY <1>1, <1>2, <2>2, QuietStep
<1>5. CASE ~Current(m)
  <2>1. role' = role
    BY <1>5 DEF ReceiveAppend
  <2>2. TermSeen(m) = term[d]
    BY <1>3, <1>5 DEF Current, TermSeen, Larger
  <2>3. \A n \in Node :
          /\ term'[n] >= term[n]
          /\ term'[n] = term[n] => votedFor'[n] = votedFor[n]
          /\ Campaigns(n)' => term'[n] = term[n] /\ role'[n] = role[n]
    BY <1>1, <1>3, <2>1, <2>2 DEF Campaigns
  <2> QED
    BY <1>1, <1>2, <2>3, QuietStep
<1> QED
  BY <1>4, <1>5

LEMMA AckIsQuiet ==
  ASSUME NetworkElectionInv, NetworkTypeOK', NEW m \in msgs, ReceiveAck(m)
  PROVE  NetworkElectionInv'
<1>0. NetworkTypeOK
  BY DEF NetworkElectionInv
<1> DEFINE d == m.dst
<1>1. /\ term' = [term EXCEPT ![d] = TermSeen(m)]
      /\ role' = [role EXCEPT ![d] = RoleSeen(m)]
      /\ votedFor' = [votedFor EXCEPT ![d] = VoteSeen(m)]
      /\ votes' = votes /\ Granted' = Granted
  BY DEF ReceiveAck, SeeTerm, Granted
<1>2. /\ d \in Node
      /\ term \in [Node -> Nat] /\ votedFor \in [Node -> Node \cup {Nobody}]
      /\ role \in [Node -> Roles]
      /\ TermSeen(m) \in Nat /\ TermSeen(m) >= term[d]
      /\ TermSeen(m) = term[d] => VoteSeen(m) = votedFor[d]
      /\ RoleSeen(m) # "Follower" => TermSeen(m) = term[d] /\ RoleSeen(m) = role[d]
  BY <1>0, SeenKeeps, SeenTyped DEF NetworkTypeOK, RaftTypeOK
<1>3. \A n \in Node :
        /\ term'[n] >= term[n]
        /\ term'[n] = term[n] => votedFor'[n] = votedFor[n]
        /\ Campaigns(n)' => term'[n] = term[n] /\ role'[n] = role[n]
  BY <1>1, <1>2 DEF Campaigns
<1> QED
  BY <1>1, <1>3, QuietStep

LEMMA NetworkElectionStep ==
  ASSUME NetworkElectionInv, [NetworkNext]_networkVars
  PROVE  NetworkElectionInv'
<1>0. NetworkTypeOK /\ NetworkTypeOK'
  BY NetworkTypeStep DEF NetworkElectionInv
\* What leaves elections and granted votes alone.
<1>1. ASSUME UNCHANGED electionVars, Granted' = Granted
      PROVE  NetworkElectionInv'
  <2>1. term' = term /\ role' = role /\ votedFor' = votedFor /\ votes' = votes
    BY <1>1 DEF electionVars
  <2>2. \A n \in Node : term[n] \in Nat
    BY <1>0 DEF NetworkTypeOK, RaftTypeOK
  <2> QED
    BY <1>0, <1>1, <2>1, <2>2, QuietStep
<1>2. ASSUME NEW n \in Node, NetTimeout(n)
      PROVE  NetworkElectionInv'
  BY <1>0, <1>2, TimeoutElects
<1>3. ASSUME NEW n \in Node, NetBecomeLeader(n)
      PROVE  NetworkElectionInv'
  BY <1>0, <1>3, LeaderIsElected
<1>4. ASSUME NEW n \in Node, NetClientRequest(n)
      PROVE  NetworkElectionInv'
  BY <1>1, <1>4 DEF NetClientRequest, ClientRequest, Granted
<1>5. ASSUME NEW n \in Node, NEW i \in 1 .. MaxLog, NetCommit(n, i)
      PROVE  NetworkElectionInv'
  BY <1>1, <1>5 DEF NetCommit, Granted
<1>6. ASSUME NEW m \in Node, NEW n \in Node, RequestVote(m, n)
      PROVE  NetworkElectionInv'
  <2>1. Granted' = Granted /\ UNCHANGED electionVars
    BY <1>6 DEF RequestVote, Send, Granted, raftVars, electionVars
  <2> QED
    BY <1>1, <2>1
<1>7. ASSUME NEW m \in Node, NEW n \in Node, SendAppend(m, n)
      PROVE  NetworkElectionInv'
  <2>1. Granted' = Granted /\ UNCHANGED electionVars
    BY <1>7 DEF SendAppend, Send, Granted, raftVars, electionVars
  <2> QED
    BY <1>1, <2>1
<1>8. ASSUME NEW m \in msgs, ReceiveRequestVote(m)
      PROVE  NetworkElectionInv'
  BY <1>0, <1>8, GrantIsRemembered
<1>9. ASSUME NEW m \in msgs, ReceiveVote(m)
      PROVE  NetworkElectionInv'
  BY <1>0, <1>9, CountedVoteWasGranted
<1>10. ASSUME NEW m \in msgs, ReceiveAppend(m)
       PROVE  NetworkElectionInv'
  BY <1>0, <1>10, AppendIsQuiet
<1>11. ASSUME NEW m \in msgs, ReceiveAck(m)
       PROVE  NetworkElectionInv'
  BY <1>0, <1>11, AckIsQuiet
<1>12. CASE UNCHANGED networkVars
  BY <1>1, <1>12 DEF networkVars, raftVars, electionVars, Granted
<1> QED
  BY <1>2, <1>3, <1>4, <1>5, <1>6, <1>7, <1>8, <1>9, <1>10, <1>11, <1>12 DEF NetworkNext

\* Two leaders of one term were voted for by one node: by a leader itself, which
\* then granted its vote to the other, or by a third node twice.
LEMMA NetworkElectionInvIsSafe == NetworkElectionInv => ElectionSafety
<1> SUFFICES ASSUME NetworkElectionInv, NEW m \in Node, NEW n \in Node, m # n,
                    role[m] = "Leader", role[n] = "Leader", term[m] = term[n]
             PROVE  FALSE
  BY DEF ElectionSafety
<1>0. NetworkTypeOK
  BY DEF NetworkElectionInv
<1>1. IsQuorum(votes[m]) /\ IsQuorum(votes[n])
  BY DEF NetworkElectionInv, LeadersHaveQuorums
<1>2. votes[m] \in SUBSET Node /\ votes[n] \in SUBSET Node
  BY <1>0 DEF NetworkTypeOK, RaftTypeOK
<1>3. PICK v \in votes[m] : v \in votes[n]
  BY <1>1, <1>2, QuorumsIntersect
<1>4. Campaigns(m) /\ Campaigns(n)
  BY DEF Campaigns
<1>5. /\ votedFor[m] = m /\ votedFor[n] = n
      /\ v # m => \E k \in Granted : k.src = v /\ k.dst = m /\ k.term = term[m]
      /\ v # n => \E k \in Granted : k.src = v /\ k.dst = n /\ k.term = term[n]
  BY <1>3, <1>4 DEF NetworkElectionInv, VotesWereGranted
<1>6. CASE v = m
  BY <1>5, <1>6 DEF NetworkElectionInv, VotersRemember
<1>7. CASE v = n
  BY <1>5, <1>7 DEF NetworkElectionInv, VotersRemember
<1>8. CASE v # m /\ v # n
  BY <1>5, <1>8 DEF NetworkElectionInv, GrantedOnce
<1> QED
  BY <1>6, <1>7, <1>8

\* No two nodes of the messaging cluster lead in the same term, for any number
\* of nodes, however late, often or out of order their messages arrive.
THEOREM NetworkElectionSafe == NetworkSpec => []ElectionSafety
<1>1. NetworkSpec => []NetworkElectionInv
  BY NetworkElectionInit, NetworkElectionStep, PTL DEF NetworkSpec
<1> QED
  BY <1>1, NetworkElectionInvIsSafe, PTL

-----------------------------------------------------------------------------
(* The logs of the nodes and of the messages. *)

Has(s, i, t) == i \in 1 .. Len(s) /\ s[i] = t

\* s starts with r.
Starts(s, r) == Len(r) <= Len(s) /\ \A k \in 1 .. Len(r) : s[k] = r[k]

Requests == {m \in msgs : m.kind = "RequestVote"}
Appends == {m \in msgs : m.kind = "Append"}
Acks == {m \in msgs : m.kind = "Ack" /\ m.ok}

\* Every log that a node keeps or that a message still carries.
Logs == {log[n] : n \in Node} \cup {m.log : m \in Requests \cup Appends}

LEMMA LogsTyped ==
  ASSUME NetworkTypeOK
  PROVE  /\ \A n \in Node : log[n] \in Logs /\ term[n] \in Nat /\ votes[n] \in SUBSET Node
         /\ \A m \in Requests \cup Appends :
              m.log \in Logs /\ m.src \in Node /\ m.dst \in Node /\ m.term \in Nat
         /\ \A s \in Logs : /\ s \in Seq(Nat) /\ Len(s) \in Nat
                            /\ \A i \in 1 .. Len(s) : s[i] \in Nat
         /\ \A a \in Acks : a.src \in Node /\ a.dst \in Node /\ a.term \in Nat /\ a.index \in Nat
         /\ \A k \in Granted : k.src \in Node /\ k.dst \in Node /\ k.term \in Nat
         /\ \A m \in Appends : m.commit \in Nat
<1>1. \A n \in Node : log[n] \in Seq(Nat) /\ term[n] \in Nat /\ votes[n] \in SUBSET Node
  BY DEF NetworkTypeOK, RaftTypeOK
<1>2. \A m \in Requests \cup Appends :
        m.log \in Seq(Nat) /\ m.src \in Node /\ m.dst \in Node /\ m.term \in Nat
  BY MessageFields DEF NetworkTypeOK, Requests, Appends
<1>3. /\ \A n \in Node : log[n] \in Logs
      /\ \A m \in Requests \cup Appends : m.log \in Logs
      /\ \A s \in Logs : s \in Seq(Nat)
  BY <1>1, <1>2 DEF Logs
<1>4. \A s \in Seq(Nat) : Len(s) \in Nat /\ \A i \in 1 .. Len(s) : s[i] \in Nat
  OBVIOUS
<1>5. \A a \in Acks : a.src \in Node /\ a.dst \in Node /\ a.term \in Nat /\ a.index \in Nat
  BY MessageFields DEF NetworkTypeOK, Acks
<1>6. \A k \in Granted : k.src \in Node /\ k.dst \in Node /\ k.term \in Nat
  BY MessageFields DEF NetworkTypeOK, Granted
<1>7. \A m \in Appends : m.commit \in Nat
  BY MessageFields DEF NetworkTypeOK, Appends
<1> QED
  BY <1>1, <1>2, <1>3, <1>4, <1>5, <1>6, <1>7

\* The head of deliver and what each handler does with it, node by node.
LEMMA Delivered ==
  ASSUME NetworkTypeOK, NEW m \in msgs,
         ReceiveRequestVote(m) \/ ReceiveVote(m) \/ ReceiveAppend(m) \/ ReceiveAck(m)
  PROVE  /\ m.dst \in Node
         /\ \A n \in Node :
              /\ term'[n] = IF n = m.dst THEN TermSeen(m) ELSE term[n]
              /\ n # m.dst => role'[n] = role[n] /\ votedFor'[n] = votedFor[n]
                              /\ votes'[n] = votes[n] /\ log'[n] = log[n]
              /\ role'[m.dst] \in {"Follower", role[m.dst]}
              /\ TermSeen(m) > term[m.dst] => role'[m.dst] = "Follower"
              /\ role[n] # "Candidate" /\ role'[n] # "Follower" => votes'[n] = votes[n]
         /\ TermSeen(m) \in Nat /\ TermSeen(m) >= term[m.dst] /\ TermSeen(m) >= m.term
<1>1. /\ m.dst \in Node /\ m.src \in Node /\ m.term \in Nat /\ term[m.dst] \in Nat
      /\ term \in [Node -> Nat] /\ role \in [Node -> Roles] /\ votes \in [Node -> SUBSET Node]
      /\ votedFor \in [Node -> Node \cup {Nobody}] /\ log \in [Node -> Seq(Nat)]
  BY MessageFields DEF NetworkTypeOK, RaftTypeOK
<1>2. /\ TermSeen(m) \in Nat /\ TermSeen(m) >= term[m.dst] /\ TermSeen(m) >= m.term
      /\ RoleSeen(m) \in {"Follower", role[m.dst]}
      /\ TermSeen(m) > term[m.dst] => RoleSeen(m) = "Follower"
  BY <1>1 DEF TermSeen, RoleSeen, Larger
<1>3. CASE ReceiveRequestVote(m)
  BY <1>1, <1>2, <1>3 DEF ReceiveRequestVote
<1>4. CASE ReceiveVote(m)
  <2>1. /\ term' = [term EXCEPT ![m.dst] = TermSeen(m)]
        /\ role' = [role EXCEPT ![m.dst] = RoleSeen(m)]
        /\ votedFor' = [votedFor EXCEPT ![m.dst] = VoteSeen(m)]
        /\ log' = log
        /\ votes' = [votes EXCEPT ![m.dst] = votes[m.dst] \cup {m.src}] \/ votes' = votes
        /\ votes' = votes \/ RoleSeen(m) = "Candidate"
    BY <1>4 DEF ReceiveVote, SeeTerm
  <2> QED
    BY <1>1, <1>2, <2>1
<1>5. CASE ReceiveAppend(m)
  <2>1. /\ term' = [term EXCEPT ![m.dst] = TermSeen(m)]
        /\ votedFor' = [votedFor EXCEPT ![m.dst] = VoteSeen(m)]
        /\ votes' = votes
        /\ Current(m) \/ (role' = role /\ log' = log)
        /\ Current(m) => /\ role' = [role EXCEPT ![m.dst] = "Follower"]
                         /\ log' = [log EXCEPT ![m.dst] = Stored(m)]
    BY <1>5 DEF ReceiveAppend
  <2>2. Current(m) \/ TermSeen(m) = term[m.dst]
    BY <1>1 DEF Current, TermSeen, Larger
  <2> QED
    BY <1>1, <1>2, <2>1, <2>2
<1>6. CASE ReceiveAck(m)
  BY <1>1, <1>2, <1>6 DEF ReceiveAck, SeeTerm
<1> QED
  BY <1>3, <1>4, <1>5, <1>6

LEMMA NetRolesStep ==
  ASSUME NetworkTypeOK, [NetworkNext]_networkVars, NEW n \in Node
  PROVE  /\ term'[n] >= term[n]
         /\ role'[n] = "Leader" =>
              /\ term'[n] = term[n] /\ votes'[n] = votes[n]
              /\ role[n] = "Leader" \/ (role[n] = "Candidate" /\ NetBecomeLeader(n))
         /\ role'[n] = "Candidate" =>
              term'[n] = term[n] + 1 \/ (role[n] = "Candidate" /\ term'[n] = term[n])
<1>0. \A a \in Node : term[a] \in Nat /\ role[a] \in Roles
  BY DEF NetworkTypeOK, RaftTypeOK
<1>1. ASSUME NEW a \in Node, NetTimeout(a)
      PROVE  /\ term'[n] = IF n = a THEN term[n] + 1 ELSE term[n]
             /\ role'[n] = IF n = a THEN "Candidate" ELSE role[n]
             /\ n # a => votes'[n] = votes[n]
  BY <1>1 DEF NetTimeout, Timeout, NetworkTypeOK, RaftTypeOK
<1>2. ASSUME NEW a \in Node, NetBecomeLeader(a)
      PROVE  /\ term'[n] = term[n] /\ votes'[n] = votes[n] /\ role[a] = "Candidate"
             /\ role'[n] = IF n = a THEN "Leader" ELSE role[n]
  BY <1>2 DEF NetBecomeLeader, BecomeLeader, NetworkTypeOK, RaftTypeOK
<1>3. ASSUME NEW m \in msgs,
             ReceiveRequestVote(m) \/ ReceiveVote(m) \/ ReceiveAppend(m) \/ ReceiveAck(m)
      PROVE  /\ term'[n] >= term[n]
             /\ role'[n] # "Follower" => role'[n] = role[n] /\ term'[n] = term[n]
             /\ role'[n] = "Leader" => votes'[n] = votes[n]
  <2>1. /\ m.dst \in Node
        /\ term'[n] = IF n = m.dst THEN TermSeen(m) ELSE term[n]
        /\ n # m.dst => role'[n] = role[n]
        /\ role'[m.dst] \in {"Follower", role[m.dst]}
        /\ TermSeen(m) > term[m.dst] => role'[m.dst] = "Follower"
        /\ role[n] # "Candidate" /\ role'[n] # "Follower" => votes'[n] = votes[n]
        /\ TermSeen(m) \in Nat /\ TermSeen(m) >= term[m.dst]
    BY <1>3, Delivered
  <2> QED
    BY <1>0, <2>1
<1>4. ASSUME UNCHANGED electionVars
      PROVE  term'[n] = term[n] /\ role'[n] = role[n] /\ votes'[n] = votes[n]
  BY <1>4 DEF electionVars
<1>5. ASSUME \/ \E a \in Node : NetClientRequest(a) \/ \E i \in 1 .. MaxLog : NetCommit(a, i)
             \/ \E a, b \in Node : RequestVote(a, b) \/ SendAppend(a, b)
             \/ UNCHANGED networkVars
      PROVE  UNCHANGED electionVars
  BY <1>5 DEF NetClientRequest, ClientRequest, NetCommit, RequestVote, SendAppend,
              networkVars, raftVars, electionVars
<1>6. CASE \E a \in Node : NetTimeout(a)
  BY <1>0, <1>1, <1>6
<1>7. CASE \E a \in Node : NetBecomeLeader(a)
  BY <1>0, <1>2, <1>7
<1>8. CASE \E m \in msgs : ReceiveRequestVote(m) \/ ReceiveVote(m) \/ ReceiveAppend(m)
                           \/ ReceiveAck(m)
  BY <1>0, <1>3, <1>8
<1>9. CASE UNCHANGED electionVars
  BY <1>0, <1>4, <1>9
<1> QED
  BY <1>5, <1>6, <1>7, <1>8, <1>9 DEF NetworkNext

\* A log changes by its leader's append or by a current append message.
LEMMA NetLogsStep ==
  ASSUME NetworkTypeOK, [NetworkNext]_networkVars
  PROVE  \/ log' = log
         \/ \E l \in Node :
              /\ role[l] = "Leader" /\ UNCHANGED <<electionVars, commit, matched, msgs>>
              /\ \A n \in Node : log'[n] = IF n = l THEN Append(log[l], term[l]) ELSE log[n]
         \/ \E m \in Appends :
              /\ ReceiveAppend(m) /\ Current(m) /\ m.dst \in Node
              /\ \A n \in Node :
                   /\ log'[n] = IF n = m.dst THEN Stored(m) ELSE log[n]
                   /\ term'[n] = IF n = m.dst THEN m.term ELSE term[n]
                   /\ role'[n] = IF n = m.dst THEN "Follower" ELSE role[n]
                   /\ commit'[n] = IF n = m.dst THEN Larger(commit[n], m.commit) ELSE commit[n]
<1>1. ASSUME NEW l \in Node, NetClientRequest(l)
      PROVE  /\ role[l] = "Leader" /\ UNCHANGED <<electionVars, commit, matched, msgs>>
             /\ \A n \in Node : log'[n] = IF n = l THEN Append(log[l], term[l]) ELSE log[n]
  BY <1>1 DEF NetClientRequest, ClientRequest, NetworkTypeOK, RaftTypeOK
<1>2. ASSUME NEW m \in msgs, ReceiveAppend(m), Current(m)
      PROVE  /\ m \in Appends /\ m.dst \in Node
             /\ \A n \in Node :
                  /\ log'[n] = IF n = m.dst THEN Stored(m) ELSE log[n]
                  /\ term'[n] = IF n = m.dst THEN m.term ELSE term[n]
                  /\ role'[n] = IF n = m.dst THEN "Follower" ELSE role[n]
                  /\ commit'[n] = IF n = m.dst THEN Larger(commit[n], m.commit) ELSE commit[n]
  <2>1. /\ m.kind = "Append"
        /\ term' = [term EXCEPT ![m.dst] = TermSeen(m)]
        /\ role' = [role EXCEPT ![m.dst] = "Follower"]
        /\ log' = [log EXCEPT ![m.dst] = Stored(m)]
        /\ commit' = [commit EXCEPT ![m.dst] = Larger(commit[m.dst], m.commit)]
    BY <1>2 DEF ReceiveAppend
  <2>2. m.dst \in Node /\ m.term \in Nat /\ term[m.dst] \in Nat
    BY MessageFields DEF NetworkTypeOK, RaftTypeOK
  <2>3. TermSeen(m) = m.term
    BY <1>2, <2>2 DEF Current, TermSeen, Larger
  <2> QED
    BY <2>1, <2>2, <2>3 DEF Appends, NetworkTypeOK, RaftTypeOK
<1>3. ASSUME NEW m \in msgs, ReceiveAppend(m), ~Current(m)
      PROVE  log' = log
  BY <1>3 DEF ReceiveAppend
<1>4. ASSUME \/ \E n \in Node : NetTimeout(n) \/ NetBecomeLeader(n)
                                \/ \E i \in 1 .. MaxLog : NetCommit(n, i)
             \/ \E m, n \in Node : RequestVote(m, n) \/ SendAppend(m, n)
             \/ \E m \in msgs : ReceiveRequestVote(m) \/ ReceiveVote(m) \/ ReceiveAck(m)
             \/ UNCHANGED networkVars
      PROVE  log' = log
  BY <1>4 DEF NetTimeout, Timeout, NetBecomeLeader, BecomeLeader, NetCommit, RequestVote,
              SendAppend, ReceiveRequestVote, ReceiveVote, ReceiveAck, networkVars, raftVars
<1> QED
  BY <1>1, <1>2, <1>3, <1>4 DEF NetworkNext

\* Messages are never lost, and what each new one says.
LEMMA MsgsStep ==
  ASSUME NetworkTypeOK, [NetworkNext]_networkVars
  PROVE  /\ msgs \subseteq msgs'
         /\ \A r \in msgs' \ msgs :
              \/ /\ r.kind = "RequestVote" /\ UNCHANGED <<raftVars, matched>>
                 /\ r.src \in Node /\ role[r.src] = "Candidate"
                 /\ r.term = term[r.src] /\ r.log = log[r.src]
              \/ /\ r.kind = "Append" /\ UNCHANGED <<raftVars, matched>>
                 /\ r.src \in Node /\ r.dst # r.src /\ role[r.src] = "Leader"
                 /\ r.term = term[r.src] /\ r.log = log[r.src] /\ r.commit = commit[r.src]
              \/ /\ r.kind = "Vote"
                 /\ \E m \in msgs : /\ ReceiveRequestVote(m)
                                    /\ r.src = m.dst /\ r.dst = m.src
                                    /\ r.term = TermSeen(m) /\ r.ok = Grants(m)
              \/ /\ r.kind = "Ack"
                 /\ \E m \in msgs : /\ ReceiveAppend(m)
                                    /\ r.src = m.dst /\ r.dst = m.src
                                    /\ r.term = TermSeen(m) /\ r.ok = Current(m)
                                    /\ r.index = Len(m.log)
<1>1. ASSUME \/ \E n \in Node : NetTimeout(n) \/ NetBecomeLeader(n) \/ NetClientRequest(n)
                                \/ \E i \in 1 .. MaxLog : NetCommit(n, i)
             \/ \E m \in msgs : ReceiveVote(m) \/ ReceiveAck(m)
             \/ UNCHANGED networkVars
      PROVE  msgs' = msgs
  BY <1>1 DEF NetTimeout, NetBecomeLeader, NetClientRequest, NetCommit, ReceiveVote,
              ReceiveAck, networkVars
<1>2. ASSUME NEW c \in Node, NEW v \in Node, RequestVote(c, v)
      PROVE  \E r : /\ msgs' = msgs \cup {r}
                    /\ r.kind = "RequestVote" /\ UNCHANGED <<raftVars, matched>>
                    /\ r.src \in Node /\ role[r.src] = "Candidate"
                    /\ r.term = term[r.src] /\ r.log = log[r.src]
  <2> DEFINE r == [kind |-> "RequestVote", src |-> c, dst |-> v,
                   term |-> term[c], log |-> log[c]]
  <2>1. r.kind = "RequestVote" /\ r.src = c /\ r.term = term[c] /\ r.log = log[c]
    OBVIOUS
  <2>2. msgs' = msgs \cup {r}
    BY <1>2 DEF RequestVote, Send
  <2> HIDE DEF r
  <2> QED
    BY <1>2, <2>1, <2>2 DEF RequestVote
<1>3. ASSUME NEW l \in Node, NEW f \in Node, SendAppend(l, f)
      PROVE  \E r : /\ msgs' = msgs \cup {r}
                    /\ r.kind = "Append" /\ UNCHANGED <<raftVars, matched>>
                    /\ r.src \in Node /\ r.dst # r.src /\ role[r.src] = "Leader"
                    /\ r.term = term[r.src] /\ r.log = log[r.src] /\ r.commit = commit[r.src]
  <2> DEFINE r == [kind |-> "Append", src |-> l, dst |-> f, term |-> term[l],
                   log |-> log[l], commit |-> commit[l]]
  <2>1. /\ r.kind = "Append" /\ r.src = l /\ r.dst = f
        /\ r.term = term[l] /\ r.log = log[l] /\ r.commit = commit[l]
    OBVIOUS
  <2>2. msgs' = msgs \cup {r}
    BY <1>3 DEF SendAppend, Send
  <2> HIDE DEF r
  <2> QED
    BY <1>3, <2>1, <2>2 DEF SendAppend
<1>4. ASSUME NEW m \in msgs, ReceiveRequestVote(m)
      PROVE  \E r : /\ msgs' = msgs \cup {r} /\ r.kind = "Vote"
                    /\ r.src = m.dst /\ r.dst = m.src
                    /\ r.term = TermSeen(m) /\ r.ok = Grants(m)
  <2> DEFINE r == [kind |-> "Vote", src |-> m.dst, dst |-> m.src,
                   term |-> TermSeen(m), ok |-> Grants(m)]
  <2>1. r.kind = "Vote" /\ r.src = m.dst /\ r.dst = m.src /\ r.term = TermSeen(m)
    OBVIOUS
  <2>2. r.ok = Grants(m)
    BY Zenon
  <2>3. msgs' = msgs \cup {r}
    BY <1>4 DEF ReceiveRequestVote, Send
  <2> HIDE DEF r
  <2> QED
    BY <2>1, <2>2, <2>3
<1>5. ASSUME NEW m \in msgs, ReceiveAppend(m)
      PROVE  \E r : /\ msgs' = msgs \cup {r} /\ r.kind = "Ack"
                    /\ r.src = m.dst /\ r.dst = m.src
                    /\ r.term = TermSeen(m) /\ r.ok = Current(m) /\ r.index = Len(m.log)
  <2> DEFINE r == [kind |-> "Ack", src |-> m.dst, dst |-> m.src, term |-> TermSeen(m),
                   ok |-> Current(m), index |-> Len(m.log)]
  <2>1. /\ r.kind = "Ack" /\ r.src = m.dst /\ r.dst = m.src /\ r.term = TermSeen(m)
        /\ r.index = Len(m.log)
    OBVIOUS
  <2>2. r.ok = Current(m)
    BY Zenon
  <2>3. msgs' = msgs \cup {r}
    BY <1>5 DEF ReceiveAppend, Send
  <2> HIDE DEF r
  <2> QED
    BY <2>1, <2>2, <2>3
<1>6. CASE msgs' = msgs
  BY <1>6
<1>7. CASE \E c, v \in Node : RequestVote(c, v)
  <2>1. PICK c \in Node, v \in Node : RequestVote(c, v)
    BY <1>7
  <2>2. PICK r : /\ msgs' = msgs \cup {r}
                 /\ r.kind = "RequestVote" /\ UNCHANGED <<raftVars, matched>>
                 /\ r.src \in Node /\ role[r.src] = "Candidate"
                 /\ r.term = term[r.src] /\ r.log = log[r.src]
    BY <1>2, <2>1
  <2> QED
    BY <2>2
<1>8. CASE \E l, f \in Node : SendAppend(l, f)
  <2>1. PICK l \in Node, f \in Node : SendAppend(l, f)
    BY <1>8
  <2>2. PICK r : /\ msgs' = msgs \cup {r}
                 /\ r.kind = "Append" /\ UNCHANGED <<raftVars, matched>>
                 /\ r.src \in Node /\ r.dst # r.src /\ role[r.src] = "Leader"
                 /\ r.term = term[r.src] /\ r.log = log[r.src] /\ r.commit = commit[r.src]
    BY <1>3, <2>1
  <2> QED
    BY <2>2
<1>9. CASE \E m \in msgs : ReceiveRequestVote(m)
  <2>1. PICK m \in msgs : ReceiveRequestVote(m)
    BY <1>9
  <2>2. PICK r : /\ msgs' = msgs \cup {r} /\ r.kind = "Vote"
                 /\ r.src = m.dst /\ r.dst = m.src
                 /\ r.term = TermSeen(m) /\ r.ok = Grants(m)
    BY <1>4, <2>1
  <2>3. \A s \in msgs' \ msgs : s = r
    BY <2>2
  <2> QED
    BY <2>1, <2>2, <2>3
<1>10. CASE \E m \in msgs : ReceiveAppend(m)
  <2>1. PICK m \in msgs : ReceiveAppend(m)
    BY <1>10
  <2>2. PICK r : /\ msgs' = msgs \cup {r} /\ r.kind = "Ack"
                 /\ r.src = m.dst /\ r.dst = m.src
                 /\ r.term = TermSeen(m) /\ r.ok = Current(m) /\ r.index = Len(m.log)
    BY <1>5, <2>1
  <2>3. \A s \in msgs' \ msgs : s = r
    BY <2>2
  <2> QED
    BY <2>1, <2>2, <2>3
<1> QED
  BY <1>1, <1>6, <1>7, <1>8, <1>9, <1>10 DEF NetworkNext

LEMMA StoredIs ==
  ASSUME NetworkTypeOK, NEW m \in Appends
  PROVE  /\ Starts(Stored(m), m.log)
         /\ Stored(m) \in {log[m.dst], m.log}
         /\ Starts(log[m.dst], m.log) => Stored(m) = log[m.dst]
<1>1. log[m.dst] \in Seq(Nat) /\ m.log \in Seq(Nat)
  BY LogsTyped
<1>2. ASSUME NEW s \in Seq(Nat), NEW r \in Seq(Nat)
      PROVE  StartsWith(s, r) <=> Starts(s, r)
  BY DEF StartsWith, Starts
<1>3. Starts(m.log, m.log)
  BY DEF Starts
<1> QED
  BY <1>1, <1>2, <1>3 DEF Stored

\* No log appears from nowhere.
LEMMA LogsGrow ==
  ASSUME NetworkTypeOK, NetworkTypeOK', [NetworkNext]_networkVars
  PROVE  \/ Logs' \subseteq Logs
         \/ \E l \in Node :
              /\ role[l] = "Leader" /\ UNCHANGED <<electionVars, commit, matched, msgs>>
              /\ \A n \in Node : log'[n] = IF n = l THEN Append(log[l], term[l]) ELSE log[n]
              /\ Logs' \subseteq Logs \cup {log'[l]}
<1>1. \A m \in (Requests \cup Appends)' :
        m \in Requests \cup Appends \/ \E n \in Node : m.log = log[n]
  BY MsgsStep DEF Requests, Appends
<1>2. \A m \in (Requests \cup Appends)' : m.log \in Logs
  BY <1>1 DEF Logs
<1>3. \A s \in Logs' : s \in Logs \/ \E n \in Node : s = log'[n]
  BY <1>2 DEF Logs
<1>4. CASE log' = log
  <2>1. Logs' \subseteq Logs
    BY <1>3, <1>4 DEF Logs
  <2> QED
    BY <2>1
<1>5. ASSUME NEW l \in Node,
             \A n \in Node : log'[n] = IF n = l THEN Append(log[l], term[l]) ELSE log[n]
      PROVE  Logs' \subseteq Logs \cup {log'[l]}
  BY <1>3, <1>5 DEF Logs
<1>6. ASSUME NEW m \in Appends,
             \A n \in Node : log'[n] = IF n = m.dst THEN Stored(m) ELSE log[n]
      PROVE  Logs' \subseteq Logs
  <2>1. \A n \in Node : log'[n] \in Logs
    BY <1>6, StoredIs, LogsTyped
  <2> QED
    BY <1>3, <2>1
<1> QED
  BY <1>4, <1>5, <1>6, NetLogsStep

LEMMA AppendsStep ==
  ASSUME NetworkTypeOK, [NetworkNext]_networkVars, NEW m \in Appends', m \notin Appends
  PROVE  /\ UNCHANGED <<raftVars, matched>>
         /\ m.src \in Node /\ m.dst # m.src /\ role[m.src] = "Leader"
         /\ m.term = term[m.src] /\ m.log = log[m.src] /\ m.commit = commit[m.src]
<1>1. m \in msgs' \ msgs /\ m.kind = "Append"
  BY DEF Appends
<1> QED
  BY <1>1, MsgsStep

LEMMA RequestsStep ==
  ASSUME NetworkTypeOK, [NetworkNext]_networkVars, NEW m \in Requests', m \notin Requests
  PROVE  /\ UNCHANGED <<raftVars, matched>>
         /\ m.src \in Node /\ role[m.src] = "Candidate"
         /\ m.term = term[m.src] /\ m.log = log[m.src]
<1>1. m \in msgs' \ msgs /\ m.kind = "RequestVote"
  BY DEF Requests
<1> QED
  BY <1>1, MsgsStep

LEMMA GrantedStep ==
  ASSUME NetworkTypeOK, [NetworkNext]_networkVars
  PROVE  /\ Granted \subseteq Granted'
         /\ \A k \in Granted' \ Granted :
              \E m \in Requests :
                /\ k.src = m.dst /\ k.dst = m.src /\ k.term = m.term
                /\ m.dst \in Node /\ term[m.dst] <= m.term
                /\ term'[m.dst] = m.term /\ votedFor'[m.dst] = m.src
                /\ VoteSeen(m) \in {Nobody, m.src} /\ UpToDate(m.log, log[m.dst])
                /\ UNCHANGED <<votes, log, commit>>
                /\ \A n \in Node : n # m.dst => term'[n] = term[n] /\ role'[n] = role[n]
                /\ role'[m.dst] \in {"Follower", role[m.dst]}
<1>1. Granted \subseteq Granted'
  BY MsgsStep DEF Granted
<1> SUFFICES ASSUME NEW k \in Granted', k \notin Granted
             PROVE  \E m \in Requests :
                      /\ k.src = m.dst /\ k.dst = m.src /\ k.term = m.term
                      /\ m.dst \in Node /\ term[m.dst] <= m.term
                      /\ term'[m.dst] = m.term /\ votedFor'[m.dst] = m.src
                      /\ VoteSeen(m) \in {Nobody, m.src} /\ UpToDate(m.log, log[m.dst])
                      /\ UNCHANGED <<votes, log, commit>>
                      /\ \A n \in Node : n # m.dst => term'[n] = term[n] /\ role'[n] = role[n]
                      /\ role'[m.dst] \in {"Follower", role[m.dst]}
  BY <1>1
<1>2. k \in msgs' \ msgs /\ k.kind = "Vote" /\ k.ok
  BY DEF Granted
<1>3. PICK m \in msgs : /\ ReceiveRequestVote(m)
                        /\ k.src = m.dst /\ k.dst = m.src
                        /\ k.term = TermSeen(m) /\ k.ok = Grants(m)
  BY <1>2, MsgsStep
<1>4. m \in Requests /\ Grants(m)
  BY <1>2, <1>3 DEF ReceiveRequestVote, Requests
<1>5. /\ m.dst \in Node /\ m.term \in Nat /\ term[m.dst] \in Nat
      /\ votedFor \in [Node -> Node \cup {Nobody}] /\ term \in [Node -> Nat]
  BY <1>3, MessageFields DEF NetworkTypeOK, RaftTypeOK
<1>6. /\ term' = [term EXCEPT ![m.dst] = TermSeen(m)]
      /\ votedFor' = [votedFor EXCEPT ![m.dst] = IF Grants(m) THEN m.src ELSE VoteSeen(m)]
      /\ UNCHANGED <<votes, log, commit>>
  BY <1>3 DEF ReceiveRequestVote
<1>7. /\ term[m.dst] <= m.term /\ VoteSeen(m) \in {Nobody, m.src}
      /\ UpToDate(m.log, log[m.dst])
  BY <1>4, <1>5 DEF Grants, Current
<1>8. TermSeen(m) = m.term
  BY <1>5, <1>7 DEF TermSeen, Larger
<1>9. /\ \A n \in Node : n # m.dst => term'[n] = term[n] /\ role'[n] = role[n]
      /\ role'[m.dst] \in {"Follower", role[m.dst]}
  BY <1>3, Delivered
<1> QED
  BY <1>3, <1>4, <1>5, <1>6, <1>7, <1>8, <1>9

\* An ack that says yes comes from a follower that has just stored the append.
LEMMA AcksStep ==
  ASSUME NetworkTypeOK, [NetworkNext]_networkVars
  PROVE  /\ Acks \subseteq Acks'
         /\ \A a \in Acks' \ Acks :
              \E m \in Appends :
                /\ a.src = m.dst /\ a.dst = m.src /\ a.term = m.term
                /\ a.index = Len(m.log)
                /\ m.dst \in Node /\ term[m.dst] <= m.term /\ term'[m.dst] = m.term
                /\ log'[m.dst] = Stored(m)
                /\ \A n \in Node : n # m.dst => term'[n] = term[n]
<1>1. Acks \subseteq Acks'
  BY MsgsStep DEF Acks
<1>2. ASSUME NEW a \in Acks', a \notin Acks
      PROVE  \E m \in Appends :
               /\ a.src = m.dst /\ a.dst = m.src /\ a.term = m.term
               /\ a.index = Len(m.log)
               /\ m.dst \in Node /\ term[m.dst] <= m.term /\ term'[m.dst] = m.term
               /\ log'[m.dst] = Stored(m)
               /\ \A n \in Node : n # m.dst => term'[n] = term[n]
  <2>1. a \in msgs' \ msgs /\ a.kind = "Ack" /\ a.ok
    BY <1>2 DEF Acks
  <2>2. PICK m \in msgs : /\ ReceiveAppend(m)
                          /\ a.src = m.dst /\ a.dst = m.src
                          /\ a.term = TermSeen(m) /\ a.ok = Current(m)
                          /\ a.index = Len(m.log)
    BY <2>1, MsgsStep
  <2>3. m \in Appends /\ Current(m)
    BY <2>1, <2>2 DEF ReceiveAppend, Appends
  <2>4. /\ m.dst \in Node /\ m.term \in Nat /\ term[m.dst] \in Nat
        /\ term \in [Node -> Nat] /\ log \in [Node -> Seq(Nat)]
    BY <2>2, MessageFields DEF NetworkTypeOK, RaftTypeOK
  <2>5. /\ term' = [term EXCEPT ![m.dst] = TermSeen(m)]
        /\ log' = [log EXCEPT ![m.dst] = Stored(m)]
    BY <2>2, <2>3 DEF ReceiveAppend
  <2>6. term[m.dst] <= m.term
    BY <2>3, <2>4 DEF Current
  <2>7. TermSeen(m) = m.term
    BY <2>4, <2>6 DEF TermSeen, Larger
  <2> QED
    BY <2>2, <2>3, <2>4, <2>5, <2>6, <2>7
<1> QED
  BY <1>1, <1>2

\* What a step does to one log: nothing, one more entry at its leader, or the
\* log of a current append that the follower's own does not start with.
LEMMA NodeLogStep ==
  ASSUME NetworkTypeOK, [NetworkNext]_networkVars, NEW n \in Node
  PROVE  \/ log'[n] = log[n]
         \/ /\ role[n] = "Leader" /\ UNCHANGED <<electionVars, msgs>>
            /\ log'[n] = Append(log[n], term[n])
            /\ Len(log'[n]) = Len(log[n]) + 1 /\ Len(log[n]) \in Nat
            /\ \A i \in 1 .. Len(log'[n]) :
                 /\ i = Len(log[n]) + 1 \/ i \in 1 .. Len(log[n])
                 /\ log'[n][i] = IF i = Len(log[n]) + 1 THEN term[n] ELSE log[n][i]
         \/ /\ role'[n] = "Follower"
            /\ \E m \in Appends : /\ log'[n] = m.log /\ ~Starts(log[n], m.log)
                                  /\ term[n] <= m.term /\ term'[n] = m.term
<1>1. RaftTypeOK /\ term[n] \in Nat
  BY DEF NetworkTypeOK, RaftTypeOK
<1>2. CASE log' = log
  BY <1>2
<1>3. ASSUME NEW l \in Node, role[l] = "Leader", UNCHANGED <<electionVars, msgs>>,
             \A a \in Node : log'[a] = IF a = l THEN Append(log[l], term[l]) ELSE log[a]
      PROVE  \/ log'[n] = log[n]
             \/ /\ role[n] = "Leader" /\ UNCHANGED <<electionVars, msgs>>
                /\ log'[n] = Append(log[n], term[n])
                /\ Len(log'[n]) = Len(log[n]) + 1 /\ Len(log[n]) \in Nat
                /\ \A i \in 1 .. Len(log'[n]) :
                     /\ i = Len(log[n]) + 1 \/ i \in 1 .. Len(log[n])
                     /\ log'[n][i] = IF i = Len(log[n]) + 1 THEN term[n] ELSE log[n][i]
  <2>1. CASE n # l
    BY <1>3, <2>1
  <2>2. CASE n = l
    <3>1. log'[n] = Append(log[n], term[n])
      BY <1>3, <2>2
    <3>2. /\ Len(log'[n]) = Len(log[n]) + 1 /\ Len(log[n]) \in Nat
          /\ \A i \in 1 .. Len(log'[n]) :
               /\ i = Len(log[n]) + 1 \/ i \in 1 .. Len(log[n])
               /\ log'[n][i] = IF i = Len(log[n]) + 1 THEN term[n] ELSE log[n][i]
      BY <1>1, <3>1, Grown
    <3> QED
      BY <1>3, <2>2, <3>1, <3>2
  <2> QED
    BY <2>1, <2>2
<1>4. ASSUME NEW m \in Appends, Current(m), m.dst \in Node,
             log'[n] = IF n = m.dst THEN Stored(m) ELSE log[n],
             term'[n] = IF n = m.dst THEN m.term ELSE term[n],
             role'[n] = IF n = m.dst THEN "Follower" ELSE role[n]
      PROVE  \/ log'[n] = log[n]
             \/ /\ role'[n] = "Follower"
                /\ \E k \in Appends : /\ log'[n] = k.log /\ ~Starts(log[n], k.log)
                                      /\ term[n] <= k.term /\ term'[n] = k.term
  <2>1. CASE n # m.dst \/ Stored(m) = log[m.dst]
    BY <1>4, <2>1
  <2>2. CASE n = m.dst /\ Stored(m) # log[m.dst]
    <3>1. Stored(m) = m.log /\ ~Starts(log[n], m.log)
      BY <2>2, StoredIs
    <3>2. term[n] <= m.term
      BY <1>1, <1>4, <2>2, LogsTyped DEF Current
    <3> QED
      BY <1>4, <2>2, <3>1, <3>2
  <2> QED
    BY <2>1, <2>2
<1> QED
  BY <1>2, <1>3, <1>4, NetLogsStep

\* A vote of the current term is not given twice, nor taken back.
LEMMA VotedForStep ==
  ASSUME NetworkTypeOK, [NetworkNext]_networkVars, NEW n \in Node, term'[n] = term[n],
         votedFor[n] # Nobody
  PROVE  votedFor'[n] = votedFor[n]
<1>1. /\ \A a \in Node : term[a] \in Nat
      /\ votedFor \in [Node -> Node \cup {Nobody}] /\ term \in [Node -> Nat]
  BY DEF NetworkTypeOK, RaftTypeOK
<1>2. ASSUME NEW a \in Node, NetTimeout(a)
      PROVE  votedFor'[n] = votedFor[n]
  <2>1. term'[n] = IF n = a THEN term[n] + 1 ELSE term[n]
    BY <1>1, <1>2 DEF NetTimeout, Timeout
  <2> QED
    BY <1>1, <1>2, <2>1 DEF NetTimeout, Timeout
<1>3. ASSUME NEW m \in msgs,
             ReceiveRequestVote(m) \/ ReceiveVote(m) \/ ReceiveAppend(m) \/ ReceiveAck(m)
      PROVE  votedFor'[n] = votedFor[n]
  <2>1. /\ m.dst \in Node /\ m.src \in Node
        /\ term'[m.dst] = TermSeen(m)
        /\ TermSeen(m) = term[m.dst] => VoteSeen(m) = votedFor[m.dst]
    BY <1>3, Delivered, SeenKeeps
  <2>2. votedFor' = [votedFor EXCEPT ![m.dst] = VoteSeen(m)]
        \/ (votedFor' = [votedFor EXCEPT ![m.dst] = m.src] /\ VoteSeen(m) \in {Nobody, m.src})
    BY <1>3 DEF ReceiveRequestVote, Grants, ReceiveVote, ReceiveAppend, ReceiveAck, SeeTerm
  <2> QED
    BY <1>1, <2>1, <2>2
<1>4. ASSUME \/ \E a \in Node : NetClientRequest(a) \/ NetBecomeLeader(a)
                                \/ \E i \in 1 .. MaxLog : NetCommit(a, i)
             \/ \E a, b \in Node : RequestVote(a, b) \/ SendAppend(a, b)
             \/ UNCHANGED networkVars
      PROVE  votedFor' = votedFor
  BY <1>4 DEF NetClientRequest, ClientRequest, NetCommit, RequestVote, SendAppend,
              NetBecomeLeader, BecomeLeader, networkVars, raftVars, electionVars
<1> QED
  BY <1>2, <1>3, <1>4 DEF NetworkNext

-----------------------------------------------------------------------------
VotedOnly(v, l, t) ==
  /\ \A k \in Granted : k.src = v /\ k.term = t => k.dst = l
  /\ term[v] = t => votedFor[v] = l

\* l has won term t: a quorum is past it, or has no vote for anybody else.
ElectedBy(l, t) ==
  /\ term[l] >= t
  /\ ~(term[l] = t /\ role[l] = "Candidate")
  /\ \E Q \in SUBSET Node :
       IsQuorum(Q) /\ \A v \in Q : term[v] >= t /\ VotedOnly(v, l, t)

LEMMA ElectedByStays ==
  ASSUME NetworkElectionInv, NetworkTypeOK', [NetworkNext]_networkVars,
         NEW l \in Node, NEW t \in Nat, ElectedBy(l, t)
  PROVE  ElectedBy(l, t)'
<1>1. NetworkTypeOK /\ \A n \in Node : /\ term[n] \in Nat /\ term'[n] \in Nat
                                       /\ term'[n] >= term[n]
  BY NetRolesStep DEF NetworkElectionInv, NetworkTypeOK, RaftTypeOK
<1>2. term'[l] >= t /\ ~(term'[l] = t /\ role'[l] = "Candidate")
  <2>1. role'[l] = "Candidate" =>
          term'[l] = term[l] + 1 \/ (role[l] = "Candidate" /\ term'[l] = term[l])
    BY <1>1, NetRolesStep
  <2> QED
    BY <1>1, <2>1 DEF ElectedBy
<1>3. PICK Q \in SUBSET Node :
        IsQuorum(Q) /\ \A v \in Q : term[v] >= t /\ VotedOnly(v, l, t)
  BY DEF ElectedBy
<1>4. ASSUME NEW v \in Q
      PROVE  term'[v] >= t /\ VotedOnly(v, l, t)'
  <2>1. v \in Node /\ term[v] >= t /\ l # Nobody
    BY <1>3, NodeAssumption
  <2>2. ASSUME NEW k \in Granted', k.src = v, k.term = t
        PROVE  k.dst = l
    <3>1. CASE k \in Granted
      BY <1>3, <2>2, <3>1 DEF VotedOnly
    <3>2. CASE k \notin Granted
      <4>1. PICK m \in Requests : /\ k.src = m.dst /\ k.dst = m.src /\ k.term = m.term
                                  /\ term[m.dst] <= m.term
                                  /\ VoteSeen(m) \in {Nobody, m.src}
        BY <1>1, <3>2, GrantedStep
      <4>2. term[v] = t /\ m.dst = v /\ m.term = t
        BY <1>1, <2>1, <2>2, <4>1
      <4>3. VoteSeen(m) = votedFor[v]
        BY <1>1, <4>2 DEF VoteSeen
      <4> QED
        BY <1>3, <2>1, <4>1, <4>2, <4>3 DEF VotedOnly
    <3> QED
      BY <3>1, <3>2
  <2>3. ASSUME term'[v] = t
        PROVE  votedFor'[v] = l
    <3>1. term[v] = t
      BY <1>1, <2>1, <2>3
    <3>2. votedFor[v] = l
      BY <1>3, <3>1 DEF VotedOnly
    <3> QED
      BY <1>1, <2>1, <2>3, <3>1, <3>2, VotedForStep
  <2> QED
    BY <1>1, <2>1, <2>2, <2>3 DEF VotedOnly
<1> QED
  BY <1>2, <1>3, <1>4 DEF ElectedBy, IsQuorum

\* Nobody else wins it.
LEMMA ElectedIsOne ==
  ASSUME NetworkElectionInv, NEW l \in Node, NEW c \in Node, ElectedBy(l, term[c]),
         Campaigns(c), IsQuorum(votes[c])
  PROVE  c = l
<1>1. PICK Q \in SUBSET Node :
        IsQuorum(Q) /\ \A v \in Q : VotedOnly(v, l, term[c])
  BY DEF ElectedBy
<1>2. votes[c] \in SUBSET Node
  BY LogsTyped DEF NetworkElectionInv
<1>3. PICK v \in Q : v \in votes[c]
  BY <1>1, <1>2, QuorumsIntersect
<1>4. votedFor[c] = c /\ (v # c => \E k \in Granted : k.src = v /\ k.dst = c /\ k.term = term[c])
  BY <1>3 DEF NetworkElectionInv, VotesWereGranted
<1> QED
  BY <1>1, <1>3, <1>4 DEF VotedOnly

LEMMA LeaderWasElected ==
  ASSUME NetworkElectionInv, NEW l \in Node, Campaigns(l), IsQuorum(votes[l])
  PROVE  \A v \in votes[l] : term[v] >= term[l] /\ VotedOnly(v, l, term[l])
<1>1. /\ votes[l] \in SUBSET Node
      /\ \A n \in Node : term[n] \in Nat
      /\ \A k \in Granted : k.src \in Node
  BY LogsTyped DEF NetworkElectionInv
<1> SUFFICES ASSUME NEW v \in votes[l]
             PROVE  term[v] >= term[l] /\ VotedOnly(v, l, term[l])
  OBVIOUS
<1>2. votedFor[l] = l /\ (v # l => \E k \in Granted : k.src = v /\ k.dst = l /\ k.term = term[l])
  BY DEF NetworkElectionInv, VotesWereGranted
<1>3. CASE v = l
  <2>1. \A k \in Granted : k.src = v /\ k.term = term[l] => k.dst = l
    BY <1>2, <1>3 DEF NetworkElectionInv, VotersRemember
  <2> QED
    BY <1>1, <1>2, <1>3, <2>1 DEF VotedOnly
<1>4. CASE v # l
  <2>1. PICK k \in Granted : k.src = v /\ k.dst = l /\ k.term = term[l]
    BY <1>2, <1>4
  <2>2. term[l] <= term[v] /\ (term[l] = term[v] => votedFor[v] = l)
    BY <2>1 DEF NetworkElectionInv, VotersRemember
  <2>3. \A j \in Granted : j.src = v /\ j.term = term[l] => j.dst = l
    BY <2>1 DEF NetworkElectionInv, GrantedOnce
  <2> QED
    BY <1>1, <2>2, <2>3 DEF VotedOnly
<1> QED
  BY <1>3, <1>4

\* Who leads, sends appends or is named in a log has won its term.
TermsHaveLeaders ==
  /\ \A l \in Node : role[l] = "Leader" => ElectedBy(l, term[l])
  /\ \A m \in Appends : ElectedBy(m.src, m.term)
  /\ \A s \in Logs : \A i \in 1 .. Len(s) : \E l \in Node : ElectedBy(l, s[i])

AllOrdered ==
  \A s \in Logs : \A i, j \in 1 .. Len(s) : i <= j => s[i] <= s[j]

\* Two logs with an entry of the same term are the same up to the smaller one.
AllMatch ==
  \A r, s \in Logs : \A i \in 1 .. Len(r) : \A j \in 1 .. Len(s) :
    i <= j /\ r[i] = s[j] => \A k \in 1 .. i : r[k] = s[k]

NoEntryAhead ==
  /\ \A n \in Node : \A i \in 1 .. Len(log[n]) : log[n][i] <= term[n]
  /\ \A m \in Appends : \A i \in 1 .. Len(m.log) : m.log[i] <= m.term

LeadersHaveOwn ==
  \A l \in Node : role[l] = "Leader" =>
    \A s \in Logs : \A i \in 1 .. Len(s) : s[i] = term[l] => Has(log[l], i, term[l])

\* A leader only adds to the log it sends.
AppendsAreStarts ==
  \A m \in Appends : \A l \in Node :
    role[l] = "Leader" /\ term[l] = m.term => Starts(log[l], m.log)

\* The appends of one term, and the logs that have an entry of it, are starts of
\* one log, even when its leader is gone.
AppendsAgree ==
  \A m \in Appends :
    /\ \A s \in Logs : \A j \in 1 .. Len(s) : s[j] = m.term =>
         \A k \in 1 .. j : k <= Len(m.log) => s[k] = m.log[k]
    /\ \A n \in Appends : n.term = m.term =>
         \A k \in 1 .. Len(m.log) : k <= Len(n.log) => m.log[k] = n.log[k]

\* A candidate's log is the one it asks votes with.
RequestsAreStarts ==
  \A m \in Requests :
    /\ m.term <= term[m.src]
    /\ Campaigns(m.src) /\ term[m.src] = m.term => Starts(log[m.src], m.log)

GrantsAreOld == \A k \in Granted : k.term <= term[k.dst]

\* Who said yes to an append stores it at least until its term is over.
AcksWereStored ==
  \A a \in Acks :
    /\ a.term <= term[a.src]
    /\ \E m \in Appends :
         /\ m.dst = a.src /\ m.term = a.term /\ Len(m.log) = a.index
         /\ term[a.src] = a.term => Starts(log[a.src], m.log)

\* What a leader counts it was told in its term.
MatchedWasAcked ==
  \A l, n \in Node : role[l] = "Leader" /\ matched[l][n] # 0 =>
    \E a \in Acks : a.src = n /\ a.term = term[l] /\ a.index = matched[l][n]

\* The inductive invariant of the logs where they travel in messages.
NetworkLogInv ==
  /\ NetworkElectionInv
  /\ TermsHaveLeaders
  /\ AllOrdered
  /\ AllMatch
  /\ NoEntryAhead
  /\ LeadersHaveOwn
  /\ AppendsAreStarts
  /\ AppendsAgree
  /\ RequestsAreStarts
  /\ GrantsAreOld
  /\ AcksWereStored
  /\ MatchedWasAcked

LEMMA NetworkLogInit == NetworkInit => NetworkLogInv
<1> SUFFICES ASSUME NetworkInit PROVE NetworkLogInv
  OBVIOUS
<1>1. \A n \in Node : role[n] = "Follower" /\ log[n] = <<>> /\ matched[n] = [m \in Node |-> 0]
  BY DEF NetworkInit, RaftInit
<1>2. Requests = {} /\ Appends = {} /\ Acks = {} /\ Granted = {}
  BY DEF NetworkInit, Requests, Appends, Acks, Granted
<1>3. \A s \in Logs : s = <<>> /\ Len(s) = 0
  BY <1>1, <1>2 DEF Logs
<1>4. TermsHaveLeaders /\ LeadersHaveOwn /\ MatchedWasAcked
  BY <1>1, <1>2, <1>3 DEF TermsHaveLeaders, LeadersHaveOwn, MatchedWasAcked
<1>5. AllOrdered /\ AllMatch /\ NoEntryAhead
  BY <1>1, <1>2, <1>3 DEF AllOrdered, AllMatch, NoEntryAhead
<1>6. AppendsAreStarts /\ AppendsAgree /\ RequestsAreStarts /\ GrantsAreOld /\ AcksWereStored
  BY <1>2 DEF AppendsAreStarts, AppendsAgree, RequestsAreStarts, GrantsAreOld, AcksWereStored
<1> QED
  BY <1>4, <1>5, <1>6, NetworkElectionInit DEF NetworkLogInv

LEMMA NextTyped ==
  ASSUME NetworkTypeOK, NetworkTypeOK', [NetworkNext]_networkVars
  PROVE  /\ \A m \in Appends' : m.src \in Node /\ m.term \in Nat /\ m.log \in Seq(Nat)
         /\ \A s \in Logs' : /\ s \in Seq(Nat) /\ Len(s) \in Nat
                             /\ \A i \in 1 .. Len(s) : s[i] \in Nat
<1>1. ASSUME NEW m \in Appends'
      PROVE  m.src \in Node /\ m.term \in Nat /\ m.log \in Seq(Nat)
  <2>1. m \in msgs' /\ msgs' \subseteq Message /\ m.kind = "Append"
    BY DEF Appends, NetworkTypeOK
  <2> QED
    BY <2>1, MessageFields
<1>2. \A l \in Node : log'[l] \in Seq(Nat)
  BY DEF NetworkTypeOK, RaftTypeOK
<1>3. \A s \in Logs' : s \in Seq(Nat)
  BY <1>2, LogsGrow, LogsTyped
<1> QED
  BY <1>1, <1>3

LEMMA TermsHaveLeadersStep ==
  ASSUME NetworkLogInv, NetworkElectionInv', [NetworkNext]_networkVars
  PROVE  TermsHaveLeaders'
<1>1. NetworkElectionInv /\ NetworkTypeOK /\ NetworkTypeOK'
  BY DEF NetworkLogInv, NetworkElectionInv
<1>2. \A l \in Node : \A t \in Nat : ElectedBy(l, t) => ElectedBy(l, t)'
  BY <1>1, ElectedByStays
<1>3. \A n \in Node : term[n] \in Nat
  BY <1>1, LogsTyped
<1>4. ASSUME NEW l \in Node, NEW t \in Nat, t = term[l], NetBecomeLeader(l)
      PROVE  ElectedBy(l, t)'
  <2>1. /\ role[l] = "Candidate" /\ IsQuorum(votes[l])
        /\ role' = [role EXCEPT ![l] = "Leader"]
        /\ term' = term /\ votedFor' = votedFor /\ Granted' = Granted
    BY <1>4 DEF NetBecomeLeader, BecomeLeader, Granted
  <2>2. \A v \in votes[l] : term[v] >= t /\ VotedOnly(v, l, t)
    BY <1>1, <1>4, <2>1, LeaderWasElected DEF Campaigns
  <2>3. votes[l] \in SUBSET Node /\ role[l] \in Roles /\ role \in [Node -> Roles]
    BY <1>1 DEF NetworkTypeOK, RaftTypeOK
  <2>4. role'[l] = "Leader" /\ term'[l] >= t
    BY <1>3, <1>4, <2>1, <2>3
  <2>5. \A v \in votes[l] : term'[v] >= t /\ VotedOnly(v, l, t)'
    BY <2>1, <2>2 DEF VotedOnly
  <2> QED
    BY <2>1, <2>3, <2>4, <2>5 DEF ElectedBy, IsQuorum
<1>5. ASSUME NEW l \in Node, NEW t \in Nat, role'[l] = "Leader", t = term'[l]
      PROVE  ElectedBy(l, t)'
  <2>1. t = term[l] /\ (role[l] = "Leader" \/ NetBecomeLeader(l))
    BY <1>1, <1>5, NetRolesStep
  <2>2. CASE role[l] = "Leader"
    BY <1>2, <2>1, <2>2 DEF NetworkLogInv, TermsHaveLeaders
  <2> QED
    BY <1>4, <2>1, <2>2
<1>6. ASSUME NEW m \in Appends', NEW l \in Node, NEW t \in Nat, l = m.src, t = m.term
      PROVE  ElectedBy(l, t)'
  <2>1. CASE m \in Appends
    BY <1>2, <1>6, <2>1 DEF NetworkLogInv, TermsHaveLeaders
  <2>2. CASE m \notin Appends
    <3>1. role[m.src] = "Leader" /\ m.term = term[m.src]
      BY <1>1, <2>2, AppendsStep
    <3> QED
      BY <1>2, <1>6, <3>1 DEF NetworkLogInv, TermsHaveLeaders
  <2> QED
    BY <2>1, <2>2
<1>7. ASSUME NEW s \in Logs, NEW i \in 1 .. Len(s), NEW t \in Nat, t = s[i]
      PROVE  \E l \in Node : ElectedBy(l, t)'
  BY <1>2, <1>7 DEF NetworkLogInv, TermsHaveLeaders
<1>8. ASSUME NEW s \in Logs', NEW i \in 1 .. Len(s), NEW t \in Nat, t = s[i]
      PROVE  \E l \in Node : ElectedBy(l, t)'
  <2>1. CASE s \in Logs
    BY <1>7, <1>8, <2>1
  <2>2. ASSUME NEW l \in Node, role[l] = "Leader", s = log'[l],
               log'[l] = Append(log[l], term[l])
        PROVE  \E k \in Node : ElectedBy(k, t)'
    <3>1. \A j \in 1 .. Len(log'[l]) :
            /\ j = Len(log[l]) + 1 \/ j \in 1 .. Len(log[l])
            /\ log'[l][j] = IF j = Len(log[l]) + 1 THEN term[l] ELSE log[l][j]
      BY <1>1, <2>2, Grown DEF NetworkTypeOK
    <3>2. CASE t = term[l]
      BY <1>2, <2>2, <3>2 DEF NetworkLogInv, TermsHaveLeaders
    <3>3. CASE i \in 1 .. Len(log[l]) /\ t = log[l][i]
      BY <1>1, <1>7, <3>3, LogsTyped
    <3> QED
      BY <1>8, <2>2, <3>1, <3>2, <3>3
  <2> QED
    BY <1>1, <2>1, <2>2, LogsGrow
<1>9. \A n \in Node : term'[n] \in Nat
  BY <1>1 DEF NetworkTypeOK, RaftTypeOK
<1>10. /\ \A m \in Appends' : m.src \in Node /\ m.term \in Nat
       /\ \A s \in Logs' : \A i \in 1 .. Len(s) : s[i] \in Nat
  BY <1>1, NextTyped
<1> QED
  BY <1>5, <1>6, <1>8, <1>9, <1>10 DEF TermsHaveLeaders

\* A log of the next state is an old one, or one that a leader has just extended.
LEMMA NewLogs ==
  ASSUME NetworkTypeOK, NetworkTypeOK', [NetworkNext]_networkVars, NEW s \in Logs', s \notin Logs
  PROVE  \E l \in Node :
           /\ role[l] = "Leader" /\ UNCHANGED <<electionVars, commit, matched, msgs>>
           /\ \A n \in Node : log'[n] = IF n = l THEN s ELSE log[n]
           /\ Len(s) = Len(log[l]) + 1 /\ Len(log[l]) \in Nat
           /\ \A i \in 1 .. Len(s) :
                /\ i = Len(log[l]) + 1 \/ i \in 1 .. Len(log[l])
                /\ s[i] = IF i = Len(log[l]) + 1 THEN term[l] ELSE log[l][i]
<1>1. PICK l \in Node :
        /\ role[l] = "Leader" /\ UNCHANGED <<electionVars, commit, matched, msgs>>
        /\ \A n \in Node : log'[n] = IF n = l THEN Append(log[l], term[l]) ELSE log[n]
        /\ Logs' \subseteq Logs \cup {log'[l]}
  BY LogsGrow
<1>2. s = log'[l] /\ log'[l] = Append(log[l], term[l])
  BY <1>1
<1>3. /\ Len(s) = Len(log[l]) + 1 /\ Len(log[l]) \in Nat
      /\ \A i \in 1 .. Len(s) :
           /\ i = Len(log[l]) + 1 \/ i \in 1 .. Len(log[l])
           /\ s[i] = IF i = Len(log[l]) + 1 THEN term[l] ELSE log[l][i]
  BY <1>2, Grown DEF NetworkTypeOK
<1> QED
  BY <1>1, <1>2, <1>3

LEMMA AllOrderedStep ==
  ASSUME NetworkLogInv, NetworkTypeOK', [NetworkNext]_networkVars
  PROVE  AllOrdered' /\ NoEntryAhead'
<1>1. NetworkTypeOK /\ AllOrdered /\ NoEntryAhead
  BY DEF NetworkLogInv, NetworkElectionInv
<1>2. \A n \in Node : /\ log[n] \in Logs /\ term[n] \in Nat /\ term'[n] \in Nat
                      /\ term'[n] >= term[n]
  BY <1>1, LogsTyped, NetRolesStep DEF NetworkTypeOK, RaftTypeOK
<1>3. \A s \in Logs' : Len(s) \in Nat /\ \A i \in 1 .. Len(s) : s[i] \in Nat
  BY <1>1, NextTyped
<1>4. ASSUME NEW s \in Logs', NEW i \in 1 .. Len(s), NEW j \in 1 .. Len(s), i <= j
      PROVE  s[i] <= s[j]
  <2>1. CASE s \in Logs
    BY <1>1, <1>4, <2>1 DEF AllOrdered
  <2>2. CASE s \notin Logs
    <3>1. PICK l \in Node :
            /\ Len(s) = Len(log[l]) + 1 /\ Len(log[l]) \in Nat
            /\ \A k \in 1 .. Len(s) :
                 /\ k = Len(log[l]) + 1 \/ k \in 1 .. Len(log[l])
                 /\ s[k] = IF k = Len(log[l]) + 1 THEN term[l] ELSE log[l][k]
      BY <1>1, <2>2, NewLogs
    <3>2. CASE j \in 1 .. Len(log[l])
      <4>1. i \in 1 .. Len(log[l]) /\ s[i] = log[l][i] /\ s[j] = log[l][j]
        BY <1>4, <3>1, <3>2
      <4> QED
        BY <1>1, <1>2, <1>4, <3>2, <4>1 DEF AllOrdered
    <3>3. CASE j = Len(log[l]) + 1
      <4>1. s[j] = term[l]
        BY <3>1, <3>3
      <4>2. i \in 1 .. Len(log[l]) => log[l][i] <= term[l]
        BY <1>1 DEF NoEntryAhead
      <4> QED
        BY <1>2, <3>1, <4>1, <4>2
    <3> QED
      BY <3>1, <3>2, <3>3
  <2> QED
    BY <2>1, <2>2
<1>5. ASSUME NEW n \in Node, NEW i \in 1 .. Len(log'[n])
      PROVE  log'[n][i] <= term'[n]
  <2>1. CASE log'[n] = log[n]
    <3>1. log[n][i] <= term[n] /\ log[n][i] \in Nat
      BY <1>1, <1>5, <2>1, LogsTyped DEF NoEntryAhead
    <3> QED
      BY <1>2, <2>1, <3>1
  <2>2. ASSUME term'[n] = term[n], i = Len(log[n]) + 1 \/ i \in 1 .. Len(log[n]),
               log'[n][i] = IF i = Len(log[n]) + 1 THEN term[n] ELSE log[n][i]
        PROVE  log'[n][i] <= term'[n]
    BY <1>1, <1>2, <2>2 DEF NoEntryAhead
  <2>3. ASSUME NEW m \in Appends, log'[n] = m.log, term'[n] = m.term
        PROVE  log'[n][i] <= term'[n]
    BY <1>1, <1>5, <2>3 DEF NoEntryAhead
  <2> QED
    BY <1>1, <2>1, <2>2, <2>3, NodeLogStep DEF electionVars
<1>6. ASSUME NEW m \in Appends', NEW i \in 1 .. Len(m.log)
      PROVE  m.log[i] <= m.term
  <2>1. CASE m \in Appends
    BY <1>1, <2>1 DEF NoEntryAhead
  <2>2. CASE m \notin Appends
    BY <1>1, <2>2, AppendsStep DEF NoEntryAhead
  <2> QED
    BY <2>1, <2>2
<1> QED
  BY <1>4, <1>5, <1>6 DEF AllOrdered, NoEntryAhead

LEMMA StartsMatch ==
  ASSUME AllMatch, NEW r \in Logs, NEW s \in Logs, NEW i \in 1 .. Len(r), NEW j \in 1 .. Len(s),
         i <= j, r[i] = s[j], NEW k \in 1 .. i
  PROVE  r[k] = s[k]
  BY DEF AllMatch

LEMMA AllMatchStep ==
  ASSUME NetworkLogInv, NetworkTypeOK', [NetworkNext]_networkVars
  PROVE  AllMatch'
<1>1. NetworkTypeOK /\ AllMatch /\ LeadersHaveOwn
  BY DEF NetworkLogInv, NetworkElectionInv
<1>2. \A s \in Logs' : Len(s) \in Nat
  BY <1>1, NextTyped
<1>3. CASE Logs' \subseteq Logs
  BY <1>1, <1>3 DEF AllMatch
<1>4. ASSUME NEW x \in Logs', x \notin Logs
      PROVE  AllMatch'
  <2>1. PICK l \in Node :
          /\ role[l] = "Leader" /\ msgs' = msgs
          /\ \A n \in Node : log'[n] = IF n = l THEN x ELSE log[n]
          /\ Len(x) = Len(log[l]) + 1 /\ Len(log[l]) \in Nat
          /\ \A i \in 1 .. Len(x) :
               /\ i = Len(log[l]) + 1 \/ i \in 1 .. Len(log[l])
               /\ x[i] = IF i = Len(log[l]) + 1 THEN term[l] ELSE log[l][i]
    BY <1>1, <1>4, NewLogs
  <2>2. \A s \in Logs' : s \in Logs \/ s = x
    BY <2>1 DEF Logs, Requests, Appends
  <2>3. log[l] \in Logs
    BY DEF Logs
  \* The new entry is the first one of its term at its index.
  <2>4. ASSUME NEW s \in Logs, NEW i \in 1 .. Len(s), s[i] = term[l]
        PROVE  i \in 1 .. Len(log[l]) /\ log[l][i] = term[l]
    BY <1>1, <2>1, <2>4 DEF LeadersHaveOwn, Has
  <2> SUFFICES ASSUME NEW r \in Logs', NEW s \in Logs',
                      NEW i \in 1 .. Len(r), NEW j \in 1 .. Len(s),
                      i <= j, r[i] = s[j], NEW k \in 1 .. i
               PROVE  r[k] = s[k]
    BY DEF AllMatch
  <2>5. CASE r \in Logs /\ s \in Logs
    BY <1>1, <2>5, StartsMatch
  <2>6. CASE r = x /\ s = x
    BY <2>6
  <2>7. CASE r \in Logs /\ s = x
    <3>1. CASE j \in 1 .. Len(log[l])
      <4>1. log[l][j] = r[i]
        BY <2>1, <2>7, <3>1
      <4>2. r[k] = log[l][k]
        BY <1>1, <2>3, <2>7, <3>1, <4>1, StartsMatch
      <4>3. k \in 1 .. Len(log[l])
        BY <2>1, <3>1
      <4> QED
        BY <2>1, <2>7, <4>2, <4>3
    <3>2. CASE j = Len(log[l]) + 1
      <4>1. r[i] = term[l]
        BY <2>1, <2>7, <3>2
      <4>2. i \in 1 .. Len(log[l]) /\ log[l][i] = term[l]
        BY <2>4, <2>7, <4>1
      <4>3. r[k] = log[l][k]
        BY <1>1, <2>3, <2>7, <4>1, <4>2, StartsMatch
      <4>4. k \in 1 .. Len(log[l])
        BY <2>1, <4>2
      <4> QED
        BY <2>1, <2>7, <4>3, <4>4
    <3> QED
      BY <2>1, <2>7, <3>1, <3>2
  <2>8. CASE r = x /\ s \in Logs
    <3>1. CASE i \in 1 .. Len(log[l])
      <4>1. log[l][i] = s[j]
        BY <2>1, <2>8, <3>1
      <4>2. log[l][k] = s[k]
        BY <1>1, <2>3, <2>8, <3>1, <4>1, StartsMatch
      <4>3. k \in 1 .. Len(log[l])
        BY <2>1, <3>1
      <4> QED
        BY <2>1, <2>8, <4>2, <4>3
    <3>2. CASE i = Len(log[l]) + 1
      <4>1. s[j] = term[l]
        BY <2>1, <2>8, <3>2
      <4>2. j \in 1 .. Len(log[l])
        BY <2>4, <2>8, <4>1
      <4> QED
        BY <2>1, <3>2, <4>2
    <3> QED
      BY <2>1, <2>8, <3>1, <3>2
  <2> QED
    BY <2>2, <2>5, <2>6, <2>7, <2>8
<1> QED
  BY <1>3, <1>4

\* Only what a leader already had, or has just added.
LEMMA LeadersOnlyAdd ==
  ASSUME NetworkTypeOK, [NetworkNext]_networkVars, NEW l \in Node, role'[l] = "Leader"
  PROVE  Starts(log'[l], log[l])
<1>1. Len(log[l]) \in Nat
  BY LogsTyped
<1>2. ASSUME log'[l] = log[l]
      PROVE  Starts(log'[l], log[l])
  BY <1>1, <1>2 DEF Starts
<1>3. ASSUME Len(log'[l]) = Len(log[l]) + 1,
             \A i \in 1 .. Len(log'[l]) :
               log'[l][i] = IF i = Len(log[l]) + 1 THEN term[l] ELSE log[l][i]
      PROVE  Starts(log'[l], log[l])
  BY <1>1, <1>3 DEF Starts
<1> QED
  BY <1>2, <1>3, NodeLogStep

\* The term of a leader that has just been elected is in no log and no append.
LEMMA ElectedIsFresh ==
  ASSUME NetworkLogInv, NEW l \in Node, NetBecomeLeader(l)
  PROVE  /\ \A s \in Logs : \A i \in 1 .. Len(s) : s[i] # term[l]
         /\ \A m \in Appends : m.term # term[l]
         /\ UNCHANGED <<term, votedFor, votes, log, commit, msgs>>
<1>1. NetworkElectionInv /\ TermsHaveLeaders /\ NetworkTypeOK
  BY DEF NetworkLogInv, NetworkElectionInv
<1>2. /\ role[l] = "Candidate" /\ IsQuorum(votes[l])
      /\ UNCHANGED <<term, votedFor, votes, log, commit, msgs>>
  BY DEF NetBecomeLeader, BecomeLeader
<1>3. ASSUME NEW a \in Node, ElectedBy(a, term[l])
      PROVE  FALSE
  <2>1. a = l
    BY <1>1, <1>2, <1>3, ElectedIsOne DEF Campaigns
  <2> QED
    BY <1>2, <1>3, <2>1 DEF ElectedBy
<1>4. ASSUME NEW s \in Logs, NEW i \in 1 .. Len(s), s[i] = term[l]
      PROVE  FALSE
  BY <1>1, <1>3, <1>4 DEF TermsHaveLeaders
<1>5. ASSUME NEW m \in Appends, m.term = term[l]
      PROVE  FALSE
  BY <1>1, <1>3, <1>5, LogsTyped DEF TermsHaveLeaders
<1> QED
  BY <1>2, <1>4, <1>5

LEMMA LeadersHaveOwnStep ==
  ASSUME NetworkLogInv, NetworkElectionInv', [NetworkNext]_networkVars
  PROVE  LeadersHaveOwn'
<1>1. /\ NetworkElectionInv /\ NetworkTypeOK /\ NetworkTypeOK' /\ LeadersHaveOwn
      /\ ElectionSafety
  BY NetworkElectionInvIsSafe DEF NetworkLogInv, NetworkElectionInv
<1>2. \A n \in Node : log[n] \in Logs /\ Len(log[n]) \in Nat
  BY <1>1, LogsTyped
<1> SUFFICES ASSUME NEW l \in Node, role'[l] = "Leader",
                    NEW s \in Logs', NEW i \in 1 .. Len(s), s[i] = term'[l]
             PROVE  i \in 1 .. Len(log'[l]) /\ log'[l][i] = term'[l]
  BY DEF LeadersHaveOwn, Has
<1>3. /\ term'[l] = term[l]
      /\ role[l] = "Leader" \/ NetBecomeLeader(l)
  BY <1>1, NetRolesStep
<1>4. CASE NetBecomeLeader(l)
  <2>1. /\ log' = log /\ msgs' = msgs
        /\ \A r \in Logs : \A j \in 1 .. Len(r) : r[j] # term[l]
    BY <1>4, ElectedIsFresh
  <2>2. s \in Logs
    BY <2>1 DEF Logs, Requests, Appends
  <2> QED
    BY <1>3, <2>1, <2>2
<1>5. CASE role[l] = "Leader"
  <2>1. Starts(log'[l], log[l]) /\ Len(log'[l]) \in Nat
    BY <1>1, LeadersOnlyAdd DEF NetworkTypeOK, RaftTypeOK
  <2>2. ASSUME NEW r \in Logs, i \in 1 .. Len(r), r[i] = term[l]
        PROVE  i \in 1 .. Len(log'[l]) /\ log'[l][i] = term'[l]
    <3>1. i \in 1 .. Len(log[l]) /\ log[l][i] = term[l]
      BY <1>1, <1>5, <2>2 DEF LeadersHaveOwn, Has
    <3> QED
      BY <1>2, <1>3, <2>1, <3>1 DEF Starts
  <2>3. CASE s \in Logs
    BY <1>3, <2>2, <2>3
  <2>4. CASE s \notin Logs
    <3>1. PICK k \in Node :
            /\ role[k] = "Leader"
            /\ \A n \in Node : log'[n] = IF n = k THEN s ELSE log[n]
            /\ \A j \in 1 .. Len(s) :
                 /\ j = Len(log[k]) + 1 \/ j \in 1 .. Len(log[k])
                 /\ s[j] = IF j = Len(log[k]) + 1 THEN term[k] ELSE log[k][j]
      BY <1>1, <2>4, NewLogs
    <3>2. CASE i \in 1 .. Len(log[k])
      <4>1. log[k][i] = term[l]
        BY <1>2, <1>3, <3>1, <3>2
      <4> QED
        BY <1>2, <2>2, <3>2, <4>1
    <3>3. CASE i = Len(log[k]) + 1
      <4>1. k = l
        BY <1>1, <1>3, <1>5, <3>1, <3>3 DEF ElectionSafety
      <4> QED
        BY <3>1, <4>1
    <3> QED
      BY <3>1, <3>2, <3>3
  <2> QED
    BY <2>3, <2>4
<1> QED
  BY <1>3, <1>4, <1>5

LEMMA AppendsAreStartsStep ==
  ASSUME NetworkLogInv, NetworkElectionInv', [NetworkNext]_networkVars
  PROVE  AppendsAreStarts'
<1>1. /\ NetworkElectionInv /\ NetworkTypeOK /\ NetworkTypeOK' /\ AppendsAreStarts
      /\ ElectionSafety
  BY NetworkElectionInvIsSafe DEF NetworkLogInv, NetworkElectionInv
<1>2. \A n \in Node : Len(log[n]) \in Nat /\ Len(log'[n]) \in Nat
  BY <1>1 DEF NetworkTypeOK, RaftTypeOK
<1> SUFFICES ASSUME NEW m \in Appends', NEW l \in Node, role'[l] = "Leader",
                    term'[l] = m.term
             PROVE  Starts(log'[l], m.log)
  BY DEF AppendsAreStarts, Starts
<1>3. /\ term'[l] = term[l]
      /\ role[l] = "Leader" \/ NetBecomeLeader(l)
  BY <1>1, NetRolesStep
<1>4. CASE NetBecomeLeader(l)
  <2>1. msgs' = msgs /\ \A k \in Appends : k.term # term[l]
    BY <1>4, ElectedIsFresh
  <2>2. m \in Appends
    BY <2>1 DEF Appends
  <2> QED
    BY <1>3, <2>1, <2>2
<1>5. CASE role[l] = "Leader" /\ m \in Appends
  <2>1. Starts(log'[l], log[l]) /\ Len(m.log) \in Nat
    BY <1>1, <1>5, LeadersOnlyAdd, LogsTyped
  <2>2. Starts(log[l], m.log)
    BY <1>1, <1>3, <1>5 DEF AppendsAreStarts
  <2> QED
    BY <1>2, <2>1, <2>2 DEF Starts
<1>6. CASE role[l] = "Leader" /\ m \notin Appends
  <2>1. /\ log' = log /\ m.src \in Node /\ role[m.src] = "Leader"
        /\ m.term = term[m.src] /\ m.log = log[m.src]
    BY <1>1, <1>6, AppendsStep DEF raftVars
  <2>2. m.src = l
    BY <1>1, <1>3, <1>6, <2>1 DEF ElectionSafety
  <2> QED
    BY <1>2, <2>1, <2>2 DEF Starts
<1> QED
  BY <1>3, <1>4, <1>5, <1>6

\* A leader's log agrees with the appends of its term and with the logs that have
\* an entry of it.
LEMMA LeaderAgrees ==
  ASSUME NetworkLogInv, NEW l \in Node, role[l] = "Leader"
  PROVE  /\ \A s \in Logs : \A j \in 1 .. Len(s) : s[j] = term[l] =>
              \A k \in 1 .. j : k <= Len(log[l]) => s[k] = log[l][k]
         /\ \A m \in Appends : m.term = term[l] =>
              \A k \in 1 .. Len(m.log) : k <= Len(log[l]) => m.log[k] = log[l][k]
<1>1. NetworkTypeOK /\ LeadersHaveOwn /\ AppendsAreStarts /\ AllMatch
  BY DEF NetworkLogInv, NetworkElectionInv
<1>2. log[l] \in Logs /\ Len(log[l]) \in Nat
  BY <1>1, LogsTyped
<1>3. ASSUME NEW s \in Logs, NEW j \in 1 .. Len(s), s[j] = term[l], NEW k \in 1 .. j
      PROVE  s[k] = log[l][k]
  <2>1. j \in 1 .. Len(log[l]) /\ log[l][j] = s[j]
    BY <1>1, <1>3 DEF LeadersHaveOwn, Has
  <2> QED
    BY <1>1, <1>2, <2>1, StartsMatch
<1>4. ASSUME NEW m \in Appends, m.term = term[l], NEW k \in 1 .. Len(m.log)
      PROVE  m.log[k] = log[l][k]
  BY <1>1, <1>4 DEF AppendsAreStarts, Starts
<1> QED
  BY <1>3, <1>4

LEMMA AppendsAgreeStep ==
  ASSUME NetworkLogInv, NetworkTypeOK', [NetworkNext]_networkVars
  PROVE  AppendsAgree'
<1>1. NetworkTypeOK /\ AppendsAgree /\ AppendsAreStarts
  BY DEF NetworkLogInv, NetworkElectionInv
<1>2. /\ \A n \in Node : Len(log[n]) \in Nat
      /\ \A s \in Logs : Len(s) \in Nat
      /\ \A m \in Appends : Len(m.log) \in Nat /\ m.log \in Logs
  BY <1>1, LogsTyped
<1>3. ASSUME NEW m \in Appends', NEW s \in Logs', NEW j \in 1 .. Len(s), s[j] = m.term,
             NEW k \in 1 .. j, k <= Len(m.log)
      PROVE  s[k] = m.log[k]
  <2>1. CASE m \in Appends /\ s \in Logs
    BY <1>1, <1>3, <2>1 DEF AppendsAgree
  <2>2. CASE m \notin Appends
    <3>1. /\ log' = log /\ m.src \in Node /\ role[m.src] = "Leader"
          /\ m.term = term[m.src] /\ m.log = log[m.src]
      BY <1>1, <2>2, AppendsStep DEF raftVars
    <3>2. s \in Logs
      <4>1. ASSUME s \notin Logs
            PROVE  FALSE
        <5>1. PICK l \in Node : log'[l] = s
          BY <1>1, <4>1, NewLogs
        <5> QED
          BY <3>1, <4>1, <5>1 DEF Logs
      <4> QED
        BY <4>1
    <3> QED
      BY <1>3, <3>1, <3>2, LeaderAgrees
  <2>3. CASE s \notin Logs
    <3>1. PICK l \in Node :
            /\ role[l] = "Leader" /\ msgs' = msgs
            /\ Len(s) = Len(log[l]) + 1 /\ Len(log[l]) \in Nat
            /\ \A i \in 1 .. Len(s) :
                 /\ i = Len(log[l]) + 1 \/ i \in 1 .. Len(log[l])
                 /\ s[i] = IF i = Len(log[l]) + 1 THEN term[l] ELSE log[l][i]
      BY <1>1, <2>3, NewLogs
    <3>2. m \in Appends /\ log[l] \in Logs
      BY <3>1 DEF Appends, Logs
    <3>3. CASE j \in 1 .. Len(log[l])
      <4>1. log[l][j] = m.term
        BY <1>3, <3>1, <3>3
      <4>2. log[l][k] = m.log[k]
        BY <1>1, <1>3, <3>2, <3>3, <4>1 DEF AppendsAgree
      <4>3. k \in 1 .. Len(log[l])
        BY <3>1, <3>3
      <4> QED
        BY <3>1, <4>2, <4>3
    <3>4. CASE j = Len(log[l]) + 1
      <4>1. m.term = term[l]
        BY <1>3, <3>1, <3>4
      <4>2. Starts(log[l], m.log)
        BY <1>1, <3>1, <3>2, <4>1 DEF AppendsAreStarts
      <4>3. k \in 1 .. Len(log[l]) /\ log[l][k] = m.log[k]
        BY <1>2, <1>3, <3>1, <3>2, <4>2 DEF Starts
      <4> QED
        BY <3>1, <4>3
    <3> QED
      BY <3>1, <3>3, <3>4
  <2> QED
    BY <2>1, <2>2, <2>3
<1>4. ASSUME NEW m \in Appends', NEW n \in Appends', n.term = m.term,
             NEW k \in 1 .. Len(m.log), k <= Len(n.log)
      PROVE  m.log[k] = n.log[k]
  <2>1. ASSUME NEW a \in Appends', a \notin Appends
        PROVE  /\ a.src \in Node /\ role[a.src] = "Leader"
               /\ a.term = term[a.src] /\ a.log = log[a.src]
    BY <1>1, <2>1, AppendsStep
  <2>2. CASE m \in Appends /\ n \in Appends
    BY <1>1, <1>4, <2>2 DEF AppendsAgree
  <2>3. CASE m \in Appends /\ n \notin Appends
    BY <1>4, <2>1, <2>3, LeaderAgrees
  <2>4. CASE m \notin Appends /\ n \in Appends
    <3>1. /\ m.src \in Node /\ role[m.src] = "Leader"
          /\ m.term = term[m.src] /\ m.log = log[m.src]
      BY <2>1, <2>4
    <3>2. k \in 1 .. Len(n.log) /\ k <= Len(log[m.src])
      BY <1>2, <1>4, <2>4, <3>1
    <3> QED
      BY <1>4, <2>4, <3>1, <3>2, LeaderAgrees
  <2>5. CASE m \notin Appends /\ n \notin Appends
    <3>1. /\ m.src \in Node /\ n.src \in Node
          /\ role[m.src] = "Leader" /\ role[n.src] = "Leader"
          /\ term[m.src] = term[n.src] /\ m.log = log[m.src] /\ n.log = log[n.src]
      BY <1>4, <2>1, <2>5
    <3>2. m.src = n.src
      BY <3>1, NetworkElectionInvIsSafe DEF NetworkLogInv, ElectionSafety
    <3> QED
      BY <3>1, <3>2
  <2> QED
    BY <2>2, <2>3, <2>4, <2>5
<1> QED
  BY <1>3, <1>4 DEF AppendsAgree

LEMMA RequestsAreStartsStep ==
  ASSUME NetworkLogInv, NetworkTypeOK', [NetworkNext]_networkVars
  PROVE  RequestsAreStarts'
<1>1. NetworkTypeOK /\ RequestsAreStarts
  BY DEF NetworkLogInv, NetworkElectionInv
<1> SUFFICES ASSUME NEW m \in Requests'
             PROVE  /\ m.term <= term'[m.src]
                    /\ Campaigns(m.src)' /\ term'[m.src] = m.term =>
                         Starts(log'[m.src], m.log)
  BY DEF RequestsAreStarts, Starts
<1>2. CASE m \in Requests
  <2>1. /\ m.src \in Node /\ m.term \in Nat /\ Len(m.log) \in Nat
        /\ term[m.src] \in Nat /\ Len(log[m.src]) \in Nat
    BY <1>1, <1>2, LogsTyped
  <2>2. term'[m.src] \in Nat /\ Len(log'[m.src]) \in Nat
    BY <2>1 DEF NetworkTypeOK, RaftTypeOK
  <2>3. m.term <= term'[m.src]
    BY <1>1, <1>2, <2>1, <2>2, NetRolesStep DEF RequestsAreStarts
  <2>4. ASSUME Campaigns(m.src)', term'[m.src] = m.term
        PROVE  Starts(log'[m.src], m.log)
    <3>1. term[m.src] = m.term /\ Campaigns(m.src)
      <4>1. m.term <= term[m.src] /\ role'[m.src] \in Roles /\ role'[m.src] # "Follower"
        BY <1>1, <1>2, <2>1, <2>4 DEF RequestsAreStarts, NetworkTypeOK, RaftTypeOK, Campaigns
      <4>2. role'[m.src] \in {"Candidate", "Leader"}
        BY <4>1 DEF Roles
      <4> QED
        BY <1>1, <2>1, <2>2, <2>4, <4>1, <4>2, NetRolesStep DEF Campaigns
    <3>2. Starts(log[m.src], m.log)
      BY <1>1, <1>2, <3>1 DEF RequestsAreStarts
    <3>3. ASSUME log'[m.src] = log[m.src]
          PROVE  Starts(log'[m.src], m.log)
      BY <3>2, <3>3 DEF Starts
    <3>4. ASSUME role[m.src] = "Leader", UNCHANGED electionVars
          PROVE  Starts(log'[m.src], m.log)
      <4>1. Starts(log'[m.src], log[m.src])
        BY <1>1, <2>1, <3>4, LeadersOnlyAdd DEF electionVars
      <4> QED
        BY <2>1, <2>2, <3>2, <4>1 DEF Starts
    <3> QED
      BY <1>1, <2>1, <2>4, <3>3, <3>4, NodeLogStep DEF Campaigns
  <2> QED
    BY <2>3, <2>4
<1>3. CASE m \notin Requests
  <2>1. /\ term' = term /\ log' = log /\ m.src \in Node
        /\ m.term = term[m.src] /\ m.log = log[m.src]
    BY <1>1, <1>3, RequestsStep DEF raftVars
  <2> QED
    BY <1>1, <2>1, LogsTyped DEF Starts
<1> QED
  BY <1>2, <1>3

LEMMA GrantsAreOldStep ==
  ASSUME NetworkLogInv, NetworkTypeOK', [NetworkNext]_networkVars
  PROVE  GrantsAreOld'
<1>1. NetworkTypeOK /\ GrantsAreOld /\ RequestsAreStarts
  BY DEF NetworkLogInv, NetworkElectionInv
<1>2. \A n \in Node : term[n] \in Nat /\ term'[n] \in Nat /\ term'[n] >= term[n]
  BY <1>1, NetRolesStep DEF NetworkTypeOK, RaftTypeOK
<1> SUFFICES ASSUME NEW k \in Granted'
             PROVE  k.term <= term'[k.dst]
  BY DEF GrantsAreOld
<1>3. CASE k \in Granted
  <2>1. k.dst \in Node /\ k.term \in Nat /\ k.term <= term[k.dst]
    BY <1>1, <1>3, LogsTyped DEF GrantsAreOld
  <2> QED
    BY <1>2, <2>1
<1>4. CASE k \notin Granted
  <2>1. PICK m \in Requests : k.dst = m.src /\ k.term = m.term
    BY <1>1, <1>4, GrantedStep
  <2>2. m.src \in Node /\ m.term \in Nat /\ m.term <= term[m.src]
    BY <1>1, <2>1, LogsTyped DEF RequestsAreStarts
  <2> QED
    BY <1>2, <2>1, <2>2
<1> QED
  BY <1>3, <1>4

LEMMA AcksWereStoredStep ==
  ASSUME NetworkLogInv, NetworkTypeOK', [NetworkNext]_networkVars
  PROVE  AcksWereStored'
<1>1. NetworkTypeOK /\ AcksWereStored /\ AppendsAgree
  BY DEF NetworkLogInv, NetworkElectionInv
<1>2. \A n \in Node : /\ term[n] \in Nat /\ term'[n] \in Nat /\ term'[n] >= term[n]
                      /\ Len(log[n]) \in Nat /\ Len(log'[n]) \in Nat
  BY <1>1, NetRolesStep DEF NetworkTypeOK, RaftTypeOK
<1>3. \A m \in Appends : m \in Appends' /\ Len(m.log) \in Nat
  BY <1>1, MsgsStep, LogsTyped DEF Appends
<1> SUFFICES ASSUME NEW a \in Acks'
             PROVE  /\ a.term <= term'[a.src]
                    /\ \E m \in Appends :
                         /\ m.dst = a.src /\ m.term = a.term /\ Len(m.log) = a.index
                         /\ term'[a.src] = a.term => Starts(log'[a.src], m.log)
  BY <1>3 DEF AcksWereStored, Starts
<1>4. CASE a \in Acks
  <2>1. a.src \in Node /\ a.term \in Nat
    BY <1>1, <1>4, LogsTyped
  <2>2. PICK m \in Appends :
          /\ a.term <= term[a.src]
          /\ m.dst = a.src /\ m.term = a.term /\ Len(m.log) = a.index
          /\ term[a.src] = a.term => Starts(log[a.src], m.log)
    BY <1>1, <1>4 DEF AcksWereStored
  <2>3. ASSUME term'[a.src] = a.term
        PROVE  Starts(log'[a.src], m.log)
    <3>1. term[a.src] = a.term /\ Starts(log[a.src], m.log)
      BY <1>2, <2>1, <2>2, <2>3
    <3>2. ASSUME log'[a.src] = log[a.src]
          PROVE  Starts(log'[a.src], m.log)
      BY <3>1, <3>2 DEF Starts
    <3>3. ASSUME Len(log'[a.src]) = Len(log[a.src]) + 1,
                 \A i \in 1 .. Len(log'[a.src]) :
                   log'[a.src][i] = IF i = Len(log[a.src]) + 1 THEN term[a.src]
                                    ELSE log[a.src][i]
          PROVE  Starts(log'[a.src], m.log)
      BY <1>2, <1>3, <2>1, <3>1, <3>3 DEF Starts
\* Two appends of one term are starts of one log: the shorter one came late.
    <3>4. ASSUME NEW k \in Appends, log'[a.src] = k.log, ~Starts(log[a.src], k.log),
                 term'[a.src] = k.term
          PROVE  Starts(log'[a.src], m.log)
      <4>1. \A i \in 1 .. Len(m.log) : i <= Len(k.log) => m.log[i] = k.log[i]
        BY <1>1, <2>2, <2>3, <3>4 DEF AppendsAgree
      <4>2. CASE Len(m.log) <= Len(k.log)
        BY <1>3, <3>4, <4>1, <4>2 DEF Starts
      <4>3. CASE Len(k.log) < Len(m.log)
        <5>1. Starts(log[a.src], k.log)
          BY <1>2, <1>3, <2>1, <3>1, <4>1, <4>3 DEF Starts
        <5> QED
          BY <3>4, <5>1
      <4> QED
        BY <1>3, <4>2, <4>3
    <3> QED
      BY <1>1, <2>1, <3>2, <3>3, <3>4, NodeLogStep
  <2> QED
    BY <1>2, <2>1, <2>2, <2>3
<1>5. CASE a \notin Acks
  <2>1. PICK m \in Appends :
          /\ a.src = m.dst /\ a.term = m.term /\ a.index = Len(m.log)
          /\ term'[m.dst] = m.term /\ log'[m.dst] = Stored(m)
    BY <1>1, <1>5, AcksStep
  <2>2. Starts(log'[a.src], m.log) /\ m.term \in Nat
    BY <1>1, <2>1, StoredIs, LogsTyped
  <2> QED
    BY <2>1, <2>2
<1> QED
  BY <1>4, <1>5

\* A leader counts more only when it is told so in its term.
LEMMA MatchedStep ==
  ASSUME NetworkTypeOK, [NetworkNext]_networkVars, NEW l \in Node, NEW n \in Node,
         role'[l] = "Leader", matched'[l][n] # 0
  PROVE  /\ role[l] = "Leader" /\ term'[l] = term[l]
         /\ \/ matched'[l][n] = matched[l][n]
            \/ \E a \in Acks : a.src = n /\ a.term = term[l] /\ a.index = matched'[l][n]
<1>0. /\ matched \in [Node -> [Node -> Nat]] /\ role \in [Node -> Roles]
      /\ \A a \in Node : term[a] \in Nat
  BY DEF NetworkTypeOK, RaftTypeOK
<1>1. /\ term'[l] = term[l]
      /\ role[l] = "Leader" \/ NetBecomeLeader(l)
  BY NetRolesStep
<1>2. ~NetBecomeLeader(l)
  <2>1. ASSUME NetBecomeLeader(l)
        PROVE  FALSE
    <3>1. matched' = [matched EXCEPT ![l] = [m \in Node |-> 0]]
      BY <2>1 DEF NetBecomeLeader
    <3> QED
      BY <1>0, <3>1
  <2> QED
    BY <2>1
<1>3. ASSUME NEW k \in Node, NetBecomeLeader(k)
      PROVE  matched'[l][n] = matched[l][n]
  <2>1. matched' = [matched EXCEPT ![k] = [m \in Node |-> 0]] /\ k # l
    BY <1>2, <1>3 DEF NetBecomeLeader
  <2> QED
    BY <1>0, <2>1
<1>4. ASSUME NEW a \in msgs, ReceiveAck(a)
      PROVE  \/ matched'[l][n] = matched[l][n]
             \/ \E b \in Acks : b.src = n /\ b.term = term[l] /\ b.index = matched'[l][n]
  <2>1. a.src \in Node /\ a.dst \in Node /\ a.term \in Nat /\ a.index \in Nat
    BY <1>4, MessageFields DEF NetworkTypeOK, ReceiveAck
  <2>2. CASE matched' = matched
    BY <2>2
  <2>3. CASE matched' # matched
    <3>1. /\ a.kind = "Ack" /\ a.ok /\ Current(a) /\ RoleSeen(a) = "Leader"
          /\ matched' = [matched EXCEPT ![a.dst][a.src] =
                           Larger(matched[a.dst][a.src], a.index)]
      BY <1>4, <2>3 DEF ReceiveAck
    <3>2. a \in Acks /\ a.term = term[a.dst]
      <4>1. a \in Acks
        BY <3>1 DEF Acks
      <4>2. a.term >= term[a.dst] /\ ~(a.term > term[a.dst])
        BY <3>1 DEF Current, RoleSeen
      <4>3. term[a.dst] \in Nat
        BY <1>0, <2>1
      <4>4. a.term = term[a.dst]
        BY <2>1, <4>2, <4>3
      <4> QED
        BY <4>1, <4>4
    <3>3. matched'[l][n] = IF l = a.dst /\ n = a.src THEN Larger(matched[l][n], a.index)
                           ELSE matched[l][n]
      BY <1>0, <2>1, <3>1
    <3> QED
      BY <3>2, <3>3 DEF Larger
  <2> QED
    BY <2>2, <2>3
<1>5. ASSUME \/ \E a \in Node : NetTimeout(a) \/ NetClientRequest(a)
                                \/ \E i \in 1 .. MaxLog : NetCommit(a, i)
             \/ \E a, b \in Node : RequestVote(a, b) \/ SendAppend(a, b)
             \/ \E m \in msgs : ReceiveRequestVote(m) \/ ReceiveVote(m) \/ ReceiveAppend(m)
             \/ UNCHANGED networkVars
      PROVE  matched' = matched
  BY <1>5 DEF NetTimeout, NetClientRequest, NetCommit, RequestVote, SendAppend,
              ReceiveRequestVote, ReceiveVote, ReceiveAppend, networkVars
<1> QED
  BY <1>1, <1>2, <1>3, <1>4, <1>5 DEF NetworkNext

LEMMA MatchedWasAckedStep ==
  ASSUME NetworkLogInv, NetworkTypeOK', [NetworkNext]_networkVars
  PROVE  MatchedWasAcked'
<1>1. NetworkTypeOK /\ MatchedWasAcked
  BY DEF NetworkLogInv, NetworkElectionInv
<1> SUFFICES ASSUME NEW l \in Node, NEW n \in Node, role'[l] = "Leader", matched'[l][n] # 0
             PROVE  \E a \in Acks' : a.src = n /\ a.term = term'[l] /\ a.index = matched'[l][n]
  BY DEF MatchedWasAcked
<1>2. /\ role[l] = "Leader" /\ term'[l] = term[l]
      /\ \/ matched'[l][n] = matched[l][n]
         \/ \E a \in Acks : a.src = n /\ a.term = term[l] /\ a.index = matched'[l][n]
  BY <1>1, MatchedStep
<1>3. PICK a \in Acks : a.src = n /\ a.term = term[l] /\ a.index = matched'[l][n]
  BY <1>1, <1>2 DEF MatchedWasAcked
<1>4. a \in Acks'
  BY <1>1, AcksStep
<1> QED
  BY <1>2, <1>3, <1>4

LEMMA NetworkLogStep == NetworkLogInv /\ [NetworkNext]_networkVars => NetworkLogInv'
<1> SUFFICES ASSUME NetworkLogInv, [NetworkNext]_networkVars PROVE NetworkLogInv'
  OBVIOUS
<1>1. NetworkElectionInv' /\ NetworkTypeOK'
  BY NetworkElectionStep DEF NetworkLogInv, NetworkElectionInv
<1>2. TermsHaveLeaders' /\ LeadersHaveOwn' /\ AppendsAreStarts'
  BY <1>1, TermsHaveLeadersStep, LeadersHaveOwnStep, AppendsAreStartsStep
<1>3. AllOrdered' /\ NoEntryAhead' /\ AllMatch' /\ AppendsAgree'
  BY <1>1, AllOrderedStep, AllMatchStep, AppendsAgreeStep
<1>4. RequestsAreStarts' /\ GrantsAreOld' /\ AcksWereStored' /\ MatchedWasAcked'
  BY <1>1, RequestsAreStartsStep, GrantsAreOldStep, AcksWereStoredStep, MatchedWasAckedStep
<1> QED
  BY <1>1, <1>2, <1>3, <1>4 DEF NetworkLogInv

LEMMA NetworkLogInvStores == NetworkLogInv => MatchedIsStored
<1> SUFFICES ASSUME NetworkLogInv, NEW l \in Node, NEW n \in Node, role[l] = "Leader",
                    term[n] = term[l], NEW i \in 1 .. matched[l][n]
             PROVE  i <= Len(log[l]) /\ Holds(n, i, log[l][i])
  BY DEF MatchedIsStored
<1>1. /\ NetworkTypeOK /\ AcksWereStored /\ MatchedWasAcked /\ AppendsAreStarts
      /\ matched[l][n] \in Nat /\ Len(log[l]) \in Nat /\ Len(log[n]) \in Nat
  BY DEF NetworkLogInv, NetworkElectionInv, NetworkTypeOK, RaftTypeOK
<1>2. PICK a \in Acks : a.src = n /\ a.term = term[l] /\ a.index = matched[l][n]
  BY <1>1 DEF MatchedWasAcked
<1>3. PICK m \in Appends : /\ m.term = term[l] /\ Len(m.log) = matched[l][n]
                           /\ Starts(log[n], m.log)
  BY <1>1, <1>2 DEF AcksWereStored
<1>4. Starts(log[l], m.log)
  BY <1>1, <1>3 DEF AppendsAreStarts
<1> QED
  BY <1>1, <1>3, <1>4 DEF Starts, Holds

\* What a leader counts, the node stores, in clusters of every size and for every
\* order of the deliveries.
THEOREM NetworkMatchedIsStored == NetworkSpec => []MatchedIsStored
  BY NetworkLogInit, NetworkLogStep, NetworkLogInvStores, PTL DEF NetworkSpec

-----------------------------------------------------------------------------
(* What a quorum has acked stays, for clusters of every size. *)

Acked(v, i, t) == \E a \in Acks : a.src = v /\ a.term = t /\ a.index >= i

Ackers(i, t) == {v \in Node : Acked(v, i, t)}

Written(i, t) == \E s \in Logs : Has(s, i, t)

\* A quorum has left term t behind without entry i: no leader of t will commit it.
Lost(i, t) ==
  \E Q \in SUBSET Node :
    IsQuorum(Q) /\ \A v \in Q : term[v] > t /\ ~Acked(v, i, t)

\* The nodes of A store entry i of term t, and so does everyone one of them has
\* voted for in a later term, and every log and append of a later term.
Kept(A, i, t) ==
  /\ \A v \in A : Has(log[v], i, t)
  /\ \A k \in Granted :
       k.src \in A /\ k.term > t /\ Campaigns(k.dst) /\ term[k.dst] = k.term =>
         Has(log[k.dst], i, t)
  /\ \A s \in Logs : \A j \in 1 .. Len(s) : s[j] > t => Has(s, i, t)
  /\ \A m \in Appends : m.term > t => Has(m.log, i, t)

Secured(i, t) == \E A \in SUBSET Node : IsQuorum(A) /\ Kept(A, i, t)

\* An entry that can still be committed is safe with those who acked it.
AckedIsKept ==
  \A i, t \in Nat : Written(i, t) => Lost(i, t) \/ Kept(Ackers(i, t), i, t)

\* What a node or an append takes for committed is in its log, and a quorum keeps
\* it.
CommittedIsKept ==
  /\ \A n \in Node : \A k \in Nat \ {0} : commit[n] = k =>
       \E t \in Nat : Has(log[n], k, t) /\ Secured(k, t)
  /\ \A m \in Appends : \A k \in Nat \ {0} : m.commit = k =>
       \E t \in Nat : Has(m.log, k, t) /\ Secured(k, t)

\* The inductive invariant of the commits where they travel in messages.
NetworkCommitInv ==
  /\ NetworkLogInv
  /\ AckedIsKept
  /\ CommittedIsKept

\* Who is elected with a vote from A stores what A keeps.
LEMMA ElectedHoldsKept ==
  ASSUME NetworkElectionInv, NEW A, NEW i, NEW t, Kept(A, i, t),
         NEW c \in Node, Campaigns(c), term[c] > t, NEW v \in votes[c], v \in A
  PROVE  Has(log[c], i, t)
<1>1. CASE v = c
  BY <1>1 DEF Kept
<1>2. CASE v # c
  <2>1. PICK k \in Granted : k.src = v /\ k.dst = c /\ k.term = term[c]
    BY <1>2 DEF NetworkElectionInv, VotesWereGranted
  <2> QED
    BY <2>1 DEF Kept
<1> QED
  BY <1>1, <1>2

\* An entry of a log that a leader has extended, or that an append replaced, stays
\* at its place when every append of a later term has it.
LEMMA EntryStays ==
  ASSUME NetworkLogInv, NetworkTypeOK', [NetworkNext]_networkVars,
         NEW n \in Node, NEW i \in Nat, NEW t \in Nat, Has(log[n], i, t),
         \A m \in Appends : m.term > t => Has(m.log, i, t)
  PROVE  Has(log'[n], i, t)
<1>1. NetworkTypeOK /\ NoEntryAhead /\ AppendsAgree
  BY DEF NetworkLogInv, NetworkElectionInv
<1>2. log[n] \in Logs /\ term[n] \in Nat /\ Len(log[n]) \in Nat /\ Len(log'[n]) \in Nat
  BY <1>1, LogsTyped DEF NetworkTypeOK, RaftTypeOK
<1>3. i \in 1 .. Len(log[n]) /\ log[n][i] = t /\ t <= term[n]
  BY <1>1 DEF Has, NoEntryAhead
<1>4. ASSUME Len(log'[n]) = Len(log[n]) + 1,
             \A j \in 1 .. Len(log'[n]) :
               log'[n][j] = IF j = Len(log[n]) + 1 THEN term[n] ELSE log[n][j]
      PROVE  Has(log'[n], i, t)
  BY <1>2, <1>3, <1>4 DEF Has
<1>5. ASSUME NEW m \in Appends, log'[n] = m.log, ~Starts(log[n], m.log), term[n] <= m.term
      PROVE  Has(log'[n], i, t)
  <2>1. m.term \in Nat /\ Len(m.log) \in Nat
    BY <1>1, LogsTyped
  <2>2. CASE m.term > t
    BY <1>5, <2>2
  <2>3. CASE m.term = t
    <3>1. \A k \in 1 .. i : k <= Len(m.log) => log[n][k] = m.log[k]
      BY <1>1, <1>2, <1>3, <2>3 DEF AppendsAgree
    <3>2. CASE i <= Len(m.log)
      <4>1. i \in 1 .. Len(m.log) /\ m.log[i] = t
        BY <1>2, <1>3, <2>1, <3>1, <3>2
      <4> QED
        BY <1>5, <4>1 DEF Has
    <3>3. CASE Len(m.log) < i
      <4>1. Starts(log[n], m.log)
        BY <1>2, <1>3, <2>1, <3>1, <3>3 DEF Starts
      <4> QED
        BY <1>5, <4>1
    <3> QED
      BY <2>1, <3>2, <3>3
  <2> QED
    BY <1>2, <1>3, <1>5, <2>1, <2>2, <2>3
<1> QED
  BY <1>1, <1>4, <1>5, NodeLogStep

\* The comparison of the last entries is enough: a log that is up to date with one
\* that has the entry has it too.
LEMMA UpToDateHas ==
  ASSUME NetworkLogInv, NEW s \in Logs, NEW r \in Logs, UpToDate(s, r),
         NEW i \in Nat, NEW t \in Nat, Has(r, i, t),
         \A j \in 1 .. Len(s) : s[j] > t => Has(s, i, t)
  PROVE  Has(s, i, t)
<1>1. NetworkTypeOK /\ AllOrdered /\ AllMatch
  BY DEF NetworkLogInv, NetworkElectionInv
<1>2. /\ s \in Seq(Nat) /\ r \in Seq(Nat) /\ Len(s) \in Nat /\ Len(r) \in Nat
      /\ \A j \in 1 .. Len(s) : s[j] \in Nat
      /\ \A j \in 1 .. Len(r) : r[j] \in Nat
  BY <1>1, LogsTyped
<1>3. i \in 1 .. Len(r) /\ r[i] = t /\ Len(r) \in 1 .. Len(r) /\ i <= Len(r) /\ r # <<>>
  BY <1>2 DEF Has
<1>4. LastTerm(r) = r[Len(r)] /\ r[Len(r)] \in Nat /\ t <= r[Len(r)]
  BY <1>1, <1>2, <1>3 DEF LastTerm, AllOrdered
<1>5. CASE LastTerm(s) > LastTerm(r)
  <2>1. s # <<>>
    BY <1>4, <1>5 DEF LastTerm
  <2>2. Len(s) \in 1 .. Len(s) /\ LastTerm(s) = s[Len(s)]
    BY <1>2, <2>1 DEF LastTerm
  <2> QED
    BY <1>2, <1>4, <1>5, <2>2
<1>6. CASE LastTerm(s) = LastTerm(r) /\ Len(s) >= Len(r)
  <2>1. Len(s) \in 1 .. Len(s) /\ s # <<>>
    BY <1>2, <1>3, <1>6
  <2>2. s[Len(s)] = r[Len(r)]
    BY <1>4, <1>6, <2>1 DEF LastTerm
  <2>3. r[i] = s[i]
    BY <1>1, <1>2, <1>3, <1>6, <2>1, <2>2 DEF AllMatch
  <2>4. i \in 1 .. Len(s)
    BY <1>2, <1>3, <1>6
  <2> QED
    BY <1>3, <2>3, <2>4 DEF Has
<1> QED
  BY <1>5, <1>6 DEF UpToDate

\* What A keeps it keeps on keeping, as long as nobody is elected without it.
LEMMA KeptStays ==
  ASSUME NetworkLogInv, NetworkLogInv', [NetworkNext]_networkVars,
         NEW A \in SUBSET Node, NEW i \in Nat, NEW t \in Nat, Kept(A, i, t),
         \A c \in Node : Campaigns(c) /\ IsQuorum(votes[c]) /\ term[c] > t =>
           \E v \in A : v \in votes[c]
  PROVE  /\ Kept(A, i, t)'
         /\ \A n \in Node : Has(log[n], i, t) => Has(log'[n], i, t)
<1>1. /\ NetworkElectionInv /\ NetworkTypeOK /\ NetworkTypeOK'
      /\ GrantsAreOld /\ RequestsAreStarts /\ LeadersHaveQuorums
  BY DEF NetworkLogInv, NetworkElectionInv
<1>2. /\ \A n \in Node : /\ term[n] \in Nat /\ term'[n] \in Nat /\ term'[n] >= term[n]
                         /\ log[n] \in Logs /\ Len(log[n]) \in Nat /\ Len(log'[n]) \in Nat
                         /\ role'[n] \in Roles
  <2>1. \A n \in Node : /\ term[n] \in Nat /\ term'[n] \in Nat
                        /\ log[n] \in Seq(Nat) /\ log'[n] \in Seq(Nat)
                        /\ role'[n] \in Roles
    BY <1>1 DEF NetworkTypeOK, RaftTypeOK
  <2>2. \A n \in Node : term'[n] >= term[n] /\ log[n] \in Logs
    BY <1>1, LogsTyped, NetRolesStep
  <2> QED
    BY <2>1, <2>2
<1>3. \A n \in Node : Has(log[n], i, t) => Has(log'[n], i, t)
  BY <1>1, EntryStays DEF Kept
<1>4. ASSUME NEW l \in Node, role[l] = "Leader", term[l] > t
      PROVE  Has(log[l], i, t)
  <2>1. Campaigns(l) /\ IsQuorum(votes[l])
    BY <1>1, <1>4 DEF Campaigns, LeadersHaveQuorums
  <2>2. PICK v \in A : v \in votes[l]
    BY <1>4, <2>1
  <2> QED
    BY <1>1, <1>4, <2>1, <2>2, ElectedHoldsKept
<1>5. ASSUME NEW v \in A
      PROVE  Has(log'[v], i, t)
  BY <1>3 DEF Kept
<1>6. ASSUME NEW m \in Appends', m.term > t
      PROVE  Has(m.log, i, t)
  <2>1. CASE m \in Appends
    BY <1>6, <2>1 DEF Kept
  <2>2. CASE m \notin Appends
    <3>1. /\ m.src \in Node /\ role[m.src] = "Leader"
          /\ m.term = term[m.src] /\ m.log = log[m.src]
      BY <1>1, <2>2, AppendsStep
    <3> QED
      BY <1>4, <1>6, <3>1
  <2> QED
    BY <2>1, <2>2
<1>7. ASSUME NEW s \in Logs', NEW j \in 1 .. Len(s), s[j] > t
      PROVE  Has(s, i, t)
  <2>1. CASE s \in Logs
    BY <1>7, <2>1 DEF Kept
  <2>2. CASE s \notin Logs
    <3>1. PICK l \in Node :
            /\ role[l] = "Leader"
            /\ \A n \in Node : log'[n] = IF n = l THEN s ELSE log[n]
            /\ \A k \in 1 .. Len(s) :
                 /\ k = Len(log[l]) + 1 \/ k \in 1 .. Len(log[l])
                 /\ s[k] = IF k = Len(log[l]) + 1 THEN term[l] ELSE log[l][k]
      BY <1>1, <2>2, NewLogs
    <3>2. Has(log[l], i, t)
      <4>1. CASE term[l] > t
        BY <1>4, <3>1, <4>1
      <4>2. CASE j \in 1 .. Len(log[l]) /\ s[j] = log[l][j]
        BY <1>2, <1>7, <4>2 DEF Kept
      <4>3. CASE j = Len(log[l]) + 1
        BY <1>7, <3>1, <4>1, <4>3
      <4> QED
        BY <1>2, <3>1, <4>2, <4>3
    <3>3. log'[l] = s
      BY <3>1
    <3> QED
      BY <1>3, <3>2, <3>3
  <2> QED
    BY <2>1, <2>2
\* A candidate that asked with log s still has it: s has the entry when it is up
\* to date with the voter's log.
<1>8. ASSUME NEW k \in Granted', k.src \in A, k.term > t,
             role'[k.dst] # "Follower", term'[k.dst] = k.term
      PROVE  Has(log'[k.dst], i, t)
  <2>1. CASE k \in Granted
    <3>1. k.dst \in Node /\ k.term \in Nat /\ k.term <= term[k.dst]
      BY <1>1, <2>1, LogsTyped DEF GrantsAreOld
    <3>2. term[k.dst] = k.term
      BY <1>2, <1>8, <3>1
    <3>3. role'[k.dst] \in {"Candidate", "Leader"}
      BY <1>2, <1>8, <3>1 DEF Roles
    <3>4. Campaigns(k.dst)
      BY <1>1, <1>2, <1>8, <3>1, <3>2, <3>3, NetRolesStep DEF Campaigns
    <3>5. Has(log[k.dst], i, t)
      BY <1>8, <2>1, <3>2, <3>4 DEF Kept
    <3> QED
      BY <1>3, <3>1, <3>5
  <2>2. CASE k \notin Granted
    <3>1. PICK m \in Requests :
            /\ k.src = m.dst /\ k.dst = m.src /\ k.term = m.term
            /\ m.dst \in Node /\ term[m.dst] <= m.term /\ term'[m.dst] = m.term
            /\ UpToDate(m.log, log[m.dst])
            /\ UNCHANGED <<votes, log, commit>>
            /\ \A n \in Node : n # m.dst => term'[n] = term[n] /\ role'[n] = role[n]
            /\ role'[m.dst] \in {"Follower", role[m.dst]}
      BY <1>1, <2>2, GrantedStep
    <3>2. m.src \in Node /\ m.term \in Nat /\ m.log \in Logs /\ Len(m.log) \in Nat
      BY <1>1, <3>1, LogsTyped
    <3>3. m.term <= term[m.src]
      BY <1>1, <3>1 DEF RequestsAreStarts
    <3>4. term[m.src] = m.term
      BY <1>2, <1>8, <3>1, <3>2, <3>3
    <3>5. Campaigns(m.src)
      BY <1>8, <3>1, <3>2 DEF Campaigns
    <3>6. Starts(log[m.src], m.log)
      BY <1>1, <3>1, <3>4, <3>5 DEF RequestsAreStarts
    <3>7. Has(log[m.dst], i, t)
      BY <1>8, <3>1 DEF Kept
    <3>8. \A j \in 1 .. Len(m.log) : m.log[j] > t => Has(m.log, i, t)
      BY <3>2 DEF Kept
    <3>9. log[m.dst] \in Logs
      BY <1>2, <3>1
    <3>10. Has(m.log, i, t)
      BY <3>1, <3>2, <3>7, <3>8, <3>9, UpToDateHas
    <3>11. Has(log[m.src], i, t)
      BY <1>2, <3>2, <3>6, <3>10 DEF Has, Starts
    <3> QED
      BY <1>3, <3>1, <3>2, <3>11
  <2> QED
    BY <2>1, <2>2
<1>9. Kept(A, i, t)'
  BY <1>5, <1>6, <1>7, <1>8 DEF Kept, Has, Campaigns
<1> QED
  BY <1>3, <1>9

LEMMA SecuredStays ==
  ASSUME NetworkLogInv, NetworkLogInv', [NetworkNext]_networkVars,
         NEW i \in Nat, NEW t \in Nat, Secured(i, t)
  PROVE  /\ Secured(i, t)'
         /\ \A n \in Node : Has(log[n], i, t) => Has(log'[n], i, t)
<1>1. PICK A \in SUBSET Node : IsQuorum(A) /\ Kept(A, i, t)
  BY DEF Secured
<1>2. \A c \in Node : votes[c] \in SUBSET Node
  BY LogsTyped DEF NetworkLogInv, NetworkElectionInv
<1>3. \A c \in Node : IsQuorum(votes[c]) => \E v \in A : v \in votes[c]
  BY <1>1, <1>2, QuorumsIntersect
<1>4. /\ Kept(A, i, t)'
      /\ \A n \in Node : Has(log[n], i, t) => Has(log'[n], i, t)
  BY <1>1, <1>3, KeptStays
<1>5. IsQuorum(A)'
  BY <1>1 DEF IsQuorum
<1> QED
  BY <1>4, <1>5 DEF Secured

\* A node that has left a term behind says yes to no append of it.
LEMMA LostStays ==
  ASSUME NetworkTypeOK, NetworkTypeOK', [NetworkNext]_networkVars,
         NEW i \in Nat, NEW t \in Nat, Lost(i, t)
  PROVE  Lost(i, t)'
<1>1. \A n \in Node : term[n] \in Nat /\ term'[n] \in Nat /\ term'[n] >= term[n]
  BY NetRolesStep DEF NetworkTypeOK, RaftTypeOK
<1>2. PICK Q \in SUBSET Node :
        IsQuorum(Q) /\ \A v \in Q : term[v] > t /\ ~Acked(v, i, t)
  BY DEF Lost
<1>3. ASSUME NEW v \in Q, NEW a \in Acks', a.src = v, a.term = t, a.index >= i
      PROVE  FALSE
  <2>1. CASE a \in Acks
    BY <1>2, <1>3, <2>1 DEF Acked
  <2>2. CASE a \notin Acks
    <3>1. PICK m \in Appends : a.src = m.dst /\ a.term = m.term /\ term[m.dst] <= m.term
      BY <2>2, AcksStep
    <3> QED
      BY <1>1, <1>2, <1>3, <3>1
  <2> QED
    BY <2>1, <2>2
<1>4. \A v \in Q : term'[v] > t
  BY <1>1, <1>2
<1> QED
  BY <1>2, <1>3, <1>4 DEF Lost, Acked, IsQuorum

\* The first log with an entry: nobody has acked it, and if a later term has begun
\* nobody will.
LEMMA NewlyWritten ==
  ASSUME NetworkLogInv, NetworkLogInv', [NetworkNext]_networkVars,
         NEW i \in Nat, NEW t \in Nat, Written(i, t)', ~Written(i, t)
  PROVE  Lost(i, t)' \/ Kept(Ackers(i, t), i, t)'
<1>1. /\ NetworkElectionInv /\ NetworkTypeOK /\ NetworkTypeOK'
      /\ TermsHaveLeaders /\ AcksWereStored /\ AppendsAreStarts
  BY DEF NetworkLogInv, NetworkElectionInv
<1>2. PICK s \in Logs' : i \in 1 .. Len(s) /\ s[i] = t
  BY DEF Written, Has
<1>3. s \notin Logs
  BY <1>2 DEF Written, Has
<1>4. PICK l \in Node :
        /\ role[l] = "Leader" /\ UNCHANGED <<electionVars, commit, matched, msgs>>
        /\ \A n \in Node : log'[n] = IF n = l THEN s ELSE log[n]
        /\ Len(s) = Len(log[l]) + 1 /\ Len(log[l]) \in Nat
        /\ \A j \in 1 .. Len(s) :
             /\ j = Len(log[l]) + 1 \/ j \in 1 .. Len(log[l])
             /\ s[j] = IF j = Len(log[l]) + 1 THEN term[l] ELSE log[l][j]
  BY <1>1, <1>3, NewLogs
<1>5. log[l] \in Logs /\ \A n \in Node : term[n] \in Nat
  BY <1>1, <1>4, LogsTyped
<1>6. i = Len(log[l]) + 1 /\ term[l] = t
  <2>1. ~(i \in 1 .. Len(log[l]))
    BY <1>2, <1>4, <1>5 DEF Written, Has
  <2> QED
    BY <1>2, <1>4, <2>1
<1>7. \A v : ~Acked(v, i, t)
  <2> SUFFICES ASSUME NEW a \in Acks, a.term = t, a.index >= i
               PROVE  FALSE
    BY DEF Acked
  <2>1. PICK m \in Appends : m.term = t /\ Len(m.log) = a.index
    BY <1>1 DEF AcksWereStored
  <2>2. Starts(log[l], m.log)
    BY <1>1, <1>4, <1>6, <2>1 DEF AppendsAreStarts
  <2>3. Len(m.log) \in Nat
    BY <1>1, LogsTyped
  <2> QED
    BY <1>4, <1>6, <2>1, <2>2, <2>3 DEF Starts
<1>8. ASSUME NEW a \in Node, NEW u \in Nat, ElectedBy(a, u), u > t
      PROVE  Lost(i, t)'
  <2>1. PICK Q \in SUBSET Node : IsQuorum(Q) /\ \A v \in Q : term[v] >= u
    BY <1>8 DEF ElectedBy
  <2>2. \A v \in Q : term[v] > t /\ ~Acked(v, i, t)
    BY <1>5, <1>7, <1>8, <2>1
  <2>3. Lost(i, t)
    BY <2>1, <2>2 DEF Lost
  <2> QED
    BY <1>1, <2>3, LostStays
<1>9. Ackers(i, t)' = {}
  BY <1>4, <1>7 DEF Ackers, Acked, Acks
<1>10. Appends' = Appends /\ \A r \in Logs' : r \in Logs \/ r = s
  BY <1>4 DEF Appends, Requests, Logs
<1>11. ASSUME NEW r \in Logs, NEW j \in 1 .. Len(r), r[j] > t
       PROVE  Lost(i, t)'
  <2>1. r[j] \in Nat /\ \E a \in Node : ElectedBy(a, r[j])
    BY <1>1, LogsTyped DEF TermsHaveLeaders
  <2> QED
    BY <1>8, <1>11, <2>1
<1>12. ASSUME NEW r \in Logs', NEW j \in 1 .. Len(r), r[j] > t
       PROVE  Lost(i, t)'
  <2>1. CASE r \in Logs
    BY <1>11, <1>12, <2>1
  <2>2. CASE r = s
    <3>1. j \in 1 .. Len(log[l]) /\ log[l][j] > t
      BY <1>4, <1>5, <1>6, <1>12, <2>2
    <3> QED
      BY <1>5, <1>11, <3>1
  <2> QED
    BY <1>10, <2>1, <2>2
<1>13. ASSUME NEW m \in Appends', m.term > t
       PROVE  Lost(i, t)'
  <2>1. m.term \in Nat /\ m.src \in Node /\ ElectedBy(m.src, m.term)
    BY <1>1, <1>10, LogsTyped DEF TermsHaveLeaders
  <2> QED
    BY <1>8, <1>13, <2>1
<1> QED
  BY <1>9, <1>12, <1>13 DEF Kept

LEMMA GrantedNextTyped ==
  ASSUME NetworkTypeOK'
  PROVE  \A k \in Granted' : k.term \in Nat
  BY MessageFields DEF NetworkTypeOK, Granted

\* A node that says yes to an append with the entry joins those who keep it.
LEMMA AckersGrow ==
  ASSUME NetworkLogInv, NetworkLogInv', [NetworkNext]_networkVars,
         NEW i \in Nat, NEW t \in Nat, Written(i, t),
         Kept(Ackers(i, t), i, t), ~Lost(i, t)
  PROVE  Kept(Ackers(i, t), i, t)'
<1>1. /\ NetworkElectionInv /\ NetworkElectionInv' /\ NetworkTypeOK /\ NetworkTypeOK'
      /\ AppendsAgree
  BY DEF NetworkLogInv, NetworkElectionInv
<1>2. /\ \A n \in Node : term[n] \in Nat /\ Len(log[n]) \in Nat /\ Len(log'[n]) \in Nat
      /\ \A c \in Node : votes[c] \in SUBSET Node
      /\ \A m \in Appends : m.term \in Nat /\ Len(m.log) \in Nat
  BY <1>1, LogsTyped DEF NetworkTypeOK, RaftTypeOK
<1>3. PICK A \in SUBSET Node : A = Ackers(i, t)
  BY DEF Ackers
<1>4. ASSUME NEW c \in Node, Campaigns(c), IsQuorum(votes[c]), term[c] > t
      PROVE  \E v \in A : v \in votes[c]
  <2>1. \A v \in votes[c] : v \in Node /\ term[v] > t
    BY <1>1, <1>2, <1>4, LeaderWasElected
  <2>2. PICK v \in votes[c] : Acked(v, i, t)
    BY <1>2, <1>4, <2>1 DEF Lost
  <2> QED
    BY <1>3, <2>1, <2>2 DEF Ackers
<1>5. Kept(A, i, t)'
  BY <1>3, <1>4, KeptStays
\* Who has just acked has the entry, and has voted for nobody since.
<1>6. ASSUME NEW v \in Ackers(i, t)', v \notin A
      PROVE  Has(log'[v], i, t) /\ term'[v] = t
  <2>1. PICK a \in Acks' : a.src = v /\ a.term = t /\ a.index >= i
    BY <1>6 DEF Ackers, Acked
  <2>2. v \in Node /\ a \notin Acks
    BY <1>3, <1>6, <2>1 DEF Ackers, Acked
  <2>3. PICK m \in Appends :
          /\ a.src = m.dst /\ a.term = m.term /\ a.index = Len(m.log)
          /\ term'[m.dst] = m.term /\ log'[m.dst] = Stored(m)
    BY <1>1, <2>2, AcksStep
  <2>4. PICK s \in Logs : Has(s, i, t)
    BY DEF Written
  <2>5. i \in 1 .. Len(s) /\ s[i] = m.term
    BY <2>1, <2>3, <2>4 DEF Has
  <2>6. i \in 1 .. Len(m.log)
    BY <1>2, <2>1, <2>3, <2>5
  <2>7. m.log[i] = t
    BY <1>1, <2>1, <2>3, <2>5, <2>6 DEF AppendsAgree
  <2>8. Starts(log'[v], m.log)
    BY <1>1, <2>1, <2>3, StoredIs
  <2>9. Has(log'[v], i, t)
    BY <1>2, <2>2, <2>6, <2>7, <2>8 DEF Starts, Has
  <2> QED
    BY <2>1, <2>3, <2>9
<1>7. ASSUME NEW v \in Ackers(i, t)'
      PROVE  Has(log'[v], i, t)
  BY <1>5, <1>6, <1>7 DEF Kept, Has
<1>8. ASSUME NEW k \in Granted', k.src \in Ackers(i, t)', k.term > t,
             role'[k.dst] # "Follower", term'[k.dst] = k.term
      PROVE  Has(log'[k.dst], i, t)
  <2>1. k.term <= term'[k.src]
    BY <1>1 DEF NetworkElectionInv, VotersRemember
  <2>2. CASE k.src \in A
    BY <1>5, <1>8, <2>2 DEF Kept, Has, Campaigns
  <2>3. CASE k.src \notin A
    <3>1. term'[k.src] = t /\ k.term \in Nat
      <4>1. k.term \in Nat
        BY <1>1, GrantedNextTyped
      <4> QED
        BY <1>6, <1>8, <2>3, <4>1
    <3> QED
      BY <1>8, <2>1, <3>1
  <2> QED
    BY <2>2, <2>3
<1> QED
  BY <1>5, <1>7, <1>8 DEF Kept, Has, Campaigns

LEMMA AckedIsKeptStep ==
  ASSUME NetworkLogInv, NetworkLogInv', AckedIsKept, [NetworkNext]_networkVars
  PROVE  AckedIsKept'
<1>1. NetworkTypeOK /\ NetworkTypeOK'
  BY DEF NetworkLogInv, NetworkElectionInv
<1> SUFFICES ASSUME NEW i \in Nat, NEW t \in Nat, Written(i, t)'
             PROVE  Lost(i, t)' \/ Kept(Ackers(i, t), i, t)'
  BY DEF AckedIsKept
<1>2. CASE ~Written(i, t)
  BY <1>2, NewlyWritten
<1>3. CASE Lost(i, t)
  BY <1>1, <1>3, LostStays
<1>4. CASE Written(i, t) /\ ~Lost(i, t)
  <2>1. Kept(Ackers(i, t), i, t)
    BY <1>4 DEF AckedIsKept
  <2> QED
    BY <1>4, <2>1, AckersGrow
<1> QED
  BY <1>2, <1>3, <1>4

\* Who commits is a leader that was told of a quorum, or a follower that learns it
\* with an append.
LEMMA NetCommitsStep ==
  ASSUME NetworkTypeOK, [NetworkNext]_networkVars
  PROVE  \/ commit' = commit
         \/ \E l \in Node : \E i \in Nat :
              /\ log' = log
              /\ role[l] = "Leader" /\ i > commit[l] /\ Holds(l, i, term[l])
              /\ IsQuorum({n \in Node : n = l \/ matched[l][n] >= i})
              /\ \A n \in Node : commit'[n] = IF n = l THEN i ELSE commit[n]
         \/ \E m \in Appends :
              /\ m.dst \in Node /\ log'[m.dst] = Stored(m)
              /\ \A n \in Node :
                   commit'[n] = IF n = m.dst THEN Larger(commit[n], m.commit) ELSE commit[n]
<1>1. ASSUME NEW l \in Node, NEW i \in 1 .. MaxLog, NetCommit(l, i)
      PROVE  /\ log' = log /\ i \in Nat
             /\ role[l] = "Leader" /\ i > commit[l] /\ Holds(l, i, term[l])
             /\ IsQuorum({n \in Node : n = l \/ matched[l][n] >= i})
             /\ \A n \in Node : commit'[n] = IF n = l THEN i ELSE commit[n]
  <2>1. commit' = [commit EXCEPT ![l] = i] /\ commit \in [Node -> Nat]
    BY <1>1 DEF NetCommit, NetworkTypeOK, RaftTypeOK
  <2>2. /\ log' = log /\ role[l] = "Leader" /\ i > commit[l] /\ Holds(l, i, term[l])
        /\ IsQuorum({n \in Node : n = l \/ matched[l][n] >= i})
    BY <1>1 DEF NetCommit
  <2> QED
    BY <2>1, <2>2, RaftBounds
<1>2. ASSUME NEW m \in msgs, ReceiveAppend(m), Current(m)
      PROVE  /\ m \in Appends /\ m.dst \in Node /\ log'[m.dst] = Stored(m)
             /\ \A n \in Node :
                  commit'[n] = IF n = m.dst THEN Larger(commit[n], m.commit) ELSE commit[n]
  <2>1. /\ m.kind = "Append"
        /\ log' = [log EXCEPT ![m.dst] = Stored(m)]
        /\ commit' = [commit EXCEPT ![m.dst] = Larger(commit[m.dst], m.commit)]
    BY <1>2 DEF ReceiveAppend
  <2>2. m.dst \in Node
    BY MessageFields DEF NetworkTypeOK
  <2> QED
    BY <2>1, <2>2 DEF Appends, NetworkTypeOK, RaftTypeOK
<1>3. ASSUME NEW m \in msgs, ReceiveAppend(m), ~Current(m)
      PROVE  commit' = commit
  BY <1>3 DEF ReceiveAppend
<1>4. ASSUME \/ \E n \in Node : NetTimeout(n) \/ NetBecomeLeader(n) \/ NetClientRequest(n)
             \/ \E m, n \in Node : RequestVote(m, n) \/ SendAppend(m, n)
             \/ \E m \in msgs : ReceiveRequestVote(m) \/ ReceiveVote(m) \/ ReceiveAck(m)
             \/ UNCHANGED networkVars
      PROVE  commit' = commit
  BY <1>4 DEF NetTimeout, Timeout, NetBecomeLeader, BecomeLeader, NetClientRequest,
              ClientRequest, RequestVote, SendAppend, ReceiveRequestVote, ReceiveVote,
              ReceiveAck, networkVars, raftVars
<1>5. CASE \E n \in Node : \E i \in 1 .. MaxLog : NetCommit(n, i)
  BY <1>1, <1>5
<1>6. CASE \E m \in msgs : ReceiveAppend(m)
  BY <1>2, <1>3, <1>6
<1> QED
  BY <1>4, <1>5, <1>6 DEF NetworkNext

\* What a leader may commit, a quorum keeps: those it counts have acked, and itself.
LEMMA CommittableIsSecured ==
  ASSUME NetworkLogInv, AckedIsKept, NEW l \in Node, NEW k \in Nat \ {0}, NEW t \in Nat,
         role[l] = "Leader", t = term[l], Has(log[l], k, t),
         IsQuorum({n \in Node : n = l \/ matched[l][n] >= k})
  PROVE  Secured(k, t)
<1>1. /\ NetworkElectionInv /\ NetworkTypeOK /\ MatchedWasAcked
      /\ \A n \in Node : matched[l][n] \in Nat
  BY DEF NetworkLogInv, NetworkElectionInv, NetworkTypeOK
<1>2. PICK Q \in SUBSET Node : Q = {n \in Node : n = l \/ matched[l][n] >= k}
  OBVIOUS
<1>3. ASSUME NEW v \in Q, v # l
      PROVE  v \in Ackers(k, t)
  <2>1. matched[l][v] >= k /\ matched[l][v] # 0
    BY <1>1, <1>2, <1>3
  <2>2. PICK a \in Acks : a.src = v /\ a.term = term[l] /\ a.index = matched[l][v]
    BY <1>1, <2>1 DEF MatchedWasAcked
  <2> QED
    BY <2>1, <2>2 DEF Ackers, Acked
<1>4. ~Lost(k, t)
  <2> SUFFICES ASSUME NEW P \in SUBSET Node, IsQuorum(P),
                      \A v \in P : term[v] > t /\ ~Acked(v, k, t)
               PROVE  FALSE
    BY DEF Lost
  <2>1. PICK v \in P : v \in Q
    BY <1>2, QuorumsIntersect
  <2>2. v # l
    BY <2>1, LogsTyped, <1>1
  <2> QED
    BY <1>3, <2>1, <2>2 DEF Ackers
<1>5. Kept(Ackers(k, t), k, t)
  <2>1. Written(k, t)
    BY DEF Written, Logs
  <2> QED
    BY <1>4, <2>1 DEF AckedIsKept
<1>6. ASSUME NEW g \in Granted, g.src = l, g.term > t
      PROVE  FALSE
  <2>1. g.term <= term[l] /\ g.term \in Nat /\ term[l] \in Nat
    BY <1>1, <1>6, LogsTyped DEF NetworkElectionInv, VotersRemember
  <2> QED
    BY <1>6, <2>1
<1>7. Kept(Q, k, t)
  <2>1. \A v \in Q : Has(log[v], k, t)
    BY <1>3, <1>5 DEF Kept
  <2>2. \A g \in Granted : g.src \in Q /\ g.term > t => g.src \in Ackers(k, t)
    BY <1>3, <1>6
  <2> QED
    BY <1>5, <2>1, <2>2 DEF Kept
<1> QED
  BY <1>2, <1>7 DEF Secured

LEMMA CommittedIsKeptStep ==
  ASSUME NetworkCommitInv, NetworkLogInv', [NetworkNext]_networkVars
  PROVE  CommittedIsKept'
<1>1. /\ NetworkLogInv /\ AckedIsKept /\ CommittedIsKept
      /\ NetworkElectionInv /\ NetworkTypeOK /\ NetworkTypeOK'
  BY DEF NetworkCommitInv, NetworkLogInv, NetworkElectionInv
<1>2. /\ \A n \in Node : /\ commit[n] \in Nat /\ term[n] \in Nat
                         /\ Len(log[n]) \in Nat /\ Len(log'[n]) \in Nat
      /\ \A m \in Appends : m.commit \in Nat /\ Len(m.log) \in Nat
  <2>1. \A n \in Node : /\ commit[n] \in Nat /\ term[n] \in Nat
                        /\ Len(log[n]) \in Nat /\ Len(log'[n]) \in Nat
    BY <1>1 DEF NetworkTypeOK, RaftTypeOK
  <2> QED
    BY <1>1, <2>1, LogsTyped
<1>3. ASSUME NEW k \in Nat, NEW t \in Nat, Secured(k, t)
      PROVE  /\ Secured(k, t)'
             /\ \A n \in Node : Has(log[n], k, t) => Has(log'[n], k, t)
  BY <1>1, <1>3, SecuredStays
<1>4. ASSUME NEW n \in Node, NEW k \in Nat \ {0}, commit[n] = k
      PROVE  \E t \in Nat : Has(log'[n], k, t) /\ Secured(k, t)'
  <2>1. PICK t \in Nat : Has(log[n], k, t) /\ Secured(k, t)
    BY <1>1, <1>4 DEF CommittedIsKept
  <2> QED
    BY <1>3, <2>1
<1>5. ASSUME NEW m \in Appends, NEW k \in Nat \ {0}, m.commit = k
      PROVE  \E t \in Nat : Has(m.log, k, t) /\ Secured(k, t)'
  <2>1. PICK t \in Nat : Has(m.log, k, t) /\ Secured(k, t)
    BY <1>1, <1>5 DEF CommittedIsKept
  <2> QED
    BY <1>3, <2>1
<1>6. ASSUME NEW l \in Node, NEW k \in Nat \ {0}, log' = log, role[l] = "Leader",
             Holds(l, k, term[l]), IsQuorum({n \in Node : n = l \/ matched[l][n] >= k})
      PROVE  \E t \in Nat : Has(log'[l], k, t) /\ Secured(k, t)'
  <2>1. PICK t \in Nat : t = term[l]
    BY <1>2
  <2>2. Has(log[l], k, t)
    BY <1>6, <2>1 DEF Holds, Has
  <2>3. Secured(k, t)
    BY <1>1, <1>6, <2>1, <2>2, CommittableIsSecured
  <2> QED
    BY <1>3, <2>2, <2>3
<1>7. ASSUME NEW m \in Appends, m.dst \in Node, log'[m.dst] = Stored(m),
             NEW k \in Nat \ {0}, m.commit = k
      PROVE  \E t \in Nat : Has(log'[m.dst], k, t) /\ Secured(k, t)'
  <2>1. PICK t \in Nat : Has(m.log, k, t) /\ Secured(k, t)'
    BY <1>5, <1>7
  <2>2. Starts(log'[m.dst], m.log)
    BY <1>1, <1>7, StoredIs
  <2>3. Has(log'[m.dst], k, t)
    BY <1>2, <1>7, <2>1, <2>2 DEF Has, Starts
  <2> QED
    BY <2>1, <2>3
<1>8. ASSUME NEW n \in Node, NEW k \in Nat \ {0}, commit'[n] = k
      PROVE  \E t \in Nat : Has(log'[n], k, t) /\ Secured(k, t)'
  <2>1. CASE commit[n] = k
    BY <1>4, <2>1
  <2>2. ASSUME NEW l \in Node, NEW i \in Nat, log' = log, role[l] = "Leader",
               Holds(l, i, term[l]), IsQuorum({a \in Node : a = l \/ matched[l][a] >= i}),
               commit'[n] = IF n = l THEN i ELSE commit[n]
        PROVE  \E t \in Nat : Has(log'[n], k, t) /\ Secured(k, t)'
    <3>1. CASE n # l
      BY <1>8, <2>1, <2>2, <3>1
    <3>2. CASE n = l
      <4>1. k = i
        BY <1>8, <2>2, <3>2
      <4> QED
        BY <1>6, <2>2, <3>2, <4>1
    <3> QED
      BY <3>1, <3>2
  <2>3. ASSUME NEW m \in Appends, m.dst \in Node, log'[m.dst] = Stored(m),
               commit'[n] = IF n = m.dst THEN Larger(commit[n], m.commit) ELSE commit[n]
        PROVE  \E t \in Nat : Has(log'[n], k, t) /\ Secured(k, t)'
    <3>1. commit[n] = k \/ (n = m.dst /\ m.commit = k)
      BY <1>8, <2>3 DEF Larger
    <3> QED
      BY <1>7, <2>1, <2>3, <3>1
  <2> QED
    BY <1>1, <1>8, <2>1, <2>2, <2>3, NetCommitsStep
<1>9. ASSUME NEW m \in Appends', NEW k \in Nat \ {0}, m.commit = k
      PROVE  \E t \in Nat : Has(m.log, k, t) /\ Secured(k, t)'
  <2>1. CASE m \in Appends
    BY <1>5, <1>9, <2>1
  <2>2. CASE m \notin Appends
    <3>1. m.src \in Node /\ m.log = log[m.src] /\ m.commit = commit[m.src] /\ log' = log
      BY <1>1, <2>2, AppendsStep DEF raftVars
    <3> QED
      BY <1>4, <1>9, <3>1
  <2> QED
    BY <2>1, <2>2
<1> QED
  BY <1>8, <1>9 DEF CommittedIsKept, Has

LEMMA NetworkCommitInit == NetworkInit => NetworkCommitInv
<1> SUFFICES ASSUME NetworkInit PROVE NetworkCommitInv
  OBVIOUS
<1>1. \A n \in Node : log[n] = <<>> /\ commit[n] = 0
  BY DEF NetworkInit, RaftInit
<1>2. Requests = {} /\ Appends = {}
  BY DEF NetworkInit, Requests, Appends
<1>3. \A s \in Logs : s = <<>> /\ Len(s) = 0
  BY <1>1, <1>2 DEF Logs
<1>4. \A i, t \in Nat : ~Written(i, t)
  BY <1>3 DEF Written, Has
<1> QED
  BY <1>1, <1>2, <1>4, NetworkLogInit DEF NetworkCommitInv, AckedIsKept, CommittedIsKept

LEMMA NetworkCommitStep == NetworkCommitInv /\ [NetworkNext]_networkVars => NetworkCommitInv'
<1> SUFFICES ASSUME NetworkCommitInv, [NetworkNext]_networkVars PROVE NetworkCommitInv'
  OBVIOUS
<1>1. NetworkLogInv'
  BY NetworkLogStep DEF NetworkCommitInv
<1> QED
  BY <1>1, AckedIsKeptStep, CommittedIsKeptStep DEF NetworkCommitInv

\* What is committed somewhere is the start of every log that has the last of it.
LEMMA NetCommittedPrefix ==
  ASSUME NetworkCommitInv, NEW n \in Node, commit[n] # 0
  PROVE  \E t \in Nat :
           /\ Has(log[n], commit[n], t) /\ Secured(commit[n], t)
           /\ \A m \in Node : Has(log[m], commit[n], t) =>
                \A i \in 1 .. commit[n] : i \in 1 .. Len(log[n]) /\ Holds(m, i, log[n][i])
<1>1. NetworkLogInv /\ NetworkTypeOK /\ AllMatch /\ CommittedIsKept
  BY DEF NetworkCommitInv, NetworkLogInv, NetworkElectionInv
<1>2. /\ commit[n] \in Nat \ {0}
      /\ \A m \in Node : Len(log[m]) \in Nat /\ log[m] \in Logs
  BY <1>1, LogsTyped DEF NetworkTypeOK, RaftTypeOK
<1>3. PICK t \in Nat : Has(log[n], commit[n], t) /\ Secured(commit[n], t)
  BY <1>1, <1>2 DEF CommittedIsKept
<1>4. ASSUME NEW m \in Node, Has(log[m], commit[n], t), NEW i \in 1 .. commit[n]
      PROVE  i \in 1 .. Len(log[n]) /\ Holds(m, i, log[n][i])
  <2>1. commit[n] \in 1 .. Len(log[n]) /\ commit[n] \in 1 .. Len(log[m])
        /\ log[n][commit[n]] = log[m][commit[n]]
    BY <1>3, <1>4 DEF Has
  <2>3. commit[n] <= commit[n] /\ log[n] \in Logs /\ log[m] \in Logs /\ AllMatch
    BY <1>1, <1>2
  <2>2. log[n][i] = log[m][i]
    BY <2>1, <2>3, StartsMatch
  <2> QED
    BY <1>2, <2>1, <2>2 DEF Holds
<1> QED
  BY <1>3, <1>4

LEMMA NetCommitIsComplete == NetworkCommitInv => LeaderCompleteness
<1> SUFFICES ASSUME NetworkCommitInv, NEW n \in Node, NEW l \in Node, role[l] = "Leader",
                    term[n] <= term[l], NEW i \in 1 .. commit[n]
             PROVE  i <= Len(log[n]) /\ Holds(l, i, log[n][i])
  BY DEF LeaderCompleteness
<1>1. /\ NetworkElectionInv /\ NetworkTypeOK /\ LeadersHaveOwn /\ NoEntryAhead
      /\ LeadersHaveQuorums
  BY DEF NetworkCommitInv, NetworkLogInv, NetworkElectionInv
<1>0. /\ commit[n] \in Nat /\ term[n] \in Nat /\ term[l] \in Nat
      /\ log[n] \in Seq(Nat) /\ votes[l] \in SUBSET Node
  BY <1>1 DEF NetworkTypeOK, RaftTypeOK
<1>2. /\ commit[n] \in Nat /\ commit[n] # 0 /\ term[n] \in Nat /\ term[l] \in Nat
      /\ Len(log[n]) \in Nat /\ log[n] \in Logs /\ votes[l] \in SUBSET Node
  BY <1>0, <1>1, LogsTyped
<1>3. PICK t \in Nat :
        /\ Has(log[n], commit[n], t) /\ Secured(commit[n], t)
        /\ \A m \in Node : Has(log[m], commit[n], t) =>
             \A j \in 1 .. commit[n] : j \in 1 .. Len(log[n]) /\ Holds(m, j, log[n][j])
  BY <1>2, NetCommittedPrefix
<1>4. t <= term[n] /\ commit[n] \in 1 .. Len(log[n]) /\ log[n][commit[n]] = t
  BY <1>1, <1>3 DEF Has, NoEntryAhead
<1>5. CASE term[l] = t
  <2>1. Has(log[l], commit[n], t)
    BY <1>1, <1>2, <1>4, <1>5 DEF LeadersHaveOwn
  <2> QED
    BY <1>2, <1>3, <2>1
<1>6. CASE term[l] > t
  <2>1. PICK A \in SUBSET Node : IsQuorum(A) /\ Kept(A, commit[n], t)
    BY <1>3 DEF Secured
  <2>2. Campaigns(l) /\ IsQuorum(votes[l])
    BY <1>1 DEF Campaigns, LeadersHaveQuorums
  <2>3. PICK v \in A : v \in votes[l]
    BY <1>2, <2>1, <2>2, QuorumsIntersect
  <2>4. Has(log[l], commit[n], t)
    BY <1>1, <1>6, <2>1, <2>2, <2>3, ElectedHoldsKept
  <2> QED
    BY <1>2, <1>3, <2>4
<1> QED
  BY <1>2, <1>4, <1>5, <1>6

LEMMA NetCommitIsMajority == NetworkCommitInv => CommittedOnMajority
<1> SUFFICES ASSUME NetworkCommitInv, NEW n \in Node, NEW i \in 1 .. commit[n]
             PROVE  /\ i <= Len(log[n])
                    /\ IsQuorum({m \in Node : Holds(m, i, log[n][i])})
  BY DEF CommittedOnMajority
<1>1. commit[n] \in Nat /\ commit[n] # 0 /\ Len(log[n]) \in Nat
  BY DEF NetworkCommitInv, NetworkLogInv, NetworkElectionInv, NetworkTypeOK, RaftTypeOK
<1>2. PICK t \in Nat :
        /\ Has(log[n], commit[n], t) /\ Secured(commit[n], t)
        /\ \A m \in Node : Has(log[m], commit[n], t) =>
             \A j \in 1 .. commit[n] : j \in 1 .. Len(log[n]) /\ Holds(m, j, log[n][j])
  BY <1>1, NetCommittedPrefix
<1>3. PICK A \in SUBSET Node : IsQuorum(A) /\ \A v \in A : Has(log[v], commit[n], t)
  BY <1>2 DEF Secured, Kept
<1> DEFINE Q == {m \in Node : Holds(m, i, log[n][i])}
<1>4. A \subseteq Q /\ Q \subseteq Node
  BY <1>2, <1>3
<1>5. IsFiniteSet(Q) /\ Cardinality(A) <= Cardinality(Q)
  BY <1>4, NodeAssumption, FS_Subset
<1>6. Cardinality(A) \in Nat /\ Cardinality(Q) \in Nat /\ Cardinality(Node) \in Nat
  BY <1>4, <1>5, NodeAssumption, FS_Subset, FS_CardinalityType
<1> HIDE DEF Q
<1>7. IsQuorum(Q)
  BY <1>3, <1>5, <1>6 DEF IsQuorum
<1> QED
  BY <1>1, <1>2, <1>3, <1>7 DEF Q

\* Any two committed prefixes are those of one node: two quorums share one.
LEMMA NetCommitAgrees == NetworkCommitInv => CommittedAgree
<1> SUFFICES ASSUME NetworkCommitInv, NEW m \in Node, NEW n \in Node,
                    NEW i \in 1 .. commit[m], i <= commit[n]
             PROVE  Learned[m][i] = Learned[n][i]
  BY DEF CommittedAgree
<1>1. /\ RaftTypeOK /\ i \in 1 .. commit[n]
      /\ commit[m] \in Nat \ {0} /\ commit[n] \in Nat \ {0}
  BY DEF NetworkCommitInv, NetworkLogInv, NetworkElectionInv, NetworkTypeOK, RaftTypeOK
<1>2. PICK s \in Nat :
        /\ Secured(commit[m], s)
        /\ \A q \in Node : Has(log[q], commit[m], s) =>
             \A j \in 1 .. commit[m] : j \in 1 .. Len(log[m]) /\ Holds(q, j, log[m][j])
  BY <1>1, NetCommittedPrefix
<1>3. PICK t \in Nat :
        /\ Secured(commit[n], t)
        /\ \A q \in Node : Has(log[q], commit[n], t) =>
             \A j \in 1 .. commit[n] : j \in 1 .. Len(log[n]) /\ Holds(q, j, log[n][j])
  BY <1>1, NetCommittedPrefix
<1>4. PICK A \in SUBSET Node : IsQuorum(A) /\ \A v \in A : Has(log[v], commit[m], s)
  BY <1>2 DEF Secured, Kept
<1>5. PICK B \in SUBSET Node : IsQuorum(B) /\ \A v \in B : Has(log[v], commit[n], t)
  BY <1>3 DEF Secured, Kept
<1>6. PICK q \in A : q \in B
  BY <1>4, <1>5, QuorumsIntersect
<1>7. Has(log[q], commit[m], s) /\ Has(log[q], commit[n], t)
  BY <1>4, <1>5, <1>6
<1>8. /\ i \in 1 .. Len(log[m]) /\ log[q][i] = log[m][i]
      /\ i \in 1 .. Len(log[n]) /\ log[q][i] = log[n][i]
  BY <1>1, <1>2, <1>3, <1>7 DEF Holds
<1>9. ASSUME NEW a \in Node, i \in 1 .. commit[a], i \in 1 .. Len(log[a])
      PROVE  Learned[a][i] = log[a][i]
  <2>1. \A k \in 1 .. commit[a] :
          Learned[a][k] = IF k <= Len(log[a]) THEN log[a][k] ELSE 0
    BY <1>1, LearnedEntries
  <2> QED
    BY <1>9, <2>1
<1> QED
  BY <1>1, <1>8, <1>9

\* A leader of any term holds what every node of its term or an older one has
\* learned: in clusters of every size, for every order of the deliveries, with
\* messages that come twice, late or never.
THEOREM NetworkLeadersComplete == NetworkSpec => []LeaderCompleteness
  BY NetworkCommitInit, NetworkCommitStep, NetCommitIsComplete, PTL DEF NetworkSpec

\* A committed entry stays on a majority.
THEOREM NetworkCommittedOnMajority == NetworkSpec => []CommittedOnMajority
  BY NetworkCommitInit, NetworkCommitStep, NetCommitIsMajority, PTL DEF NetworkSpec

\* No two nodes commit different entries.
THEOREM NetworkCommittedAgree == NetworkSpec => []CommittedAgree
  BY NetworkCommitInit, NetworkCommitStep, NetCommitAgrees, PTL DEF NetworkSpec

-----------------------------------------------------------------------------
(* The refinement of Consensus. *)

LEMMA NetCommitsGrow ==
  ASSUME NetworkTypeOK, [NetworkNext]_networkVars, NEW n \in Node
  PROVE  commit'[n] >= commit[n]
<1>1. \A m \in Node : commit[m] \in Nat
  BY DEF NetworkTypeOK, RaftTypeOK
<1>2. \A m \in Appends : m.commit \in Nat
  BY LogsTyped
<1>3. CASE commit' = commit
  BY <1>1, <1>3
<1>4. ASSUME NEW a \in Node, NEW k \in Nat, k > commit[a],
             \A b \in Node : commit'[b] = IF b = a THEN k ELSE commit[b]
      PROVE  commit'[n] >= commit[n]
  BY <1>1, <1>4
<1>5. ASSUME NEW m \in Appends,
             \A b \in Node :
               commit'[b] = IF b = m.dst THEN Larger(commit[b], m.commit) ELSE commit[b]
      PROVE  commit'[n] >= commit[n]
  BY <1>1, <1>2, <1>5 DEF Larger
<1> QED
  BY <1>1, <1>3, <1>4, <1>5, NetCommitsStep

\* What a node has committed stays at its place in its log.
LEMMA NetCommittedStays ==
  ASSUME NetworkCommitInv, NetworkLogInv', [NetworkNext]_networkVars,
         NEW n \in Node, NEW i \in 1 .. commit[n]
  PROVE  i \in 1 .. Len(log[n]) /\ i \in 1 .. Len(log'[n]) /\ log'[n][i] = log[n][i]
<1>1. /\ NetworkLogInv /\ NetworkLogInv' /\ NetworkTypeOK
      /\ commit[n] \in Nat /\ commit[n] # 0
  <2>1. NetworkLogInv /\ NetworkTypeOK /\ commit[n] \in Nat
    BY DEF NetworkCommitInv, NetworkLogInv, NetworkElectionInv, NetworkTypeOK, RaftTypeOK
  <2> QED
    BY <2>1
<1>2. PICK t \in Nat :
        /\ Has(log[n], commit[n], t) /\ Secured(commit[n], t)
        /\ \A m \in Node : Has(log[m], commit[n], t) =>
             \A j \in 1 .. commit[n] : j \in 1 .. Len(log[n]) /\ Holds(m, j, log[n][j])
  BY <1>1, NetCommittedPrefix
<1>3. i \in 1 .. Len(log[n]) /\ log[n] \in Logs
  BY <1>1, <1>2, LogsTyped
<1>4. PICK k \in Nat : k = commit[n] /\ i <= k
  BY <1>1
<1>5. Has(log'[n], k, t)
  BY <1>1, <1>2, <1>4, SecuredStays
<1>6. ASSUME log'[n] = log[n]
      PROVE  i \in 1 .. Len(log'[n]) /\ log'[n][i] = log[n][i]
  BY <1>3, <1>6
<1>7. ASSUME Len(log'[n]) = Len(log[n]) + 1, Len(log[n]) \in Nat,
             \A j \in 1 .. Len(log'[n]) :
               log'[n][j] = IF j = Len(log[n]) + 1 THEN term[n] ELSE log[n][j]
      PROVE  i \in 1 .. Len(log'[n]) /\ log'[n][i] = log[n][i]
  BY <1>3, <1>7
\* The append that replaced the log has the same last committed entry, and so all
\* of them.
<1>8. ASSUME NEW m \in Appends, log'[n] = m.log
      PROVE  i \in 1 .. Len(log'[n]) /\ log'[n][i] = log[n][i]
  <2>1. m.log \in Logs /\ Len(m.log) \in Nat
    BY <1>1, LogsTyped
  <2>2. k \in 1 .. Len(log[n]) /\ k \in 1 .. Len(m.log) /\ log[n][k] = m.log[k]
    BY <1>2, <1>4, <1>5, <1>8 DEF Has
  <2>3. i \in 1 .. k
    BY <1>4
  <2>4. log[n][i] = m.log[i]
    BY <1>1, <1>3, <2>1, <2>2, <2>3 DEF NetworkLogInv, AllMatch
  <2> QED
    BY <1>8, <2>1, <2>2, <2>3, <2>4
<1> QED
  BY <1>1, <1>3, <1>6, <1>7, <1>8, NodeLogStep

\* Every step learns at one node, or nowhere.
LEMMA NetConsensusStep ==
  ASSUME NetworkCommitInv, NetworkCommitInv', [NetworkNext]_networkVars
  PROVE  [Agreed!ConsensusNext]_Learned
<1>0. NetworkCommitInv' => CommittedAgree'
  BY NetCommitAgrees, PTL
<1>1. /\ NetworkTypeOK /\ RaftTypeOK /\ RaftTypeOK' /\ NetworkLogInv' /\ CommittedAgree'
  BY <1>0 DEF NetworkCommitInv, NetworkLogInv, NetworkElectionInv, NetworkTypeOK
<1>2. ASSUME NEW n \in Node
      PROVE  /\ Learned[n] \in Seq(Nat) /\ Len(Learned[n]) = commit[n]
             /\ Learned'[n] \in Seq(Nat) /\ Len(Learned'[n]) = commit'[n]
             /\ commit[n] \in Nat /\ commit'[n] \in Nat
             /\ \A i \in 1 .. commit[n] : Learned'[n][i] = Learned[n][i]
             /\ commit'[n] >= commit[n]
  <2>1. /\ Learned[n] \in Seq(Nat) /\ Len(Learned[n]) = commit[n] /\ commit[n] \in Nat
        /\ \A i \in 1 .. commit[n] :
             Learned[n][i] = IF i <= Len(log[n]) THEN log[n][i] ELSE 0
    BY <1>1, LearnedEntries
  <2>2. /\ Learned'[n] \in Seq(Nat) /\ Len(Learned'[n]) = commit'[n] /\ commit'[n] \in Nat
        /\ \A i \in 1 .. commit'[n] :
             Learned'[n][i] = IF i <= Len(log'[n]) THEN log'[n][i] ELSE 0
    BY <1>1, LearnedEntriesNext
  <2>3. commit'[n] >= commit[n]
    BY <1>1, NetCommitsGrow
  <2>4. ASSUME NEW i \in 1 .. commit[n]
        PROVE  Learned'[n][i] = Learned[n][i]
    BY <1>1, <2>1, <2>2, <2>3, NetCommittedStays
  <2> QED
    BY <2>1, <2>2, <2>3, <2>4
<1>3. ASSUME NEW n \in Node, commit'[n] = commit[n]
      PROVE  Learned'[n] = Learned[n]
  <2>1. /\ Learned[n] \in Seq(Nat) /\ Len(Learned[n]) = commit[n]
        /\ Learned'[n] \in Seq(Nat) /\ Len(Learned'[n]) = commit[n]
        /\ \A i \in 1 .. commit[n] : Learned'[n][i] = Learned[n][i]
    BY <1>2, <1>3
  <2> QED
    BY <2>1, SameEntries
<1>4. CASE commit' = commit
  <2>1. \A n \in Node : Learned'[n] = Learned[n]
    BY <1>3, <1>4
  <2> QED
    BY <2>1 DEF Learned
<1>5. ASSUME NEW a \in Node, \A n \in Node \ {a} : commit'[n] = commit[n],
             commit'[a] # commit[a]
      PROVE  Agreed!Learn(a)
  <2>1. Learned'[a] # Learned[a]
    BY <1>2, <1>5
  <2>2. Agreed!IsPrefix(Learned[a], Learned'[a])
    BY <1>2, PrefixOf
  <2>3. ASSUME NEW m \in Node \ {a}
        PROVE  /\ Learned'[m] = Learned[m]
               /\ \/ Agreed!IsPrefix(Learned[m], Learned'[a])
                  \/ Agreed!IsPrefix(Learned'[a], Learned[m])
    <3>1. Learned'[m] = Learned[m]
      BY <1>3, <1>5
    <3>2. \A i \in 1 .. commit'[m] : i <= commit'[a] => Learned'[m][i] = Learned'[a][i]
      BY <1>1 DEF CommittedAgree
    <3>3. commit'[m] = commit[m]
      BY <1>5
    <3>4. CASE commit[m] <= commit'[a]
      <4>1. \A i \in 1 .. commit[m] : Learned[m][i] = Learned'[a][i]
        BY <1>2, <3>1, <3>2, <3>3, <3>4
      <4>2. /\ Learned[m] \in Seq(Nat) /\ Len(Learned[m]) = commit[m]
            /\ Learned'[a] \in Seq(Nat) /\ Len(Learned'[a]) = commit'[a]
        BY <1>2
      <4>3. Agreed!IsPrefix(Learned[m], Learned'[a])
        BY <3>4, <4>1, <4>2, PrefixOf
      <4> QED
        BY <3>1, <4>3
    <3>5. CASE commit'[a] <= commit[m]
      <4>1. \A i \in 1 .. commit'[a] : Learned'[a][i] = Learned[m][i]
        BY <1>2, <3>1, <3>2, <3>3, <3>5
      <4> QED
        BY <1>2, <3>1, <3>5, <4>1, PrefixOf
    <3> QED
      BY <1>2, <3>1, <3>4, <3>5
  <2> QED
    BY <2>1, <2>2, <2>3 DEF Agreed!Learn
<1>6. ASSUME NEW a, \A n \in Node \ {a} : commit'[n] = commit[n]
      PROVE  [Agreed!ConsensusNext]_Learned
  <2>1. CASE a \in Node /\ commit'[a] # commit[a]
    BY <1>5, <1>6, <2>1 DEF Agreed!ConsensusNext
  <2>2. CASE ~(a \in Node /\ commit'[a] # commit[a])
    <3>1. \A n \in Node : commit'[n] = commit[n]
      BY <1>6, <2>2
    <3>2. commit' = commit
      BY <1>1, <3>1 DEF RaftTypeOK
    <3> QED
      BY <1>4, <3>2
  <2> QED
    BY <2>1, <2>2
<1>7. \/ commit' = commit
      \/ \E a \in Node : \A n \in Node \ {a} : commit'[n] = commit[n]
  <2>1. ASSUME NEW a \in Node, NEW f,
               \A n \in Node : commit'[n] = IF n = a THEN f ELSE commit[n]
        PROVE  \E b \in Node : \A n \in Node \ {b} : commit'[n] = commit[n]
    BY <2>1
  <2>2. ASSUME NEW m \in Appends, m.dst \in Node,
               \A n \in Node :
                 commit'[n] = IF n = m.dst THEN Larger(commit[n], m.commit) ELSE commit[n]
        PROVE  \E b \in Node : \A n \in Node \ {b} : commit'[n] = commit[n]
    BY <2>2
  <2> QED
    BY <1>1, <2>1, <2>2, NetCommitsStep
<1> QED
  BY <1>4, <1>6, <1>7

\* The messaging cluster implements the agreement, in clusters of every size.
THEOREM NetworkAgrees == NetworkSpec => RaftImplementsConsensus
<1>1. NetworkSpec => []NetworkCommitInv
  BY NetworkCommitInit, NetworkCommitStep, PTL DEF NetworkSpec
<1>2. NetworkCommitInv /\ NetworkCommitInv' /\ [NetworkNext]_networkVars
        => [Agreed!ConsensusNext]_Learned
  BY NetConsensusStep
<1>3. NetworkInit => RaftInit
  BY DEF NetworkInit
<1> QED
  BY <1>1, <1>2, <1>3, ConsensusInitially, PTL
  DEF NetworkSpec, RaftImplementsConsensus, Agreed!ConsensusSpec
===============================================================================
