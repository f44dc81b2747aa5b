----------------------------- MODULE RaftNetwork -----------------------------
(***************************************************************************)
(* The Raft cluster of examples/rust/raft_network/src/main.rs: the same    *)
(* nodes, with messages between them. The code never drops a message it    *)
(* sent and takes the index of the one to deliver from its caller, so a    *)
(* message arrives late, out of order, more than once or never. The        *)
(* messages are a set here: delivering one of two equal ones twice and     *)
(* delivering both is the same.                                            *)
(***************************************************************************)
EXTENDS Raft

CONSTANT MaxRequests \* bound: how many vote requests and appends are ever sent

ASSUME MaxRequestsAssumption == MaxRequests \in Nat

VARIABLES
  matched, \* matched[l][n]: how much of its log leader l knows n to store
  msgs     \* every message ever sent

networkVars == <<raftVars, matched, msgs>>

Message ==
  [kind : {"RequestVote"}, src : Node, dst : Node, term : Nat, log : Seq(Nat)]
  \cup [kind : {"Vote"}, src : Node, dst : Node, term : Nat, ok : BOOLEAN]
  \cup [kind : {"Append"}, src : Node, dst : Node, term : Nat,
        log : Seq(Nat), commit : Nat]
  \cup [kind : {"Ack"}, src : Node, dst : Node, term : Nat, ok : BOOLEAN,
        index : Nat]

NetworkTypeOK ==
  /\ RaftTypeOK
  /\ matched \in [Node -> [Node -> Nat]]
  /\ msgs \subseteq Message

NetworkInit ==
  /\ RaftInit
  /\ matched = [n \in Node |-> [m \in Node |-> 0]]
  /\ msgs = {}

-----------------------------------------------------------------------------
Send(m) == msgs' = msgs \cup {m}

MayRequest ==
  Cardinality({m \in msgs : m.kind \in {"RequestVote", "Append"}}) < MaxRequests

\* The head of deliver: a newer term is adopted, as a follower without a vote.
TermSeen(m) == Larger(term[m.dst], m.term)
RoleSeen(m) == IF m.term > term[m.dst] THEN "Follower" ELSE role[m.dst]

\* Fault: the vote of the current term is forgotten too.
ForgetVote(m) == Nobody

VoteSeen(m) == IF m.term > term[m.dst] THEN Nobody ELSE votedFor[m.dst]
Current(m) == m.term >= term[m.dst]

SeeTerm(m) ==
  /\ term' = [term EXCEPT ![m.dst] = TermSeen(m)]
  /\ role' = [role EXCEPT ![m.dst] = RoleSeen(m)]
  /\ votedFor' = [votedFor EXCEPT ![m.dst] = VoteSeen(m)]

-----------------------------------------------------------------------------
NetTimeout(n) == Timeout(n) /\ UNCHANGED <<matched, msgs>>

NetClientRequest(leader) == ClientRequest(leader) /\ UNCHANGED <<matched, msgs>>

RequestVote(candidate, voter) ==
  /\ MayRequest
  /\ candidate # voter
  /\ role[candidate] = "Candidate"
  /\ Send([kind |-> "RequestVote", src |-> candidate, dst |-> voter,
           term |-> term[candidate], log |-> log[candidate]])
  /\ UNCHANGED <<raftVars, matched>>

NetBecomeLeader(n) ==
  /\ BecomeLeader(n)
  /\ matched' = [matched EXCEPT ![n] = [m \in Node |-> 0]]
  /\ UNCHANGED msgs

SendAppend(leader, follower) ==
  /\ MayRequest
  /\ leader # follower
  /\ role[leader] = "Leader"
  /\ Send([kind |-> "Append", src |-> leader, dst |-> follower,
           term |-> term[leader], log |-> log[leader],
           commit |-> commit[leader]])
  /\ UNCHANGED <<raftVars, matched>>

Grants(m) ==
  /\ Current(m)
  /\ VoteSeen(m) \in {Nobody, m.src}
  /\ UpToDate(m.log, log[m.dst])

ReceiveRequestVote(m) ==
  /\ m.kind = "RequestVote"
  /\ term' = [term EXCEPT ![m.dst] = TermSeen(m)]
  /\ role' = [role EXCEPT ![m.dst] = RoleSeen(m)]
  /\ votedFor' = [votedFor EXCEPT ![m.dst] =
                    IF Grants(m) THEN m.src ELSE VoteSeen(m)]
  /\ Send([kind |-> "Vote", src |-> m.dst, dst |-> m.src,
           term |-> TermSeen(m), ok |-> Grants(m)])
  /\ UNCHANGED <<votes, log, commit, matched>>

ReceiveVote(m) ==
  /\ m.kind = "Vote"
  /\ SeeTerm(m)
  /\ votes' = IF m.ok /\ Current(m) /\ RoleSeen(m) = "Candidate"
                THEN [votes EXCEPT ![m.dst] = @ \cup {m.src}] ELSE votes
  /\ UNCHANGED <<log, commit, matched, msgs>>

StartsWith(entries, start) ==
  Len(start) <= Len(entries) /\ SubSeq(entries, 1, Len(start)) = start

\* Fault: the log becomes the message's, which may be an old one.
ReplaceLog(m) == m.log

\* What a follower keeps of its log when a current append arrives: all of it
\* when the append is only late.
Stored(m) == IF StartsWith(log[m.dst], m.log) THEN log[m.dst] ELSE m.log

ReceiveAppend(m) ==
  /\ m.kind = "Append"
  /\ term' = [term EXCEPT ![m.dst] = TermSeen(m)]
  /\ votedFor' = [votedFor EXCEPT ![m.dst] = VoteSeen(m)]
  /\ IF Current(m)
       THEN /\ role' = [role EXCEPT ![m.dst] = "Follower"]
            /\ log' = [log EXCEPT ![m.dst] = Stored(m)]
            /\ commit' = [commit EXCEPT ![m.dst] = Larger(@, m.commit)]
       ELSE UNCHANGED <<role, log, commit>>
  /\ Send([kind |-> "Ack", src |-> m.dst, dst |-> m.src,
           term |-> TermSeen(m), ok |-> Current(m), index |-> Len(m.log)])
  /\ UNCHANGED <<votes, matched>>

ReceiveAck(m) ==
  /\ m.kind = "Ack"
  /\ SeeTerm(m)
  /\ matched' = IF m.ok /\ Current(m) /\ RoleSeen(m) = "Leader"
                  THEN [matched EXCEPT ![m.dst][m.src] = Larger(@, m.index)]
                  ELSE matched
  /\ UNCHANGED <<votes, log, commit, msgs>>

\* Only an entry of the leader's own term counts, and only what was acked.
NetCommit(leader, i) ==
  /\ role[leader] = "Leader"
  /\ i > commit[leader]
  /\ Holds(leader, i, term[leader])
  /\ IsQuorum({n \in Node : n = leader \/ matched[leader][n] >= i})
  /\ commit' = [commit EXCEPT ![leader] = i]
  /\ UNCHANGED <<electionVars, log, matched, msgs>>

NetworkNext ==
  \/ \E n \in Node :
       \/ NetTimeout(n)
       \/ NetBecomeLeader(n)
       \/ NetClientRequest(n)
       \/ \E i \in 1 .. MaxLog : NetCommit(n, i)
  \/ \E m, n \in Node : RequestVote(m, n) \/ SendAppend(m, n)
  \/ \E m \in msgs : ReceiveRequestVote(m)
  \/ \E m \in msgs : ReceiveVote(m)
  \/ \E m \in msgs : ReceiveAppend(m)
  \/ \E m \in msgs : ReceiveAck(m)

NetworkSpec == NetworkInit /\ [][NetworkNext]_networkVars

-----------------------------------------------------------------------------
(* Properties. *)

\* What a leader counts toward a commit, the node really stores: while both
\* are in the leader's term, the acked start of the leader's log is the start
\* of the node's, however late or often an append or an ack arrives
\* (matchedIsStored of model.qnt).
MatchedIsStored ==
  \A leader, n \in Node :
    role[leader] = "Leader" /\ term[n] = term[leader] =>
      \A i \in 1 .. matched[leader][n] :
        i <= Len(log[leader]) /\ Holds(n, i, log[leader][i])
==============================================================================
