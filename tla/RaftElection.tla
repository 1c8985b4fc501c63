---------------------------- MODULE RaftElection ----------------------------
(***************************************************************************)
(* Leader election of code/raft_election_sim/raft.go.                      *)
(*                                                                         *)
(* Nodes share one Cluster object. A Step call ticks the simulated clock,  *)
(* lets every leader send heartbeats, then lets every expired node         *)
(* campaign. Each Node has its own mutex and the Cluster another, taken    *)
(* one critical section at a time, so a Step is modelled at the            *)
(* granularity of those sections: other Step calls, Partition and Heal may *)
(* run between any two of them. Steppers is the set of goroutines inside   *)
(* Step; the program's own main and tests use one.                         *)
(*                                                                         *)
(* electionDeadline - now is kept as the number of ticks left, timer[n].   *)
(* votesReceived and log are written and never read, so they are left out. *)
(***************************************************************************)
EXTENDS Integers, FiniteSets

CONSTANTS
    N,           \* len(c.nodes)
    Steppers,    \* goroutines that call Cluster.Step
    PartitionSets, \* the arguments Partition is called with
    MinTimeout,  \* minTimeout in ticks
    MaxTimeout,  \* maxTimeout in ticks (never drawn: Int63n is exclusive)
    MaxTerm      \* bound: a node that reached this term no longer times out

ASSUME NAssumption == N \in Nat \ {0}
ASSUME TimeoutAssumption ==
    /\ MinTimeout \in Nat \ {0}
    /\ MaxTimeout \in Nat
    /\ MinTimeout < MaxTimeout
ASSUME PartitionSetsAssumption == PartitionSets \subseteq SUBSET (0 .. N - 1)
ASSUME MaxTermAssumption == MaxTerm \in Nat

VARIABLES
    role, term, votedFor, timer,   \* per node
    partitioned,                   \* nodes that drop all messages
    pc, cur, peer,                 \* per Step call: place, outer and inner loop
    msgTerm, staleTerm, votes,     \* per Step call: locals of the inner calls
    ballots,                       \* history: votes ever cast <<voter, term, candidate>>
    calm,                          \* history: no partition since this Step began
    cut                            \* history: partitioned ever since this campaign began

nodeVars  == <<role, term, votedFor, timer>>
stepVars  == <<cur, peer, msgTerm, staleTerm, votes>>
history == <<ballots, calm, cut>>
vars == <<nodeVars, partitioned, pc, stepVars, history>>

Node == 0 .. N - 1
NoVote == -1
Roles == {"follower", "candidate", "leader"}
Places == {"idle", "beatRole", "beatPart", "beatTerm", "peerPart", "peerBeat",
           "stepDown", "electCheck", "campaign", "campaignPart", "votePart",
           "requestVote", "tally"}

majority == N \div 2 + 1

\* resetElectionTimer draws from [minTimeout, maxTimeout).
Timeouts == MinTimeout .. MaxTimeout - 1

Init ==
    /\ role = [n \in Node |-> "follower"]
    /\ term = [n \in Node |-> 0]
    /\ votedFor = [n \in Node |-> NoVote]
    /\ timer \in [Node -> Timeouts]
    /\ partitioned = {}
    /\ pc = [s \in Steppers |-> "idle"]
    /\ cur = [s \in Steppers |-> 0]
    /\ peer = [s \in Steppers |-> 0]
    /\ msgTerm = [s \in Steppers |-> 0]
    /\ staleTerm = [s \in Steppers |-> 0]
    /\ votes = [s \in Steppers |-> 0]
    /\ ballots = {}
    /\ calm = [s \in Steppers |-> FALSE]
    /\ cut = [s \in Steppers |-> {}]

Goto(s, place) == pc' = [pc EXCEPT ![s] = place]
NextNode(s, place) == Goto(s, place) /\ cur' = [cur EXCEPT ![s] = @ + 1]
NextPeer(s, place) == Goto(s, place) /\ peer' = [peer EXCEPT ![s] = @ + 1]
\* sendHeartbeats or startElection returns: its locals go out of scope.
Return(s) ==
    /\ peer' = [peer EXCEPT ![s] = 0]
    /\ msgTerm' = [msgTerm EXCEPT ![s] = 0]
    /\ votes' = [votes EXCEPT ![s] = 0]
    /\ cut' = [cut EXCEPT ![s] = {}]
NewTimer(n) == \E d \in Timeouts : timer' = [timer EXCEPT ![n] = d]

-----------------------------------------------------------------------------
(* The heartbeat half of Step and sendHeartbeats.                          *)

Tick(s) ==
    /\ pc[s] = "idle"
    /\ timer' = [n \in Node |-> IF timer[n] = 0 THEN 0 ELSE timer[n] - 1]
    /\ Goto(s, "beatRole")
    /\ calm' = [calm EXCEPT ![s] = (partitioned = {})]
    /\ UNCHANGED <<role, term, votedFor, partitioned, stepVars, ballots, cut>>

BeatRole(s) ==
    /\ pc[s] = "beatRole"
    /\ \/ /\ cur[s] = N
          /\ Goto(s, "electCheck")
          /\ cur' = [cur EXCEPT ![s] = 0]
       \/ /\ cur[s] < N
          /\ role[cur[s]] = "leader"
          /\ Goto(s, "beatPart")
          /\ UNCHANGED cur
       \/ /\ cur[s] < N
          /\ role[cur[s]] # "leader"
          /\ NextNode(s, "beatRole")
    /\ UNCHANGED <<nodeVars, partitioned, peer, msgTerm, staleTerm, votes,
                   history>>

BeatPart(s) ==
    /\ pc[s] = "beatPart"
    /\ \/ cur[s] \in partitioned /\ NextNode(s, "beatRole")
       \/ cur[s] \notin partitioned /\ Goto(s, "beatTerm") /\ UNCHANGED cur
    /\ UNCHANGED <<nodeVars, partitioned, peer, msgTerm, staleTerm, votes,
                   history>>

\* sendHeartbeats reads the term in a critical section of its own.
BeatTerm(s) ==
    /\ pc[s] = "beatTerm"
    /\ msgTerm' = [msgTerm EXCEPT ![s] = term[cur[s]]]
    /\ Goto(s, "peerPart")
    /\ UNCHANGED <<nodeVars, partitioned, cur, peer, staleTerm, votes, history>>

PeerPart(s) ==
    /\ pc[s] = "peerPart"
    /\ \/ /\ peer[s] = N
          /\ NextNode(s, "beatRole")
          /\ Return(s)
       \/ /\ peer[s] < N
          /\ peer[s] = cur[s] \/ peer[s] \in partitioned
          /\ NextPeer(s, "peerPart")
          /\ UNCHANGED <<cur, msgTerm, votes, cut>>
       \/ /\ peer[s] < N
          /\ peer[s] # cur[s] /\ peer[s] \notin partitioned
          /\ Goto(s, "peerBeat")
          /\ UNCHANGED <<cur, peer, msgTerm, votes, cut>>
    /\ UNCHANGED <<nodeVars, partitioned, staleTerm, ballots, calm>>

\* Mutant: the heartbeat demotes the receiver but does not restart its timer.
PeerBeatAcceptNoTimer(s) ==
    LET f == peer[s] IN
    /\ pc[s] = "peerBeat"
    /\ msgTerm[s] >= term[f]
    /\ term' = [term EXCEPT ![f] = msgTerm[s]]
    /\ votedFor' = IF msgTerm[s] > term[f]
                   THEN [votedFor EXCEPT ![f] = NoVote] ELSE votedFor
    /\ role' = [role EXCEPT ![f] = "follower"]
    /\ NextPeer(s, "peerPart")
    /\ UNCHANGED <<timer, partitioned, cur, msgTerm, staleTerm, votes, history>>

\* Mutant: the heartbeat raises the term of a leader but leaves it one.
PeerBeatAcceptNoDemote(s) ==
    LET f == peer[s] IN
    /\ pc[s] = "peerBeat"
    /\ msgTerm[s] >= term[f]
    /\ term' = [term EXCEPT ![f] = msgTerm[s]]
    /\ votedFor' = IF msgTerm[s] > term[f]
                   THEN [votedFor EXCEPT ![f] = NoVote] ELSE votedFor
    /\ NewTimer(f)
    /\ NextPeer(s, "peerPart")
    /\ UNCHANGED <<role, partitioned, cur, msgTerm, staleTerm, votes, history>>

PeerBeatAccept(s) ==
    LET f == peer[s] IN
    /\ pc[s] = "peerBeat"
    /\ msgTerm[s] >= term[f]
    /\ term' = [term EXCEPT ![f] = msgTerm[s]]
    /\ votedFor' = IF msgTerm[s] > term[f]
                   THEN [votedFor EXCEPT ![f] = NoVote] ELSE votedFor
    /\ role' = [role EXCEPT ![f] = "follower"]
    /\ NewTimer(f)
    /\ NextPeer(s, "peerPart")
    /\ UNCHANGED <<partitioned, cur, msgTerm, staleTerm, votes, history>>

PeerBeatStale(s) ==
    /\ pc[s] = "peerBeat"
    /\ msgTerm[s] < term[peer[s]]
    /\ staleTerm' = [staleTerm EXCEPT ![s] = term[peer[s]]]
    /\ Goto(s, "stepDown")
    /\ UNCHANGED <<nodeVars, partitioned, cur, peer, msgTerm, votes, history>>

StepDown(s) ==
    LET l == cur[s] IN
    /\ pc[s] = "stepDown"
    /\ \/ /\ staleTerm[s] > term[l]
          /\ term' = [term EXCEPT ![l] = staleTerm[s]]
          /\ role' = [role EXCEPT ![l] = "follower"]
          /\ votedFor' = [votedFor EXCEPT ![l] = NoVote]
       \/ /\ staleTerm[s] <= term[l]
          /\ UNCHANGED <<term, role, votedFor>>
    /\ staleTerm' = [staleTerm EXCEPT ![s] = 0]
    /\ NextPeer(s, "peerPart")
    /\ UNCHANGED <<timer, partitioned, cur, msgTerm, votes, history>>

-----------------------------------------------------------------------------
(* The election half of Step, startElection and requestVote.               *)

Expired(n) == role[n] # "leader" /\ timer[n] = 0 /\ term[n] < MaxTerm

ElectCheck(s) ==
    /\ pc[s] = "electCheck"
    /\ \/ /\ cur[s] = N
          /\ Goto(s, "idle")
          /\ cur' = [cur EXCEPT ![s] = 0]
       \/ /\ cur[s] < N
          /\ Expired(cur[s])
          /\ Goto(s, "campaign")
          /\ UNCHANGED cur
       \/ /\ cur[s] < N
          /\ ~ Expired(cur[s])
          /\ NextNode(s, "electCheck")
    /\ UNCHANGED <<nodeVars, partitioned, peer, msgTerm, staleTerm, votes,
                   history>>

\* First critical section of startElection. The expiry seen by ElectCheck is
\* not looked at again.
Campaign(s) ==
    LET n == cur[s] IN
    /\ pc[s] = "campaign"
    /\ term' = [term EXCEPT ![n] = @ + 1]
    /\ role' = [role EXCEPT ![n] = "candidate"]
    /\ votedFor' = [votedFor EXCEPT ![n] = n]
    /\ ballots' = ballots \cup {<<n, term[n] + 1, n>>}
    /\ msgTerm' = [msgTerm EXCEPT ![s] = term[n] + 1]
    /\ cut' = [cut EXCEPT ![s] = partitioned]
    /\ NewTimer(n)
    /\ Goto(s, "campaignPart")
    /\ UNCHANGED <<partitioned, cur, peer, staleTerm, votes, calm>>

\* Mutant: startElection without its partition check.
CampaignPartUnchecked(s) ==
    /\ pc[s] = "campaignPart"
    /\ votes' = [votes EXCEPT ![s] = 1]
    /\ Goto(s, "votePart")
    /\ UNCHANGED <<nodeVars, partitioned, cur, peer, msgTerm, staleTerm, history>>

CampaignPart(s) ==
    /\ pc[s] = "campaignPart"
    /\ \/ /\ cur[s] \in partitioned
          /\ NextNode(s, "electCheck")
          /\ Return(s)
       \/ /\ cur[s] \notin partitioned
          /\ votes' = [votes EXCEPT ![s] = 1]
          /\ Goto(s, "votePart")
          /\ UNCHANGED <<cur, peer, msgTerm, cut>>
    /\ UNCHANGED <<nodeVars, partitioned, staleTerm, ballots, calm>>

VotePart(s) ==
    /\ pc[s] = "votePart"
    /\ \/ /\ peer[s] = N
          /\ Goto(s, "tally")
          /\ UNCHANGED peer
       \/ /\ peer[s] < N
          /\ peer[s] = cur[s] \/ peer[s] \in partitioned
          /\ NextPeer(s, "votePart")
       \/ /\ peer[s] < N
          /\ peer[s] # cur[s] /\ peer[s] \notin partitioned
          /\ Goto(s, "requestVote")
          /\ UNCHANGED peer
    /\ UNCHANGED <<nodeVars, partitioned, cur, msgTerm, staleTerm, votes, history>>

\* requestVote: a stale candidate, or a voter that gave this term's vote away.
VoteRefused(s) ==
    LET v == peer[s] IN
    /\ pc[s] = "requestVote"
    /\ \/ msgTerm[s] < term[v]
       \/ msgTerm[s] = term[v] /\ votedFor[v] \notin {NoVote, cur[s]}
    /\ NextPeer(s, "votePart")
    /\ UNCHANGED <<nodeVars, partitioned, cur, msgTerm, staleTerm, votes, history>>

\* Mutant: a voter that is in a later term than the candidate votes all the same.
VoteGrantableAnyTerm(s, v) == msgTerm[s] # term[v] \/ votedFor[v] \in {NoVote, cur[s]}

VoteGrantable(s, v) ==
    \/ msgTerm[s] > term[v]
    \/ msgTerm[s] = term[v] /\ votedFor[v] \in {NoVote, cur[s]}

VoteGranted(s) ==
    LET v == peer[s] IN
    /\ pc[s] = "requestVote"
    /\ VoteGrantable(s, v)
    /\ term' = [term EXCEPT ![v] = msgTerm[s]]
    /\ role' = IF msgTerm[s] > term[v]
               THEN [role EXCEPT ![v] = "follower"] ELSE role
    /\ votedFor' = [votedFor EXCEPT ![v] = cur[s]]
    /\ NewTimer(v)
    /\ votes' = [votes EXCEPT ![s] = @ + 1]
    /\ ballots' = ballots \cup {<<v, msgTerm[s], cur[s]>>}
    /\ NextPeer(s, "votePart")
    /\ UNCHANGED <<partitioned, cur, msgTerm, staleTerm, calm, cut>>

\* The re-check of startElection's last critical section.
Wins(s) ==
    /\ role[cur[s]] = "candidate"
    /\ term[cur[s]] = msgTerm[s]
    /\ votes[s] >= majority

Tally(s) ==
    /\ pc[s] = "tally"
    /\ role' = IF Wins(s) THEN [role EXCEPT ![cur[s]] = "leader"] ELSE role
    /\ NextNode(s, "electCheck")
    /\ Return(s)
    /\ UNCHANGED <<term, votedFor, timer, partitioned, staleTerm, ballots, calm>>

-----------------------------------------------------------------------------

Partition(ids) ==
    /\ partitioned' = partitioned \cup ids
    /\ calm' = [s \in Steppers |-> calm[s] /\ ids = {}]
    /\ UNCHANGED <<nodeVars, pc, stepVars, ballots, cut>>

Heal ==
    /\ partitioned' = {}
    /\ cut' = [s \in Steppers |-> {}]
    /\ UNCHANGED <<nodeVars, pc, stepVars, ballots, calm>>

Step(s) ==
    \/ Tick(s)
    \/ BeatRole(s) \/ BeatPart(s) \/ BeatTerm(s)
    \/ PeerPart(s) \/ PeerBeatAccept(s) \/ PeerBeatStale(s) \/ StepDown(s)
    \/ ElectCheck(s)
    \/ Campaign(s) \/ CampaignPart(s)
    \/ VotePart(s) \/ VoteRefused(s) \/ VoteGranted(s)
    \/ Tally(s)

Next ==
    \/ \E s \in Steppers : Step(s)
    \/ \E ids \in PartitionSets : Partition(ids)
    \/ Heal

Spec == Init /\ [][Next]_vars

\* Every Step call is a loop of a running goroutine that never waits.
FairSpec == Spec /\ \A s \in Steppers : WF_vars(Step(s))

-----------------------------------------------------------------------------

ClusterType ==
    /\ role \in [Node -> Roles]
    /\ term \in [Node -> Nat]
    /\ votedFor \in [Node -> Node \cup {NoVote}]
    /\ timer \in [Node -> 0 .. MaxTimeout - 1]
    /\ partitioned \subseteq Node

LoopType ==
    /\ pc \in [Steppers -> Places]
    /\ cur \in [Steppers -> 0 .. N]
    /\ peer \in [Steppers -> 0 .. N]

LocalType ==
    /\ msgTerm \in [Steppers -> Nat]
    /\ staleTerm \in [Steppers -> Nat]
    /\ votes \in [Steppers -> Nat]

HistoryType ==
    /\ ballots \subseteq Node \X Nat \X Node
    /\ calm \in [Steppers -> BOOLEAN]
    /\ cut \in [Steppers -> SUBSET Node]

\* Type invariant of the nodes, the locals of Step and the history: in particular
\* resetElectionTimer never draws maxTimeout itself (raft.go:110).
TypeOK == ClusterType /\ LoopType /\ LocalType /\ HistoryType

\* raft.go:280 "Across a single term this must never exceed one": two nodes that
\* are leaders at the same time lead different terms.
ElectionSafety ==
    \A m, n \in Node :
        role[m] = "leader" /\ role[n] = "leader" /\ term[m] = term[n] => m = n

\* Across the whole run, not only at one moment: whoever became leader of a term
\* holds a majority of that term's ballots, and a node casts at most one ballot a
\* term (raft.go:211), so no term is ever won twice.
OneBallotPerTerm ==
    \A b, c \in ballots : b[1] = c[1] /\ b[2] = c[2] => b[3] = c[3]

\* raft.go:56 "It only ever increases": no handler lowers a node's term, and the
\* vote is withdrawn or changed only together with a term change (raft.go:58).
TermsOnlyIncrease ==
    [][\A n \in Node :
          /\ term'[n] >= term[n]
          /\ votedFor'[n] # votedFor[n] =>
                term'[n] > term[n] \/ votedFor[n] = NoVote]_<<term, votedFor>>

HeartbeatsDone(s) == pc[s] = "electCheck" /\ cur[s] = 0 /\ calm[s]

\* raft.go:220 "suppresses elections in followers that can hear the leader": if a
\* leader survives such a heartbeat round, no node is about to campaign.
HeartbeatsSuppressElections ==
    \A s \in Steppers : HeartbeatsDone(s) =>
        ((\E l \in Node : role[l] = "leader") => \A n \in Node : ~ Expired(n))

\* raft_test.go:84 "a minority side cannot reach a majority, so it cannot elect
\* anyone": a node that wins was not cut off during its whole campaign, and neither
\* were the nodes of some majority.
MinorityElectsNoLeader ==
    [][\A s \in Steppers :
          LET n == cur[s] IN
          pc[s] = "tally" /\ pc'[s] # "tally" /\ Wins(s) =>
             n \notin cut[s] /\ Cardinality(Node \ cut[s]) >= majority]_vars

\* raft.go:10-12: once partitions stop, the cluster settles on at most one leader
\* for good.
LeadersConverge ==
    <>[](partitioned = {}) =>
        <>[](\A m, n \in Node : role[m] = "leader" /\ role[n] = "leader" => m = n)
=============================================================================
