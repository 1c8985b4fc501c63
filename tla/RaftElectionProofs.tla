------------------------- MODULE RaftElectionProofs -------------------------
(***************************************************************************)
(* Proofs about RaftElection for every cluster size, every number of       *)
(* goroutines inside Step and every term bound.                            *)
(***************************************************************************)
EXTENDS RaftElection, FiniteSetTheorems, TLAPS

\* The nodes whose vote in term t went to c, among the ballots bs.
Voters(bs, t, c) == {v \in Node : <<v, t, c>> \in bs}

\* The votes that the campaign of Step call s has had the chance to count.
Counted(s) == {v \in Node : /\ <<v, msgTerm[s], cur[s]>> \in ballots
                            /\ v < peer[s] \/ v = cur[s]}

\* Loop indices are in range at the places that use them.
IndexInv ==
    \A s \in Steppers :
        /\ pc[s] \notin {"idle", "beatRole", "electCheck"} => cur[s] \in Node
        /\ pc[s] \in {"peerBeat", "stepDown", "requestVote"} => peer[s] \in Node
        /\ pc[s] = "requestVote" => peer[s] # cur[s]

\* A cast ballot is never from the voter's future, and the one of its present
\* term is the one votedFor records.
BallotInv ==
    \A b \in ballots :
        /\ b[2] <= term[b[1]]
        /\ b[2] = term[b[1]] => votedFor[b[1]] = b[3]

\* A running campaign voted for itself and counts no vote that was not cast.
CampaignInv ==
    \A s \in Steppers :
        /\ pc[s] \in {"campaignPart", "votePart", "requestVote", "tally"} =>
              <<cur[s], msgTerm[s], cur[s]>> \in ballots
        /\ pc[s] \in {"votePart", "requestVote", "tally"} =>
              votes[s] <= Cardinality(Counted(s))

\* A leader holds a majority of its term's ballots.
LeaderInv ==
    \A n \in Node :
        role[n] = "leader" => majority <= Cardinality(Voters(ballots, term[n], n))

Inv == TypeOK /\ IndexInv /\ OneBallotPerTerm /\ BallotInv /\ CampaignInv /\ LeaderInv

-----------------------------------------------------------------------------

\* The node set is finite and sets of voters are counted by a natural number
\* that grows with the set.
LEMMA NodeSets ==
    /\ IsFiniteSet(Node)
    /\ Cardinality(Node) = N
    /\ \A T \in SUBSET Node : IsFiniteSet(T) /\ Cardinality(T) \in Nat
    /\ \A T \in SUBSET Node : \A S \in SUBSET T : Cardinality(S) <= Cardinality(T)
    /\ majority \in Nat
<1>1. IsFiniteSet(Node) /\ Cardinality(Node) = N
  BY FS_Interval, NAssumption DEF Node
<1>2. \A T \in SUBSET Node : IsFiniteSet(T) /\ Cardinality(T) \in Nat
  BY <1>1, FS_Subset, FS_CardinalityType
<1>3. \A T \in SUBSET Node : \A S \in SUBSET T : Cardinality(S) <= Cardinality(T)
  BY <1>2, FS_Subset
<1>4. majority \in Nat
  BY NAssumption DEF majority
<1> QED BY <1>1, <1>2, <1>3, <1>4

\* raft.go:100 "Any two majorities of the same set must overlap".
LEMMA MajoritiesOverlap ==
    ASSUME NEW S \in SUBSET Node, NEW T \in SUBSET Node,
           majority <= Cardinality(S), majority <= Cardinality(T)
    PROVE  S \cap T # {}
<1>1. Cardinality(S) \in Nat /\ Cardinality(T) \in Nat
  BY NodeSets
<1>2. N \in Nat /\ N < majority + majority
  BY NAssumption DEF majority
<1>3. Cardinality(S) + Cardinality(T) > Cardinality(Node)
  BY <1>1, <1>2, NodeSets
<1>4. IsFiniteSet(Node) /\ S \subseteq Node /\ T \subseteq Node
  BY NodeSets
<1> QED BY <1>3, <1>4, FS_MajoritiesIntersect

LEMMA InitInv == Init => Inv
<1> SUFFICES ASSUME Init PROVE Inv
  OBVIOUS
<1>1. TypeOK
  BY NAssumption, TimeoutAssumption
  DEF Init, TypeOK, ClusterType, LoopType, LocalType, HistoryType,
      Node, NoVote, Roles, Places, Timeouts
<1>2. IndexInv
  BY DEF Init, IndexInv
<1>3. OneBallotPerTerm /\ BallotInv
  BY DEF Init, OneBallotPerTerm, BallotInv
<1>4. CampaignInv
  BY DEF Init, CampaignInv
<1>5. LeaderInv
  BY DEF Init, LeaderInv
<1> QED BY <1>1, <1>2, <1>3, <1>4, <1>5 DEF Inv
\* Arithmetic of the loop indices.
LEMMA Indices ==
    /\ 0 \in 0 .. N
    /\ \A i \in 0 .. N : i < N => i \in Node
    /\ \A i \in Node : i \in 0 .. N /\ i + 1 \in 0 .. N /\ i < N
    /\ Timeouts \subseteq 0 .. MaxTimeout - 1
BY NAssumption, TimeoutAssumption DEF Node, Timeouts

\* Every step keeps the types and the loop indices in range.
LEMMA TypeStep ==
    ASSUME TypeOK, IndexInv, [Next]_vars
    PROVE  TypeOK' /\ IndexInv'
<1>1. ClusterType /\ LoopType /\ LocalType /\ HistoryType
  BY DEF TypeOK
<1>2. ASSUME NEW s \in Steppers, Tick(s) PROVE TypeOK' /\ IndexInv'
  <2>1. ClusterType'
    BY <1>2, <1>1, TimeoutAssumption, Indices DEF Tick, ClusterType, LoopType, LocalType, IndexInv, Roles, nodeVars
  <2>2. LoopType'
    BY <1>2, <1>1, Indices DEF Tick, LoopType, IndexInv, Goto, Places, stepVars
  <2>3. LocalType'
    BY <1>2, <1>1, Indices DEF Tick, ClusterType, LoopType, LocalType, IndexInv, stepVars
  <2>4. HistoryType'
    BY <1>2, <1>1, Indices DEF Tick, ClusterType, LoopType, LocalType, HistoryType, IndexInv, history
  <2>5. IndexInv'
    BY <1>2, <1>1, Indices DEF Tick, LoopType, IndexInv, Goto, stepVars
  <2> QED BY <2>1, <2>2, <2>3, <2>4, <2>5 DEF TypeOK
<1>3. ASSUME NEW s \in Steppers, BeatRole(s) PROVE TypeOK' /\ IndexInv'
  <2>1. ClusterType'
    BY <1>3, <1>1, Indices DEF BeatRole, ClusterType, LoopType, LocalType, IndexInv, Roles, nodeVars
  <2>2. LoopType'
    BY <1>3, <1>1, Indices DEF BeatRole, LoopType, IndexInv, Goto, NextNode, Places, stepVars
  <2>3. LocalType'
    BY <1>3, <1>1, Indices DEF BeatRole, ClusterType, LoopType, LocalType, IndexInv, stepVars
  <2>4. HistoryType'
    BY <1>3, <1>1, Indices DEF BeatRole, ClusterType, LoopType, LocalType, HistoryType, IndexInv, history
  <2>5. IndexInv'
    BY <1>3, <1>1, Indices DEF BeatRole, LoopType, IndexInv, Goto, NextNode, stepVars
  <2> QED BY <2>1, <2>2, <2>3, <2>4, <2>5 DEF TypeOK
<1>4. ASSUME NEW s \in Steppers, BeatPart(s) PROVE TypeOK' /\ IndexInv'
  <2>1. ClusterType'
    BY <1>4, <1>1, Indices DEF BeatPart, ClusterType, LoopType, LocalType, IndexInv, Roles, nodeVars
  <2>2. LoopType'
    BY <1>4, <1>1, Indices DEF BeatPart, LoopType, IndexInv, Goto, NextNode, Places, stepVars
  <2>3. LocalType'
    BY <1>4, <1>1, Indices DEF BeatPart, ClusterType, LoopType, LocalType, IndexInv, stepVars
  <2>4. HistoryType'
    BY <1>4, <1>1, Indices DEF BeatPart, ClusterType, LoopType, LocalType, HistoryType, IndexInv, history
  <2>5. IndexInv'
    BY <1>4, <1>1, Indices DEF BeatPart, LoopType, IndexInv, Goto, NextNode, stepVars
  <2> QED BY <2>1, <2>2, <2>3, <2>4, <2>5 DEF TypeOK
<1>5. ASSUME NEW s \in Steppers, BeatTerm(s) PROVE TypeOK' /\ IndexInv'
  <2>1. ClusterType'
    BY <1>5, <1>1, Indices DEF BeatTerm, ClusterType, LoopType, LocalType, IndexInv, Roles, nodeVars
  <2>2. LoopType'
    BY <1>5, <1>1, Indices DEF BeatTerm, LoopType, IndexInv, Goto, Places, stepVars
  <2>3. LocalType'
    BY <1>5, <1>1, Indices DEF BeatTerm, ClusterType, LoopType, LocalType, IndexInv, stepVars
  <2>4. HistoryType'
    BY <1>5, <1>1, Indices DEF BeatTerm, ClusterType, LoopType, LocalType, HistoryType, IndexInv, history
  <2>5. IndexInv'
    BY <1>5, <1>1, Indices DEF BeatTerm, LoopType, IndexInv, Goto, stepVars
  <2> QED BY <2>1, <2>2, <2>3, <2>4, <2>5 DEF TypeOK
<1>6. ASSUME NEW s \in Steppers, PeerPart(s) PROVE TypeOK' /\ IndexInv'
  <2>1. ClusterType'
    BY <1>6, <1>1, Indices DEF PeerPart, ClusterType, LoopType, LocalType, IndexInv, Roles, nodeVars
  <2>2. LoopType'
    BY <1>6, <1>1, Indices DEF PeerPart, LoopType, IndexInv, Goto, NextNode, NextPeer, Return, Places, stepVars
  <2>3. LocalType'
    BY <1>6, <1>1, Indices DEF PeerPart, ClusterType, LoopType, LocalType, IndexInv, Return, stepVars
  <2>4. HistoryType'
    BY <1>6, <1>1, Indices DEF PeerPart, ClusterType, LoopType, LocalType, HistoryType, IndexInv, Return, history
  <2>5. IndexInv'
    BY <1>6, <1>1, Indices DEF PeerPart, LoopType, IndexInv, Goto, NextNode, NextPeer, Return, stepVars
  <2> QED BY <2>1, <2>2, <2>3, <2>4, <2>5 DEF TypeOK
<1>7. ASSUME NEW s \in Steppers, PeerBeatAccept(s) PROVE TypeOK' /\ IndexInv'
  <2>1. ClusterType'
    BY <1>7, <1>1, Indices DEF PeerBeatAccept, ClusterType, LoopType, LocalType, IndexInv, NewTimer, Roles, nodeVars
  <2>2. LoopType'
    BY <1>7, <1>1, Indices DEF PeerBeatAccept, LoopType, IndexInv, Goto, NextPeer, Places, stepVars
  <2>3. LocalType'
    BY <1>7, <1>1, Indices DEF PeerBeatAccept, ClusterType, LoopType, LocalType, IndexInv, stepVars
  <2>4. HistoryType'
    BY <1>7, <1>1, Indices DEF PeerBeatAccept, ClusterType, LoopType, LocalType, HistoryType, IndexInv, history
  <2>5. IndexInv'
    BY <1>7, <1>1, Indices DEF PeerBeatAccept, LoopType, IndexInv, Goto, NextPeer, stepVars
  <2> QED BY <2>1, <2>2, <2>3, <2>4, <2>5 DEF TypeOK
<1>8. ASSUME NEW s \in Steppers, PeerBeatStale(s) PROVE TypeOK' /\ IndexInv'
  <2>1. ClusterType'
    BY <1>8, <1>1, Indices DEF PeerBeatStale, ClusterType, LoopType, LocalType, IndexInv, Roles, nodeVars
  <2>2. LoopType'
    BY <1>8, <1>1, Indices DEF PeerBeatStale, LoopType, IndexInv, Goto, Places, stepVars
  <2>3. LocalType'
    BY <1>8, <1>1, Indices DEF PeerBeatStale, ClusterType, LoopType, LocalType, IndexInv, stepVars
  <2>4. HistoryType'
    BY <1>8, <1>1, Indices DEF PeerBeatStale, ClusterType, LoopType, LocalType, HistoryType, IndexInv, history
  <2>5. IndexInv'
    BY <1>8, <1>1, Indices DEF PeerBeatStale, LoopType, IndexInv, Goto, stepVars
  <2> QED BY <2>1, <2>2, <2>3, <2>4, <2>5 DEF TypeOK
<1>9. ASSUME NEW s \in Steppers, StepDown(s) PROVE TypeOK' /\ IndexInv'
  <2>1. ClusterType'
    BY <1>9, <1>1, Indices DEF StepDown, ClusterType, LoopType, LocalType, IndexInv, Roles, nodeVars
  <2>2. LoopType'
    BY <1>9, <1>1, Indices DEF StepDown, LoopType, IndexInv, Goto, NextPeer, Places, stepVars
  <2>3. LocalType'
    BY <1>9, <1>1, Indices DEF StepDown, ClusterType, LoopType, LocalType, IndexInv, stepVars
  <2>4. HistoryType'
    BY <1>9, <1>1, Indices DEF StepDown, ClusterType, LoopType, LocalType, HistoryType, IndexInv, history
  <2>5. IndexInv'
    BY <1>9, <1>1, Indices DEF StepDown, LoopType, IndexInv, Goto, NextPeer, stepVars
  <2> QED BY <2>1, <2>2, <2>3, <2>4, <2>5 DEF TypeOK
<1>10. ASSUME NEW s \in Steppers, ElectCheck(s) PROVE TypeOK' /\ IndexInv'
  <2>1. ClusterType'
    BY <1>10, <1>1, Indices DEF ElectCheck, ClusterType, LoopType, LocalType, IndexInv, Roles, nodeVars
  <2>2. LoopType'
    BY <1>10, <1>1, Indices DEF ElectCheck, LoopType, IndexInv, Goto, NextNode, Places, stepVars
  <2>3. LocalType'
    BY <1>10, <1>1, Indices DEF ElectCheck, ClusterType, LoopType, LocalType, IndexInv, stepVars
  <2>4. HistoryType'
    BY <1>10, <1>1, Indices DEF ElectCheck, ClusterType, LoopType, LocalType, HistoryType, IndexInv, history
  <2>5. IndexInv'
    BY <1>10, <1>1, Indices DEF ElectCheck, LoopType, IndexInv, Goto, NextNode, stepVars
  <2> QED BY <2>1, <2>2, <2>3, <2>4, <2>5 DEF TypeOK
<1>11. ASSUME NEW s \in Steppers, Campaign(s) PROVE TypeOK' /\ IndexInv'
  <2>1. ClusterType'
    BY <1>11, <1>1, Indices DEF Campaign, ClusterType, LoopType, LocalType, IndexInv, NewTimer, Roles, nodeVars
  <2>2. LoopType'
    BY <1>11, <1>1, Indices DEF Campaign, LoopType, IndexInv, Goto, Places, stepVars
  <2>3. LocalType'
    BY <1>11, <1>1, Indices DEF Campaign, ClusterType, LoopType, LocalType, IndexInv, stepVars
  <2>4. HistoryType'
    BY <1>11, <1>1, Indices DEF Campaign, ClusterType, LoopType, LocalType, HistoryType, IndexInv, history
  <2>5. IndexInv'
    BY <1>11, <1>1, Indices DEF Campaign, LoopType, IndexInv, Goto, stepVars
  <2> QED BY <2>1, <2>2, <2>3, <2>4, <2>5 DEF TypeOK
<1>12. ASSUME NEW s \in Steppers, CampaignPart(s) PROVE TypeOK' /\ IndexInv'
  <2>1. ClusterType'
    BY <1>12, <1>1, Indices DEF CampaignPart, ClusterType, LoopType, LocalType, IndexInv, Roles, nodeVars
  <2>2. LoopType'
    BY <1>12, <1>1, Indices DEF CampaignPart, LoopType, IndexInv, Goto, NextNode, Return, Places, stepVars
  <2>3. LocalType'
    BY <1>12, <1>1, Indices DEF CampaignPart, ClusterType, LoopType, LocalType, IndexInv, Return, stepVars
  <2>4. HistoryType'
    BY <1>12, <1>1, Indices DEF CampaignPart, ClusterType, LoopType, LocalType, HistoryType, IndexInv, Return, history
  <2>5. IndexInv'
    BY <1>12, <1>1, Indices DEF CampaignPart, LoopType, IndexInv, Goto, NextNode, Return, stepVars
  <2> QED BY <2>1, <2>2, <2>3, <2>4, <2>5 DEF TypeOK
<1>13. ASSUME NEW s \in Steppers, VotePart(s) PROVE TypeOK' /\ IndexInv'
  <2>1. ClusterType'
    BY <1>13, <1>1, Indices DEF VotePart, ClusterType, LoopType, LocalType, IndexInv, Roles, nodeVars
  <2>2. LoopType'
    BY <1>13, <1>1, Indices DEF VotePart, LoopType, IndexInv, Goto, NextPeer, Places, stepVars
  <2>3. LocalType'
    BY <1>13, <1>1, Indices DEF VotePart, ClusterType, LoopType, LocalType, IndexInv, stepVars
  <2>4. HistoryType'
    BY <1>13, <1>1, Indices DEF VotePart, ClusterType, LoopType, LocalType, HistoryType, IndexInv, history
  <2>5. IndexInv'
    BY <1>13, <1>1, Indices DEF VotePart, LoopType, IndexInv, Goto, NextPeer, stepVars
  <2> QED BY <2>1, <2>2, <2>3, <2>4, <2>5 DEF TypeOK
<1>14. ASSUME NEW s \in Steppers, VoteRefused(s) PROVE TypeOK' /\ IndexInv'
  <2>1. ClusterType'
    BY <1>14, <1>1, Indices DEF VoteRefused, ClusterType, LoopType, LocalType, IndexInv, Roles, nodeVars
  <2>2. LoopType'
    BY <1>14, <1>1, Indices DEF VoteRefused, LoopType, IndexInv, Goto, NextPeer, Places, stepVars
  <2>3. LocalType'
    BY <1>14, <1>1, Indices DEF VoteRefused, ClusterType, LoopType, LocalType, IndexInv, stepVars
  <2>4. HistoryType'
    BY <1>14, <1>1, Indices DEF VoteRefused, ClusterType, LoopType, LocalType, HistoryType, IndexInv, history
  <2>5. IndexInv'
    BY <1>14, <1>1, Indices DEF VoteRefused, LoopType, IndexInv, Goto, NextPeer, stepVars
  <2> QED BY <2>1, <2>2, <2>3, <2>4, <2>5 DEF TypeOK
<1>15. ASSUME NEW s \in Steppers, VoteGranted(s) PROVE TypeOK' /\ IndexInv'
  <2>1. ClusterType'
    BY <1>15, <1>1, Indices DEF VoteGranted, ClusterType, LoopType, LocalType, IndexInv, NewTimer, Roles, nodeVars
  <2>2. LoopType'
    BY <1>15, <1>1, Indices DEF VoteGranted, LoopType, IndexInv, Goto, NextPeer, Places, stepVars
  <2>3. LocalType'
    BY <1>15, <1>1, Indices DEF VoteGranted, ClusterType, LoopType, LocalType, IndexInv, stepVars
  <2>4. HistoryType'
    BY <1>15, <1>1, Indices DEF VoteGranted, ClusterType, LoopType, LocalType, HistoryType, IndexInv, history
  <2>5. IndexInv'
    BY <1>15, <1>1, Indices DEF VoteGranted, LoopType, IndexInv, Goto, NextPeer, stepVars
  <2> QED BY <2>1, <2>2, <2>3, <2>4, <2>5 DEF TypeOK
<1>16. ASSUME NEW s \in Steppers, Tally(s) PROVE TypeOK' /\ IndexInv'
  <2>1. ClusterType'
    BY <1>16, <1>1, Indices DEF Tally, ClusterType, LoopType, LocalType, IndexInv, Roles, nodeVars
  <2>2. LoopType'
    BY <1>16, <1>1, Indices DEF Tally, LoopType, IndexInv, Goto, NextNode, Return, Places, stepVars
  <2>3. LocalType'
    BY <1>16, <1>1, Indices DEF Tally, ClusterType, LoopType, LocalType, IndexInv, Return, stepVars
  <2>4. HistoryType'
    BY <1>16, <1>1, Indices DEF Tally, ClusterType, LoopType, LocalType, HistoryType, IndexInv, Return, history
  <2>5. IndexInv'
    BY <1>16, <1>1, Indices DEF Tally, LoopType, IndexInv, Goto, NextNode, Return, stepVars
  <2> QED BY <2>1, <2>2, <2>3, <2>4, <2>5 DEF TypeOK
<1>17. ASSUME NEW ids \in PartitionSets, Partition(ids) PROVE TypeOK' /\ IndexInv'
  <2>1. ids \subseteq Node
    BY PartitionSetsAssumption DEF Node
  <2> QED BY <1>17, <1>1, <2>1
    DEF TypeOK, ClusterType, LoopType, LocalType, HistoryType, IndexInv, Partition, nodeVars, stepVars
<1>18. ASSUME Heal PROVE TypeOK' /\ IndexInv'
  BY <1>18, <1>1
  DEF TypeOK, ClusterType, LoopType, LocalType, HistoryType, IndexInv, Heal, nodeVars, stepVars
<1>19. ASSUME UNCHANGED vars PROVE TypeOK' /\ IndexInv'
  BY <1>19, <1>1
  DEF TypeOK, ClusterType, LoopType, LocalType, HistoryType, IndexInv, vars, nodeVars, stepVars, history
<1> QED BY <1>2, <1>3, <1>4, <1>5, <1>6, <1>7, <1>8, <1>9, <1>10, <1>11, <1>12, <1>13, <1>14, <1>15, <1>16, <1>17, <1>18, <1>19 DEF Next, Step
\* The steps of a Step call that leave roles, terms, votes and ballots alone.
Quiet(s) ==
    \/ Tick(s) \/ BeatRole(s) \/ BeatPart(s) \/ BeatTerm(s) \/ PeerPart(s)
    \/ PeerBeatStale(s) \/ ElectCheck(s) \/ CampaignPart(s) \/ VotePart(s)
    \/ VoteRefused(s)

\* Case split of the next-state relation used by the lemmas below.
LEMMA StepCases ==
    ASSUME [Next]_vars
    PROVE  \/ UNCHANGED <<role, term, votedFor, ballots>>
           \/ \E s \in Steppers : \/ PeerBeatAccept(s) \/ StepDown(s) \/ Campaign(s)
                                  \/ VoteGranted(s) \/ Tally(s)
<1>1. ASSUME NEW s \in Steppers, Quiet(s)
      PROVE  UNCHANGED <<role, term, votedFor, ballots>>
  BY <1>1 DEF Quiet, Tick, BeatRole, BeatPart, BeatTerm, PeerPart, PeerBeatStale,
              ElectCheck, CampaignPart, VotePart, VoteRefused, nodeVars, history
<1>2. ASSUME NEW ids \in PartitionSets, Partition(ids)
      PROVE  UNCHANGED <<role, term, votedFor, ballots>>
  BY <1>2 DEF Partition, nodeVars
<1>3. ASSUME Heal PROVE UNCHANGED <<role, term, votedFor, ballots>>
  BY <1>3 DEF Heal, nodeVars
<1>4. ASSUME UNCHANGED vars PROVE UNCHANGED <<role, term, votedFor, ballots>>
  BY <1>4 DEF vars, nodeVars, history
<1> QED BY <1>1, <1>2, <1>3, <1>4 DEF Next, Step, Quiet

\* raft.go:211 "One vote per node per term": every step keeps it, because a vote
\* is only forgotten together with its term.
LEMMA BallotStep ==
    ASSUME Inv, [Next]_vars
    PROVE  ballots \subseteq ballots' /\ OneBallotPerTerm' /\ BallotInv'
<1> USE DEF OneBallotPerTerm, BallotInv
<1>1. /\ TypeOK /\ IndexInv /\ OneBallotPerTerm /\ BallotInv
      /\ ClusterType /\ LoopType /\ LocalType /\ HistoryType
  BY DEF Inv, TypeOK
<1>2. NoVote \notin Node
  BY NAssumption DEF Node, NoVote
<1>3. CASE UNCHANGED <<role, term, votedFor, ballots>>
  BY <1>1, <1>3
<1>4. ASSUME NEW s \in Steppers, PeerBeatAccept(s)
      PROVE  ballots \subseteq ballots' /\ OneBallotPerTerm' /\ BallotInv'
  <2>1. ballots' = ballots
    BY <1>4 DEF PeerBeatAccept, history
  <2>2. peer[s] \in Node /\ msgTerm[s] \in Nat
    BY <1>1, <1>4 DEF PeerBeatAccept, IndexInv, LocalType
  <2>3. \A b \in ballots : b[1] \in Node /\ b[2] \in Nat /\ b[3] \in Node
    BY <1>1 DEF HistoryType
  <2> QED BY <1>1, <1>4, <2>1, <2>2, <2>3 DEF PeerBeatAccept, ClusterType
<1>5. ASSUME NEW s \in Steppers, StepDown(s)
      PROVE  ballots \subseteq ballots' /\ OneBallotPerTerm' /\ BallotInv'
  <2>1. ballots' = ballots
    BY <1>5 DEF StepDown, history
  <2>2. cur[s] \in Node /\ staleTerm[s] \in Nat
    BY <1>1, <1>5 DEF StepDown, IndexInv, LocalType
  <2>3. \A b \in ballots : b[1] \in Node /\ b[2] \in Nat /\ b[3] \in Node
    BY <1>1 DEF HistoryType
  <2> QED BY <1>1, <1>5, <2>1, <2>2, <2>3 DEF StepDown, ClusterType
<1>6. ASSUME NEW s \in Steppers, Campaign(s)
      PROVE  ballots \subseteq ballots' /\ OneBallotPerTerm' /\ BallotInv'
  <2> DEFINE n == cur[s]
             new == <<n, term[n] + 1, n>>
  <2>1. n \in Node
    BY <1>1, <1>6 DEF Campaign, IndexInv
  <2>2. /\ ballots' = ballots \cup {new}
        /\ term' = [term EXCEPT ![n] = term[n] + 1]
        /\ votedFor' = [votedFor EXCEPT ![n] = n]
    BY <1>6 DEF Campaign
  <2>3. \A b \in ballots : b[1] \in Node /\ b[2] \in Nat /\ b[3] \in Node
    BY <1>1 DEF HistoryType
  <2>4. new[1] = n /\ new[2] = term[n] + 1 /\ new[3] = n
    OBVIOUS
  <2> HIDE DEF new
  <2> QED BY <1>1, <2>1, <2>2, <2>3, <2>4 DEF ClusterType
<1>7. ASSUME NEW s \in Steppers, VoteGranted(s)
      PROVE  ballots \subseteq ballots' /\ OneBallotPerTerm' /\ BallotInv'
  <2> DEFINE v == peer[s]
             new == <<v, msgTerm[s], cur[s]>>
  <2>1. v \in Node /\ cur[s] \in Node /\ msgTerm[s] \in Nat
    BY <1>1, <1>7 DEF VoteGranted, IndexInv, LocalType
  <2>2. /\ ballots' = ballots \cup {new}
        /\ term' = [term EXCEPT ![v] = msgTerm[s]]
        /\ votedFor' = [votedFor EXCEPT ![v] = cur[s]]
        /\ msgTerm[s] > term[v] \/ (msgTerm[s] = term[v] /\ votedFor[v] \in {NoVote, cur[s]})
    BY <1>7 DEF VoteGranted, VoteGrantable
  <2>3. \A b \in ballots : b[1] \in Node /\ b[2] \in Nat /\ b[3] \in Node
    BY <1>1 DEF HistoryType
  <2>4. new[1] = v /\ new[2] = msgTerm[s] /\ new[3] = cur[s]
    OBVIOUS
  <2> HIDE DEF new
  <2> QED BY <1>1, <1>2, <2>1, <2>2, <2>3, <2>4 DEF ClusterType
<1>8. ASSUME NEW s \in Steppers, Tally(s)
      PROVE  ballots \subseteq ballots' /\ OneBallotPerTerm' /\ BallotInv'
  BY <1>1, <1>8 DEF Tally
<1> QED BY <1>3, <1>4, <1>5, <1>6, <1>7, <1>8, StepCases

\* A leader keeps the ballots that elected it, and a new one has counted them.
LEMMA LeaderStep ==
    ASSUME Inv, [Next]_vars
    PROVE  LeaderInv'
<1>1. /\ TypeOK /\ IndexInv /\ LeaderInv /\ CampaignInv
      /\ ClusterType /\ LoopType /\ LocalType /\ HistoryType
  BY DEF Inv, TypeOK
<1>2. ballots \subseteq ballots' /\ TypeOK'
  BY BallotStep, TypeStep DEF Inv
<1> SUFFICES ASSUME NEW n \in Node, role'[n] = "leader"
             PROVE  majority <= Cardinality(Voters(ballots', term'[n], n))
  BY DEF LeaderInv
<1>3. /\ Cardinality(Voters(ballots, term'[n], n)) <= Cardinality(Voters(ballots', term'[n], n))
      /\ Cardinality(Voters(ballots, term'[n], n)) \in Nat
      /\ Cardinality(Voters(ballots', term'[n], n)) \in Nat
      /\ majority \in Nat
  <2>1. /\ Voters(ballots', term'[n], n) \in SUBSET Node
        /\ Voters(ballots, term'[n], n) \in SUBSET Node
    BY DEF Voters
  <2>2. Voters(ballots, term'[n], n) \in SUBSET Voters(ballots', term'[n], n)
    BY <1>2 DEF Voters
  <2> QED BY <2>1, <2>2, NodeSets
<1>4. ASSUME role[n] = "leader", term'[n] = term[n]
      PROVE  majority <= Cardinality(Voters(ballots', term'[n], n))
  BY <1>1, <1>3, <1>4 DEF LeaderInv
<1>5. ASSUME NEW s \in Steppers, PeerBeatAccept(s)
      PROVE  role[n] = "leader" /\ term'[n] = term[n]
  BY <1>1, <1>5 DEF PeerBeatAccept, IndexInv, ClusterType
<1>6. ASSUME NEW s \in Steppers, StepDown(s)
      PROVE  role[n] = "leader" /\ term'[n] = term[n]
  BY <1>1, <1>6 DEF StepDown, IndexInv, ClusterType
<1>7. ASSUME NEW s \in Steppers, Campaign(s)
      PROVE  role[n] = "leader" /\ term'[n] = term[n]
  BY <1>1, <1>7 DEF Campaign, IndexInv, ClusterType
<1>8. ASSUME NEW s \in Steppers, VoteGranted(s)
      PROVE  role[n] = "leader" /\ term'[n] = term[n]
  BY <1>1, <1>8 DEF VoteGranted, VoteGrantable, IndexInv, ClusterType, LocalType
<1>9. ASSUME NEW s \in Steppers, Tally(s)
      PROVE  majority <= Cardinality(Voters(ballots', term'[n], n))
  <2>1. term' = term /\ pc[s] = "tally"
    BY <1>9 DEF Tally
  <2>2. CASE role[n] = "leader"
    BY <1>4, <2>1, <2>2
  <2>3. CASE role[n] # "leader"
    <3>1. cur[s] = n /\ Wins(s)
      BY <1>1, <1>9, <2>3 DEF Tally, ClusterType
    <3>2. majority <= votes[s] /\ votes[s] <= Cardinality(Counted(s)) /\ votes[s] \in Nat
      BY <1>1, <2>1, <3>1 DEF Wins, CampaignInv, LocalType
    <3>3. Counted(s) \in SUBSET Voters(ballots, term'[n], n) /\ Voters(ballots, term'[n], n) \in SUBSET Node
      BY <2>1, <3>1 DEF Wins, Counted, Voters
    <3>4. Cardinality(Counted(s)) <= Cardinality(Voters(ballots, term'[n], n))
          /\ Cardinality(Counted(s)) \in Nat
      BY <3>3, NodeSets DEF Counted
    <3> QED BY <1>3, <3>2, <3>4
  <2> QED BY <2>2, <2>3
<1>10. CASE UNCHANGED <<role, term, votedFor, ballots>>
  BY <1>4, <1>10
<1> QED BY <1>4, <1>5, <1>6, <1>7, <1>8, <1>9, <1>10, StepCases
\* A Step call that does not move keeps what it counted.
LEMMA OthersKeepCount ==
    ASSUME Inv, [Next]_vars, NEW z \in Steppers,
           UNCHANGED <<pc[z], cur[z], peer[z], msgTerm[z], votes[z]>>
    PROVE  CampaignInv!(z)'
<1>1. ballots \subseteq ballots' /\ CampaignInv /\ TypeOK
  BY BallotStep DEF Inv
<1>2. /\ Counted(z) \in SUBSET (Counted(z)')
      /\ Counted(z)' \in SUBSET Node /\ Counted(z) \in SUBSET Node
  BY <1>1 DEF Counted
<1>3. /\ Cardinality(Counted(z)) <= Cardinality(Counted(z)')
      /\ Cardinality(Counted(z)) \in Nat /\ Cardinality(Counted(z)') \in Nat
  BY <1>2, NodeSets
<1>4. votes[z] \in Nat
  BY <1>1 DEF TypeOK, LocalType
<1> QED BY <1>1, <1>3, <1>4 DEF CampaignInv

\* A campaign counts a vote only after requestVote recorded it, and asks every
\* voter once.
LEMMA CampaignStep ==
    ASSUME Inv, [Next]_vars
    PROVE  CampaignInv'
<1>1. /\ TypeOK /\ IndexInv /\ CampaignInv
      /\ ClusterType /\ LoopType /\ LocalType /\ HistoryType
  BY DEF Inv, TypeOK
<1>2. ballots \subseteq ballots' /\ TypeOK'
  BY BallotStep, TypeStep DEF Inv
<1> SUFFICES ASSUME NEW z \in Steppers PROVE CampaignInv!(z)'
  BY DEF CampaignInv
<1>3. CASE UNCHANGED <<pc[z], cur[z], peer[z], msgTerm[z], votes[z]>>
  BY <1>3, OthersKeepCount
<1>4. CASE pc'[z] \notin {"campaignPart", "votePart", "requestVote", "tally"}
  BY <1>4
<1>5. ASSUME NEW s \in Steppers, Step(s), s # z
      PROVE  UNCHANGED <<pc[z], cur[z], peer[z], msgTerm[z], votes[z]>>
  BY <1>1, <1>5 DEF Step, Tick, BeatRole, BeatPart, BeatTerm, PeerPart, PeerBeatAccept,
       PeerBeatStale, StepDown, ElectCheck, Campaign, CampaignPart, VotePart,
       VoteRefused, VoteGranted, Tally, Goto, NextNode, NextPeer, Return,
       LoopType, LocalType, stepVars
<1>6. ASSUME \/ Tick(z) \/ BeatRole(z) \/ BeatPart(z) \/ BeatTerm(z) \/ PeerPart(z)
             \/ PeerBeatAccept(z) \/ PeerBeatStale(z) \/ StepDown(z)
             \/ ElectCheck(z) \/ Tally(z)
      PROVE  pc'[z] \notin {"campaignPart", "votePart", "requestVote", "tally"}
  BY <1>1, <1>6 DEF Tick, BeatRole, BeatPart, BeatTerm, PeerPart, PeerBeatAccept,
       PeerBeatStale, StepDown, ElectCheck, Tally, Goto, NextNode, NextPeer, LoopType
<1>7. CASE Campaign(z)
  <2>1. /\ pc'[z] = "campaignPart" /\ cur' = cur
        /\ msgTerm'[z] = term[cur[z]] + 1
        /\ <<cur[z], term[cur[z]] + 1, cur[z]>> \in ballots'
    BY <1>1, <1>7 DEF Campaign, Goto, LoopType, LocalType
  <2> QED BY <2>1
<1>8. CASE CampaignPart(z)
  <2>1. CASE cur[z] \in partitioned
    BY <1>1, <1>8, <2>1 DEF CampaignPart, Goto, NextNode, LoopType
  <2>2. CASE cur[z] \notin partitioned
    <3>1. /\ pc[z] = "campaignPart" /\ pc'[z] = "votePart" /\ votes'[z] = 1
          /\ UNCHANGED <<cur, peer, msgTerm>>
      BY <1>1, <1>8, <2>2 DEF CampaignPart, Goto, LoopType, LocalType
    <3>2. <<cur[z], msgTerm[z], cur[z]>> \in ballots' /\ cur[z] \in Node
      BY <1>1, <1>2, <3>1 DEF CampaignInv, IndexInv
    <3>3. cur[z] \in Counted(z)' /\ Counted(z)' \in SUBSET Node
      BY <3>1, <3>2 DEF Counted
    <3>4. {cur[z]} \in SUBSET (Counted(z)') /\ Cardinality({cur[z]}) = 1
      BY <3>3, FS_Singleton
    <3>5. 1 <= Cardinality(Counted(z)')
      BY <3>3, <3>4, NodeSets
    <3> QED BY <3>1, <3>2, <3>5
  <2> QED BY <2>1, <2>2
<1>9. CASE VotePart(z) \/ VoteRefused(z)
  <2>1. /\ pc[z] \in {"votePart", "requestVote"}
        /\ UNCHANGED <<cur, msgTerm, votes>>
        /\ peer'[z] \in {peer[z], peer[z] + 1}
    BY <1>1, <1>9 DEF VotePart, VoteRefused, Goto, NextPeer, LoopType
  <2>2. <<cur[z], msgTerm[z], cur[z]>> \in ballots' /\ votes[z] <= Cardinality(Counted(z))
    BY <1>1, <1>2, <2>1 DEF CampaignInv
  <2>3. peer[z] \in 0 .. N
    BY <1>1 DEF LoopType
  <2>4. Counted(z) \in SUBSET (Counted(z)') /\ Counted(z)' \in SUBSET Node
    BY <1>2, <2>1, <2>3 DEF Counted, Node
  <2>5. /\ Cardinality(Counted(z)) <= Cardinality(Counted(z)')
        /\ Cardinality(Counted(z)) \in Nat /\ Cardinality(Counted(z)') \in Nat
        /\ votes[z] \in Nat
    BY <1>1, <2>4, NodeSets DEF LocalType
  <2>6. votes'[z] <= Cardinality(Counted(z)')
    BY <2>1, <2>2, <2>5
  <2> QED BY <2>1, <2>2, <2>6
<1>10. CASE VoteGranted(z)
  <2>1. /\ pc[z] = "requestVote" /\ pc'[z] = "votePart"
        /\ UNCHANGED <<cur, msgTerm>>
        /\ peer'[z] = peer[z] + 1 /\ votes'[z] = votes[z] + 1
        /\ ballots' = ballots \cup {<<peer[z], msgTerm[z], cur[z]>>}
    BY <1>1, <1>10 DEF VoteGranted, Goto, NextPeer, LoopType, LocalType
  <2>2. <<cur[z], msgTerm[z], cur[z]>> \in ballots' /\ votes[z] <= Cardinality(Counted(z))
    BY <1>1, <1>2, <2>1 DEF CampaignInv
  <2>3. peer[z] \in Node /\ peer[z] # cur[z] /\ votes[z] \in Nat
    BY <1>1, <2>1 DEF IndexInv, LocalType
  <2>4. /\ peer[z] \notin Counted(z)
        /\ Counted(z) \cup {peer[z]} \in SUBSET (Counted(z)')
        /\ Counted(z)' \in SUBSET Node /\ Counted(z) \in SUBSET Node
    BY <1>2, <2>1, <2>3 DEF Counted, Node
  <2>5. Cardinality(Counted(z) \cup {peer[z]}) = Cardinality(Counted(z)) + 1
    BY <2>4, NodeSets, FS_AddElement
  <2>6. /\ Cardinality(Counted(z) \cup {peer[z]}) <= Cardinality(Counted(z)')
        /\ Cardinality(Counted(z)) \in Nat /\ Cardinality(Counted(z)') \in Nat
    BY <2>4, NodeSets
  <2>7. votes'[z] <= Cardinality(Counted(z)')
    BY <2>1, <2>2, <2>3, <2>5, <2>6
  <2> QED BY <2>1, <2>2, <2>7
<1>11. ASSUME NEW ids \in PartitionSets, Partition(ids)
       PROVE  UNCHANGED <<pc[z], cur[z], peer[z], msgTerm[z], votes[z]>>
  BY <1>11 DEF Partition, stepVars
<1>12. ASSUME Heal \/ UNCHANGED vars
       PROVE  UNCHANGED <<pc[z], cur[z], peer[z], msgTerm[z], votes[z]>>
  BY <1>12 DEF Heal, stepVars, vars
<1> QED BY <1>3, <1>4, <1>5, <1>6, <1>7, <1>8, <1>9, <1>10, <1>11, <1>12 DEF Next, Step

-----------------------------------------------------------------------------

\* Inv is inductive.
THEOREM Invariance == Spec => []Inv
<1>1. Inv /\ [Next]_vars => Inv'
  BY TypeStep, BallotStep, LeaderStep, CampaignStep DEF Inv
<1> QED BY <1>1, InitInv, PTL DEF Spec

\* The types of the cluster hold in every run, for every N.
THEOREM TypeCorrect == Spec => []TypeOK
<1>1. Inv => TypeOK
  BY DEF Inv
<1> QED BY <1>1, Invariance, PTL

\* raft.go:280: never two leaders of one term, for every cluster size and any
\* number of concurrent Step calls.
THEOREM ElectionSafe == Spec => []ElectionSafety
<1>1. Inv => ElectionSafety
  <2> SUFFICES ASSUME Inv, NEW m \in Node, NEW n \in Node,
                      role[m] = "leader", role[n] = "leader", term[m] = term[n]
               PROVE  m = n
    BY DEF ElectionSafety
  <2>1. /\ majority <= Cardinality(Voters(ballots, term[m], m))
        /\ majority <= Cardinality(Voters(ballots, term[m], n))
    BY DEF Inv, LeaderInv
  <2>2. Voters(ballots, term[m], m) \in SUBSET Node /\ Voters(ballots, term[m], n) \in SUBSET Node
    BY DEF Voters
  <2>3. PICK v : v \in Voters(ballots, term[m], m) /\ v \in Voters(ballots, term[m], n)
    BY <2>1, <2>2, MajoritiesOverlap
  <2>4. <<v, term[m], m>> \in ballots /\ <<v, term[m], n>> \in ballots
    BY <2>3 DEF Voters
  <2> QED BY <2>4 DEF Inv, OneBallotPerTerm
<1> QED BY <1>1, Invariance, PTL

\* raft.go:211: no node ever votes for two candidates of one term.
THEOREM OneVotePerTerm == Spec => []OneBallotPerTerm
<1>1. Inv => OneBallotPerTerm
  BY DEF Inv
<1> QED BY <1>1, Invariance, PTL

\* What TermsOnlyIncrease asks of a step, for one node.
TermKept(n) ==
    /\ term'[n] >= term[n]
    /\ votedFor'[n] # votedFor[n] => term'[n] > term[n] \/ votedFor[n] = NoVote

\* raft.go:56 and :58: terms never go back and votes change only with the term.
THEOREM TermsMonotone == Spec => TermsOnlyIncrease
<1>1. ASSUME Inv, [Next]_vars, NEW n \in Node
      PROVE  TermKept(n)
  <2> USE DEF TermKept
  <2>1. /\ IndexInv /\ ClusterType /\ LocalType
    BY <1>1 DEF Inv, TypeOK
  <2>2. CASE UNCHANGED <<role, term, votedFor, ballots>>
    BY <2>1, <2>2 DEF ClusterType
  <2>3. ASSUME NEW s \in Steppers, PeerBeatAccept(s)
        PROVE  TermKept(n)
    BY <2>1, <2>3 DEF PeerBeatAccept, IndexInv, ClusterType, LocalType
  <2>4. ASSUME NEW s \in Steppers, StepDown(s)
        PROVE  TermKept(n)
    BY <2>1, <2>4 DEF StepDown, IndexInv, ClusterType, LocalType
  <2>5. ASSUME NEW s \in Steppers, Campaign(s)
        PROVE  TermKept(n)
    BY <2>1, <2>5 DEF Campaign, IndexInv, ClusterType
  <2>6. ASSUME NEW s \in Steppers, VoteGranted(s)
        PROVE  TermKept(n)
    BY <2>1, <2>6 DEF VoteGranted, VoteGrantable, IndexInv, ClusterType, LocalType
  <2>7. ASSUME NEW s \in Steppers, Tally(s)
        PROVE  TermKept(n)
    BY <2>1, <2>7 DEF Tally, ClusterType
  <2> QED BY <1>1, <2>2, <2>3, <2>4, <2>5, <2>6, <2>7, StepCases
<1>2. Inv /\ [Next]_vars =>
        [\A n \in Node :
          /\ term'[n] >= term[n]
          /\ votedFor'[n] # votedFor[n] =>
                term'[n] > term[n] \/ votedFor[n] = NoVote]_<<term, votedFor>>
  BY <1>1 DEF TermKept
<1> QED BY <1>2, Invariance, PTL DEF Spec, TermsOnlyIncrease

-----------------------------------------------------------------------------
(* One goroutine inside Step, as in main and the tests.                    *)

OneStepper == \A s, t \in Steppers : s = t

\* Every node but l has time left.
Heard(l) == \A n \in Node \ {l} : timer[n] > 0

\* Where a Step call is, its loops are fresh; a calm Step call sees no partition.
PlaceInv ==
    \A s \in Steppers :
        /\ pc[s] = "idle" => cur[s] = 0
        /\ pc[s] \in {"idle", "beatRole", "beatPart", "beatTerm", "electCheck",
                      "campaign", "campaignPart"} => peer[s] = 0
        /\ pc[s] = "stepDown" => staleTerm[s] > msgTerm[s]
        /\ calm[s] => partitioned = {}

\* In a calm heartbeat round, every leader the loop has passed and that is still
\* one has been heard by all the others.
PassedInv ==
    \A s \in Steppers :
        calm[s] /\ pc[s] \in {"beatRole", "beatPart", "beatTerm", "peerPart",
                              "peerBeat", "stepDown"} =>
            \A l \in Node : l < cur[s] /\ role[l] = "leader" => Heard(l)

\* The leader that is sending, while it is one, has been heard by the peers the
\* inner loop has passed, and sends its present term.
SendingInv ==
    \A s \in Steppers :
        calm[s] /\ pc[s] \in {"peerPart", "peerBeat", "stepDown"}
                /\ role[cur[s]] = "leader" =>
            /\ msgTerm[s] = term[cur[s]]
            /\ \A n \in Node : n # cur[s] /\ n < peer[s] => timer[n] > 0

\* After a calm heartbeat round every leader that is left has been heard.
RoundInv ==
    \A s \in Steppers : HeartbeatsDone(s) =>
        \A l \in Node : role[l] = "leader" => Heard(l)

RoundsInv == PlaceInv /\ PassedInv /\ SendingInv /\ RoundInv

\* raft.go:220: with one goroutine inside Step, every step keeps the account of who
\* has heard whom.
LEMMA RoundsStep ==
    ASSUME OneStepper, Inv, RoundsInv, [Next]_vars
    PROVE  RoundsInv'
<1>1. /\ PlaceInv /\ PassedInv /\ SendingInv /\ RoundInv
      /\ ClusterType /\ LoopType /\ LocalType /\ HistoryType /\ IndexInv
  BY DEF RoundsInv, Inv, TypeOK
<1>2. \A d \in Timeouts : d > 0 /\ d \in Nat
  BY TimeoutAssumption DEF Timeouts
<1>3. \A s, t \in Steppers : s = t
  BY DEF OneStepper
<1> USE DEF LoopType, LocalType, ClusterType
<1>4. ASSUME NEW s \in Steppers, Tick(s) PROVE RoundsInv'
  <2>1. PlaceInv'
    BY <1>1, <1>3, <1>4, Indices DEF PlaceInv, HistoryType, Tick, Goto, stepVars, history
  <2>2. PassedInv'
    BY <1>1, <1>3, <1>4, Indices DEF PassedInv, PlaceInv, Tick, Goto, stepVars, Node
  <2>3. SendingInv'
    BY <1>1, <1>3, <1>4 DEF SendingInv, Tick, Goto
  <2>4. RoundInv'
    BY <1>1, <1>3, <1>4 DEF RoundInv, HeartbeatsDone, Tick, Goto
  <2> QED BY <2>1, <2>2, <2>3, <2>4 DEF RoundsInv
<1>5. ASSUME NEW s \in Steppers, BeatRole(s) PROVE RoundsInv'
  <2>1. PlaceInv'
    BY <1>1, <1>3, <1>5, Indices DEF PlaceInv, HistoryType, BeatRole, Goto, NextNode, stepVars, history
  <2>2. PassedInv'
    BY <1>1, <1>2, <1>3, <1>5, Indices DEF PassedInv, PlaceInv, SendingInv, Heard, IndexInv, BeatRole, Goto, NextNode, stepVars, nodeVars, history, Node
  <2>3. SendingInv'
    BY <1>1, <1>2, <1>3, <1>5, Indices DEF SendingInv, PlaceInv, IndexInv, BeatRole, Goto, NextNode, stepVars, nodeVars, history, Node
  <2>4. RoundInv'
    <3>1. CASE cur[s] = N
      <4>1. \A l \in Node : l < cur[s]
        BY <3>1, Indices
      <4>2. calm'[s] => calm[s]
        BY <1>5 DEF BeatRole, history
      <4>3. calm[s] => \A l \in Node : role[l] = "leader" => Heard(l)
        BY <1>1, <1>5, <4>1 DEF PassedInv, BeatRole
      <4> QED BY <1>3, <1>5, <4>2, <4>3 DEF RoundInv, HeartbeatsDone, Heard, BeatRole, nodeVars
    <3>2. CASE cur[s] # N
      BY <1>1, <1>3, <1>5, <3>2 DEF RoundInv, HeartbeatsDone, BeatRole, Goto, NextNode
    <3> QED BY <3>1, <3>2
  <2> QED BY <2>1, <2>2, <2>3, <2>4 DEF RoundsInv
<1>6. ASSUME NEW s \in Steppers, BeatPart(s) PROVE RoundsInv'
  <2>1. PlaceInv'
    BY <1>1, <1>3, <1>6, Indices DEF PlaceInv, HistoryType, BeatPart, Goto, NextNode, stepVars, history
  <2>2. PassedInv'
    BY <1>1, <1>2, <1>3, <1>6, Indices DEF PassedInv, PlaceInv, SendingInv, Heard, IndexInv, BeatPart, Goto, NextNode, stepVars, nodeVars, history, Node
  <2>3. SendingInv'
    BY <1>1, <1>2, <1>3, <1>6, Indices DEF SendingInv, PlaceInv, IndexInv, BeatPart, Goto, NextNode, stepVars, nodeVars, history, Node
  <2>4. RoundInv'
    BY <1>1, <1>3, <1>6 DEF RoundInv, HeartbeatsDone, BeatPart, Goto, NextNode
  <2> QED BY <2>1, <2>2, <2>3, <2>4 DEF RoundsInv
<1>7. ASSUME NEW s \in Steppers, BeatTerm(s) PROVE RoundsInv'
  <2>1. PlaceInv'
    BY <1>1, <1>3, <1>7, Indices DEF PlaceInv, HistoryType, BeatTerm, Goto, stepVars, history
  <2>2. PassedInv'
    BY <1>1, <1>2, <1>3, <1>7, Indices DEF PassedInv, PlaceInv, SendingInv, Heard, IndexInv, BeatTerm, Goto, stepVars, nodeVars, history, Node
  <2>3. SendingInv'
    BY <1>1, <1>2, <1>3, <1>7, Indices DEF SendingInv, PlaceInv, IndexInv, BeatTerm, Goto, stepVars, nodeVars, history, Node
  <2>4. RoundInv'
    BY <1>1, <1>3, <1>7 DEF RoundInv, HeartbeatsDone, BeatTerm, Goto
  <2> QED BY <2>1, <2>2, <2>3, <2>4 DEF RoundsInv
<1>8. ASSUME NEW s \in Steppers, PeerPart(s) PROVE RoundsInv'
  <2>1. PlaceInv'
    BY <1>1, <1>3, <1>8, Indices DEF PlaceInv, HistoryType, PeerPart, Goto, NextNode, NextPeer, Return, stepVars, history
  <2>2. PassedInv'
    BY <1>1, <1>2, <1>3, <1>8, Indices, SMTT(20) DEF PassedInv, PlaceInv, SendingInv, Heard, IndexInv, PeerPart, Goto, NextNode, NextPeer, Return, stepVars, nodeVars, history, Node
  <2>3. SendingInv'
    BY <1>1, <1>2, <1>3, <1>8, Indices, SMTT(20) DEF SendingInv, PlaceInv, IndexInv, PeerPart, Goto, NextNode, NextPeer, Return, stepVars, nodeVars, history, Node
  <2>4. RoundInv'
    BY <1>1, <1>3, <1>8 DEF RoundInv, HeartbeatsDone, PeerPart, Goto, NextNode, NextPeer, Return
  <2> QED BY <2>1, <2>2, <2>3, <2>4 DEF RoundsInv
<1>9. ASSUME NEW s \in Steppers, PeerBeatAccept(s) PROVE RoundsInv'
  <2>1. PlaceInv'
    BY <1>1, <1>3, <1>9, Indices DEF PlaceInv, HistoryType, PeerBeatAccept, Goto, NextPeer, NewTimer, stepVars, history
  <2>2. PassedInv'
    BY <1>1, <1>2, <1>3, <1>9, Indices DEF PassedInv, PlaceInv, SendingInv, Heard, IndexInv, PeerBeatAccept, Goto, NextPeer, NewTimer, stepVars, nodeVars, history, Node
  <2>3. SendingInv'
    BY <1>1, <1>2, <1>3, <1>9, Indices DEF SendingInv, PlaceInv, IndexInv, PeerBeatAccept, Goto, NextPeer, NewTimer, stepVars, nodeVars, history, Node
  <2>4. RoundInv'
    BY <1>1, <1>3, <1>9 DEF RoundInv, HeartbeatsDone, PeerBeatAccept, Goto, NextPeer
  <2> QED BY <2>1, <2>2, <2>3, <2>4 DEF RoundsInv
<1>10. ASSUME NEW s \in Steppers, PeerBeatStale(s) PROVE RoundsInv'
  <2>1. PlaceInv'
    BY <1>1, <1>3, <1>10, Indices DEF PlaceInv, HistoryType, PeerBeatStale, Goto, stepVars, history
  <2>2. PassedInv'
    BY <1>1, <1>2, <1>3, <1>10, Indices DEF PassedInv, PlaceInv, SendingInv, Heard, IndexInv, PeerBeatStale, Goto, stepVars, nodeVars, history, Node
  <2>3. SendingInv'
    BY <1>1, <1>2, <1>3, <1>10, Indices DEF SendingInv, PlaceInv, IndexInv, PeerBeatStale, Goto, stepVars, nodeVars, history, Node
  <2>4. RoundInv'
    BY <1>1, <1>3, <1>10 DEF RoundInv, HeartbeatsDone, PeerBeatStale, Goto
  <2> QED BY <2>1, <2>2, <2>3, <2>4 DEF RoundsInv
<1>11. ASSUME NEW s \in Steppers, StepDown(s) PROVE RoundsInv'
  <2> DEFINE l == cur[s]
  <2>1. PlaceInv'
    BY <1>1, <1>3, <1>11, Indices DEF PlaceInv, HistoryType, StepDown, Goto, NextPeer, stepVars, history
  <2>5. /\ l \in Node /\ peer[s] \in Node /\ pc[s] = "stepDown" /\ staleTerm[s] > msgTerm[s]
        /\ UNCHANGED <<timer, cur, msgTerm, calm>> /\ peer' = [peer EXCEPT ![s] = peer[s] + 1]
    BY <1>1, <1>11 DEF StepDown, NextPeer, IndexInv, PlaceInv, history
  <2>6. \A n \in Node : role'[n] = "leader" => role[n] = "leader"
    BY <1>1, <1>11, <2>5 DEF StepDown
  <2>2. PassedInv'
    BY <1>1, <1>3, <2>5, <2>6 DEF PassedInv, Heard
  <2>7. calm[s] => role'[l] # "leader"
    <3> SUFFICES ASSUME calm[s], role[l] = "leader" PROVE role'[l] # "leader"
      BY <2>5, <2>6
    <3>1. msgTerm[s] = term[l]
      BY <1>1, <2>5 DEF SendingInv
    <3>2. staleTerm[s] > term[l] /\ term[l] \in Nat /\ staleTerm[s] \in Nat
      BY <1>1, <2>5, <3>1
    <3>3. role' = [role EXCEPT ![l] = "follower"]
      BY <1>11, <3>2 DEF StepDown
    <3> QED BY <1>1, <2>5, <3>3
  <2>3. SendingInv'
    BY <1>3, <2>5, <2>7 DEF SendingInv
  <2>4. RoundInv'
    BY <1>1, <1>3, <1>11 DEF RoundInv, HeartbeatsDone, StepDown, Goto, NextPeer
  <2> QED BY <2>1, <2>2, <2>3, <2>4 DEF RoundsInv
<1>12. ASSUME NEW s \in Steppers, ElectCheck(s) PROVE RoundsInv'
  <2>1. PlaceInv'
    BY <1>1, <1>3, <1>12, Indices DEF PlaceInv, HistoryType, ElectCheck, Goto, NextNode, stepVars, history
  <2>2. PassedInv'
    BY <1>1, <1>3, <1>12, Indices DEF PassedInv, PlaceInv, ElectCheck, Goto, NextNode, stepVars, Node
  <2>3. SendingInv'
    BY <1>1, <1>3, <1>12 DEF SendingInv, ElectCheck, Goto, NextNode
  <2>4. RoundInv'
    <3>1. pc'[s] = "electCheck" => cur'[s] = cur[s] + 1
      BY <1>1, <1>12 DEF ElectCheck, Goto, NextNode
    <3>2. cur[s] \in Nat
      BY <1>1, NAssumption
    <3>3. ~ HeartbeatsDone(s)'
      BY <3>1, <3>2 DEF HeartbeatsDone
    <3> QED BY <1>3, <3>3 DEF RoundInv
  <2> QED BY <2>1, <2>2, <2>3, <2>4 DEF RoundsInv
<1>13. ASSUME NEW s \in Steppers, Campaign(s) PROVE RoundsInv'
  <2>1. PlaceInv'
    BY <1>1, <1>3, <1>13, Indices DEF PlaceInv, HistoryType, Campaign, Goto, NewTimer, stepVars, history
  <2>2. PassedInv'
    BY <1>1, <1>3, <1>13, Indices DEF PassedInv, PlaceInv, Campaign, Goto, NewTimer, stepVars, Node
  <2>3. SendingInv'
    BY <1>1, <1>3, <1>13 DEF SendingInv, Campaign, Goto, NewTimer
  <2>4. RoundInv'
    BY <1>1, <1>3, <1>13 DEF RoundInv, HeartbeatsDone, Campaign, Goto
  <2> QED BY <2>1, <2>2, <2>3, <2>4 DEF RoundsInv
<1>14. ASSUME NEW s \in Steppers, CampaignPart(s) PROVE RoundsInv'
  <2>1. PlaceInv'
    BY <1>1, <1>3, <1>14, Indices DEF PlaceInv, HistoryType, CampaignPart, Goto, NextNode, Return, stepVars, history
  <2>2. PassedInv'
    BY <1>1, <1>3, <1>14, Indices DEF PassedInv, PlaceInv, CampaignPart, Goto, NextNode, Return, stepVars, Node
  <2>3. SendingInv'
    BY <1>1, <1>3, <1>14 DEF SendingInv, CampaignPart, Goto, NextNode, Return
  <2>4. RoundInv'
    <3>1. pc'[s] = "electCheck" => cur'[s] = cur[s] + 1
      BY <1>1, <1>14 DEF CampaignPart, Goto, NextNode
    <3>2. cur[s] \in Nat
      BY <1>1, NAssumption
    <3>3. ~ HeartbeatsDone(s)'
      BY <3>1, <3>2 DEF HeartbeatsDone
    <3> QED BY <1>3, <3>3 DEF RoundInv
  <2> QED BY <2>1, <2>2, <2>3, <2>4 DEF RoundsInv
<1>15. ASSUME NEW s \in Steppers, VotePart(s) PROVE RoundsInv'
  <2>1. PlaceInv'
    BY <1>1, <1>3, <1>15, Indices DEF PlaceInv, HistoryType, VotePart, Goto, NextPeer, stepVars, history
  <2>2. PassedInv'
    BY <1>1, <1>3, <1>15, Indices DEF PassedInv, PlaceInv, VotePart, Goto, NextPeer, stepVars, Node
  <2>3. SendingInv'
    BY <1>1, <1>3, <1>15 DEF SendingInv, VotePart, Goto, NextPeer
  <2>4. RoundInv'
    BY <1>1, <1>3, <1>15 DEF RoundInv, HeartbeatsDone, VotePart, Goto, NextPeer
  <2> QED BY <2>1, <2>2, <2>3, <2>4 DEF RoundsInv
<1>16. ASSUME NEW s \in Steppers, VoteRefused(s) PROVE RoundsInv'
  <2>1. PlaceInv'
    BY <1>1, <1>3, <1>16, Indices DEF PlaceInv, HistoryType, VoteRefused, Goto, NextPeer, stepVars, history
  <2>2. PassedInv'
    BY <1>1, <1>3, <1>16, Indices DEF PassedInv, PlaceInv, VoteRefused, Goto, NextPeer, stepVars, Node
  <2>3. SendingInv'
    BY <1>1, <1>3, <1>16 DEF SendingInv, VoteRefused, Goto, NextPeer
  <2>4. RoundInv'
    BY <1>1, <1>3, <1>16 DEF RoundInv, HeartbeatsDone, VoteRefused, Goto, NextPeer
  <2> QED BY <2>1, <2>2, <2>3, <2>4 DEF RoundsInv
<1>17. ASSUME NEW s \in Steppers, VoteGranted(s) PROVE RoundsInv'
  <2>1. PlaceInv'
    BY <1>1, <1>3, <1>17, Indices DEF PlaceInv, HistoryType, VoteGranted, Goto, NextPeer, NewTimer, stepVars, history
  <2>2. PassedInv'
    BY <1>1, <1>3, <1>17, Indices DEF PassedInv, PlaceInv, VoteGranted, Goto, NextPeer, NewTimer, stepVars, Node
  <2>3. SendingInv'
    BY <1>1, <1>3, <1>17 DEF SendingInv, VoteGranted, Goto, NextPeer, NewTimer
  <2>4. RoundInv'
    BY <1>1, <1>3, <1>17 DEF RoundInv, HeartbeatsDone, VoteGranted, Goto, NextPeer
  <2> QED BY <2>1, <2>2, <2>3, <2>4 DEF RoundsInv
<1>18. ASSUME NEW s \in Steppers, Tally(s) PROVE RoundsInv'
  <2>1. PlaceInv'
    BY <1>1, <1>3, <1>18, Indices DEF PlaceInv, HistoryType, Tally, Goto, NextNode, Return, stepVars, history
  <2>2. PassedInv'
    BY <1>1, <1>3, <1>18, Indices DEF PassedInv, PlaceInv, Tally, Goto, NextNode, Return, stepVars, Node
  <2>3. SendingInv'
    BY <1>1, <1>3, <1>18 DEF SendingInv, Tally, Goto, NextNode, Return
  <2>4. RoundInv'
    <3>1. pc'[s] = "electCheck" => cur'[s] = cur[s] + 1
      BY <1>1, <1>18 DEF Tally, Goto, NextNode
    <3>2. cur[s] \in Nat
      BY <1>1, NAssumption
    <3>3. ~ HeartbeatsDone(s)'
      BY <3>1, <3>2 DEF HeartbeatsDone
    <3> QED BY <1>3, <3>3 DEF RoundInv
  <2> QED BY <2>1, <2>2, <2>3, <2>4 DEF RoundsInv
<1>19. ASSUME UNCHANGED <<nodeVars, pc, stepVars>>, PlaceInv',
             \A s \in Steppers : calm'[s] => calm[s]
      PROVE  RoundsInv'
  BY <1>1, <1>19 DEF RoundsInv, PassedInv, SendingInv, RoundInv, HeartbeatsDone, Heard,
                    nodeVars, stepVars
<1>20. ASSUME NEW ids \in PartitionSets, Partition(ids) PROVE RoundsInv'
  <2>1. \A s \in Steppers : calm'[s] => calm[s] /\ ids = {}
    BY <1>1, <1>20 DEF Partition, HistoryType
  <2>2. PlaceInv'
    BY <1>1, <1>20, <2>1 DEF Partition, PlaceInv, stepVars
  <2> QED BY <1>20, <1>19, <2>1, <2>2 DEF Partition
<1>21. ASSUME Heal PROVE RoundsInv'
  <2>1. PlaceInv' /\ UNCHANGED calm
    BY <1>1, <1>21 DEF Heal, PlaceInv, stepVars
  <2> QED BY <1>21, <1>19, <2>1 DEF Heal
<1>22. ASSUME UNCHANGED vars PROVE RoundsInv'
  <2>1. PlaceInv' /\ UNCHANGED calm
    BY <1>1, <1>22 DEF vars, PlaceInv, stepVars, history
  <2> QED BY <1>22, <1>19, <2>1 DEF vars
<1> QED BY <1>4, <1>5, <1>6, <1>7, <1>8, <1>9, <1>10, <1>11, <1>12, <1>13, <1>14, <1>15, <1>16, <1>17, <1>18, <1>20, <1>21, <1>22
        DEF Next, Step

\* raft.go:220: when one goroutine steps the cluster, a leader that comes through a
\* heartbeat round without partitions leaves no node about to campaign, for every
\* cluster size and every range of timeouts.
THEOREM HeartbeatsSuppress ==
    ASSUME OneStepper
    PROVE  Spec => []HeartbeatsSuppressElections
<1>1. Init => RoundsInv
  BY DEF Init, RoundsInv, PlaceInv, PassedInv, SendingInv, RoundInv, HeartbeatsDone
<1>2. Inv /\ RoundsInv /\ [Next]_vars => RoundsInv'
  BY RoundsStep
<1>3. Inv /\ RoundsInv => HeartbeatsSuppressElections
  BY DEF Inv, TypeOK, ClusterType, RoundsInv, RoundInv, HeartbeatsSuppressElections,
         Heard, Expired
<1> QED BY <1>1, <1>2, <1>3, Invariance, PTL DEF Spec

-----------------------------------------------------------------------------
(* What a partition takes away from a campaign.                            *)

\* The nodes a campaign can have had a vote from: those it has asked, and itself,
\* that were not cut off all along.
Reached(s) == {v \in Node \ cut[s] : v < peer[s] \/ v = cur[s]}

\* A campaign counts no vote of a node that was cut off all along.
CutOK(s) ==
    /\ cut[s] \subseteq partitioned
    /\ pc[s] \in {"votePart", "requestVote", "tally"} =>
          cur[s] \notin cut[s] /\ votes[s] <= Cardinality(Reached(s))
    /\ pc[s] = "requestVote" => peer[s] \notin cut[s]

CutInv == \A s \in Steppers : CutOK(s)

\* A Step call that keeps its place, its loops and its count, while the partition
\* stays or grows, keeps what it counted.
LEMMA CutUnchanged ==
    ASSUME NEW s, CutOK(s), partitioned \subseteq partitioned',
           pc'[s] = pc[s], cur'[s] = cur[s], peer'[s] = peer[s],
           votes'[s] = votes[s], cut'[s] = cut[s]
    PROVE  CutOK(s)'
<1>1. Reached(s)' = Reached(s)
  BY DEF Reached
<1> QED BY <1>1 DEF CutOK

\* raft.go:172 "a minority partition must not elect a leader": every step keeps the
\* count of each campaign within the nodes that were not cut off all along.
LEMMA CutStep ==
    ASSUME Inv, CutInv, [Next]_vars
    PROVE  CutInv'
<1>1. /\ ClusterType /\ LoopType /\ LocalType /\ HistoryType /\ IndexInv /\ CutInv
      /\ TypeOK'
  BY TypeStep DEF Inv, TypeOK
<1>2. ClusterType' /\ LoopType' /\ LocalType' /\ HistoryType'
  BY <1>1 DEF TypeOK
<1>3. ASSUME NEW S \in SUBSET Node, NEW T \in SUBSET S
      PROVE  Cardinality(T) <= Cardinality(S) /\ Cardinality(T) \in Nat /\ Cardinality(S) \in Nat
  BY <1>3, NodeSets
<1>4. \A s \in Steppers : Reached(s) \in SUBSET Node /\ Reached(s)' \in SUBSET Node
  BY DEF Reached
<1>5. ASSUME NEW s \in Steppers, Step(s), CutOK(s)' PROVE CutInv'
  <2>1. UNCHANGED partitioned
    BY <1>5 DEF Step, Tick, BeatRole, BeatPart, BeatTerm, PeerPart, PeerBeatAccept, PeerBeatStale, StepDown, ElectCheck, Campaign, CampaignPart, VotePart, VoteRefused, VoteGranted, Tally
  <2>2. \A t \in Steppers \ {s} : /\ pc'[t] = pc[t] /\ cur'[t] = cur[t] /\ peer'[t] = peer[t]
                                  /\ votes'[t] = votes[t] /\ cut'[t] = cut[t]
    <3>1. CASE Tick(s)
      BY <1>1, <3>1 DEF Tick, Goto, NextNode, NextPeer, Return, stepVars, nodeVars, history, LoopType, LocalType, HistoryType
    <3>2. CASE BeatRole(s)
      BY <1>1, <3>2 DEF BeatRole, Goto, NextNode, NextPeer, Return, stepVars, nodeVars, history, LoopType, LocalType, HistoryType
    <3>3. CASE BeatPart(s)
      BY <1>1, <3>3 DEF BeatPart, Goto, NextNode, NextPeer, Return, stepVars, nodeVars, history, LoopType, LocalType, HistoryType
    <3>4. CASE BeatTerm(s)
      BY <1>1, <3>4 DEF BeatTerm, Goto, NextNode, NextPeer, Return, stepVars, nodeVars, history, LoopType, LocalType, HistoryType
    <3>5. CASE PeerPart(s)
      BY <1>1, <3>5 DEF PeerPart, Goto, NextNode, NextPeer, Return, stepVars, nodeVars, history, LoopType, LocalType, HistoryType
    <3>6. CASE PeerBeatAccept(s)
      BY <1>1, <3>6 DEF PeerBeatAccept, Goto, NextNode, NextPeer, Return, stepVars, nodeVars, history, LoopType, LocalType, HistoryType
    <3>7. CASE PeerBeatStale(s)
      BY <1>1, <3>7 DEF PeerBeatStale, Goto, NextNode, NextPeer, Return, stepVars, nodeVars, history, LoopType, LocalType, HistoryType
    <3>8. CASE StepDown(s)
      BY <1>1, <3>8 DEF StepDown, Goto, NextNode, NextPeer, Return, stepVars, nodeVars, history, LoopType, LocalType, HistoryType
    <3>9. CASE ElectCheck(s)
      BY <1>1, <3>9 DEF ElectCheck, Goto, NextNode, NextPeer, Return, stepVars, nodeVars, history, LoopType, LocalType, HistoryType
    <3>10. CASE Campaign(s)
      BY <1>1, <3>10 DEF Campaign, Goto, NextNode, NextPeer, Return, stepVars, nodeVars, history, LoopType, LocalType, HistoryType
    <3>11. CASE CampaignPart(s)
      BY <1>1, <3>11 DEF CampaignPart, Goto, NextNode, NextPeer, Return, stepVars, nodeVars, history, LoopType, LocalType, HistoryType
    <3>12. CASE VotePart(s)
      BY <1>1, <3>12 DEF VotePart, Goto, NextNode, NextPeer, Return, stepVars, nodeVars, history, LoopType, LocalType, HistoryType
    <3>13. CASE VoteRefused(s)
      BY <1>1, <3>13 DEF VoteRefused, Goto, NextNode, NextPeer, Return, stepVars, nodeVars, history, LoopType, LocalType, HistoryType
    <3>14. CASE VoteGranted(s)
      BY <1>1, <3>14 DEF VoteGranted, Goto, NextNode, NextPeer, Return, stepVars, nodeVars, history, LoopType, LocalType, HistoryType
    <3>15. CASE Tally(s)
      BY <1>1, <3>15 DEF Tally, Goto, NextNode, NextPeer, Return, stepVars, nodeVars, history, LoopType, LocalType, HistoryType
    <3> QED BY <1>5, <3>1, <3>2, <3>3, <3>4, <3>5, <3>6, <3>7, <3>8, <3>9, <3>10, <3>11, <3>12, <3>13, <3>14, <3>15 DEF Step
  <2>3. \A t \in Steppers \ {s} : CutOK(t)'
    BY <1>1, <2>1, <2>2, CutUnchanged DEF CutInv
  <2> QED BY <1>5, <2>3 DEF CutInv
<1>6. ASSUME NEW s \in Steppers, Tick(s) PROVE CutOK(s)'
  BY <1>1, <1>6 DEF CutOK, CutInv, Tick, Goto, stepVars, history, LoopType, HistoryType
<1>7. ASSUME NEW s \in Steppers, BeatRole(s) PROVE CutOK(s)'
  BY <1>1, <1>7 DEF CutOK, CutInv, BeatRole, Goto, NextNode, stepVars, history, LoopType, HistoryType
<1>8. ASSUME NEW s \in Steppers, BeatPart(s) PROVE CutOK(s)'
  BY <1>1, <1>8 DEF CutOK, CutInv, BeatPart, Goto, NextNode, stepVars, history, LoopType, HistoryType
<1>9. ASSUME NEW s \in Steppers, BeatTerm(s) PROVE CutOK(s)'
  BY <1>1, <1>9 DEF CutOK, CutInv, BeatTerm, Goto, stepVars, history, LoopType, HistoryType
<1>10. ASSUME NEW s \in Steppers, PeerPart(s) PROVE CutOK(s)'
  BY <1>1, <1>10 DEF CutOK, CutInv, PeerPart, Goto, NextNode, NextPeer, Return, stepVars, history, LoopType, HistoryType
<1>11. ASSUME NEW s \in Steppers, PeerBeatAccept(s) PROVE CutOK(s)'
  BY <1>1, <1>11 DEF CutOK, CutInv, PeerBeatAccept, Goto, NextPeer, stepVars, history, LoopType, HistoryType
<1>12. ASSUME NEW s \in Steppers, PeerBeatStale(s) PROVE CutOK(s)'
  BY <1>1, <1>12 DEF CutOK, CutInv, PeerBeatStale, Goto, stepVars, history, LoopType, HistoryType
<1>13. ASSUME NEW s \in Steppers, StepDown(s) PROVE CutOK(s)'
  BY <1>1, <1>13 DEF CutOK, CutInv, StepDown, Goto, NextPeer, stepVars, history, LoopType, HistoryType
<1>14. ASSUME NEW s \in Steppers, ElectCheck(s) PROVE CutOK(s)'
  BY <1>1, <1>14 DEF CutOK, CutInv, ElectCheck, Goto, NextNode, stepVars, history, LoopType, HistoryType
<1>15. ASSUME NEW s \in Steppers, Campaign(s) PROVE CutOK(s)'
  BY <1>1, <1>15 DEF CutOK, CutInv, Campaign, Goto, stepVars, history, LoopType, HistoryType
<1>16. ASSUME NEW s \in Steppers, Tally(s) PROVE CutOK(s)'
  BY <1>1, <1>16 DEF CutOK, CutInv, Tally, Goto, NextNode, Return, stepVars, history, LoopType, HistoryType
<1>17. ASSUME NEW s \in Steppers, CampaignPart(s) PROVE CutOK(s)'
  <2>1. CASE cur[s] \in partitioned
    BY <1>1, <1>17, <2>1 DEF CutOK, CampaignPart, NextNode, Goto, Return, LoopType, HistoryType
  <2>2. CASE cur[s] \notin partitioned
    <3>1. /\ pc'[s] = "votePart" /\ votes'[s] = 1 /\ UNCHANGED <<cur, cut, partitioned>>
          /\ cur[s] \in Node /\ cut[s] \subseteq partitioned
      BY <1>1, <1>17, <2>2 DEF CampaignPart, Goto, LoopType, LocalType, IndexInv, CutInv, CutOK
    <3>2. {cur[s]} \in SUBSET Reached(s)'
      BY <2>2, <3>1 DEF Reached
    <3>3. Cardinality({cur[s]}) = 1
      BY FS_Singleton, Zenon
    <3>4. 1 <= Cardinality(Reached(s)')
      BY <1>3, <1>4, <3>2, <3>3
    <3> QED BY <2>2, <3>1, <3>4 DEF CutOK
  <2> QED BY <2>1, <2>2
<1>18. ASSUME NEW s \in Steppers, VotePart(s) \/ VoteRefused(s) PROVE CutOK(s)'
  <2>1. /\ pc[s] \in {"votePart", "requestVote"} /\ UNCHANGED <<cur, cut, partitioned, votes>>
        /\ peer'[s] >= peer[s] /\ peer[s] \in Nat /\ peer'[s] \in Nat
        /\ pc'[s] \in {"votePart", "requestVote", "tally"}
        /\ pc'[s] = "requestVote" => peer'[s] \notin partitioned
    BY <1>1, <1>18, NAssumption
    DEF VotePart, VoteRefused, Goto, NextPeer, LoopType, history
  <2>2. Reached(s) \in SUBSET Reached(s)'
    BY <2>1 DEF Reached, Node
  <2>3. Cardinality(Reached(s)) <= Cardinality(Reached(s)') /\ votes[s] \in Nat
        /\ Cardinality(Reached(s)) \in Nat /\ Cardinality(Reached(s)') \in Nat
    BY <1>1, <1>3, <1>4, <2>2 DEF LocalType
  <2>4. CutOK(s)
    BY <1>1 DEF CutInv
  <2> QED BY <2>1, <2>3, <2>4 DEF CutOK
<1>19. ASSUME NEW s \in Steppers, VoteGranted(s) PROVE CutOK(s)'
  <2>1. /\ pc[s] = "requestVote" /\ UNCHANGED <<cur, cut, partitioned>>
        /\ peer'[s] = peer[s] + 1 /\ peer[s] \in Node /\ peer[s] # cur[s]
        /\ votes'[s] = votes[s] + 1 /\ pc'[s] = "votePart"
    BY <1>1, <1>19 DEF VoteGranted, Goto, NextPeer, LoopType, LocalType, IndexInv
  <2>2. CutOK(s)
    BY <1>1 DEF CutInv
  <2>3. Reached(s) \cup {peer[s]} \in SUBSET Reached(s)'
    BY <2>1, <2>2 DEF Reached, CutOK, Node
  <2>4. peer[s] \notin Reached(s) /\ IsFiniteSet(Reached(s))
    BY <1>4, <2>1, NodeSets DEF Reached, Node
  <2>5. Cardinality(Reached(s) \cup {peer[s]}) = Cardinality(Reached(s)) + 1
    BY <2>4, FS_AddElement
  <2>6. /\ Cardinality(Reached(s)) + 1 <= Cardinality(Reached(s)')
        /\ Cardinality(Reached(s)) \in Nat /\ Cardinality(Reached(s)') \in Nat
        /\ votes[s] \in Nat
    BY <1>1, <1>3, <1>4, <2>3, <2>5, NodeSets DEF LocalType
  <2> QED BY <2>1, <2>2, <2>6 DEF CutOK
<1>20. ASSUME NEW ids \in PartitionSets, Partition(ids) PROVE CutInv'
  <2>1. partitioned \subseteq partitioned' /\ UNCHANGED <<pc, cur, peer, votes, cut>>
    BY <1>20 DEF Partition, stepVars
  <2> QED BY <1>1, <2>1, CutUnchanged DEF CutInv
<1>21. ASSUME Heal PROVE CutInv'
  <2> SUFFICES ASSUME NEW s \in Steppers PROVE CutOK(s)'
    BY DEF CutInv
  <2>1. UNCHANGED <<pc, cur, peer, votes>> /\ cut'[s] = {}
    BY <1>21 DEF Heal, stepVars
  <2>2. Reached(s) \in SUBSET Reached(s)'
    BY <2>1 DEF Reached
  <2>3. Cardinality(Reached(s)) <= Cardinality(Reached(s)') /\ votes[s] \in Nat
        /\ Cardinality(Reached(s)) \in Nat /\ Cardinality(Reached(s)') \in Nat
    BY <1>1, <1>3, <1>4, <2>2 DEF LocalType
  <2>4. CutOK(s)
    BY <1>1 DEF CutInv
  <2> QED BY <2>1, <2>3, <2>4 DEF CutOK
<1>22. ASSUME UNCHANGED vars PROVE CutInv'
  BY <1>1, <1>22, CutUnchanged DEF CutInv, vars, stepVars, history
<1>23. ASSUME NEW s \in Steppers, Step(s) PROVE CutInv'
  <2>1. CutOK(s)'
    BY <1>23, <1>6, <1>7, <1>8, <1>9, <1>10, <1>11, <1>12, <1>13, <1>14, <1>15, <1>16, <1>17, <1>18, <1>19 DEF Step
  <2> QED BY <1>5, <1>23, <2>1
<1> QED BY <1>20, <1>21, <1>22, <1>23 DEF Next

\* What MinorityElectsNoLeader asks of a step, for one Step call.
WonFairly(s) ==
    pc[s] = "tally" /\ pc'[s] # "tally" /\ Wins(s) =>
        cur[s] \notin cut[s] /\ Cardinality(Node \ cut[s]) >= majority

\* raft_test.go:84: no node wins that was cut off during its whole campaign or that
\* had a majority of the cluster cut off from it, for every cluster size, any number
\* of goroutines inside Step and any sequence of partitions.
THEOREM MinorityNeverWins == Spec => MinorityElectsNoLeader
<1>1. Init => CutInv
  BY DEF Init, CutInv, CutOK
<1>2. Inv /\ CutInv /\ [Next]_vars => CutInv'
  BY CutStep
<1>3. ASSUME Inv, CutInv, NEW s \in Steppers PROVE WonFairly(s)
  <2> SUFFICES ASSUME pc[s] = "tally", Wins(s)
               PROVE  cur[s] \notin cut[s] /\ Cardinality(Node \ cut[s]) >= majority
    BY DEF WonFairly
  <2>1. cur[s] \notin cut[s] /\ votes[s] <= Cardinality(Reached(s)) /\ votes[s] \in Nat
    BY <1>3 DEF CutInv, CutOK, Inv, TypeOK, LocalType
  <2>2. Reached(s) \in SUBSET (Node \ cut[s]) /\ Node \ cut[s] \in SUBSET Node
        /\ Reached(s) \in SUBSET Node
    BY DEF Reached
  <2>3. /\ Cardinality(Reached(s)) <= Cardinality(Node \ cut[s])
        /\ Cardinality(Reached(s)) \in Nat /\ Cardinality(Node \ cut[s]) \in Nat
        /\ majority \in Nat
    BY <2>2, NodeSets
  <2>4. votes[s] >= majority
    BY DEF Wins
  <2> QED BY <2>1, <2>3, <2>4
<1>4. Inv /\ CutInv /\ [Next]_vars =>
        [\A s \in Steppers :
          LET n == cur[s] IN
          pc[s] = "tally" /\ pc'[s] # "tally" /\ Wins(s) =>
             n \notin cut[s] /\ Cardinality(Node \ cut[s]) >= majority]_vars
  BY <1>3 DEF WonFairly
<1> QED BY <1>1, <1>2, <1>4, Invariance, PTL DEF Spec, MinorityElectsNoLeader
=============================================================================
