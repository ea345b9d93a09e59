---------------------------- MODULE RaftTheorems ---------------------------
(***************************************************************************)
(* Votes are stable, a term has one leader and, before the first           *)
(* compaction, logs match: for every group of coordinators, every bound,   *)
(* every order of delivery, every loss and every crash.                    *)
(***************************************************************************)
EXTENDS RaftNodeProofs, RaftSafetyProofs, FiniteSetTheorems

\* Two sets of voters of Majority nodes each share one: what makes the
\* division in FinishElection's quorum right for even and odd groups alike.
LEMMA MajoritiesMeet == QuorumsMeet
<1> SUFFICES ASSUME NEW P \in SUBSET Node, NEW Q \in SUBSET Node,
                    Cardinality(P) >= Majority, Cardinality(Q) >= Majority,
                    P \cap Q = {}
             PROVE  FALSE
  BY DEF QuorumsMeet
<1>1. IsFiniteSet(P) /\ IsFiniteSet(Q) /\ IsFiniteSet(Node)
  BY FS_Subset, NodeAssumption
<1>2. IsFiniteSet(P \cup Q)
      /\ Cardinality(P \cup Q) = Cardinality(P) + Cardinality(Q) - Cardinality({})
  BY <1>1, FS_Union
<1>3. Cardinality(P \cup Q) <= Cardinality(Node)
  BY <1>1, FS_Subset
<1>4. Cardinality({}) = 0 /\ Cardinality(Node) \in Nat /\ Cardinality(P) \in Nat
      /\ Cardinality(Q) \in Nat
  BY <1>1, FS_EmptySet, FS_CardinalityType
<1> QED BY <1>2, <1>3, <1>4 DEF Majority

\* current_term_ and voted_for_ change only as VotesAreStable allows, whatever
\* the handlers, the ticker and the crashes do.
THEOREM StableVotes == Spec => VotesAreStable
<1>1. TypeOK /\ [Next]_vars => [VoteStep]_vars
  BY StepVotes
<1>2. [][VoteStep]_vars <=> VotesAreStable
  BY DEF VoteStep, VotesAreStable
<1> QED BY <1>1, <1>2, TypeCorrect, PTL DEF Spec

\* At most one leader per term, for every number of coordinators.
THEOREM OneLeaderPerTerm == Spec => []ElectionSafety
<1>1. TypeOK /\ TypeOK' /\ ElectionInv /\ [Next]_vars => ElectionInv'
  BY ElectionStep
<1>2. TypeOK /\ ElectionInv => ElectionSafety
  BY OneLeader, MajoritiesMeet
<1> QED BY <1>1, <1>2, ElectionInit, TypeCorrect, PTL DEF Spec

\* Until a coordinator first compacts its log or installs a snapshot, two logs
\* that hold an entry of the same term at the same index are identical up to
\* it, also when a stale AppendEntries has cut one of them back.
THEOREM LogsMatch == Spec => [](NoneCompacted => LogMatching)
<1> DEFINE Inv == ElectionInv /\ (NoneCompacted => MatchingInv)
<1>1. Init => Inv
  BY ElectionInit, MatchingInit
<1>2. TypeOK /\ TypeOK' /\ Inv /\ [Next]_vars => Inv'
  <2> SUFFICES ASSUME TypeOK, TypeOK', Inv, [Next]_vars PROVE Inv'
    OBVIOUS
  <2>1. ElectionInv /\ ElectionInv'
    BY Zenon, ElectionStep
  <2>2. ASSUME NoneCompacted' PROVE MatchingInv'
    <3>1. NoneCompacted
      BY Zenon, <2>2, NoneBefore
    <3> QED BY Zenon, <2>1, <2>2, <3>1, MajoritiesMeet, MatchingStep
  <2> QED BY Zenon, <2>1, <2>2
<1>3. TypeOK /\ Inv => (NoneCompacted => LogMatching)
  BY Zenon, MatchingLogs
<1> HIDE DEF Inv
<1> QED BY <1>1, <1>2, <1>3, TypeCorrect, PTL DEF Spec
============================================================================
