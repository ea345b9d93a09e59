------------------------- MODULE RaftSafetyProofs --------------------------
(***************************************************************************)
(* Terms, votes, elections and logs of RaftNode: what every step keeps,    *)
(* provided the types hold and two majorities share a node.                *)
(***************************************************************************)
EXTENDS RaftNode, RaftHistories, TLAPS

USE SMTT(30)
----------------------------------------------------------------------------
(* Terms and votes *)

\* The types that the lemmas on terms and votes need.
Voters == /\ current_term \in [Node -> Nat]
          /\ voted_for \in [Node -> Node \cup {None}]
          /\ role \in [Node -> {"Follower", "Candidate", "Leader"}]
          /\ electing \in [Node -> Nat]
          /\ votes \in [Node -> SUBSET Node]

LEMMA VoterTypes == TypeOK => Voters
BY DEF TypeOK, Voters

LEMMA VoterTypesNext == TypeOK' => Voters'
BY DEF TypeOK, Voters

LEMMA CallFields ==
  ASSUME TypeOK, NEW m \in rpcs
  PROVE  m.src \in Node /\ m.dest \in Node /\ m.term \in Nat
<1>1. IsMessage(m)
  BY DEF TypeOK
<1> QED BY <1>1 DEF IsMessage, RequestVoteCalls, VoteReplies, Senders, AppendEntriesCalls,
                    AppendReplies, InstallSnapshotCalls, SnapshotReplies

\* A call whose caller dies is otherwise the same.
LEMMA OrphanFields ==
  ASSUME TypeOK, NEW n \in rpcs, n.type \in {"AppendEntries", "InstallSnapshot"},
         NEW m, m = [n EXCEPT !.live = FALSE]
  PROVE  /\ m.type = n.type /\ m.term = n.term
         /\ n.type = "AppendEntries" =>
              /\ m.prev_log_index = n.prev_log_index /\ m.prev_log_term = n.prev_log_term
              /\ m.entries = n.entries
<1>1. n \in AppendEntriesCalls \/ (n.type # "AppendEntries" /\ n \in InstallSnapshotCalls({n.data}))
  BY DEF TypeOK, IsMessage, RequestVoteCalls, VoteReplies, Senders, AppendReplies,
         SnapshotReplies, InstallSnapshotCalls
<1> QED BY <1>1 DEF AppendEntriesCalls, InstallSnapshotCalls

\* A step that leaves the persistent state and the roles alone.
LEMMA QuietStep ==
  ASSUME TypeOK, UNCHANGED <<current_term, voted_for, role>>
  PROVE  VoteStep /\ LeaderStep /\ CandidateStep
BY VoterTypes DEF Voters, VoteStep, LeaderStep, CandidateStep

\* become_follower_locked with a later term.
LEMMA FollowerStep ==
  ASSUME TypeOK, NEW i \in Node, NEW term \in Nat, term > current_term[i],
         current_term' = [current_term EXCEPT ![i] = term],
         voted_for' = [voted_for EXCEPT ![i] = None],
         role' = [role EXCEPT ![i] = "Follower"]
  PROVE  VoteStep /\ LeaderStep /\ CandidateStep
BY VoterTypes DEF Voters, VoteStep, LeaderStep, CandidateStep

\* The common beginning of the three handlers, followed by at most one vote.
LEMMA AdoptStep ==
  ASSUME TypeOK, NEW j \in Node, NEW term \in Nat, NEW vote, NEW r,
         current_term' = [current_term EXCEPT ![j] = AdoptedTerm(j, term)],
         voted_for' = [voted_for EXCEPT ![j] = vote],
         AdoptedVote(j, term) \in {None, vote},
         role' = [role EXCEPT ![j] = r],
         r # "Follower" => role[j] = r /\ term <= current_term[j]
  PROVE  VoteStep /\ LeaderStep /\ CandidateStep
<1>1. AdoptedTerm(j, term) >= current_term[j]
      /\ (AdoptedTerm(j, term) = current_term[j] => AdoptedVote(j, term) = voted_for[j])
  BY VoterTypes DEF AdoptedTerm, AdoptedVote, Voters
<1>2. VoteStep
  BY <1>1, VoterTypes DEF VoteStep, Voters
<1>3. LeaderStep
  BY VoterTypes DEF LeaderStep, AdoptedTerm, Voters
<1>4. CandidateStep
  BY VoterTypes DEF CandidateStep, AdoptedTerm, Voters
<1> QED BY <1>2, <1>3, <1>4

LEMMA RequestVoteStep ==
  ASSUME TypeOK, NEW m \in rpcs, handle_request_vote(m)
  PROVE  VoteStep /\ LeaderStep /\ CandidateStep
<1> DEFINE j == m.dest
           r == IF m.term > current_term[j] THEN "Follower" ELSE role[j]
<1>1. j \in Node /\ m.term \in Nat
  BY Zenon, CallFields
<1>2. PICK vote : /\ voted_for' = [voted_for EXCEPT ![j] = vote]
                  /\ AdoptedVote(j, m.term) \in {None, vote}
  <2>1. CASE voted_for' = [voted_for EXCEPT ![j] = m.src]
             /\ AdoptedVote(j, m.term) \in {None, m.src}
    BY Zenon, <2>1
  <2>2. CASE voted_for' = [voted_for EXCEPT ![j] = AdoptedVote(j, m.term)]
    BY Zenon, <2>2
  <2> QED BY Zenon, <2>1, <2>2 DEF handle_request_vote
<1>3. current_term' = [current_term EXCEPT ![j] = AdoptedTerm(j, m.term)]
  BY DEF handle_request_vote
<1>4. role' = [role EXCEPT ![j] = r]
  BY Zenon DEF handle_request_vote
<1>5. r # "Follower" => role[j] = r /\ m.term <= current_term[j]
  BY <1>1, VoterTypes DEF Voters
<1> HIDE DEF r
<1> QED BY Zenon, <1>1, <1>2, <1>3, <1>4, <1>5, AdoptStep

\* handle_append_entries and handle_install_snapshot.
LEMMA FromLeaderStep ==
  ASSUME TypeOK, NEW m \in rpcs,
         handle_append_entries(m) \/ handle_install_snapshot(m)
  PROVE  VoteStep /\ LeaderStep /\ CandidateStep
<1> DEFINE j == m.dest
           r == IF m.term = AdoptedTerm(j, m.term) THEN "Follower" ELSE role[j]
<1>1. j \in Node /\ m.term \in Nat
  BY Zenon, CallFields
<1>2. /\ current_term' = [current_term EXCEPT ![j] = AdoptedTerm(j, m.term)]
      /\ voted_for' = [voted_for EXCEPT ![j] = AdoptedVote(j, m.term)]
      /\ role' = [role EXCEPT ![j] = r]
  BY Zenon DEF handle_append_entries, handle_install_snapshot
<1>3. r # "Follower" => role[j] = r /\ m.term <= current_term[j]
  BY <1>1, VoterTypes DEF AdoptedTerm, Voters
<1> HIDE DEF r
<1> QED BY Zenon, <1>1, <1>2, <1>3, AdoptStep

\* ReceiveVote, ReceiveAppendReply and ReceiveSnapshotReply.
LEMMA ReplyStep ==
  ASSUME TypeOK, NEW m \in rpcs,
         ReceiveVote(m) \/ ReceiveAppendReply(m) \/ ReceiveSnapshotReply(m)
  PROVE  VoteStep /\ LeaderStep /\ CandidateStep
<1>1. m.dest \in Node /\ m.term \in Nat
  BY Zenon, CallFields
<1>2. \/ m.term > current_term[m.dest] /\ BecomeFollower(m.dest, m.term)
      \/ UNCHANGED <<current_term, voted_for, role>>
  BY DEF ReceiveVote, ReceiveAppendReply, ReceiveSnapshotReply
<1> QED BY <1>1, <1>2, QuietStep, FollowerStep DEF BecomeFollower

\* Restarts write at most a later term.
LEMMA CrashStep ==
  ASSUME TypeOK, \/ \E i \in Node : Crash(i)
                 \/ \E m \in rpcs : CrashInHandler(m)
  PROVE  VoteStep /\ LeaderStep /\ CandidateStep
<1>1. ASSUME NEW i \in Node, Crash(i)
      PROVE  VoteStep /\ LeaderStep /\ CandidateStep
  <2>1. UNCHANGED <<current_term, voted_for>> /\ role' = [role EXCEPT ![i] = "Follower"]
    BY Zenon, <1>1 DEF Crash, Restarted, diskVars
  <2> QED BY <2>1, VoterTypes DEF VoteStep, LeaderStep, CandidateStep, Voters
<1>2. ASSUME NEW m \in rpcs, CrashInHandler(m)
      PROVE  VoteStep /\ LeaderStep /\ CandidateStep
  <2>1. m.dest \in Node /\ m.term \in Nat
    BY Zenon, CallFields
  <2> QED BY Zenon, <1>2, <2>1, FollowerStep DEF CrashInHandler, Restarted
<1> QED BY <1>1, <1>2

\* Every step keeps the votes, and only FinishElection makes a leader.
LEMMA StepVotes ==
  ASSUME TypeOK, [Next]_vars
  PROVE  /\ VoteStep /\ CandidateStep
         /\ LeaderStep \/ \E i \in Node : FinishElection(i)
<1> USE DEF diskVars
<1>1. CASE UNCHANGED vars
  BY <1>1, QuietStep DEF vars
<1>2. CASE Elections
  <2>1. ASSUME NEW i \in Node, StartElection(i)
        PROVE  VoteStep /\ LeaderStep /\ CandidateStep
    <3>1. /\ current_term' = [current_term EXCEPT ![i] = current_term[i] + 1]
          /\ voted_for' = [voted_for EXCEPT ![i] = i]
          /\ role' = [role EXCEPT ![i] = "Candidate"]
      BY Zenon, <2>1 DEF StartElection
    <3> QED BY <3>1, VoterTypes DEF VoteStep, LeaderStep, CandidateStep, Voters
  <2>2. ASSUME NEW i \in Node, FinishElection(i)
        PROVE  VoteStep /\ CandidateStep
    <3>1. /\ UNCHANGED <<current_term, voted_for>>
          /\ role' = role \/ role' = [role EXCEPT ![i] = "Leader"]
      BY Zenon, <2>2 DEF FinishElection
    <3> QED BY <3>1, VoterTypes DEF VoteStep, CandidateStep, Voters
  <2> QED BY <1>2, <2>1, <2>2, RequestVoteStep, ReplyStep DEF Elections
<1>3. CASE Replication
  <2>1. ASSUME \/ \E i \in Node, c \in Command \cup {NoCommand} : Propose(i, c)
               \/ \E i \in Node : \E j \in Peers(i) : ReplicateToFollower(i, j)
               \/ \E m \in rpcs : SendInstallSnapshot(m) \/ SendAppendEntries(m)
        PROVE  UNCHANGED <<current_term, voted_for, role>>
    BY Zenon, <2>1 DEF Propose, ReplicateToFollower, SendInstallSnapshot, SendAppendEntries, Send
  <2> QED BY <1>3, <2>1, QuietStep, FromLeaderStep, ReplyStep DEF Replication
<1>4. CASE Snapshots
  <2>1. ASSUME NEW i \in Node, NEW index \in 1..MaxIndex, CompactLog(i, index)
        PROVE  UNCHANGED <<current_term, voted_for, role>>
    BY <2>1 DEF CompactLog
  <2> QED BY <1>4, <2>1, QuietStep, FromLeaderStep, ReplyStep DEF Snapshots
<1>5. CASE Failures
  <2>1. ASSUME NEW m \in rpcs, Lose(m)
        PROVE  UNCHANGED <<current_term, voted_for, role>>
    BY <2>1 DEF Lose
  <2> QED BY <1>5, <2>1, QuietStep, CrashStep DEF Failures
<1> QED BY <1>1, <1>2, <1>3, <1>4, <1>5 DEF Next
----------------------------------------------------------------------------
(* The election invariant *)

\* A vote that stands keeps standing.
LEMMA StandingVotes ==
  ASSUME TypeOK, VoteStep, TypeOK',
         NEW j \in Node, NEW i \in Node, NEW t \in Nat, VoteStands(j, t, i)
  PROVE  VoteStands(j, t, i)'
<1>1. current_term[j] \in Nat /\ current_term'[j] \in Nat
  BY VoterTypes, VoterTypesNext DEF Voters
<1>2. current_term'[j] >= current_term[j]
      /\ (current_term'[j] = current_term[j] /\ voted_for[j] # None
            => voted_for'[j] = voted_for[j])
  BY DEF VoteStep
<1>3. i # None
  BY NodeAssumption
<1>4. CASE current_term[j] > t
  BY <1>1, <1>2, <1>4 DEF VoteStands
<1>5. CASE current_term[j] = t /\ voted_for[j] = i
  BY <1>1, <1>2, <1>3, <1>5 DEF VoteStands
<1> QED BY <1>4, <1>5 DEF VoteStands

\* Votes stay standing and unique if those that count are old or fresh.
LEMMA CountsKept ==
  ASSUME TypeOK, TypeOK', VoteStep, StandingInv, UniqueInv, CountsStep
  PROVE  StandingInv' /\ UniqueInv'
<1> USE DEF CountsStep
<1>1. ASSUME NEW i \in Node, NEW j \in Node, NEW t \in Nat, Counts(j, i, t)'
      PROVE  VoteStands(j, t, i)'
  <2>1. CASE Counts(j, i, t)
    BY <2>1, StandingVotes DEF StandingInv
  <2>2. CASE Fresh(j, i, t)
    BY <2>2 DEF Fresh, VoteStands
  <2> QED BY <1>1, <2>1, <2>2
<1>2. ASSUME NEW i \in Node, NEW k \in Node, NEW j \in Node, NEW t \in Nat,
             Counts(j, i, t)', Counts(j, k, t)'
      PROVE  i = k
  <2>1. Counts(j, i, t) => VoteStands(j, t, i)
    BY DEF StandingInv
  <2>2. Counts(j, k, t) => VoteStands(j, t, k)
    BY DEF StandingInv
  <2>3. Counts(j, i, t) /\ Counts(j, k, t) => i = k
    BY DEF UniqueInv
  <2>4. Counts(j, i, t) \/ Fresh(j, i, t)
    BY <1>2
  <2>5. Counts(j, k, t) \/ Fresh(j, k, t)
    BY <1>2
  <2> QED BY <2>1, <2>2, <2>3, <2>4, <2>5 DEF Fresh
<1>3. StandingInv'
  BY <1>1 DEF StandingInv
<1>4. UniqueInv'
  BY <1>2 DEF UniqueInv
<1> QED BY <1>3, <1>4

\* A step that makes no leader, asks for no vote and gives none.
LEMMA OtherSteps ==
  ASSUME TypeOK, TypeOK', ElectionInv, VoteStep, LeaderStep,
         \A i \in Node : \/ electing'[i] = electing[i] /\ votes'[i] = votes[i]
                         \/ electing'[i] = 0 /\ role'[i] # "Leader",
         \A m \in rpcs' : m.type = "RequestVote" => m \in rpcs,
         \A m \in rpcs' : m.type = "VoteReply" =>
                            m \in rpcs /\ electing'[m.dest] = electing[m.dest]
  PROVE  ElectionInv' /\ CountsStep
<1>1. RequestsInv' /\ RepliesInv'
  BY DEF ElectionInv, RequestsInv, RepliesInv
<1>2. LeadersInv'
  BY DEF ElectionInv, LeadersInv, LeaderStep, Majority
<1>3. ASSUME NEW i \in Node, NEW j \in Node, NEW t \in Nat, Counts(j, i, t)'
      PROVE  Counts(j, i, t)
  <2>1. CASE Granted(j, i, t)'
    BY <2>1 DEF Granted, Counts
  <2>2. CASE Campaigns(i, t)' /\ j \in votes'[i]
    BY <2>2 DEF Campaigns, Leads, Counts, LeaderStep
  <2> QED BY <1>3, <2>1, <2>2 DEF Counts
<1>4. CountsStep
  BY <1>3 DEF CountsStep
<1> QED BY <1>1, <1>2, <1>4, CountsKept DEF ElectionInv

LEMMA StartElectionInv ==
  ASSUME TypeOK, TypeOK', ElectionInv, NEW c \in Node, StartElection(c)
  PROVE  ElectionInv' /\ CountsStep
<1> DEFINE new == current_term[c] + 1
<1>1. /\ current_term' = [current_term EXCEPT ![c] = new]
      /\ voted_for' = [voted_for EXCEPT ![c] = c]
      /\ role' = [role EXCEPT ![c] = "Candidate"]
      /\ electing' = [electing EXCEPT ![c] = new]
      /\ votes' = [votes EXCEPT ![c] = {c}]
      /\ electing[c] = 0
  BY Zenon DEF StartElection
<1>2. \A m \in rpcs' : \/ m \in rpcs
                       \/ m.type = "RequestVote" /\ m.term = new
  BY DEF StartElection
<1>3. new \in Nat /\ new > 0
  BY VoterTypes DEF Voters
<1>4. VoteStep /\ LeaderStep
  BY <1>1, <1>3, VoterTypes DEF VoteStep, LeaderStep, Voters
<1> HIDE DEF new
<1>5. RequestsInv'
  BY <1>2, <1>3 DEF ElectionInv, RequestsInv
<1>6. RepliesInv'
  <2> SUFFICES ASSUME NEW m \in rpcs', m.type = "VoteReply"
               PROVE  electing'[m.dest] > 0 /\ m.election_term = electing'[m.dest]
    BY DEF RepliesInv
  <2>1. m \in rpcs
    BY <1>2
  <2>2. m.dest \in Node
    BY Zenon, <2>1, CallFields
  <2>3. electing[m.dest] > 0 /\ m.election_term = electing[m.dest]
    BY <2>1 DEF ElectionInv, RepliesInv
  <2>4. m.dest # c
    BY <2>3, <1>1
  <2> QED BY Zenon, <2>2, <2>3, <2>4, <1>1, VoterTypes DEF Voters
<1>7. LeadersInv'
  BY Zenon, <1>1, VoterTypes DEF ElectionInv, LeadersInv, Voters, Majority
<1>8. ASSUME NEW i \in Node, NEW j \in Node, NEW t \in Nat, Counts(j, i, t)'
      PROVE  Counts(j, i, t) \/ Fresh(j, i, t)
  <2>1. CASE Granted(j, i, t)'
    BY <2>1, <1>2 DEF Granted, Counts
  <2>2. CASE i # c /\ Campaigns(i, t)' /\ j \in votes'[i]
    <3>1. /\ DOMAIN current_term = Node /\ DOMAIN role = Node
          /\ DOMAIN electing = Node /\ DOMAIN votes = Node
      BY VoterTypes DEF Voters
    <3>2. /\ current_term'[i] = current_term[i] /\ role'[i] = role[i]
          /\ electing'[i] = electing[i] /\ votes'[i] = votes[i]
      BY <2>2, <3>1, <1>1
    <3> QED BY Zenon, <2>2, <3>2 DEF Campaigns, Leads, Counts
  <2>3. CASE i = c /\ Campaigns(i, t)' /\ j \in votes'[i]
    <3>1. j = c
      BY <2>3, <1>1, VoterTypes DEF Voters
    <3>2. t = new
      BY Zenon, <2>3, <1>1, VoterTypes DEF Voters, Campaigns, Leads
    <3>3. \A k \in Node : ~VoteStands(c, new, k)
      BY VoterTypes DEF VoteStands, new, Voters
    <3> QED BY <2>3, <3>1, <3>2, <3>3, <1>1, VoterTypes DEF Fresh, Voters
  <2> QED BY Zenon, <1>8, <2>1, <2>2, <2>3 DEF Counts
<1>9. CountsStep
  BY Zenon, <1>8 DEF CountsStep
<1> QED BY <1>4, <1>5, <1>6, <1>7, <1>9, CountsKept DEF ElectionInv

LEMMA RequestVoteInv ==
  ASSUME TypeOK, TypeOK', ElectionInv, NEW m \in rpcs, handle_request_vote(m)
  PROVE  ElectionInv' /\ CountsStep
<1> DEFINE v == m.dest
           granted == /\ m.term = AdoptedTerm(v, m.term)
                      /\ AdoptedVote(v, m.term) \in {None, m.src}
                      /\ LogUpToDate(m, log[v])
<1>1. v \in Node /\ m.src \in Node /\ m.term \in Nat
  BY Zenon, CallFields
<1>2. VoteStep /\ LeaderStep
  BY RequestVoteStep
<1>3. UNCHANGED <<electing, votes>> /\ m.type = "RequestVote"
  BY Zenon DEF handle_request_vote, electionVars
<1>4. \A n \in rpcs' : \/ n \in rpcs
                       \/ /\ n.type = "VoteReply" /\ n.src = v /\ n.dest = m.src
                          /\ n.election_term = m.term /\ n.vote_granted = granted
                          /\ electing[m.src] = m.term
  <2> DEFINE reply == [type |-> "VoteReply", src |-> v, dest |-> m.src,
                       election_term |-> m.term, term |-> AdoptedTerm(v, m.term),
                       vote_granted |-> granted]
  <2>1. Answer(m, reply, electing[m.src] = m.term)
    BY Zenon DEF handle_request_vote
  <2>2. /\ reply.type = "VoteReply" /\ reply.src = v /\ reply.dest = m.src
        /\ reply.election_term = m.term /\ reply.vote_granted = granted
    BY Zenon
  <2> HIDE DEF reply
  <2> QED BY Zenon, <2>1, <2>2 DEF Answer
<1>5. granted => /\ current_term'[v] = m.term /\ voted_for'[v] = m.src
                 /\ \A k \in Node : VoteStands(v, m.term, k) => k = m.src
  <2> SUFFICES ASSUME granted
               PROVE  /\ current_term'[v] = m.term /\ voted_for'[v] = m.src
                      /\ \A k \in Node : VoteStands(v, m.term, k) => k = m.src
    OBVIOUS
  <2>1. /\ current_term' = [current_term EXCEPT ![v] = m.term]
        /\ voted_for' = [voted_for EXCEPT ![v] = m.src]
    BY Zenon DEF handle_request_vote
  <2>2. /\ m.term = AdoptedTerm(v, m.term)
        /\ AdoptedVote(v, m.term) \in {None, m.src}
    OBVIOUS
  <2>3. current_term[v] \in Nat /\ DOMAIN current_term = Node /\ DOMAIN voted_for = Node
    BY <1>1, VoterTypes DEF Voters
  <2> HIDE DEF v, granted
  <2>4. ASSUME NEW k \in Node, VoteStands(v, m.term, k)
        PROVE  k = m.src
    <3>1. current_term[v] <= m.term
      <4>1. m.term \in Nat
        BY <1>1
      <4>2. m.term = IF m.term > current_term[v] THEN m.term ELSE current_term[v]
        BY <2>2 DEF AdoptedTerm
      <4> QED BY <4>1, <4>2, <2>3
    <3>2. current_term[v] = m.term /\ voted_for[v] = k
      BY <1>1, <2>3, <2>4, <3>1 DEF VoteStands
    <3>3. voted_for[v] \in {None, m.src}
      BY <1>1, <2>2, <2>3, <3>2 DEF AdoptedVote
    <3> QED BY <3>2, <3>3, NodeAssumption
  <2> QED BY <1>1, <2>1, <2>3, <2>4
<1>6. m.term > 0
  BY <1>3 DEF ElectionInv, RequestsInv
<1> HIDE DEF granted
<1>7. RequestsInv'
  BY <1>4 DEF ElectionInv, RequestsInv
<1>8. RepliesInv'
  BY <1>3, <1>4, <1>6 DEF ElectionInv, RepliesInv
<1>9. LeadersInv'
  BY <1>2, <1>3 DEF ElectionInv, LeadersInv, LeaderStep, Majority
<1>10. ASSUME NEW i \in Node, NEW j \in Node, NEW t \in Nat, Counts(j, i, t)'
      PROVE  Counts(j, i, t) \/ Fresh(j, i, t)
  <2>1. CASE Granted(j, i, t)'
    <3>1. PICK n \in rpcs' : /\ n.type = "VoteReply" /\ n.src = j /\ n.dest = i
                             /\ n.election_term = t /\ n.vote_granted
      BY <2>1 DEF Granted
    <3>2. CASE n \in rpcs
      BY <3>1, <3>2 DEF Granted, Counts
    <3>3. CASE n \notin rpcs
      <4>1. granted /\ j = v /\ i = m.src /\ t = m.term
        BY <3>1, <3>3, <1>4
      <4> QED BY <4>1, <1>5 DEF Fresh
    <3> QED BY <3>2, <3>3
  <2>2. CASE Campaigns(i, t)' /\ j \in votes'[i]
    BY <2>2, <1>2, <1>3 DEF Campaigns, Leads, Counts, LeaderStep
  <2> QED BY <1>10, <2>1, <2>2 DEF Counts
<1>11. CountsStep
  BY Zenon, <1>10 DEF CountsStep
<1> QED BY <1>2, <1>7, <1>8, <1>9, <1>11, CountsKept DEF ElectionInv

LEMMA ReceiveVoteInv ==
  ASSUME TypeOK, TypeOK', ElectionInv, NEW m \in rpcs, ReceiveVote(m)
  PROVE  ElectionInv' /\ CountsStep
<1> DEFINE c == m.dest
<1>1. c \in Node /\ m.src \in Node
  BY Zenon, CallFields
<1>2. VoteStep /\ LeaderStep
  BY ReplyStep
<1>3. electing' = electing /\ rpcs' = rpcs \ {m} /\ m.type = "VoteReply"
  BY Zenon DEF ReceiveVote
<1>4. \/ votes' = votes
      \/ votes' = [votes EXCEPT ![c] = @ \cup {m.src}] /\ m.vote_granted
  BY ZenonT(30), VoterTypes DEF ReceiveVote, Voters
<1>5. electing[c] > 0 /\ m.election_term = electing[c]
  BY <1>3 DEF ElectionInv, RepliesInv
<1>6. CASE votes' = votes
  BY <1>2, <1>3, <1>6, OtherSteps
<1>7. CASE votes' = [votes EXCEPT ![c] = @ \cup {m.src}] /\ m.vote_granted
  <2>1. RequestsInv' /\ RepliesInv'
    BY <1>3 DEF ElectionInv, RequestsInv, RepliesInv
  <2>2. role[c] # "Leader"
    BY <1>1, <1>5 DEF ElectionInv, LeadersInv
  <2>3. LeadersInv'
    <3>1. DOMAIN votes = Node
      BY VoterTypes DEF Voters
    <3>2. \A i \in Node : i # c => votes'[i] = votes[i]
      BY <1>7, <3>1
    <3>3. \A i \in Node : role'[i] = "Leader" => role[i] = "Leader" /\ i # c
      BY <1>2, <2>2 DEF LeaderStep
    <3> QED BY <1>2, <1>3, <3>2, <3>3 DEF ElectionInv, LeadersInv, LeaderStep, Majority
  <2>4. ASSUME NEW i \in Node, NEW j \in Node, NEW t \in Nat, Counts(j, i, t)'
        PROVE  Counts(j, i, t)
    <3>1. CASE Granted(j, i, t)'
      BY <3>1, <1>3 DEF Granted, Counts
    <3>2. CASE Campaigns(i, t)' /\ j \in votes'[i]
      <4>1. Campaigns(i, t)
        BY <3>2, <1>2, <1>3 DEF Campaigns, Leads, LeaderStep
      <4>2. CASE j \in votes[i]
        BY <4>1, <4>2 DEF Counts
      <4>3. CASE j \notin votes[i]
        <5>1. i = c /\ j = m.src
          BY Zenon, <3>2, <4>3, <1>7, VoterTypes DEF Voters
        <5>2. t = m.election_term
          BY <4>1, <5>1, <2>2, <1>5 DEF Campaigns, Leads
        <5> QED BY <5>1, <5>2, <1>3, <1>7 DEF Granted, Counts
      <4> QED BY <4>2, <4>3
    <3> QED BY <2>4, <3>1, <3>2 DEF Counts
  <2>5. CountsStep
    BY <2>4 DEF CountsStep
  <2> QED BY <1>2, <2>1, <2>3, <2>5, CountsKept DEF ElectionInv
<1> QED BY <1>4, <1>6, <1>7

LEMMA FinishElectionInv ==
  ASSUME TypeOK, TypeOK', ElectionInv, NEW c \in Node, FinishElection(c)
  PROVE  ElectionInv' /\ CountsStep
<1>1. /\ electing' = [electing EXCEPT ![c] = 0]
      /\ UNCHANGED <<current_term, voted_for, votes>>
      /\ electing[c] # 0
  BY DEF FinishElection, diskVars
<1>2. \A m \in rpcs' : m \in rpcs /\ ~(m.type = "VoteReply" /\ m.dest = c)
  BY Zenon DEF FinishElection
<1>3. \/ /\ role' = [role EXCEPT ![c] = "Leader"]
         /\ current_term[c] = electing[c] /\ Cardinality(votes[c]) >= Majority
      \/ role' = role
  BY DEF FinishElection
<1>4. VoteStep
  BY <1>1, VoterTypes DEF VoteStep, Voters
<1>5. RequestsInv'
  BY <1>2 DEF ElectionInv, RequestsInv
<1>6. RepliesInv'
  <2> SUFFICES ASSUME NEW m \in rpcs', m.type = "VoteReply"
               PROVE  electing'[m.dest] > 0 /\ m.election_term = electing'[m.dest]
    BY DEF RepliesInv
  <2>1. m \in rpcs /\ m.dest # c
    BY <1>2
  <2>2. m.dest \in Node
    BY Zenon, <2>1, CallFields
  <2>3. electing[m.dest] > 0 /\ m.election_term = electing[m.dest]
    BY <2>1 DEF ElectionInv, RepliesInv
  <2> QED BY Zenon, <2>1, <2>2, <2>3, <1>1, VoterTypes DEF Voters
<1>7. LeadersInv'
  <2> SUFFICES ASSUME NEW i \in Node, role'[i] = "Leader"
               PROVE  /\ current_term'[i] > 0 /\ electing'[i] = 0
                      /\ Cardinality(votes'[i]) >= Majority
    BY DEF LeadersInv, Majority
  <2>1. CASE i = c /\ role' # role
    BY <2>1, <1>1, <1>3, VoterTypes DEF Voters
  <2>2. CASE role[i] = "Leader"
    BY <2>2, <1>1, VoterTypes DEF ElectionInv, LeadersInv, Voters
  <2> QED BY Zenon, <2>1, <2>2, <1>3, VoterTypes DEF Voters
<1>8. ASSUME NEW i \in Node, NEW j \in Node, NEW t \in Nat, Counts(j, i, t)'
      PROVE  Counts(j, i, t)
  <2>1. CASE Granted(j, i, t)'
    BY <2>1, <1>2 DEF Granted, Counts
  <2>2. CASE Campaigns(i, t)' /\ j \in votes'[i]
    <3>1. DOMAIN electing = Node /\ DOMAIN role = Node
      BY VoterTypes DEF Voters
    <3>2. Campaigns(i, t)
      <4>1. t > 0 /\ (electing'[i] = t \/ (role'[i] = "Leader" /\ current_term[i] = t))
        BY <2>2, <1>1 DEF Campaigns, Leads
      <4>2. CASE electing'[i] = t
        BY <4>1, <4>2, <3>1, <1>1 DEF Campaigns
      <4>3. CASE role'[i] = "Leader" /\ current_term[i] = t
        BY <4>1, <4>3, <3>1, <1>3 DEF Campaigns, Leads
      <4> QED BY <4>1, <4>2, <4>3
    <3> QED BY <2>2, <3>2, <1>1 DEF Counts
  <2> QED BY Zenon, <1>8, <2>1, <2>2 DEF Counts
<1>9. CountsStep
  BY <1>8 DEF CountsStep
<1> QED BY <1>4, <1>5, <1>6, <1>7, <1>9, CountsKept DEF ElectionInv

\* The frame of every action that is not part of an election.
Uninvolved ==
  /\ UNCHANGED electionVars
  /\ \A m \in rpcs' : m.type \in {"RequestVote", "VoteReply"} => m \in rpcs

\* A sender thread that turns into a request of its kind takes no part either.
LEMMA SendFrame ==
  ASSUME NEW m, NEW request, request.type \notin {"RequestVote", "VoteReply"},
         Send(m, request)
  PROVE  Uninvolved
BY DEF Send, Uninvolved

LEMMA ReplicationFrame ==
  ASSUME Replication
  PROVE  Uninvolved
<1>1. ASSUME NEW i \in Node, NEW c \in Command \cup {NoCommand}, Propose(i, c)
      PROVE  Uninvolved
  BY Zenon, <1>1 DEF Propose, Uninvolved
<1>2. ASSUME NEW i \in Node, NEW j \in Peers(i), ReplicateToFollower(i, j)
      PROVE  Uninvolved
  BY <1>2 DEF ReplicateToFollower, Uninvolved
<1>3. ASSUME NEW m \in rpcs, SendInstallSnapshot(m) \/ SendAppendEntries(m)
      PROVE  Uninvolved
  <2>1. CASE SendInstallSnapshot(m)
    BY <2>1, SendFrame DEF SendInstallSnapshot
  <2>2. CASE SendAppendEntries(m)
    BY <2>2, SendFrame DEF SendAppendEntries
  <2> QED BY <1>3, <2>1, <2>2
<1>4. ASSUME NEW m \in rpcs, handle_append_entries(m)
      PROVE  Uninvolved
  BY <1>4 DEF handle_append_entries, Answer, Uninvolved
<1>5. ASSUME NEW m \in rpcs, ReceiveAppendReply(m)
      PROVE  Uninvolved
  BY <1>5 DEF ReceiveAppendReply, Uninvolved
<1> QED BY <1>1, <1>2, <1>3, <1>4, <1>5 DEF Replication

LEMMA SnapshotFrame ==
  ASSUME Snapshots
  PROVE  Uninvolved
<1>1. ASSUME NEW i \in Node, NEW index \in 1..MaxIndex, CompactLog(i, index)
      PROVE  Uninvolved
  BY Zenon, <1>1 DEF CompactLog, Uninvolved
<1>2. ASSUME NEW m \in rpcs, handle_install_snapshot(m)
      PROVE  Uninvolved
  BY <1>2 DEF handle_install_snapshot, Answer, Uninvolved
<1>3. ASSUME NEW m \in rpcs, ReceiveSnapshotReply(m)
      PROVE  Uninvolved
  BY <1>3 DEF ReceiveSnapshotReply, Uninvolved
<1> QED BY <1>1, <1>2, <1>3 DEF Snapshots

LEMMA UninvolvedInv ==
  ASSUME TypeOK, TypeOK', ElectionInv, VoteStep, LeaderStep, Uninvolved
  PROVE  ElectionInv' /\ CountsStep
BY OtherSteps DEF Uninvolved, electionVars

\* A node that restarts waits on no election, leads nothing and gets no reply.
LEMMA RestartInv ==
  ASSUME TypeOK, TypeOK', ElectionInv, VoteStep, LeaderStep,
         NEW i \in Node, NEW calls \in SUBSET rpcs, Restarted(i, calls)
  PROVE  ElectionInv' /\ CountsStep
<1>1. /\ electing' = [electing EXCEPT ![i] = 0]
      /\ votes' = [votes EXCEPT ![i] = {}]
      /\ role' = [role EXCEPT ![i] = "Follower"]
  BY DEF Restarted
<1>2. ASSUME NEW m \in rpcs'
      PROVE  \/ m \in rpcs /\ (m.type = "VoteReply" => m.dest # i)
             \/ m.type \in {"AppendEntries", "InstallSnapshot"}
  <2>1. CASE m \in calls /\ ~(m.type = "VoteReply" /\ m.dest = i)
    BY <2>1
  <2>2. ASSUME NEW n \in calls, n.type \in {"AppendEntries", "InstallSnapshot"},
               m = [n EXCEPT !.live = FALSE]
        PROVE  m.type \in {"AppendEntries", "InstallSnapshot"}
    BY <2>2, OrphanFields
  <2>3. \/ m \in calls /\ ~(m.type = "VoteReply" /\ m.dest = i)
        \/ \E n \in calls : /\ n.type \in {"AppendEntries", "InstallSnapshot"}
                            /\ m = [n EXCEPT !.live = FALSE]
    BY DEF Restarted
  <2> QED BY <2>1, <2>2, <2>3
<1>3. \A m \in rpcs' : m.type = "VoteReply" =>
                         m \in rpcs /\ electing'[m.dest] = electing[m.dest]
  <2> SUFFICES ASSUME NEW m \in rpcs', m.type = "VoteReply"
               PROVE  m \in rpcs /\ electing'[m.dest] = electing[m.dest]
    OBVIOUS
  <2>1. m \in rpcs /\ m.dest # i
    BY <1>2
  <2> QED BY Zenon, <2>1, <1>1, CallFields, VoterTypes DEF Voters
<1>4. \A j \in Node : \/ electing'[j] = electing[j] /\ votes'[j] = votes[j]
                      \/ electing'[j] = 0 /\ role'[j] # "Leader"
  BY <1>1, VoterTypes DEF Voters
<1>5. \A m \in rpcs' : m.type = "RequestVote" => m \in rpcs
  BY <1>2
<1> QED BY Zenon, <1>3, <1>4, <1>5, OtherSteps

LEMMA ElectionStep ==
  ASSUME TypeOK, TypeOK', ElectionInv, [Next]_vars
  PROVE  ElectionInv' /\ CountsStep
<1>1. VoteStep /\ (LeaderStep \/ \E i \in Node : FinishElection(i))
  BY StepVotes
<1>2. CASE \E i \in Node : FinishElection(i)
  BY <1>2, FinishElectionInv
<1>3. CASE LeaderStep /\ UNCHANGED vars
  BY <1>1, <1>3, UninvolvedInv DEF vars, Uninvolved
<1>4. CASE LeaderStep /\ Elections
  BY <1>4, StartElectionInv, FinishElectionInv, RequestVoteInv, ReceiveVoteInv
  DEF Elections
<1>5. CASE LeaderStep /\ Replication
  BY <1>1, <1>5, ReplicationFrame, UninvolvedInv
<1>6. CASE LeaderStep /\ Snapshots
  BY <1>1, <1>6, SnapshotFrame, UninvolvedInv
<1>7. CASE LeaderStep /\ Failures
  <2>1. ASSUME NEW i \in Node, Crash(i)
        PROVE  ElectionInv' /\ CountsStep
    BY <1>1, <1>7, <2>1, RestartInv DEF Crash
  <2>2. ASSUME NEW m \in rpcs, CrashInHandler(m)
        PROVE  ElectionInv' /\ CountsStep
    <3>1. m.dest \in Node
      BY Zenon, CallFields
    <3>2. Restarted(m.dest, rpcs \ {m}) /\ rpcs \ {m} \in SUBSET rpcs
      BY <2>2 DEF CrashInHandler
    <3> QED BY <1>1, <1>7, <3>1, <3>2, RestartInv
  <2>3. ASSUME NEW m \in rpcs, Lose(m)
        PROVE  Uninvolved
    BY <2>3 DEF Lose, Uninvolved
  <2> QED BY <1>1, <1>7, <2>1, <2>2, <2>3, UninvolvedInv DEF Failures
<1> QED BY <1>1, <1>2, <1>3, <1>4, <1>5, <1>6, <1>7 DEF Next

LEMMA ElectionInit == Init => ElectionInv
BY DEF Init, ElectionInv, RequestsInv, RepliesInv, LeadersInv, StandingInv, UniqueInv,
       Counts, Granted, Campaigns, Leads
----------------------------------------------------------------------------
(* One leader per term *)

\* The votes of two leaders of one term would share a voter.
LEMMA OneLeader ==
  ASSUME QuorumsMeet, TypeOK, ElectionInv
  PROVE  ElectionSafety
<1> SUFFICES ASSUME NEW i \in Node, NEW k \in Node,
                    role[i] = "Leader", role[k] = "Leader",
                    current_term[i] = current_term[k]
             PROVE  i = k
  BY DEF ElectionSafety
<1> DEFINE t == current_term[i]
<1>1. t \in Nat /\ votes[i] \in SUBSET Node /\ votes[k] \in SUBSET Node
  BY VoterTypes DEF Voters
<1>2. /\ Campaigns(i, t) /\ Cardinality(votes[i]) >= Majority
      /\ Campaigns(k, t) /\ Cardinality(votes[k]) >= Majority
  BY DEF ElectionInv, LeadersInv, Campaigns, Leads
<1> HIDE DEF t
<1>3. PICK j \in Node : j \in votes[i] /\ j \in votes[k]
  BY Zenon, <1>1, <1>2 DEF QuorumsMeet
<1>4. Counts(j, i, t) /\ Counts(j, k, t)
  BY Zenon, <1>2, <1>3 DEF Counts
<1> QED BY Zenon, <1>1, <1>3, <1>4 DEF ElectionInv, UniqueInv

\* The leader of a term that has had one stays the only one.
LEMMA ElectedByKept ==
  ASSUME TypeOK, TypeOK', VoteStep, CandidateStep, CountsStep,
         NEW t \in Nat, NEW i \in Node, NEW Q \in SUBSET Node, ElectedBy(t, i, Q)
  PROVE  ElectedBy(t, i, Q)'
<1>1. current_term[i] \in Nat /\ current_term'[i] \in Nat /\ current_term'[i] >= current_term[i]
  BY VoterTypes, VoterTypesNext DEF Voters, VoteStep
<1>2. current_term'[i] > t \/ (current_term'[i] = t /\ role'[i] # "Candidate")
  BY <1>1 DEF ElectedBy, CandidateStep
<1>3. ASSUME NEW j \in Q
      PROVE  VoteStands(j, t, i)' /\ (\A k \in Node : Counts(j, k, t)' => k = i)
  <2>1. j \in Node /\ VoteStands(j, t, i) /\ (\A k \in Node : Counts(j, k, t) => k = i)
    BY Zenon DEF ElectedBy
  <2>2. VoteStands(j, t, i)'
    BY <2>1, StandingVotes
  <2>3. ASSUME NEW k \in Node, Counts(j, k, t)'
        PROVE  k = i
    <3>1. Counts(j, k, t) \/ Fresh(j, k, t)
      BY Zenon, <2>1, <2>3 DEF CountsStep
    <3> QED BY Zenon, <2>1, <3>1 DEF Fresh
  <2> QED BY <2>2, <2>3
<1>4. Cardinality(Q) >= Majority
  BY DEF ElectedBy
<1> QED BY <1>2, <1>3, <1>4 DEF ElectedBy, Majority

LEMMA ElectedOnceKept ==
  ASSUME TypeOK, TypeOK', VoteStep, CandidateStep, CountsStep, ElectedOnce,
         Elected \subseteq Nat, Elected' = Elected
  PROVE  ElectedOnce'
<1> SUFFICES ASSUME NEW t \in Elected \ {0}
             PROVE  \E i \in Node, Q \in SUBSET Node : ElectedBy(t, i, Q)'
  BY DEF ElectedOnce
<1>1. PICK i \in Node, Q \in SUBSET Node : ElectedBy(t, i, Q)
  BY DEF ElectedOnce
<1>2. ElectedBy(t, i, Q)'
  BY <1>1, ElectedByKept
<1> QED BY <1>2
----------------------------------------------------------------------------
(* Histories of the leaders' logs *)

\* A beginning of a traced sequence is traced.
LEMMA PrefixTraced ==
  ASSUME NEW h, NEW s \in Seq(Entry), NEW r \in Seq(Entry), Traced(s, h),
         Len(r) <= Len(s), \A k \in 1..Len(r) : r[k] = s[k]
  PROVE  Traced(r, h)
<1> SUFFICES ASSUME NEW k \in 1..Len(r)
             PROVE  /\ r[k].term \in DOMAIN h /\ k <= Len(h[r[k].term])
                    /\ \A n \in 1..k : r[n] = h[r[k].term][n]
  BY Zenon DEF Traced
<1>1. Len(r) \in Nat /\ Len(s) \in Nat
  OBVIOUS
<1>2. k \in 1..Len(s) /\ r[k] = s[k] /\ \A n \in 1..k : r[n] = s[n]
  BY <1>1
<1>3. /\ s[k].term \in DOMAIN h /\ k <= Len(h[s[k].term])
      /\ \A n \in 1..k : s[n] = h[s[k].term][n]
  BY Zenon, <1>2 DEF Traced
<1> QED BY Zenon, <1>2, <1>3

\* A traced sequence stays traced when the histories grow.
LEMMA GrownTraced ==
  ASSUME NEW h, NEW later, NEW s \in Seq(Entry), Traced(s, h), Grows(h, later),
         \A t \in DOMAIN h : Len(h[t]) \in Nat,
         \A t \in DOMAIN later : Len(later[t]) \in Nat
  PROVE  Traced(s, later)
<1> SUFFICES ASSUME NEW k \in 1..Len(s)
             PROVE  /\ s[k].term \in DOMAIN later /\ k <= Len(later[s[k].term])
                    /\ \A n \in 1..k : s[n] = later[s[k].term][n]
  BY Zenon DEF Traced
<1> DEFINE t == s[k].term
<1>1. t \in DOMAIN h /\ k <= Len(h[t]) /\ \A n \in 1..k : s[n] = h[t][n]
  BY Zenon DEF Traced
<1>2. /\ t \in DOMAIN later /\ Len(h[t]) <= Len(later[t])
      /\ \A n \in 1..Len(h[t]) : later[t][n] = h[t][n]
  BY Zenon, <1>1 DEF Grows
<1>3. k \in Nat /\ Len(h[t]) \in Nat /\ Len(later[t]) \in Nat
  BY <1>1, <1>2
<1> HIDE DEF t
<1>4. k <= Len(later[t]) /\ \A n \in 1..k : n \in 1..Len(h[t])
  BY <1>1, <1>2, <1>3
<1> QED BY Zenon, <1>1, <1>2, <1>4 DEF t

\* What a history holds.
LEMMA HistoryLengths ==
  ASSUME NEW h, Histories(h)
  PROVE  \A t \in DOMAIN h : h[t] \in Seq(Entry) /\ Len(h[t]) \in Nat /\ Traced(h[t], h)
<1>1. \A t \in DOMAIN h : h[t] \in Seq(Entry) /\ Traced(h[t], h)
  BY Zenon DEF Histories
<1> QED BY <1>1

\* FinishElection: a term gets a leader, with a log that is traced.
LEMMA NewHistory ==
  ASSUME NEW h, Histories(h), NEW t \in Nat, t \notin DOMAIN h,
         NEW s \in Seq(Entry), Traced(s, h),
         NEW later, DOMAIN later = DOMAIN h \cup {t}, later[t] = s,
         \A u \in DOMAIN h : later[u] = h[u]
  PROVE  Histories(later) /\ Grows(h, later)
<1>1. /\ DOMAIN later = DOMAIN h \cup {t} /\ later[t] = s
      /\ \A u \in DOMAIN h : later[u] = h[u]
  BY Zenon
<1>2. \A u \in DOMAIN h : h[u] \in Seq(Entry) /\ Len(h[u]) \in Nat /\ Traced(h[u], h)
  BY Zenon, HistoryLengths
<1>3. Grows(h, later)
  BY <1>1, <1>2 DEF Grows
<1>4. \A u \in DOMAIN later : later[u] \in Seq(Entry) /\ Len(later[u]) \in Nat
  BY <1>1, <1>2
<1>5. ASSUME NEW u \in DOMAIN later PROVE Traced(later[u], later)
  <2>1. CASE u = t
    BY Zenon, <1>1, <1>2, <1>3, <1>4, <2>1, GrownTraced
  <2>2. CASE u # t
    BY Zenon, <1>1, <1>2, <1>3, <1>4, <2>2, GrownTraced
  <2> QED BY Zenon, <2>1, <2>2
<1>6. 0 \in DOMAIN later /\ DOMAIN later \subseteq Nat
  BY Zenon, <1>1 DEF Histories
<1> QED BY Zenon, <1>3, <1>4, <1>5, <1>6 DEF Histories

\* Propose: the leader of a term appends an entry of its term.
LEMMA LongerHistory ==
  ASSUME NEW h, Histories(h), NEW t \in DOMAIN h, NEW e \in Entry, e.term = t,
         NEW later, later = [h EXCEPT ![t] = Append(h[t], e)]
  PROVE  Histories(later) /\ Grows(h, later)
<1>1. /\ DOMAIN later = DOMAIN h /\ later[t] = Append(h[t], e)
      /\ \A u \in DOMAIN h : u # t => later[u] = h[u]
  BY Zenon DEF Histories
<1>2. \A u \in DOMAIN h : h[u] \in Seq(Entry) /\ Len(h[u]) \in Nat /\ Traced(h[u], h)
  BY Zenon, HistoryLengths
<1>3. /\ later[t] \in Seq(Entry) /\ Len(later[t]) = Len(h[t]) + 1
      /\ later[t][Len(h[t]) + 1] = e /\ \A k \in 1..Len(h[t]) : later[t][k] = h[t][k]
  BY <1>1, <1>2
<1>4. Grows(h, later)
  <2>1. Len(h[t]) <= Len(later[t])
    BY <1>2, <1>3
  <2>2. \A u \in DOMAIN h : u # t => Len(h[u]) <= Len(later[u])
    BY <1>1, <1>2
  <2> QED BY Zenon, <1>1, <1>3, <2>1, <2>2 DEF Grows
<1>5. \A u \in DOMAIN later : later[u] \in Seq(Entry) /\ Len(later[u]) \in Nat
  BY <1>1, <1>2, <1>3
<1>6. \A u \in DOMAIN h : Traced(h[u], later)
  BY Zenon, <1>2, <1>4, <1>5, <1>1, GrownTraced
<1>7. Traced(later[t], later)
  <2> SUFFICES ASSUME NEW k \in 1..Len(later[t])
               PROVE  /\ later[t][k].term \in DOMAIN later
                      /\ k <= Len(later[later[t][k].term])
                      /\ \A n \in 1..k : later[t][n] = later[later[t][k].term][n]
    BY Zenon DEF Traced
  <2>1. CASE k = Len(h[t]) + 1
    BY <1>1, <1>3, <2>1
  <2>2. CASE k # Len(h[t]) + 1
    <3>1. k \in 1..Len(h[t]) /\ \A n \in 1..k : n \in 1..Len(h[t])
      BY <1>2, <1>3, <2>2
    <3>2. /\ h[t][k].term \in DOMAIN later /\ k <= Len(later[h[t][k].term])
          /\ \A n \in 1..k : h[t][n] = later[h[t][k].term][n]
      BY Zenon, <1>6, <3>1 DEF Traced
    <3> QED BY Zenon, <1>3, <3>1, <3>2
  <2> QED BY Zenon, <2>1, <2>2
<1>8. ASSUME NEW u \in DOMAIN later PROVE Traced(later[u], later)
  BY Zenon, <1>1, <1>6, <1>7
<1>9. 0 \in DOMAIN later /\ DOMAIN later \subseteq Nat
  BY Zenon, <1>1 DEF Histories
<1> QED BY Zenon, <1>4, <1>5, <1>8, <1>9 DEF Histories

\* A call stays a piece of its leader's log.
LEMMA GrownAppend ==
  ASSUME NEW h, NEW later, Histories(h), Histories(later), Grows(h, later),
         NEW m \in AppendEntriesCalls, AppendOK(m, h)
  PROVE  AppendOK(m, later)
<1> SUFFICES ASSUME m.entries # << >>
             PROVE  /\ m.term \in DOMAIN later
                    /\ Piece(m.prev_log_index, m.prev_log_term, m.entries, later[m.term])
  BY Zenon DEF AppendOK
<1> DEFINE prev == m.prev_log_index
           t == m.term
<1>1. t \in DOMAIN h /\ Piece(prev, m.prev_log_term, m.entries, h[t])
  BY Zenon DEF AppendOK
<1>2. /\ t \in DOMAIN later /\ Len(h[t]) <= Len(later[t])
      /\ \A k \in 1..Len(h[t]) : later[t][k] = h[t][k]
  BY Zenon, <1>1 DEF Grows
<1>3. Len(h[t]) \in Nat /\ Len(later[t]) \in Nat
  BY Zenon, <1>1, <1>2, HistoryLengths
<1>4. prev \in Nat /\ m.entries \in Seq(Entry) /\ Len(m.entries) \in Nat
  BY DEF AppendEntriesCalls
<1> HIDE DEF prev, t
<1>5. prev + Len(m.entries) <= Len(h[t])
  BY Zenon, <1>1 DEF Piece
<1>6. /\ prev + Len(m.entries) <= Len(later[t])
      /\ \A k \in 1..Len(m.entries) : prev + k \in 1..Len(h[t])
      /\ prev > 0 => prev \in 1..Len(h[t])
  BY <1>2, <1>3, <1>4, <1>5
<1>7. Piece(prev, m.prev_log_term, m.entries, later[t])
  BY Zenon, <1>1, <1>2, <1>6 DEF Piece
<1> QED BY Zenon, <1>2, <1>7 DEF prev, t

\* handle_append_entries: what the follower keeps and what it takes over are
\* together a beginning of the leader's log.
LEMMA AppendedTraced ==
  ASSUME NEW h, Histories(h), NEW own \in Seq(Entry), Traced(own, h),
         NEW t \in DOMAIN h, NEW prev \in 0..Len(own), NEW prev_term,
         NEW entries \in Seq(Entry), Piece(prev, prev_term, entries, h[t]),
         prev > 0 => own[prev].term = prev_term,
         NEW r, r = SubSeq(own, 1, prev) \o entries
  PROVE  Traced(r, h)
<1>1. Len(own) \in Nat /\ Len(entries) \in Nat /\ prev \in Nat /\ prev <= Len(own)
  OBVIOUS
<1>2. /\ r \in Seq(Entry) /\ Len(r) = prev + Len(entries)
      /\ \A k \in 1..prev : r[k] = own[k]
      /\ \A k \in (prev + 1)..(prev + Len(entries)) : r[k] = entries[k - prev]
  BY <1>1
<1>3. h[t] \in Seq(Entry) /\ Len(h[t]) \in Nat /\ Traced(h[t], h)
  BY Zenon, HistoryLengths
<1>4. /\ prev + Len(entries) <= Len(h[t])
      /\ \A k \in 1..Len(entries) : entries[k] = h[t][prev + k]
      /\ prev > 0 => prev_term = h[t][prev].term
  BY Zenon DEF Piece
<1>5. ASSUME NEW k \in 1..Len(r) PROVE r[k] = h[t][k]
  <2>1. CASE k <= prev
    <3>1. k \in 1..prev /\ prev \in 1..Len(own) /\ prev \in 1..Len(h[t]) /\ prev > 0
      <4>1. k \in Nat /\ k > 0
        BY <1>1, <1>2
      <4> QED BY <1>1, <1>3, <1>4, <2>1, <4>1
    <3>2. own[k] = h[prev_term][k]
      BY Zenon, <3>1 DEF Traced
    <3>3. h[t][k] = h[prev_term][k]
      BY Zenon, <1>3, <1>4, <3>1 DEF Traced
    <3> QED BY Zenon, <1>2, <3>1, <3>2, <3>3
  <2>2. CASE ~(k <= prev)
    <3>1. k \in (prev + 1)..(prev + Len(entries)) /\ k - prev \in 1..Len(entries)
          /\ prev + (k - prev) = k
      <4>1. k \in Nat /\ k <= prev + Len(entries) /\ k > prev
        BY <1>1, <1>2, <2>2
      <4>2. prev \in Nat /\ Len(entries) \in Nat
        BY Zenon, <1>1
      <4> QED BY <4>1, <4>2
    <3>2. entries[k - prev] = h[t][prev + (k - prev)]
      BY Zenon, <1>4, <3>1
    <3> QED BY Zenon, <1>2, <3>1, <3>2
  <2> QED BY Zenon, <2>1, <2>2
<1>6. Len(r) <= Len(h[t])
  BY Zenon, <1>2, <1>4
<1> QED BY Zenon, <1>2, <1>3, <1>5, <1>6, PrefixTraced

----------------------------------------------------------------------------
(* The logs *)

\* The members of a log.
LEMMA LogFields ==
  ASSUME TypeOK, NEW i \in Node
  PROVE  /\ DOMAIN log = Node
         /\ log[i] \in Log({log[j].snapshot_data : j \in Node})
         /\ log[i].entries \in Seq(Entry) /\ Len(log[i].entries) \in Nat
         /\ log[i].snapshot_last_index \in Nat /\ log[i].snapshot_last_term \in Nat
<1>1. DOMAIN log = Node /\ log[i] \in Log({log[j].snapshot_data : j \in Node})
  BY Zenon DEF TypeOK
<1> QED BY <1>1 DEF Log

\* What truncate_and_append does to a log without a snapshot.
LEMMA Truncated ==
  ASSUME TypeOK, NEW j \in Node, log[j].snapshot_last_index = 0,
         NEW prev \in 0..Len(log[j].entries), NEW entries \in Seq(Entry)
  PROVE  LET r == truncate_and_append(log[j], prev, entries)
         IN  /\ r.entries = SubSeq(log[j].entries, 1, prev) \o entries
             /\ r.snapshot_last_index = 0
             /\ r.snapshot_last_term = log[j].snapshot_last_term
<1> DEFINE l == log[j]
           r == truncate_and_append(l, prev, entries)
<1>0. l \in Log({log[k].snapshot_data : k \in Node})
      /\ l.entries \in Seq(Entry) /\ Len(l.entries) \in Nat
  BY Zenon, LogFields
<1>1. Len(entries) \in Nat /\ prev \in Nat /\ prev <= Len(l.entries)
  BY <1>0
<1>2. Lesser(prev, Len(l.entries)) = prev
  BY <1>0, <1>1 DEF Lesser
<1>3. SubSeq(entries, 1, Len(entries)) = entries
  OBVIOUS
<1> DEFINE keep == IF prev > 0 THEN prev - 0 ELSE 0
           covered == IF prev < 0 THEN 0 - prev ELSE 0
<1>4. keep = prev /\ covered + 1 = 1
  BY <1>1
<1>5. r = [l EXCEPT !.entries = SubSeq(@, 1, Lesser(keep, Len(@)))
                                  \o SubSeq(entries, covered + 1, Len(entries))]
  BY Zenon DEF truncate_and_append
<1> HIDE DEF keep, covered
<1>6. r = [l EXCEPT !.entries = SubSeq(l.entries, 1, prev) \o entries]
  BY Zenon, <1>2, <1>3, <1>4, <1>5
<1> QED BY Zenon, <1>0, <1>6 DEF Log

LEMMA AppendFields ==
  ASSUME TypeOK, NEW m \in rpcs, m.type = "AppendEntries"
  PROVE  m \in AppendEntriesCalls
<1>1. IsMessage(m)
  BY Zenon DEF TypeOK
<1> QED BY <1>1 DEF IsMessage, RequestVoteCalls, VoteReplies, Senders, AppendReplies,
                    SnapshotReplies

LEMMA SenderFields ==
  ASSUME TypeOK, NEW m \in rpcs, m.type = "Sender"
  PROVE  m.src \in Node /\ m.next_idx \in Nat /\ m.next_idx - 1 \in Nat
<1>1. IsMessage(m)
  BY Zenon DEF TypeOK
<1>2. m \in Senders
  BY <1>1 DEF IsMessage, RequestVoteCalls, VoteReplies, AppendReplies, SnapshotReplies,
              AppendEntriesCalls
<1> QED BY <1>2 DEF Senders

LEMMA SnapshotFields ==
  ASSUME TypeOK, NEW m \in rpcs, m.type = "InstallSnapshot"
  PROVE  m.last_included_index \in Nat
<1>1. IsMessage(m)
  BY Zenon DEF TypeOK
<1>2. m \in InstallSnapshotCalls({m.data})
  BY <1>1 DEF IsMessage, RequestVoteCalls, VoteReplies, Senders, AppendReplies,
              SnapshotReplies, AppendEntriesCalls
<1> QED BY <1>2 DEF InstallSnapshotCalls

\* The logs that a step leaves alone stay traced.
LEMMA LogsGrow ==
  ASSUME TypeOK, LogsTraced, Histories(leader_log), Histories(leader_log'),
         Grows(leader_log, leader_log'), NEW j \in Node, log'[j] = log[j]
  PROVE  Traced(log'[j].entries, leader_log') /\ log'[j].snapshot_last_term = 0
<1>1. Traced(log[j].entries, leader_log) /\ log[j].snapshot_last_term = 0
  BY Zenon DEF LogsTraced
<1>2. log[j].entries \in Seq(Entry)
  BY Zenon, LogFields
<1>3. \A t \in DOMAIN leader_log : Len(leader_log[t]) \in Nat
  BY Zenon, HistoryLengths
<1>4. \A t \in DOMAIN leader_log' : Len(leader_log'[t]) \in Nat
  BY Zenon, HistoryLengths
<1> QED BY Zenon, <1>1, <1>2, <1>3, <1>4, GrownTraced

\* The calls in flight stay pieces of their leaders' logs.
LEMMA CallsGrow ==
  ASSUME TypeOK, AppendsTraced, Histories(leader_log), Histories(leader_log'),
         Grows(leader_log, leader_log'), CallsKept
  PROVE  AppendsTraced'
<1> SUFFICES ASSUME NEW m \in rpcs'
             PROVE  /\ m.type # "InstallSnapshot"
                    /\ m.type = "AppendEntries" => AppendOK(m, leader_log')
  BY Zenon DEF AppendsTraced
<1>1. m.type # "InstallSnapshot"
  BY Zenon DEF CallsKept, AppendsTraced
<1>2. ASSUME m.type = "AppendEntries" PROVE AppendOK(m, leader_log')
  <2>1. PICK n \in rpcs : /\ n.type = "AppendEntries" /\ n.term = m.term
                          /\ m.prev_log_index = n.prev_log_index
                          /\ m.prev_log_term = n.prev_log_term
                          /\ m.entries = n.entries
    BY Zenon, <1>2 DEF CallsKept
  <2>2. AppendOK(n, leader_log) /\ n \in AppendEntriesCalls
    BY Zenon, <2>1, AppendFields DEF AppendsTraced
  <2>3. AppendOK(n, leader_log')
    BY Zenon, <2>2, GrownAppend
  <2> QED BY Zenon, <2>1, <2>3 DEF AppendOK
<1> QED BY Zenon, <1>1, <1>2

\* A step that leaves the logs alone and makes no leader.
LEMMA KeptMatching ==
  ASSUME TypeOK, TypeOK', MatchingInv, VoteStep, CandidateStep, CountsStep, LeaderStep,
         LogsKept
  PROVE  MatchingInv'
<1>1. log' = log /\ leader_log' = leader_log /\ CallsKept /\ Elected' = Elected
  BY Zenon DEF LogsKept, Elected
<1>2. Histories(leader_log) /\ Elected \subseteq Nat
  BY Zenon DEF MatchingInv, Histories, Elected
<1>3. ElectedOnce'
  BY Zenon, <1>1, <1>2, ElectedOnceKept DEF MatchingInv
<1>4. Histories(leader_log')
  BY Zenon, <1>1, <1>2
<1>5. Grows(leader_log, leader_log')
  <2>1. \A t \in DOMAIN leader_log : Len(leader_log[t]) \in Nat
    BY Zenon, <1>2, HistoryLengths
  <2> QED BY <1>1, <2>1 DEF Grows
<1>6. AppendsTraced'
  BY Zenon, <1>1, <1>2, <1>4, <1>5, CallsGrow DEF MatchingInv
<1>7. LogsTraced'
  BY Zenon, <1>1 DEF MatchingInv, LogsTraced
<1>8. LeadersTraced'
  BY Zenon, <1>1 DEF MatchingInv, LeadersTraced, LeaderStep
<1> QED BY Zenon, <1>3, <1>4, <1>6, <1>7, <1>8 DEF MatchingInv

\* Sequences that agree up to k have the same first k elements.
LEMMA SameSubSeq ==
  ASSUME NEW r \in Seq(Entry), NEW s \in Seq(Entry), NEW k \in Nat,
         k <= Len(r), k <= Len(s), \A n \in 1..k : r[n] = s[n]
  PROVE  SubSeq(r, 1, k) = SubSeq(s, 1, k)
<1> DEFINE a == SubSeq(r, 1, k)
           b == SubSeq(s, 1, k)
<1>1. a \in Seq(Entry) /\ Len(a) = k /\ \A n \in 1..k : a[n] = r[n]
  OBVIOUS
<1>2. b \in Seq(Entry) /\ Len(b) = k /\ \A n \in 1..k : b[n] = s[n]
  OBVIOUS
<1> HIDE DEF a, b
<1>3. \A n \in 1..k : a[n] = b[n]
  BY Zenon, <1>1, <1>2
<1>4. a = b
  BY <1>1, <1>2, <1>3
<1> QED BY Zenon, <1>4 DEF a, b

\* The last entry tells the whole log: what LeaderLog takes is the log itself.
LEMMA OwnHistory ==
  ASSUME TypeOK, NoneCompacted, LogsTraced, Histories(leader_log), NEW i \in Node
  PROVE  SubSeq(leader_log[last_term(log[i])], 1, last_index(log[i])) = log[i].entries
<1> DEFINE s == log[i].entries
           k == Len(s)
<1>1. s \in Seq(Entry) /\ k \in Nat
  BY Zenon, LogFields
<1>2. log[i].snapshot_last_index = 0 /\ log[i].snapshot_last_term = 0
      /\ Traced(s, leader_log)
  BY Zenon DEF NoneCompacted, LogsTraced
<1>3. last_index(log[i]) = k
  BY <1>1, <1>2 DEF last_index
<1>4. SubSeq(s, 1, k) = s
  BY <1>1
<1>5. CASE s = << >>
  <2>1. last_term(log[i]) = 0 /\ k = 0
    BY <1>2, <1>5 DEF last_term
  <2>2. 0 \in DOMAIN leader_log
    BY Zenon DEF Histories
  <2>3. leader_log[0] \in Seq(Entry) /\ Len(leader_log[0]) \in Nat
    BY Zenon, <2>2, HistoryLengths
  <2>4. SubSeq(leader_log[0], 1, 0) = << >>
    BY <2>3
  <2> QED BY Zenon, <1>3, <1>5, <2>1, <2>4
<1>6. CASE s # << >>
  <2>1. k \in 1..k /\ k > 0
    BY <1>1, <1>6
  <2> DEFINE h == leader_log[s[k].term]
  <2>2. last_term(log[i]) = s[k].term
    BY Zenon, <1>6 DEF last_term
  <2>3. s[k].term \in DOMAIN leader_log /\ k <= Len(h) /\ \A n \in 1..k : s[n] = h[n]
    BY Zenon, <1>2, <2>1 DEF Traced
  <2>4. h \in Seq(Entry) /\ Len(h) \in Nat
    BY Zenon, <2>3, HistoryLengths
  <2> HIDE DEF s, h
  <2>5. k <= k
    BY <1>1
  <2>6. SubSeq(s, 1, k) = SubSeq(h, 1, k)
    BY Zenon, <1>1, <2>3, <2>4, <2>5, SameSubSeq
  <2> QED BY Zenon, <1>3, <1>4, <2>2, <2>6 DEF s, h
<1> QED BY Zenon, <1>5, <1>6

\* A candidate with a majority is the first to be elected in its term.
LEMMA FirstElected ==
  ASSUME TypeOK, QuorumsMeet, ElectionInv, ElectedOnce, NEW i \in Node,
         role[i] = "Candidate", electing[i] = current_term[i], electing[i] # 0,
         Cardinality(votes[i]) >= Majority
  PROVE  current_term[i] \notin Elected
<1> DEFINE t == current_term[i]
<1>1. t \in Nat /\ t > 0 /\ votes[i] \in SUBSET Node /\ ~(current_term[i] > t)
  BY VoterTypes DEF Voters
<1> SUFFICES ASSUME t \in Elected PROVE FALSE
  OBVIOUS
<1>2. PICK k \in Node, Q \in SUBSET Node : ElectedBy(t, k, Q)
  <2>1. t \in Elected \ {0}
    BY <1>1
  <2> HIDE DEF t
  <2> QED BY Zenon, <2>1 DEF ElectedOnce
<1>3. Campaigns(i, t)
  BY Zenon, <1>1 DEF Campaigns
<1> HIDE DEF t
<1>4. PICK j \in Node : j \in Q /\ j \in votes[i]
  BY Zenon, <1>1, <1>2 DEF QuorumsMeet, ElectedBy
<1>5. Counts(j, i, t)
  BY Zenon, <1>3, <1>4 DEF Counts
<1>6. i = k
  BY Zenon, <1>2, <1>4, <1>5 DEF ElectedBy
<1> QED BY Zenon, <1>1, <1>2, <1>6 DEF ElectedBy

\* The votes of a leader are a majority that can elect no other.
LEMMA LeaderElected ==
  ASSUME TypeOK', ElectionInv', NEW i \in Node, role'[i] = "Leader",
         NEW t, t = current_term'[i], NEW Q, Q = votes'[i]
  PROVE  t \in Nat /\ Q \in SUBSET Node /\ ElectedBy(t, i, Q)'
<1>1. t \in Nat /\ Q \in SUBSET Node
  BY VoterTypesNext DEF Voters
<1>2. t > 0 /\ Cardinality(Q) >= Majority
  BY DEF ElectionInv, LeadersInv, Majority
<1>3. \A j \in Q : Counts(j, i, t)'
  BY Zenon, <1>2 DEF Counts, Campaigns, Leads
<1>4. ASSUME NEW j \in Q
      PROVE  VoteStands(j, t, i)' /\ (\A k \in Node : Counts(j, k, t)' => k = i)
  <2>1. j \in Node /\ Counts(j, i, t)'
    BY Zenon, <1>1, <1>3
  <2>2. VoteStands(j, t, i)'
    BY Zenon, <1>1, <2>1 DEF ElectionInv, StandingInv
  <2>3. ASSUME NEW k \in Node, Counts(j, k, t)' PROVE k = i
    BY Zenon, <1>1, <2>1, <2>3 DEF ElectionInv, UniqueInv
  <2> QED BY Zenon, <2>2, <2>3
<1> QED BY Zenon, <1>1, <1>2, <1>4 DEF ElectedBy, Majority

\* A leader starts from a log that is traced, in a term that had none.
LEMMA FinishMatching ==
  ASSUME TypeOK, TypeOK', QuorumsMeet, ElectionInv, ElectionInv', VoteStep, CandidateStep,
         CountsStep, NoneCompacted, MatchingInv, NEW i \in Node, FinishElection(i)
  PROVE  MatchingInv'
<1> DEFINE t == current_term[i]
           s == log[i].entries
<1>1. /\ UNCHANGED <<current_term, voted_for, log, votes>>
      /\ rpcs' \subseteq rpcs /\ electing[i] # 0
  BY Zenon DEF FinishElection, diskVars
<1>2. \/ UNCHANGED <<role, leader_log>>
      \/ /\ role[i] = "Candidate" /\ t = electing[i] /\ Cardinality(votes[i]) >= Majority
         /\ role' = [role EXCEPT ![i] = "Leader"]
         /\ LeaderLog(i, t)
  BY Zenon DEF FinishElection
<1>3. CallsKept
  BY Zenon, <1>1 DEF CallsKept
<1>4. CASE UNCHANGED <<role, leader_log>>
  <2>1. LeaderStep
    BY Zenon, <1>1, <1>4, QuietStep
  <2>2. LogsKept
    BY Zenon, <1>1, <1>3, <1>4 DEF LogsKept
  <2> QED BY Zenon, <2>1, <2>2, KeptMatching
<1>5. CASE /\ role[i] = "Candidate" /\ t = electing[i] /\ Cardinality(votes[i]) >= Majority
           /\ role' = [role EXCEPT ![i] = "Leader"]
           /\ LeaderLog(i, t)
  <2>1. /\ ElectedOnce /\ Histories(leader_log) /\ LogsTraced /\ LeadersTraced
        /\ AppendsTraced
    BY Zenon DEF MatchingInv
  <2>2. t \in Nat /\ t \notin DOMAIN leader_log
    BY Zenon, <1>1, <1>5, <2>1, FirstElected, VoterTypes DEF Voters, Elected
  <2>3. SubSeq(leader_log[last_term(log[i])], 1, last_index(log[i])) = s
    BY Zenon, <2>1, OwnHistory
  <2>4. leader_log' = [u \in DOMAIN leader_log \cup {t} |->
                         IF u = t THEN s ELSE leader_log[u]]
    BY Zenon, <1>5, <2>3 DEF LeaderLog
  <2>5. s \in Seq(Entry) /\ Traced(s, leader_log)
    BY Zenon, <2>1, LogFields DEF LogsTraced
  <2>6. /\ DOMAIN leader_log' = DOMAIN leader_log \cup {t} /\ leader_log'[t] = s
        /\ \A u \in DOMAIN leader_log : leader_log'[u] = leader_log[u]
    BY Zenon, <2>2, <2>4
  <2>7. DOMAIN role = Node
    BY Zenon, VoterTypes DEF Voters
  <2>8. role'[i] = "Leader" /\ \A j \in Node : j # i => role'[j] = role[j]
    BY Zenon, <1>5, <2>7
  <2> HIDE DEF t, s
  <2>9. Histories(leader_log') /\ Grows(leader_log, leader_log')
    BY Zenon, <2>1, <2>2, <2>5, <2>6, NewHistory
  <2>10. ElectedOnce'
    <3> SUFFICES ASSUME NEW u \in DOMAIN leader_log' \ {0}
                 PROVE  \E j \in Node, Q \in SUBSET Node : ElectedBy(u, j, Q)'
      BY Zenon DEF ElectedOnce, Elected
    <3>1. CASE u = t
      <4>1. t = current_term'[i]
        BY Zenon, <1>1 DEF t
      <4> QED BY Zenon, <2>8, <3>1, <4>1, LeaderElected
    <3>2. CASE u \in DOMAIN leader_log \ {0}
      <4>1. u \in Nat
        BY Zenon, <2>1, <3>2 DEF Histories
      <4>2. PICK j \in Node, Q \in SUBSET Node : ElectedBy(u, j, Q)
        BY Zenon, <2>1, <3>2 DEF ElectedOnce, Elected
      <4> QED BY Zenon, <4>1, <4>2, ElectedByKept
    <3> QED BY Zenon, <2>6, <3>1, <3>2
  <2>11. LogsTraced'
    <3>1. \A j \in Node : log'[j] = log[j]
      BY Zenon, <1>1
    <3> QED BY Zenon, <2>1, <2>9, <3>1, LogsGrow DEF LogsTraced
  <2>12. AppendsTraced'
    BY Zenon, <1>3, <2>1, <2>9, CallsGrow
  <2>13. LeadersTraced'
    <3> SUFFICES ASSUME NEW j \in Node, role'[j] = "Leader"
                 PROVE  /\ current_term[j] \in DOMAIN leader_log'
                        /\ log[j].entries = leader_log'[current_term[j]]
      BY Zenon, <1>1 DEF LeadersTraced, Elected
    <3>1. CASE j = i
      BY Zenon, <2>6, <3>1 DEF t, s
    <3>2. CASE j # i
      <4>1. role[j] = "Leader"
        BY Zenon, <2>8, <3>2
      <4>2. /\ current_term[j] \in DOMAIN leader_log
            /\ log[j].entries = leader_log[current_term[j]]
        BY Zenon, <2>1, <4>1 DEF LeadersTraced, Elected
      <4> QED BY Zenon, <2>6, <4>2
    <3> QED BY Zenon, <3>1, <3>2
  <2> QED BY Zenon, <2>9, <2>10, <2>11, <2>12, <2>13 DEF MatchingInv
<1> QED BY Zenon, <1>2, <1>4, <1>5

\* Only the leader of a term appends to its history.
LEMMA ProposeMatching ==
  ASSUME TypeOK, TypeOK', ElectionSafety, VoteStep, CandidateStep, CountsStep, MatchingInv,
         NEW i \in Node, NEW c \in Command \cup {NoCommand}, Propose(i, c)
  PROVE  MatchingInv'
<1> DEFINE t == current_term[i]
           e == [term |-> t, command |-> c]
           s == log[i].entries
<1>1. /\ role[i] = "Leader" /\ UNCHANGED <<current_term, role, rpcs>>
      /\ log' = [log EXCEPT ![i] = append(log[i], t, c)]
      /\ leader_log' = [leader_log EXCEPT ![t] = Append(@, e)]
  BY Zenon DEF Propose
<1>2. /\ ElectedOnce /\ Histories(leader_log) /\ LogsTraced /\ LeadersTraced
      /\ AppendsTraced
  BY Zenon DEF MatchingInv
<1>3. t \in DOMAIN leader_log /\ s = leader_log[t]
  BY Zenon, <1>1, <1>2 DEF LeadersTraced, Elected
<1>4. t \in Nat
  BY Zenon, <1>2, <1>3 DEF Histories
<1>5. e \in Entry /\ e.term = t
  BY <1>4 DEF Entry
<1>6. DOMAIN log = Node /\ s \in Seq(Entry) /\ log[i] \in Log({log[j].snapshot_data : j \in Node})
  BY Zenon, LogFields
<1>7. /\ append(log[i], t, c).entries = Append(s, e)
      /\ append(log[i], t, c).snapshot_last_term = log[i].snapshot_last_term
  BY Zenon, <1>6 DEF append, Log
<1>8. /\ log'[i].entries = Append(s, e)
      /\ log'[i].snapshot_last_term = log[i].snapshot_last_term
      /\ \A j \in Node : j # i => log'[j] = log[j]
  BY Zenon, <1>1, <1>6, <1>7
<1> HIDE DEF t, e, s
<1>9. leader_log' = [leader_log EXCEPT ![t] = Append(leader_log[t], e)]
  BY Zenon, <1>1
<1>10. Histories(leader_log') /\ Grows(leader_log, leader_log')
  BY Zenon, <1>2, <1>3, <1>5, <1>9, LongerHistory
<1>11. /\ DOMAIN leader_log' = DOMAIN leader_log /\ leader_log'[t] = Append(s, e)
       /\ \A u \in DOMAIN leader_log : u # t => leader_log'[u] = leader_log[u]
  BY Zenon, <1>3, <1>9
<1>12. ElectedOnce'
  <2>1. Elected' = Elected /\ Elected \subseteq Nat
    BY Zenon, <1>2, <1>11 DEF Elected, Histories
  <2> QED BY Zenon, <1>2, <2>1, ElectedOnceKept
<1>13. LogsTraced'
  <2>1. Traced(log'[i].entries, leader_log') /\ log'[i].snapshot_last_term = 0
    <3>1. Traced(leader_log'[t], leader_log')
      BY Zenon, <1>3, <1>10, <1>11, HistoryLengths
    <3>2. log[i].snapshot_last_term = 0
      BY Zenon, <1>2 DEF LogsTraced
    <3> QED BY Zenon, <1>8, <1>11, <3>1, <3>2
  <2>2. \A j \in Node : j # i =>
          Traced(log'[j].entries, leader_log') /\ log'[j].snapshot_last_term = 0
    BY Zenon, <1>2, <1>8, <1>10, LogsGrow
  <2> QED BY Zenon, <2>1, <2>2 DEF LogsTraced
<1>14. AppendsTraced'
  <2>1. CallsKept
    BY Zenon, <1>1 DEF CallsKept
  <2> QED BY Zenon, <1>2, <1>10, <2>1, CallsGrow
<1>15. LeadersTraced'
  <2> SUFFICES ASSUME NEW j \in Node, role[j] = "Leader"
               PROVE  /\ current_term[j] \in DOMAIN leader_log'
                      /\ log'[j].entries = leader_log'[current_term[j]]
    BY Zenon, <1>1 DEF LeadersTraced, Elected
  <2>1. CASE j = i
    BY Zenon, <1>3, <1>8, <1>11, <2>1 DEF t
  <2>2. CASE j # i
    <3>1. current_term[j] # t
      BY Zenon, <1>1, <2>2 DEF ElectionSafety, t
    <3>2. /\ current_term[j] \in DOMAIN leader_log
          /\ log[j].entries = leader_log[current_term[j]]
      BY Zenon, <1>2 DEF LeadersTraced, Elected
    <3> QED BY Zenon, <1>8, <1>11, <2>2, <3>1, <3>2
  <2> QED BY Zenon, <2>1, <2>2
<1> QED BY Zenon, <1>10, <1>12, <1>13, <1>14, <1>15 DEF MatchingInv

\* What send_append_entries_to_peer reads of a log without a snapshot.
LEMMA TailPiece ==
  ASSUME NEW State, NEW l \in Log(State), l.snapshot_last_index = 0, NEW prev \in Nat,
         NEW n, n = IF last_index(l) > prev THEN last_index(l) - prev ELSE 0,
         NEW entries,
         entries = [k \in 1..n |-> [term |-> term_at(l, prev + k),
                                    command |-> command_at(l, prev + k)]],
         entries # << >>
  PROVE  Piece(prev, term_at(l, prev), entries, l.entries)
<1> DEFINE s == l.entries
<1>1. s \in Seq(Entry) /\ Len(s) \in Nat
  BY DEF Log
<1>2. last_index(l) = Len(s)
  BY <1>1 DEF last_index
<1>3. \A k \in 1..Len(s) : term_at(l, k) = s[k].term /\ command_at(l, k) = s[k].command
  <2>1. \A k \in 1..Len(s) : has_real_entry_at(l, k) /\ k - l.snapshot_last_index = k
    BY <1>1, <1>2 DEF has_real_entry_at
  <2> QED BY Zenon, <2>1 DEF term_at, command_at
<1>4. n \in Nat /\ n > 0 /\ n = Len(s) - prev
  <2>1. n \in Nat /\ (n > 0 => n = Len(s) - prev)
    BY <1>1, <1>2
  <2>2. n # 0
    <3> SUFFICES ASSUME n = 0 PROVE FALSE
      OBVIOUS
    <3>1. entries = [k \in {} |-> [term |-> term_at(l, prev + k),
                                   command |-> command_at(l, prev + k)]]
      <4>1. 1..n = {}
        BY SMT
      <4> QED BY Zenon, <4>1
    <3> QED BY <3>1
  <2> QED BY <2>1, <2>2
<1>5. Len(entries) = n
  BY <1>4
<1>6. prev + Len(entries) <= Len(s) /\ \A k \in 1..n : prev + k \in 1..Len(s)
  BY <1>1, <1>4, <1>5
<1>7. ASSUME NEW k \in 1..n PROVE entries[k] = s[prev + k]
  <2>1. entries[k] = [term |-> s[prev + k].term, command |-> s[prev + k].command]
    BY Zenon, <1>3, <1>6
  <2>2. s[prev + k] \in Entry
    BY <1>1, <1>6
  <2> HIDE DEF s
  <2> QED BY <2>1, <2>2 DEF Entry
<1>8. prev > 0 => term_at(l, prev) = s[prev].term
  <2>1. prev > 0 => prev \in 1..Len(s)
    BY <1>1, <1>4
  <2> QED BY Zenon, <1>3, <2>1
<1> QED BY Zenon, <1>5, <1>6, <1>7, <1>8 DEF Piece

\* What a leader sends is a piece of its log.
LEMMA SendMatching ==
  ASSUME TypeOK, TypeOK', VoteStep, CandidateStep, CountsStep, NoneCompacted, MatchingInv,
         NEW m \in rpcs, SendAppendEntries(m)
  PROVE  MatchingInv'
<1> DEFINE i == m.src
           l == log[i]
           prev == m.next_idx - 1
           n == IF last_index(l) > prev THEN last_index(l) - prev ELSE 0
           entries == [k \in 1..n |-> [term |-> term_at(l, prev + k),
                                       command |-> command_at(l, prev + k)]]
           request == [type |-> "AppendEntries", src |-> m.src, dest |-> m.dest,
                       term |-> m.term, prev_log_index |-> prev,
                       prev_log_term |-> term_at(l, prev), entries |-> entries,
                       leader_commit |-> commit_index[m.src], live |-> TRUE]
<1>1. m.type = "Sender" /\ Send(m, request)
  BY Zenon DEF SendAppendEntries
<1>2. /\ request.type = "AppendEntries" /\ request.term = m.term
      /\ request.prev_log_index = prev /\ request.prev_log_term = term_at(l, prev)
      /\ request.entries = entries
  BY Zenon
<1>3. i \in Node /\ prev \in Nat
  BY Zenon, <1>1, SenderFields
<1>4. l \in Log({log[j].snapshot_data : j \in Node}) /\ l.snapshot_last_index = 0
  BY Zenon, <1>3, LogFields DEF NoneCompacted
<1>5. entries # << >> => Piece(prev, term_at(l, prev), entries, l.entries)
  BY Zenon, <1>3, <1>4, TailPiece
<1> HIDE DEF i, l, prev, n, entries, request
<1>6. /\ UNCHANGED <<current_term, voted_for, log, role, leader_log>>
      /\ \A x \in rpcs' : \/ x \in rpcs
                          \/ x = request /\ role[i] = "Leader" /\ current_term[i] = m.term
  BY Zenon, <1>1 DEF Send, diskVars, history, i
<1>7. /\ ElectedOnce /\ Histories(leader_log) /\ LogsTraced /\ LeadersTraced
      /\ AppendsTraced
  BY Zenon DEF MatchingInv
<1>8. ASSUME role[i] = "Leader", current_term[i] = m.term
      PROVE  AppendOK(request, leader_log)
  <2>1. m.term \in DOMAIN leader_log /\ l.entries = leader_log[m.term]
    BY Zenon, <1>3, <1>7, <1>8 DEF LeadersTraced, Elected, l
  <2> QED BY Zenon, <1>2, <1>5, <2>1 DEF AppendOK
<1>9. AppendsTraced'
  BY Zenon, <1>2, <1>6, <1>7, <1>8 DEF AppendsTraced
<1>10. ElectedOnce'
  <2>1. Elected' = Elected /\ Elected \subseteq Nat
    BY Zenon, <1>6, <1>7 DEF Elected, Histories
  <2> QED BY Zenon, <1>7, <2>1, ElectedOnceKept
<1>11. Histories(leader_log') /\ LogsTraced' /\ LeadersTraced'
  BY Zenon, <1>6, <1>7 DEF LogsTraced, LeadersTraced, Elected
<1> QED BY Zenon, <1>9, <1>10, <1>11 DEF MatchingInv

\* A handler's reply is no call.
LEMMA AppendCalls ==
  ASSUME NEW m \in rpcs, NEW reply, reply.type \notin {"AppendEntries", "InstallSnapshot"},
         NEW waiting, Answer(m, reply, waiting)
  PROVE  CallsKept
BY Zenon DEF Answer, CallsKept

\* The log a follower is left with is a beginning of the leader's log.
LEMMA AppendMatching ==
  ASSUME TypeOK, TypeOK', VoteStep, CandidateStep, CountsStep, LeaderStep, NoneCompacted,
         MatchingInv, NEW m \in rpcs, handle_append_entries(m)
  PROVE  MatchingInv'
<1> DEFINE j == m.dest
           prev == m.prev_log_index
           own == log[j].entries
           l == truncate_and_append(log[j], prev, m.entries)
           current == m.term = AdoptedTerm(j, m.term)
<1>1. /\ m.type = "AppendEntries" /\ UNCHANGED leader_log
      /\ role' = [role EXCEPT ![j] = IF current THEN "Follower" ELSE @]
  BY Zenon DEF handle_append_entries
<1>2. \/ log' = [log EXCEPT ![j] = log[j]]
      \/ /\ current /\ PrevMatches(m, log[j]) /\ m.entries # << >>
         /\ log' = [log EXCEPT ![j] = l]
  BY Zenon DEF handle_append_entries
<1>3. CallsKept
  <2> DEFINE term == AdoptedTerm(j, m.term)
             reply == [type |-> "AppendReply", src |-> j, dest |-> m.src,
                       request_term |-> m.term, term |-> term,
                       success |-> current /\ PrevMatches(m, log[j]),
                       new_match |-> prev + Len(m.entries)]
  <2>1. Answer(m, reply, m.live)
    BY Zenon DEF handle_append_entries
  <2>2. reply.type \notin {"AppendEntries", "InstallSnapshot"}
    BY SMT
  <2> HIDE DEF reply
  <2> QED BY Zenon, <2>1, <2>2, AppendCalls
<1>4. j \in Node /\ m \in AppendEntriesCalls
  BY Zenon, <1>1, CallFields, AppendFields
<1>5. prev \in Nat /\ m.entries \in Seq(Entry)
  BY Zenon, <1>4 DEF AppendEntriesCalls
<1>6. /\ DOMAIN log = Node /\ log[j] \in Log({log[k].snapshot_data : k \in Node})
      /\ own \in Seq(Entry) /\ Len(own) \in Nat
  BY Zenon, <1>4, LogFields
<1>7. log[j].snapshot_last_index = 0
  BY Zenon, <1>4 DEF NoneCompacted
<1>8. /\ ElectedOnce /\ Histories(leader_log) /\ LogsTraced /\ LeadersTraced
      /\ AppendsTraced
  BY Zenon DEF MatchingInv
<1>9. CASE log' = [log EXCEPT ![j] = log[j]]
  <2>1. log' = log
    <3>1. log \in [Node -> Log({log[k].snapshot_data : k \in Node})]
      BY Zenon DEF TypeOK
    <3> HIDE DEF j
    <3> QED BY <1>9, <3>1
  <2>2. LogsKept
    BY Zenon, <1>1, <1>3, <2>1 DEF LogsKept
  <2> QED BY Zenon, <2>2, KeptMatching
<1>10. CASE /\ current /\ PrevMatches(m, log[j]) /\ m.entries # << >>
            /\ log' = [log EXCEPT ![j] = l]
  <2>1. prev \in 0..Len(own) /\ (prev > 0 => own[prev].term = m.prev_log_term)
    <3>1. last_index(log[j]) = Len(own)
      BY <1>6, <1>7 DEF last_index
    <3>2. CASE prev <= log[j].snapshot_last_index
      BY <1>5, <1>6, <1>7, <3>2
    <3>3. CASE has_real_entry_at(log[j], prev) /\ term_at(log[j], prev) = m.prev_log_term
      <4>1. prev <= Len(own) /\ prev - log[j].snapshot_last_index = prev
        BY <1>5, <1>6, <1>7, <3>1, <3>3 DEF has_real_entry_at
      <4>2. term_at(log[j], prev) = own[prev].term
        BY Zenon, <3>3, <4>1 DEF term_at
      <4> HIDE DEF prev, own
      <4> QED BY <1>5, <1>6, <3>3, <4>1, <4>2
    <3> QED BY Zenon, <1>10, <3>2, <3>3 DEF PrevMatches
  <2>2. m.term \in DOMAIN leader_log
        /\ Piece(prev, m.prev_log_term, m.entries, leader_log[m.term])
    BY Zenon, <1>1, <1>8, <1>10 DEF AppendsTraced, AppendOK
  <2>3. Traced(own, leader_log) /\ log[j].snapshot_last_term = 0
    BY Zenon, <1>4, <1>8 DEF LogsTraced
  <2>4. /\ l.entries = SubSeq(own, 1, prev) \o m.entries
        /\ l.snapshot_last_index = 0 /\ l.snapshot_last_term = log[j].snapshot_last_term
    <3>1. l = truncate_and_append(log[j], prev, m.entries) /\ own = log[j].entries
      OBVIOUS
    <3>2. prev \in 0..Len(log[j].entries)
      BY Zenon, <2>1
    <3> HIDE DEF j, prev, own, l
    <3> QED BY Zenon, <1>4, <1>5, <1>7, <3>1, <3>2, Truncated
  <2> HIDE DEF j, prev, own, l
  <2>5. Traced(l.entries, leader_log)
    BY Zenon, <1>5, <1>6, <1>8, <2>1, <2>2, <2>3, <2>4, AppendedTraced
  <2>6. log'[j] = l /\ \A k \in Node : k # j => log'[k] = log[k]
    BY Zenon, <1>4, <1>6, <1>10
  <2>7. LogsTraced'
    BY Zenon, <1>1, <1>8, <2>3, <2>4, <2>5, <2>6 DEF LogsTraced
  <2>8. LeadersTraced'
    <3> SUFFICES ASSUME NEW k \in Node, role'[k] = "Leader"
                 PROVE  /\ current_term'[k] \in DOMAIN leader_log
                        /\ log'[k].entries = leader_log[current_term'[k]]
      BY Zenon, <1>1 DEF LeadersTraced, Elected
    <3>1. role'[j] = "Follower"
      BY Zenon, <1>1, <1>4, <1>10, VoterTypes DEF Voters
    <3>2. k # j /\ "Follower" # "Leader"
      BY <3>1
    <3>3. role[k] = "Leader" /\ current_term'[k] = current_term[k]
      BY Zenon DEF LeaderStep
    <3> QED BY Zenon, <1>8, <2>6, <3>2, <3>3 DEF LeadersTraced, Elected
  <2>9. ElectedOnce'
    <3>1. Elected' = Elected /\ Elected \subseteq Nat
      BY Zenon, <1>1, <1>8 DEF Elected, Histories
    <3> QED BY Zenon, <1>8, <3>1, ElectedOnceKept
  <2>10. Histories(leader_log')
    BY Zenon, <1>1, <1>8
  <2>11. AppendsTraced'
    <3>1. \A t \in DOMAIN leader_log : Len(leader_log[t]) \in Nat
      BY Zenon, <1>8, HistoryLengths
    <3>2. Grows(leader_log, leader_log')
      BY <1>1, <3>1 DEF Grows
    <3> QED BY Zenon, <1>3, <1>8, <2>10, <3>2, CallsGrow
  <2> QED BY Zenon, <2>7, <2>8, <2>9, <2>10, <2>11 DEF MatchingInv
<1> QED BY Zenon, <1>2, <1>9, <1>10
----------------------------------------------------------------------------
(* Every step *)

\* The steps that do something with the logs.
LogStep ==
  \/ \E i \in Node : FinishElection(i)
  \/ \E i \in Node, c \in Command \cup {NoCommand} : Propose(i, c)
  \/ \E m \in rpcs : \/ SendInstallSnapshot(m) \/ SendAppendEntries(m)
                     \/ handle_append_entries(m) \/ handle_install_snapshot(m)
  \/ \E i \in Node, index \in 1..MaxIndex : CompactLog(i, index)

\* The calls of a node that restarts stay as they are, or go.
LEMMA RestartCalls ==
  ASSUME TypeOK, NEW i \in Node, NEW calls \in SUBSET rpcs, Restarted(i, calls)
  PROVE  CallsKept
<1> SUFFICES ASSUME NEW m \in rpcs', m.type \in {"AppendEntries", "InstallSnapshot"}
             PROVE  \E n \in rpcs : /\ n.type = m.type /\ n.term = m.term
                                    /\ m.type = "AppendEntries" =>
                                         /\ m.prev_log_index = n.prev_log_index
                                         /\ m.prev_log_term = n.prev_log_term
                                         /\ m.entries = n.entries
  BY Zenon DEF CallsKept
<1>1. \/ m \in rpcs
      \/ \E n \in rpcs : /\ n.type \in {"AppendEntries", "InstallSnapshot"}
                         /\ m = [n EXCEPT !.live = FALSE]
  BY DEF Restarted
<1> QED BY Zenon, <1>1, OrphanFields

\* All other steps leave the logs alone.
LEMMA OtherLogSteps ==
  ASSUME TypeOK, [Next]_vars
  PROVE  LogsKept \/ LogStep
<1> USE DEF diskVars, history
<1>1. CASE UNCHANGED vars
  BY Zenon, <1>1 DEF vars, LogsKept, CallsKept
<1>2. CASE Elections
  <2>1. ASSUME NEW i \in Node, StartElection(i) PROVE LogsKept
    <3>1. UNCHANGED <<log, leader_log>>
      BY Zenon, <2>1 DEF StartElection
    <3>2. \A m \in rpcs' : m \in rpcs \/ m.type = "RequestVote"
      BY <2>1 DEF StartElection
    <3> QED BY <3>1, <3>2 DEF LogsKept, CallsKept
  <2>2. ASSUME NEW m \in rpcs, handle_request_vote(m) PROVE LogsKept
    <3>1. UNCHANGED <<log, leader_log>>
      BY Zenon, <2>2 DEF handle_request_vote
    <3>2. \A n \in rpcs' : n \in rpcs \/ n.type = "VoteReply"
      BY <2>2 DEF handle_request_vote, Answer
    <3> QED BY <3>1, <3>2 DEF LogsKept, CallsKept
  <2>3. ASSUME NEW m \in rpcs, ReceiveVote(m) PROVE LogsKept
    <3>1. UNCHANGED <<log, leader_log>> /\ rpcs' \subseteq rpcs
      BY Zenon, <2>3 DEF ReceiveVote
    <3> QED BY Zenon, <3>1 DEF LogsKept, CallsKept
  <2> QED BY Zenon, <1>2, <2>1, <2>2, <2>3 DEF Elections, LogStep
<1>3. CASE Replication
  <2>1. ASSUME NEW i \in Node, NEW j \in Peers(i), ReplicateToFollower(i, j) PROVE LogsKept
    <3>1. UNCHANGED <<log, leader_log>>
      BY Zenon, <2>1 DEF ReplicateToFollower
    <3>2. \A m \in rpcs' : m \in rpcs \/ m.type = "Sender"
      BY <2>1 DEF ReplicateToFollower
    <3> QED BY <3>1, <3>2 DEF LogsKept, CallsKept
  <2>2. ASSUME NEW m \in rpcs, ReceiveAppendReply(m) PROVE LogsKept
    <3>1. UNCHANGED <<log, leader_log>> /\ rpcs' \subseteq rpcs
      BY Zenon, <2>2 DEF ReceiveAppendReply
    <3> QED BY Zenon, <3>1 DEF LogsKept, CallsKept
  <2> QED BY Zenon, <1>3, <2>1, <2>2 DEF Replication, LogStep
<1>4. CASE Snapshots
  <2>1. ASSUME NEW m \in rpcs, ReceiveSnapshotReply(m) PROVE LogsKept
    <3>1. UNCHANGED <<log, leader_log>> /\ rpcs' \subseteq rpcs
      BY Zenon, <2>1 DEF ReceiveSnapshotReply
    <3> QED BY Zenon, <3>1 DEF LogsKept, CallsKept
  <2> QED BY Zenon, <1>4, <2>1 DEF Snapshots, LogStep
<1>5. CASE Failures
  <2>1. ASSUME NEW i \in Node, Crash(i) PROVE LogsKept
    <3>1. UNCHANGED <<log, leader_log>> /\ Restarted(i, rpcs)
      BY Zenon, <2>1 DEF Crash, Restarted
    <3>2. rpcs \in SUBSET rpcs
      BY Zenon
    <3> QED BY Zenon, <3>1, <3>2, RestartCalls DEF LogsKept
  <2>2. ASSUME NEW m \in rpcs, CrashInHandler(m) PROVE LogsKept
    <3>1. UNCHANGED <<log, leader_log>> /\ Restarted(m.dest, rpcs \ {m})
      BY Zenon, <2>2 DEF CrashInHandler, Restarted
    <3>2. rpcs \ {m} \in SUBSET rpcs /\ m.dest \in Node
      BY Zenon, CallFields
    <3> QED BY Zenon, <3>1, <3>2, RestartCalls DEF LogsKept
  <2>3. ASSUME NEW m \in rpcs, Lose(m) PROVE LogsKept
    <3>1. UNCHANGED <<log, leader_log>> /\ rpcs' \subseteq rpcs
      BY Zenon, <2>3 DEF Lose
    <3> QED BY Zenon, <3>1 DEF LogsKept, CallsKept
  <2> QED BY Zenon, <1>5, <2>1, <2>2, <2>3 DEF Failures
<1> QED BY Zenon, <1>1, <1>2, <1>3, <1>4, <1>5 DEF Next

\* A log that has been compacted stays so.
LEMMA Compacted ==
  ASSUME TypeOK, NEW i \in Node, NEW index \in Nat, index > log[i].snapshot_last_index,
         NEW term, NEW data, log' = [log EXCEPT ![i] = compact(log[i], index, term, data)]
  PROVE  ~NoneCompacted'
<1>1. DOMAIN log = Node /\ log[i].snapshot_last_index \in Nat
  BY Zenon, LogFields
<1>2. ~(index <= log[i].snapshot_last_index) /\ index # 0
  BY <1>1
<1>3. compact(log[i], index, term, data).snapshot_last_index = index
  BY Zenon, <1>2 DEF compact
<1>4. log'[i].snapshot_last_index = index
  BY Zenon, <1>1, <1>3
<1> QED BY Zenon, <1>2, <1>4 DEF NoneCompacted

\* Before a state in which no log is compacted there was no such log either.
LEMMA NoneBefore ==
  ASSUME TypeOK, [Next]_vars, NoneCompacted'
  PROVE  NoneCompacted
<1>1. CASE UNCHANGED log
  BY Zenon, <1>1 DEF NoneCompacted
<1>2. ASSUME NEW i \in Node, NEW l, log' = [log EXCEPT ![i] = l],
             l.snapshot_last_index = log[i].snapshot_last_index
      PROVE  NoneCompacted
  <2>1. DOMAIN log = Node
    BY Zenon, <1>2, LogFields
  <2>2. \A j \in Node : log'[j].snapshot_last_index = log[j].snapshot_last_index
    BY Zenon, <1>2, <2>1
  <2> QED BY Zenon, <2>2 DEF NoneCompacted
<1>3. ASSUME NEW i \in Node, NEW c \in Command \cup {NoCommand}, Propose(i, c)
      PROVE  NoneCompacted
  <2>1. log' = [log EXCEPT ![i] = append(log[i], current_term[i], c)]
    BY Zenon, <1>3 DEF Propose
  <2>2. log[i] \in Log({log[j].snapshot_data : j \in Node})
    BY Zenon, LogFields
  <2>3. append(log[i], current_term[i], c).snapshot_last_index = log[i].snapshot_last_index
    BY Zenon, <2>2 DEF append, Log
  <2> QED BY Zenon, <1>2, <2>1, <2>3
<1>4. ASSUME NEW m \in rpcs, handle_append_entries(m) PROVE NoneCompacted
  <2> DEFINE j == m.dest
             l == truncate_and_append(log[j], m.prev_log_index, m.entries)
  <2>1. j \in Node
    BY Zenon, CallFields
  <2>2. log' = [log EXCEPT ![j] = log[j]] \/ log' = [log EXCEPT ![j] = l]
    BY Zenon, <1>4 DEF handle_append_entries
  <2>3. log[j] \in Log({log[k].snapshot_data : k \in Node})
    BY Zenon, <2>1, LogFields
  <2>4. l.snapshot_last_index = log[j].snapshot_last_index
    BY Zenon, <2>3 DEF truncate_and_append, Log
  <2> HIDE DEF l, j
  <2> QED BY Zenon, <1>2, <2>1, <2>2, <2>4
<1>5. ASSUME NEW m \in rpcs, handle_install_snapshot(m) PROVE NoneCompacted
  <2> DEFINE j == m.dest
             index == m.last_included_index
  <2>1. j \in Node
    BY Zenon, CallFields
  <2>2. \/ log' = log
        \/ /\ index > log[j].snapshot_last_index
           /\ log' = [log EXCEPT ![j] = compact(@, index, m.last_included_term, m.data)]
    BY Zenon, <1>5 DEF handle_install_snapshot
  <2>3. m.type = "InstallSnapshot"
    BY Zenon, <1>5 DEF handle_install_snapshot
  <2>4. index \in Nat
    BY Zenon, <2>3, SnapshotFields
  <2> HIDE DEF j, index
  <2>5. CASE log' = log
    BY Zenon, <1>1, <2>5
  <2>6. CASE /\ index > log[j].snapshot_last_index
             /\ log' = [log EXCEPT ![j] = compact(@, index, m.last_included_term, m.data)]
    <3>1. PICK term, data : log' = [log EXCEPT ![j] = compact(log[j], index, term, data)]
      BY Zenon, <2>6
    <3> QED BY Zenon, <2>1, <2>4, <2>6, <3>1, Compacted
  <2> QED BY Zenon, <2>2, <2>5, <2>6
<1>6. ASSUME NEW i \in Node, NEW index \in 1..MaxIndex, CompactLog(i, index)
      PROVE  NoneCompacted
  <2>1. index \in Nat
    OBVIOUS
  <2>2. log[i].snapshot_last_index < index
    BY Zenon, <1>6 DEF CompactLog
  <2>3. log[i].snapshot_last_index \in Nat
    BY Zenon, LogFields
  <2>4. index > log[i].snapshot_last_index
    BY <2>1, <2>2, <2>3
  <2>5. PICK term, data : log' = [log EXCEPT ![i] = compact(log[i], index, term, data)]
    BY Zenon, <1>6 DEF CompactLog
  <2> QED BY Zenon, <2>1, <2>4, <2>5, Compacted
<1>7. ASSUME \/ \E i \in Node : FinishElection(i)
             \/ \E m \in rpcs : SendInstallSnapshot(m) \/ SendAppendEntries(m)
      PROVE  UNCHANGED log
  BY Zenon, <1>7 DEF FinishElection, SendInstallSnapshot, SendAppendEntries, Send, diskVars
<1>8. LogsKept \/ LogStep
  BY Zenon, OtherLogSteps
<1> QED BY Zenon, <1>1, <1>3, <1>4, <1>5, <1>6, <1>7, <1>8 DEF LogsKept, LogStep

\* As long as no log is compacted, every step keeps MatchingInv.
LEMMA MatchingStep ==
  ASSUME TypeOK, TypeOK', QuorumsMeet, ElectionInv, ElectionInv', [Next]_vars,
         NoneCompacted', MatchingInv
  PROVE  MatchingInv'
<1>1. VoteStep /\ CandidateStep /\ (LeaderStep \/ \E i \in Node : FinishElection(i))
  BY Zenon, StepVotes
<1>2. CountsStep
  BY Zenon, ElectionStep
<1>3. NoneCompacted
  BY Zenon, NoneBefore
<1>4. CASE \E i \in Node : FinishElection(i)
  BY Zenon, <1>1, <1>2, <1>3, <1>4, FinishMatching
<1>5. CASE LeaderStep /\ LogsKept
  BY Zenon, <1>1, <1>2, <1>5, KeptMatching
<1>6. ASSUME NEW i \in Node, NEW c \in Command \cup {NoCommand}, Propose(i, c)
      PROVE  MatchingInv'
  BY Zenon, <1>1, <1>2, <1>6, OneLeader, ProposeMatching
<1>7. ASSUME NEW m \in rpcs, SendAppendEntries(m) PROVE MatchingInv'
  BY Zenon, <1>1, <1>2, <1>3, <1>7, SendMatching
<1>8. ASSUME LeaderStep, NEW m \in rpcs, handle_append_entries(m) PROVE MatchingInv'
  BY Zenon, <1>1, <1>2, <1>3, <1>8, AppendMatching
<1>9. ASSUME NEW m \in rpcs, handle_install_snapshot(m) PROVE FALSE
  BY Zenon, <1>9 DEF handle_install_snapshot, MatchingInv, AppendsTraced
<1>10. ASSUME NEW m \in rpcs, SendInstallSnapshot(m) PROVE FALSE
  <2>1. m.type = "Sender" /\ m.next_idx - 1 < log[m.src].snapshot_last_index
    BY Zenon, <1>10 DEF SendInstallSnapshot
  <2>2. m.src \in Node /\ m.next_idx - 1 \in Nat
    BY Zenon, <2>1, SenderFields
  <2>3. log[m.src].snapshot_last_index = 0
    BY Zenon, <1>3, <2>2 DEF NoneCompacted
  <2> QED BY <2>1, <2>2, <2>3
<1>11. ASSUME NEW i \in Node, NEW index \in 1..MaxIndex, CompactLog(i, index) PROVE FALSE
  <2>1. PICK term, data : log' = [log EXCEPT ![i] = compact(log[i], index, term, data)]
    BY Zenon, <1>11 DEF CompactLog
  <2>2. log[i].snapshot_last_index = 0
    BY Zenon, <1>3 DEF NoneCompacted
  <2>3. index \in Nat /\ index > log[i].snapshot_last_index
    BY <2>2
  <2> QED BY Zenon, <2>1, <2>3, Compacted
<1>12. LogsKept \/ LogStep
  BY Zenon, OtherLogSteps
<1> QED BY Zenon, <1>1, <1>4, <1>5, <1>6, <1>7, <1>8, <1>9, <1>10, <1>11, <1>12 DEF LogStep

LEMMA MatchingInit == Init => MatchingInv
<1> SUFFICES ASSUME Init PROVE MatchingInv
  OBVIOUS
<1>1. leader_log = [t \in {0} |-> << >>] /\ rpcs = {} /\ log = [i \in Node |-> EmptyLog]
      /\ role = [i \in Node |-> "Follower"]
  BY Zenon DEF Init
<1>2. DOMAIN leader_log = {0} /\ leader_log[0] = << >>
  BY Zenon, <1>1
<1>3. Traced(<< >>, leader_log)
  BY DEF Traced
<1>4. Histories(leader_log)
  <2>1. << >> \in Seq(Entry) /\ {0} \subseteq Nat
    OBVIOUS
  <2> QED BY Zenon, <1>2, <1>3, <2>1 DEF Histories
<1>5. LogsTraced
  BY Zenon, <1>1, <1>3 DEF LogsTraced, EmptyLog
<1>6. LeadersTraced
  <2>1. "Follower" # "Leader"
    OBVIOUS
  <2> QED BY Zenon, <1>1, <2>1 DEF LeadersTraced
<1>7. AppendsTraced /\ ElectedOnce
  BY Zenon, <1>1, <1>2 DEF AppendsTraced, ElectedOnce, Elected
<1> QED BY Zenon, <1>4, <1>5, <1>6, <1>7 DEF MatchingInv

\* Entries of one term come from one leader, and with them all before.
LEMMA MatchingLogs ==
  ASSUME TypeOK, MatchingInv
  PROVE  LogMatching
<1> SUFFICES ASSUME NEW i \in Node, NEW j \in Node,
                    NEW k \in 1..Lesser(last_index(log[i]), last_index(log[j])),
                    log[i].snapshot_last_index = 0, log[j].snapshot_last_index = 0,
                    term_at(log[i], k) = term_at(log[j], k)
             PROVE  SubSeq(log[i].entries, 1, k) = SubSeq(log[j].entries, 1, k)
  BY Zenon DEF LogMatching
<1> DEFINE r == log[i].entries
           s == log[j].entries
<1>1. r \in Seq(Entry) /\ Len(r) \in Nat /\ s \in Seq(Entry) /\ Len(s) \in Nat
  BY Zenon, LogFields
<1>2. last_index(log[i]) = Len(r) /\ last_index(log[j]) = Len(s)
  BY <1>1 DEF last_index
<1>3. k \in 1..Len(r) /\ k \in 1..Len(s) /\ k \in Nat /\ k <= Len(r) /\ k <= Len(s)
  BY <1>1, <1>2 DEF Lesser
<1>4. has_real_entry_at(log[i], k) /\ has_real_entry_at(log[j], k) /\ k - 0 = k
  BY <1>2, <1>3 DEF has_real_entry_at
<1>5. term_at(log[i], k) = r[k].term /\ term_at(log[j], k) = s[k].term
  BY Zenon, <1>4 DEF term_at
<1>6. Traced(r, leader_log) /\ Traced(s, leader_log)
  BY Zenon DEF MatchingInv, LogsTraced
<1>7. r[k].term = s[k].term
  BY Zenon, <1>5
<1> HIDE DEF r, s
<1>8. \A n \in 1..k : r[n] = s[n]
  <2>1. \A n \in 1..k : r[n] = leader_log[r[k].term][n]
    BY Zenon, <1>3, <1>6 DEF Traced
  <2>2. \A n \in 1..k : s[n] = leader_log[s[k].term][n]
    BY Zenon, <1>3, <1>6 DEF Traced
  <2> QED BY Zenon, <1>7, <2>1, <2>2
<1>9. SubSeq(r, 1, k) = SubSeq(s, 1, k)
  BY Zenon, <1>1, <1>3, <1>8, SameSubSeq
<1> QED BY Zenon, <1>9 DEF r, s
============================================================================
