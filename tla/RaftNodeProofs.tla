--------------------------- MODULE RaftNodeProofs --------------------------
(***************************************************************************)
(* Type correctness of RaftNode: the members of every coordinator and the  *)
(* calls in flight keep their types, for every group and every bound.      *)
(***************************************************************************)
EXTENDS RaftNode, TLAPS

USE SMTT(30)
----------------------------------------------------------------------------
(* What the operators of RaftLog return, for every log *)

\* last_index and last_term of a log are natural numbers.
LEMMA LastType ==
  ASSUME NEW State, NEW l \in Log(State)
  PROVE  last_index(l) \in Nat /\ last_term(l) \in Nat
<1>1. l.entries \in Seq(Entry) /\ l.snapshot_last_index \in Nat
      /\ l.snapshot_last_term \in Nat
  BY DEF Log
<1>2. last_index(l) \in Nat
  BY <1>1 DEF last_index
<1>3. CASE l.entries = << >>
  BY <1>1, <1>2, <1>3 DEF last_term
<1>4. CASE l.entries # << >>
  <2>1. Len(l.entries) \in DOMAIN l.entries
    BY <1>1, <1>4
  <2>2. l.entries[Len(l.entries)] \in Entry
    BY <1>1, <2>1
  <2> QED BY <1>2, <1>4, <2>2 DEF last_term, Entry
<1> QED BY <1>3, <1>4

\* term_at and command_at are total: whatever the index, they return a term and
\* a command, perhaps 0 and the empty one.
LEMMA AtType ==
  ASSUME NEW State, NEW l \in Log(State), NEW index \in Nat
  PROVE  /\ term_at(l, index) \in Nat
         /\ command_at(l, index) \in Command \cup {NoCommand}
<1>1. l.entries \in Seq(Entry) /\ l.snapshot_last_index \in Nat
      /\ l.snapshot_last_term \in Nat
  BY DEF Log
<1>2. CASE has_real_entry_at(l, index)
  <2>1. index - l.snapshot_last_index \in 1..Len(l.entries)
    BY <1>1, <1>2 DEF has_real_entry_at, last_index
  <2>2. l.entries[index - l.snapshot_last_index] \in Entry
    BY <1>1, <2>1
  <2> QED BY <1>2, <2>2 DEF term_at, command_at, Entry
<1>3. CASE ~has_real_entry_at(l, index)
  BY <1>1, <1>3 DEF term_at, command_at
<1> QED BY <1>2, <1>3

\* The mutations return logs.
LEMMA AppendType ==
  ASSUME NEW State, NEW l \in Log(State), NEW term \in Nat,
         NEW command \in Command \cup {NoCommand}
  PROVE  append(l, term, command) \in Log(State)
<1>1. [term |-> term, command |-> command] \in Entry
  BY DEF Entry
<1>2. l.entries \in Seq(Entry)
  BY DEF Log
<1>3. Append(l.entries, [term |-> term, command |-> command]) \in Seq(Entry)
  BY <1>1, <1>2
<1> QED BY Zenon, <1>3 DEF append, Log

LEMMA TruncateType ==
  ASSUME NEW State, NEW l \in Log(State), NEW keep_count \in Nat,
         NEW new_entries \in Seq(Entry)
  PROVE  truncate_and_append(l, keep_count, new_entries) \in Log(State)
<1> DEFINE snap == l.snapshot_last_index
           physical_keep == IF keep_count > snap THEN keep_count - snap ELSE 0
           covered == IF keep_count < snap THEN snap - keep_count ELSE 0
           kept == SubSeq(l.entries, 1, Lesser(physical_keep, Len(l.entries)))
           added == SubSeq(new_entries, covered + 1, Len(new_entries))
<1>1. l.entries \in Seq(Entry) /\ snap \in Nat
  BY DEF Log
<1>2. Len(l.entries) \in Nat /\ Len(new_entries) \in Nat
  BY <1>1
<1>3. physical_keep \in Nat /\ covered \in Nat
  BY <1>1
<1>4. Lesser(physical_keep, Len(l.entries)) \in 0..Len(l.entries)
  BY <1>2, <1>3 DEF Lesser
<1> HIDE DEF physical_keep, covered
<1>5. kept \in Seq(Entry)
  BY <1>1, <1>2, <1>4
<1>6. added \in Seq(Entry)
  BY <1>2, <1>3
<1>7. kept \o added \in Seq(Entry)
  BY <1>5, <1>6
<1>8. truncate_and_append(l, keep_count, new_entries)
        = [l EXCEPT !.entries = kept \o added]
  BY DEF truncate_and_append, physical_keep, covered
<1> QED BY Zenon, <1>7, <1>8 DEF Log

LEMMA CompactType ==
  ASSUME NEW State, NEW l \in Log(State), NEW up_to_index \in Nat,
         NEW snapshot_term \in Nat, NEW data
  PROVE  compact(l, up_to_index, snapshot_term, data) \in Log(State \cup {data})
<1> DEFINE remove_count == Lesser(up_to_index - l.snapshot_last_index, Len(l.entries))
<1>1. l.entries \in Seq(Entry) /\ l.snapshot_last_index \in Nat
      /\ Len(l.entries) \in Nat
  BY DEF Log
<1>2. CASE up_to_index <= l.snapshot_last_index
  BY <1>2 DEF compact, Log
<1>3. CASE ~(up_to_index <= l.snapshot_last_index)
  <2>1. remove_count \in 0..Len(l.entries)
    BY <1>1, <1>3 DEF Lesser
  <2> HIDE DEF remove_count
  <2>2. SubSeq(l.entries, remove_count + 1, Len(l.entries)) \in Seq(Entry)
    BY <1>1, <2>1
  <2> QED BY <1>3, <2>2 DEF compact, Log, remove_count
<1> QED BY <1>2, <1>3

----------------------------------------------------------------------------
(* Types *)

\* TypeOK in five parts, which different actions disturb.
Members ==
  /\ current_term \in [Node -> Nat]
  /\ voted_for \in [Node -> Node \cup {None}]
  /\ role \in [Node -> {"Follower", "Candidate", "Leader"}]
  /\ leader_id \in [Node -> Node \cup {None}]
  /\ commit_index \in [Node -> Nat]
  /\ last_applied \in [Node -> Nat]
  /\ electing \in [Node -> Nat]
  /\ votes \in [Node -> SUBSET Node]
  /\ crashes \in Nat
LeaderIndices == /\ next_index \in [Node -> [Node -> Nat \ {0}]]
                 /\ match_index \in [Node -> [Node -> Nat]]
Logs == log \in [Node -> Log({log[i].snapshot_data : i \in Node})]
Calls == \A m \in rpcs : IsMessage(m)
Commits == committed \subseteq [index : Nat, term : Nat, commit_term : Nat,
                               command : Command \cup {NoCommand}]

LEMMA TypeParts == TypeOK => Members /\ LeaderIndices /\ Logs /\ Calls /\ Commits
BY DEF TypeOK, Members, LeaderIndices, Logs, Calls, Commits

LEMMA TypePartsNext ==
  Members' /\ LeaderIndices' /\ Logs' /\ Calls' /\ Commits' => TypeOK'
BY DEF TypeOK, Members, LeaderIndices, Logs, Calls, Commits

\* The type of a call tells which fields it has.
LEMMA MessageFields ==
  ASSUME NEW m, IsMessage(m)
  PROVE  /\ m.src \in Node /\ m.dest \in Node /\ m.term \in Nat
         /\ m.type = "RequestVote" => m \in RequestVoteCalls
         /\ m.type = "VoteReply" => m \in VoteReplies
         /\ m.type = "Sender" => m \in Senders
         /\ m.type = "AppendEntries" => m \in AppendEntriesCalls
         /\ m.type = "AppendReply" => m \in AppendReplies
         /\ m.type = "InstallSnapshot" => m \in InstallSnapshotCalls({m.data})
         /\ m.type = "SnapshotReply" => m \in SnapshotReplies
BY DEF IsMessage, RequestVoteCalls, VoteReplies, Senders, AppendEntriesCalls,
       AppendReplies, InstallSnapshotCalls, SnapshotReplies

\* Logs are typed one by one.
LEMMA LogTypes ==
  ASSUME TypeOK, NEW i \in Node
  PROVE  log[i] \in Log({log[i].snapshot_data})
BY DEF TypeOK, Log

LEMMA LogUpdate ==
  ASSUME TypeOK, NEW i \in Node, NEW l, l \in Log({l.snapshot_data}),
         log' = [log EXCEPT ![i] = l]
  PROVE  Logs'
<1>1. log' \in [Node -> Log({log'[k].snapshot_data : k \in Node})]
  <2>1. DOMAIN log = Node
    BY DEF TypeOK
  <2>2. log' = [k \in Node |-> IF k = i THEN l ELSE log[k]]
    BY Zenon, <2>1
  <2>3. \A k \in Node : log'[k] \in Log({log'[k].snapshot_data})
    BY <2>2, LogTypes
  <2>4. \A k \in Node : log'[k] \in Log({log'[j].snapshot_data : j \in Node})
    BY <2>3 DEF Log
  <2> QED BY Zenon, <2>2, <2>4
<1> QED BY <1>1 DEF Logs

\* What Apply and AdvanceCommit leave in the indices is a number.
LEMMA ApplyType ==
  ASSUME TypeOK, NEW i \in Node, NEW l, NEW commit \in Nat, Apply(i, l, commit)
  PROVE  commit_index' \in [Node -> Nat] /\ last_applied' \in [Node -> Nat]
BY DEF TypeOK, Apply

LEMMA NewCommitType ==
  ASSUME TypeOK, NEW i \in Node, NEW State, NEW l \in Log(State), NEW match
  PROVE  compute_new_commit_index(i, l, match) \in Nat
<1> DEFINE candidates == {n \in (commit_index[i] + 1)..last_index(l) :
                            AtMajority(i, l, match, n) /\ OwnTerm(i, l, n)}
<1>1. commit_index[i] \in Nat /\ last_index(l) \in Nat
  BY LastType DEF TypeOK
<1>2. candidates \subseteq Nat
  BY <1>1
<1>3. compute_new_commit_index(i, l, match) =
        IF candidates = {} THEN commit_index[i] ELSE CHOOSE n \in candidates : TRUE
  BY DEF compute_new_commit_index
<1> HIDE DEF candidates
<1> QED BY Zenon, <1>1, <1>2, <1>3

LEMMA AdvanceType ==
  ASSUME TypeOK, NEW i \in Node, NEW State, NEW l \in Log(State), NEW match,
         AdvanceCommit(i, l, match)
  PROVE  /\ commit_index' \in [Node -> Nat] /\ last_applied' \in [Node -> Nat]
         /\ committed' \subseteq [index : Nat, term : Nat, commit_term : Nat,
                                  command : Command \cup {NoCommand}]
<1> DEFINE new_commit == compute_new_commit_index(i, l, match)
<1>1. new_commit \in Nat /\ commit_index[i] \in Nat /\ current_term[i] \in Nat
  BY Zenon, NewCommitType DEF TypeOK
<1>2. Apply(i, l, new_commit)
  BY DEF AdvanceCommit
<1>3. committed' = committed \cup
           {[index |-> k, term |-> term_at(l, k), command |-> command_at(l, k),
             commit_term |-> current_term[i]] :
              k \in (commit_index[i] + 1)..new_commit}
  BY DEF AdvanceCommit
<1> HIDE DEF new_commit
<1>4. \A k \in (commit_index[i] + 1)..new_commit :
        k \in Nat /\ term_at(l, k) \in Nat /\ command_at(l, k) \in Command \cup {NoCommand}
  BY <1>1, AtType
<1>5. committed' \subseteq [index : Nat, term : Nat, commit_term : Nat,
                            command : Command \cup {NoCommand}]
  BY <1>1, <1>3, <1>4 DEF TypeOK
<1> QED BY <1>1, <1>2, <1>5, ApplyType

\* Initially every member has its type.
LEMMA TypeInit == Init => TypeOK
<1> SUFFICES ASSUME Init PROVE TypeOK
  OBVIOUS
<1>1. EmptyLog \in Log({EmptyLog.snapshot_data})
  BY DEF EmptyLog, Log
<1>2. log \in [Node -> Log({log[i].snapshot_data : i \in Node})]
  BY <1>1 DEF Init, Log
<1> QED BY <1>2 DEF Init, TypeOK

\* The actions of an election keep the types.
LEMMA TypeElections ==
  ASSUME TypeOK, Elections
  PROVE  TypeOK'
<1> USE DEF diskVars, applyVars, leaderVars, electionVars, history
<1>0. Members /\ LeaderIndices /\ Logs /\ Calls /\ Commits
  BY TypeParts
<1>1. ASSUME NEW i \in Node, StartElection(i)
      PROVE  TypeOK'
  <2>1. Calls'
    <3>1. last_index(log[i]) \in Nat /\ last_term(log[i]) \in Nat
      BY Zenon, LogTypes, LastType
    <3>2. \A j \in Peers(i) :
            [type |-> "RequestVote", src |-> i, dest |-> j, term |-> current_term[i] + 1,
             last_log_index |-> last_index(log[i]),
             last_log_term |-> last_term(log[i])] \in RequestVoteCalls
      BY <3>1 DEF RequestVoteCalls, Peers, TypeOK
    <3> QED BY <1>0, <1>1, <3>2 DEF StartElection, Calls, IsMessage
  <2>2. Members'
    BY <1>0, <1>1 DEF StartElection, Members
  <2>3. LeaderIndices' /\ Logs' /\ Commits'
    BY Zenon, <1>0, <1>1 DEF StartElection, LeaderIndices, Logs, Commits
  <2> QED BY <2>1, <2>2, <2>3, TypePartsNext
<1>2. ASSUME NEW i \in Node, FinishElection(i)
      PROVE  TypeOK'
  <2>1. Calls'
    BY <1>0, <1>2 DEF FinishElection, Calls
  <2>2. Members'
    <3>1. /\ role' = role \/ role' = [role EXCEPT ![i] = "Leader"]
          /\ leader_id' = leader_id \/ leader_id' = [leader_id EXCEPT ![i] = i]
          /\ electing' = [electing EXCEPT ![i] = 0]
          /\ UNCHANGED <<current_term, voted_for, votes, commit_index, last_applied,
                         crashes>>
      BY <1>2 DEF FinishElection
    <3> QED BY <1>0, <3>1 DEF Members
  <2>3. LeaderIndices'
    <3>1. /\ \/ next_index' = next_index
             \/ next_index' = [next_index EXCEPT ![i] =
                                 [j \in Node |-> last_index(log[i]) + 1]]
          /\ \/ match_index' = match_index
             \/ match_index' = [match_index EXCEPT ![i] = [j \in Node |-> 0]]
      BY <1>2 DEF FinishElection
    <3>2. last_index(log[i]) \in Nat
      BY Zenon, LogTypes, LastType
    <3>3. /\ [j \in Node |-> last_index(log[i]) + 1] \in [Node -> Nat \ {0}]
          /\ [j \in Node |-> 0] \in [Node -> Nat]
      BY <3>2
    <3> QED BY ZenonT(30), <1>0, <3>1, <3>3 DEF LeaderIndices
  <2>4. Logs' /\ Commits'
    BY <1>0, <1>2 DEF FinishElection, Logs, Commits
  <2> QED BY <2>1, <2>2, <2>3, <2>4, TypePartsNext
<1>3. ASSUME NEW m \in rpcs, handle_request_vote(m)
      PROVE  TypeOK'
  <2>1. m \in RequestVoteCalls /\ m.dest \in Node /\ m.src \in Node /\ m.term \in Nat
    BY Zenon, <1>0, <1>3, MessageFields DEF handle_request_vote, Calls
  <2>2. AdoptedTerm(m.dest, m.term) \in Nat
        /\ AdoptedVote(m.dest, m.term) \in Node \cup {None}
    BY <1>0, <2>1 DEF AdoptedTerm, AdoptedVote, Members
  <2>3. Calls'
    <3>1. PICK granted \in BOOLEAN :
            rpcs' \subseteq rpcs \cup
              {[type |-> "VoteReply", src |-> m.dest, dest |-> m.src,
                election_term |-> m.term, term |-> AdoptedTerm(m.dest, m.term),
                vote_granted |-> granted]}
      BY Zenon, <1>3 DEF handle_request_vote, Answer
    <3>2. [type |-> "VoteReply", src |-> m.dest, dest |-> m.src,
           election_term |-> m.term, term |-> AdoptedTerm(m.dest, m.term),
           vote_granted |-> granted] \in VoteReplies
      BY <2>1, <2>2 DEF VoteReplies
    <3> QED BY <1>0, <3>1, <3>2 DEF IsMessage, Calls
  <2>4. Members'
    BY <1>0, <1>3, <2>1, <2>2 DEF handle_request_vote, Members
  <2>5. LeaderIndices' /\ Logs' /\ Commits'
    BY Zenon, <1>0, <1>3 DEF handle_request_vote, LeaderIndices, Logs, Commits
  <2> QED BY <2>3, <2>4, <2>5, TypePartsNext
<1>4. ASSUME NEW m \in rpcs, ReceiveVote(m)
      PROVE  TypeOK'
  <2>1. m.dest \in Node /\ m.src \in Node /\ m.term \in Nat
        /\ m \in VoteReplies
    BY Zenon, <1>0, <1>4, MessageFields DEF ReceiveVote, Calls
  <2>2. Calls'
    BY <1>0, <1>4 DEF ReceiveVote, Calls
  <2>3. Members'
    <3>1. m.vote_granted \in BOOLEAN
      BY <2>1 DEF VoteReplies
    <3>2. votes' \in [Node -> SUBSET Node]
      <4>1. \/ votes' = votes
            \/ votes' = [votes EXCEPT ![m.dest] = IF m.vote_granted THEN @ \cup {m.src}
                                                                  ELSE @]
        BY <1>4 DEF ReceiveVote
      <4> QED BY <1>0, <2>1, <3>1, <4>1 DEF Members
    <3>3. \/ BecomeFollower(m.dest, m.term)
          \/ UNCHANGED <<current_term, voted_for, role>>
      BY <1>4 DEF ReceiveVote
    <3>4. UNCHANGED <<leader_id, commit_index, last_applied, next_index, match_index,
                      electing, crashes>>
      BY <1>4 DEF ReceiveVote
    <3> QED BY <1>0, <2>1, <3>2, <3>3, <3>4 DEF BecomeFollower, Members
  <2>4. LeaderIndices' /\ Logs' /\ Commits'
    BY <1>0, <1>4 DEF ReceiveVote, LeaderIndices, Logs, Commits
  <2> QED BY <2>2, <2>3, <2>4, TypePartsNext
<1> QED BY <1>1, <1>2, <1>3, <1>4 DEF Elections

\* The actions of replication keep the types.
LEMMA TypeReplication ==
  ASSUME TypeOK, Replication
  PROVE  TypeOK'
<1> USE DEF diskVars, applyVars, leaderVars, electionVars, history
<1>0. Members /\ LeaderIndices /\ Logs /\ Calls /\ Commits
  BY TypeParts
<1>1. ASSUME NEW i \in Node, NEW command \in Command \cup {NoCommand},
             Propose(i, command)
      PROVE  TypeOK'
  <2> DEFINE l == append(log[i], current_term[i], command)
  <2>1. l \in Log({log[i].snapshot_data}) /\ l.snapshot_data = log[i].snapshot_data
    <3>1. log[i] \in Log({log[i].snapshot_data}) /\ current_term[i] \in Nat
      BY <1>0, LogTypes DEF Members
    <3>2. l \in Log({log[i].snapshot_data})
      BY <3>1, AppendType
    <3> QED BY <3>2 DEF Log
  <2>2. AdvanceCommit(i, l, match_index[i]) /\ log' = [log EXCEPT ![i] = l]
    BY <1>1 DEF Propose
  <2> HIDE DEF l
  <2>3. Logs'
    BY Zenon, <2>1, <2>2, LogUpdate
  <2>4. Commits' /\ commit_index' \in [Node -> Nat] /\ last_applied' \in [Node -> Nat]
    BY <2>1, <2>2, AdvanceType DEF Commits
  <2>5. Members'
    BY <1>0, <1>1, <2>4 DEF Propose, Members
  <2>6. LeaderIndices' /\ Calls'
    BY <1>0, <1>1 DEF Propose, LeaderIndices, Calls
  <2> QED BY <2>3, <2>4, <2>5, <2>6, TypePartsNext
<1>2. ASSUME NEW i \in Node, NEW j \in Peers(i), ReplicateToFollower(i, j)
      PROVE  TypeOK'
  <2>1. Calls'
    <3>1. log[i].snapshot_last_index \in Nat
      BY LogTypes DEF Log
    <3>2. next_index[i][j] \in Nat \ {0} /\ current_term[i] \in Nat /\ j \in Node
      BY <1>0 DEF LeaderIndices, Members, Peers
    <3>3. [type |-> "Sender", src |-> i, dest |-> j, term |-> current_term[i],
           next_idx |-> next_index[i][j], snap |-> log[i].snapshot_last_index] \in Senders
      BY <3>1, <3>2 DEF Senders
    <3> QED BY <1>0, <1>2, <3>3 DEF ReplicateToFollower, Calls, IsMessage
  <2>2. UNCHANGED <<current_term, voted_for, log, role, leader_id, commit_index, last_applied,
                    next_index, match_index, electing, votes, crashes, committed>>
    BY Zenon, <1>2 DEF ReplicateToFollower, diskVars, applyVars, leaderVars, electionVars, history
  <2>3. Members' /\ LeaderIndices' /\ Logs' /\ Commits'
    BY Zenon, <1>0, <2>2 DEF Members, LeaderIndices, Logs, Commits
  <2> QED BY Zenon, <2>1, <2>3, TypePartsNext
<1>3. ASSUME NEW m \in rpcs, NEW request, IsMessage(request), Send(m, request)
      PROVE  TypeOK'
  <2>1. Calls'
    BY <1>0, <1>3 DEF Send, Calls
  <2>2. UNCHANGED <<current_term, voted_for, log, role, leader_id, commit_index, last_applied,
                    next_index, match_index, electing, votes, crashes, committed>>
    BY Zenon, <1>3 DEF Send, diskVars, applyVars, leaderVars, electionVars, history
  <2>3. Members' /\ LeaderIndices' /\ Logs' /\ Commits'
    BY Zenon, <1>0, <2>2 DEF Members, LeaderIndices, Logs, Commits
  <2> QED BY Zenon, <2>1, <2>3, TypePartsNext
<1>4. ASSUME NEW m \in rpcs, SendInstallSnapshot(m)
      PROVE  TypeOK'
  <2> DEFINE l == log[m.src]
             request == [type |-> "InstallSnapshot", src |-> m.src, dest |-> m.dest,
                         term |-> m.term,
                         last_included_index |-> l.snapshot_last_index,
                         last_included_term |-> l.snapshot_last_term,
                         data |-> l.snapshot_data, live |-> TRUE]
  <2>1. m.src \in Node /\ m.dest \in Node /\ m.term \in Nat
    BY Zenon, <1>0, MessageFields DEF Calls
  <2>2. l.snapshot_last_index \in Nat /\ l.snapshot_last_term \in Nat
    BY <2>1, LogTypes DEF Log
  <2>3. request \in InstallSnapshotCalls({request.data}) /\ request.type = "InstallSnapshot"
    BY <2>1, <2>2 DEF InstallSnapshotCalls
  <2>4. Send(m, request)
    BY <1>4 DEF SendInstallSnapshot
  <2> HIDE DEF request
  <2>5. IsMessage(request)
    BY <2>3 DEF IsMessage
  <2> QED BY <1>3, <2>4, <2>5
<1>5. ASSUME NEW m \in rpcs, SendAppendEntries(m)
      PROVE  TypeOK'
  <2> DEFINE l == log[m.src]
             prev == m.next_idx - 1
             n == IF last_index(l) > prev THEN last_index(l) - prev ELSE 0
             entries == [k \in 1..n |-> [term |-> term_at(l, prev + k),
                                        command |-> command_at(l, prev + k)]]
             request == [type |-> "AppendEntries", src |-> m.src, dest |-> m.dest,
                         term |-> m.term, prev_log_index |-> prev,
                         prev_log_term |-> term_at(l, prev), entries |-> entries,
                         leader_commit |-> commit_index[m.src], live |-> TRUE]
  <2>1. m.src \in Node /\ m.dest \in Node /\ m.term \in Nat /\ m \in Senders
    BY Zenon, <1>0, <1>5, MessageFields DEF SendAppendEntries, Calls
  <2>2. l \in Log({l.snapshot_data}) /\ last_index(l) \in Nat
        /\ commit_index[m.src] \in Nat
    BY Zenon, <1>0, <2>1, LogTypes, LastType DEF Members
  <2>3. prev \in Nat
    BY <2>1 DEF Senders
  <2>4. n \in Nat
    BY <2>2, <2>3
  <2>5. Send(m, request)
    BY <1>5 DEF SendAppendEntries
  <2> HIDE DEF l, prev, n
  <2>6. \A k \in 1..n : [term |-> term_at(l, prev + k),
                        command |-> command_at(l, prev + k)] \in Entry
    BY <2>2, <2>3, <2>4, AtType DEF Entry
  <2>7. entries \in Seq(Entry)
    BY <2>4, <2>6
  <2>8. term_at(l, prev) \in Nat
    BY <2>2, <2>3, AtType
  <2> HIDE DEF entries
  <2>9. request \in AppendEntriesCalls
    BY Zenon, <2>1, <2>2, <2>3, <2>7, <2>8 DEF AppendEntriesCalls
  <2> HIDE DEF request
  <2>10. IsMessage(request)
    BY <2>9 DEF IsMessage
  <2> QED BY <1>3, <2>5, <2>10
<1>6. ASSUME NEW m \in rpcs, handle_append_entries(m)
      PROVE  TypeOK'
  <2> DEFINE j == m.dest
             term == AdoptedTerm(j, m.term)
             success == m.term = term /\ PrevMatches(m, log[j])
             l == IF success /\ m.entries # << >>
                  THEN truncate_and_append(log[j], m.prev_log_index, m.entries)
                  ELSE log[j]
             reply == [type |-> "AppendReply", src |-> j, dest |-> m.src,
                       request_term |-> m.term, term |-> term, success |-> success,
                       new_match |-> m.prev_log_index + Len(m.entries)]
  <2>1. m \in AppendEntriesCalls /\ j \in Node /\ m.src \in Node /\ m.term \in Nat
    BY Zenon, <1>0, <1>6, MessageFields DEF handle_append_entries, Calls
  <2>2. m.prev_log_index \in Nat /\ m.entries \in Seq(Entry) /\ m.leader_commit \in Nat
    BY <2>1 DEF AppendEntriesCalls
  <2>3. term \in Nat /\ AdoptedVote(j, m.term) \in Node \cup {None}
    BY <1>0, <2>1 DEF AdoptedTerm, AdoptedVote, Members
  <2>4. l \in Log({log[j].snapshot_data}) /\ l.snapshot_data = log[j].snapshot_data
    <3>1. log[j] \in Log({log[j].snapshot_data})
      BY <2>1, LogTypes
    <3>2. truncate_and_append(log[j], m.prev_log_index, m.entries)
            \in Log({log[j].snapshot_data})
      BY <2>2, <3>1, TruncateType
    <3> QED BY <3>1, <3>2 DEF Log
  <2>5. success \in BOOLEAN
    BY DEF PrevMatches
  <2>6. /\ current_term' = [current_term EXCEPT ![j] = term]
        /\ voted_for' = [voted_for EXCEPT ![j] = AdoptedVote(j, m.term)]
        /\ role' = role \/ role' = [role EXCEPT ![j] = "Follower"]
        /\ leader_id' = leader_id \/ leader_id' = [leader_id EXCEPT ![j] = m.src]
        /\ UNCHANGED <<electing, votes, crashes>>
    <3>1. role = [role EXCEPT ![j] = role[j]]
          /\ leader_id = [leader_id EXCEPT ![j] = leader_id[j]]
      BY <1>0 DEF Members
    <3> QED BY ZenonT(30), <1>6, <3>1 DEF handle_append_entries
  <2>7. \/ UNCHANGED <<commit_index, last_applied>>
        \/ Apply(j, l, Lesser(m.leader_commit, last_index(l)))
    BY Zenon, <1>6 DEF handle_append_entries
  <2>8. log' = [log EXCEPT ![j] = l]
    BY Zenon, <1>6 DEF handle_append_entries
  <2>9. rpcs' \subseteq rpcs \cup {reply}
    BY <1>6 DEF handle_append_entries, Answer
  <2>10. UNCHANGED <<leaderVars, crashes, committed>>
    BY Zenon, <1>6 DEF handle_append_entries
  <2> HIDE DEF l, success, term
  <2>11. Calls'
    <3>1. m.prev_log_index + Len(m.entries) \in Nat
      BY <2>2
    <3>2. reply \in AppendReplies
      BY <2>1, <2>3, <2>5, <3>1 DEF AppendReplies
    <3> QED BY <1>0, <2>9, <3>2 DEF Calls, IsMessage
  <2>12. commit_index' \in [Node -> Nat] /\ last_applied' \in [Node -> Nat]
    <3>1. last_index(l) \in Nat
      BY <2>4, LastType
    <3>2. Lesser(m.leader_commit, last_index(l)) \in Nat
      BY <2>2, <3>1 DEF Lesser
    <3> QED BY <1>0, <2>1, <2>7, <3>2, ApplyType DEF Members
  <2>13. Members'
    BY Zenon, <1>0, <2>1, <2>3, <2>6, <2>12 DEF Members
  <2>14. Logs'
    BY Zenon, <2>1, <2>4, <2>8, LogUpdate
  <2>15. LeaderIndices' /\ Commits'
    BY <1>0, <2>10 DEF LeaderIndices, Commits
  <2> QED BY <2>11, <2>13, <2>14, <2>15, TypePartsNext
<1>7. ASSUME NEW m \in rpcs, ReceiveAppendReply(m)
      PROVE  TypeOK'
  <2> DEFINE i == m.dest
             j == m.src
             match == [match_index[i] EXCEPT ![j] =
                         IF m.new_match > @ THEN m.new_match ELSE @]
  <2>1. m \in AppendReplies /\ i \in Node /\ j \in Node /\ m.term \in Nat
    BY Zenon, <1>0, <1>7, MessageFields DEF ReceiveAppendReply, Calls
  <2>2. m.new_match \in Nat
    BY <2>1 DEF AppendReplies
  <2>3. Calls' /\ Logs'
    BY <1>0, <1>7 DEF ReceiveAppendReply, Calls, Logs
  <2>4. /\ BecomeFollower(i, m.term) \/ UNCHANGED <<current_term, voted_for, role>>
        /\ UNCHANGED <<leader_id, electing, votes, crashes>>
    BY <1>7 DEF ReceiveAppendReply
  <2>5. \/ /\ match_index' = [match_index EXCEPT ![i] = match]
           /\ next_index' = [next_index EXCEPT ![i][j] = m.new_match + 1]
        \/ /\ match_index' = match_index
           /\ \/ next_index' = [next_index EXCEPT ![i][j] = BackOff(@)]
              \/ next_index' = [next_index EXCEPT ![i][j] = @]
    BY <1>7 DEF ReceiveAppendReply
  <2>6. \/ AdvanceCommit(i, log[i], match)
        \/ UNCHANGED <<commit_index, last_applied, committed>>
    BY <1>7 DEF ReceiveAppendReply
  <2>7. match \in [Node -> Nat]
    BY <1>0, <2>1, <2>2 DEF LeaderIndices
  <2> HIDE DEF match
  <2>8. LeaderIndices'
    <3>1. next_index[i][j] \in Nat \ {0} /\ BackOff(next_index[i][j]) \in Nat \ {0}
      BY <1>0, <2>1 DEF LeaderIndices, BackOff
    <3>2. match_index' \in [Node -> [Node -> Nat]]
      BY <1>0, <2>1, <2>5, <2>7 DEF LeaderIndices
    <3>3. m.new_match + 1 \in Nat \ {0}
      BY <2>2
    <3>4. PICK next \in Nat \ {0} : next_index' = [next_index EXCEPT ![i][j] = next]
      BY <2>5, <3>1, <3>3
    <3>5. [next_index[i] EXCEPT ![j] = next] \in [Node -> Nat \ {0}]
      BY <1>0, <2>1 DEF LeaderIndices
    <3>6. next_index' \in [Node -> [Node -> Nat \ {0}]]
      BY <1>0, <2>1, <3>4, <3>5 DEF LeaderIndices
    <3> QED BY <3>2, <3>6 DEF LeaderIndices
  <2>9. Commits' /\ commit_index' \in [Node -> Nat] /\ last_applied' \in [Node -> Nat]
    <3>1. CASE AdvanceCommit(i, log[i], match)
      <4>1. log[i] \in Log({log[i].snapshot_data})
        BY <2>1, LogTypes
      <4> QED BY <2>1, <3>1, <4>1, AdvanceType DEF Commits
    <3>2. CASE UNCHANGED <<commit_index, last_applied, committed>>
      BY <1>0, <3>2 DEF Commits, Members
    <3> QED BY <2>6, <3>1, <3>2
  <2>10. Members'
    BY <1>0, <2>1, <2>4, <2>9 DEF BecomeFollower, Members
  <2> QED BY <2>3, <2>8, <2>9, <2>10, TypePartsNext
<1> QED BY <1>1, <1>2, <1>4, <1>5, <1>6, <1>7 DEF Replication

\* Compaction and snapshot installation keep the types.
LEMMA TypeSnapshots ==
  ASSUME TypeOK, Snapshots
  PROVE  TypeOK'
<1> USE DEF diskVars, applyVars, leaderVars, electionVars, history
<1>0. Members /\ LeaderIndices /\ Logs /\ Calls /\ Commits
  BY TypeParts
\* A log after compact, whichever state machine it is given.
<1>1. ASSUME NEW i \in Node, NEW index \in Nat, NEW term \in Nat, NEW data
      PROVE  LET l == compact(log[i], index, term, data)
             IN  l \in Log({l.snapshot_data})
  <2>1. compact(log[i], index, term, data) \in Log({log[i].snapshot_data} \cup {data})
    BY Zenon, LogTypes, CompactType
  <2> QED BY <2>1 DEF Log
<1>2. ASSUME NEW i \in Node, NEW up_to_index \in 1..MaxIndex, CompactLog(i, up_to_index)
      PROVE  TypeOK'
  <2> DEFINE term == term_at(log[i], up_to_index)
             data == log[i].snapshot_data
                       \o SubSeq(applied_commands[i], 1,
                                 up_to_index - log[i].snapshot_last_index)
  <2>1. up_to_index \in Nat
    BY BoundAssumption
  <2>2. term \in Nat
    BY Zenon, <2>1, LogTypes, AtType
  <2>3. log' = [log EXCEPT ![i] = compact(log[i], up_to_index, term, data)]
    BY <1>2 DEF CompactLog
  <2> HIDE DEF term, data
  <2>4. Logs'
    BY Zenon, <1>1, <2>1, <2>2, <2>3, LogUpdate
  <2>5. Members'
    BY <1>0, <1>2 DEF CompactLog, Members
  <2>6. LeaderIndices' /\ Calls' /\ Commits'
    BY <1>0, <1>2 DEF CompactLog, LeaderIndices, Calls, Commits
  <2> QED BY <2>4, <2>5, <2>6, TypePartsNext
<1>3. ASSUME NEW m \in rpcs, handle_install_snapshot(m)
      PROVE  TypeOK'
  <2> DEFINE j == m.dest
             term == AdoptedTerm(j, m.term)
             index == m.last_included_index
             Raise(n) == IF index > n THEN index ELSE n
             reply == [type |-> "SnapshotReply", src |-> j, dest |-> m.src,
                       request_term |-> m.term, term |-> term, snap_idx |-> index]
  <2>1. m \in InstallSnapshotCalls({m.data}) /\ j \in Node /\ m.src \in Node
        /\ m.term \in Nat
    BY Zenon, <1>0, <1>3, MessageFields DEF handle_install_snapshot, Calls
  <2>2. index \in Nat /\ m.last_included_term \in Nat
    BY <2>1 DEF InstallSnapshotCalls
  <2>3. term \in Nat /\ AdoptedVote(j, m.term) \in Node \cup {None}
    BY <1>0, <2>1 DEF AdoptedTerm, AdoptedVote, Members
  <2>4. /\ current_term' = [current_term EXCEPT ![j] = term]
        /\ voted_for' = [voted_for EXCEPT ![j] = AdoptedVote(j, m.term)]
        /\ role' = role \/ role' = [role EXCEPT ![j] = "Follower"]
        /\ leader_id' = leader_id \/ leader_id' = [leader_id EXCEPT ![j] = m.src]
        /\ UNCHANGED <<electing, votes, crashes>>
    <3>1. role = [role EXCEPT ![j] = role[j]]
          /\ leader_id = [leader_id EXCEPT ![j] = leader_id[j]]
      BY <1>0 DEF Members
    <3> QED BY Zenon, <1>3, <3>1 DEF handle_install_snapshot
  <2>5. \/ UNCHANGED <<commit_index, last_applied, log>>
        \/ /\ commit_index' = [commit_index EXCEPT ![j] = Raise(@)]
           /\ last_applied' = [last_applied EXCEPT ![j] = Raise(@)]
           /\ log' = [log EXCEPT ![j] = compact(log[j], index, m.last_included_term, m.data)]
    BY Zenon, <1>3 DEF handle_install_snapshot
  <2>6. rpcs' \subseteq rpcs \cup {reply} /\ UNCHANGED <<leaderVars, history>>
    BY <1>3 DEF handle_install_snapshot, Answer
  <2> HIDE DEF term
  <2>7. Calls'
    <3>1. reply \in SnapshotReplies
      BY <2>1, <2>2, <2>3 DEF SnapshotReplies
    <3> QED BY <1>0, <2>6, <3>1 DEF Calls, IsMessage
  <2>8. Logs'
    <3> DEFINE l == compact(log[j], index, m.last_included_term, m.data)
    <3>1. l \in Log({l.snapshot_data})
      BY Zenon, <1>1, <2>1, <2>2
    <3>2. log' = log \/ log' = [log EXCEPT ![j] = l]
      BY <2>5
    <3> HIDE DEF l
    <3>3. CASE log' = log
      BY <1>0, <3>3 DEF Logs
    <3>4. CASE log' = [log EXCEPT ![j] = l]
      BY Zenon, <2>1, <3>1, <3>4, LogUpdate
    <3> QED BY <3>2, <3>3, <3>4
  <2>9. commit_index' \in [Node -> Nat] /\ last_applied' \in [Node -> Nat]
    BY <1>0, <2>1, <2>2, <2>5 DEF Members
  <2>10. Members'
    BY Zenon, <1>0, <2>1, <2>3, <2>4, <2>9 DEF Members
  <2>11. LeaderIndices' /\ Commits'
    BY <1>0, <2>6 DEF LeaderIndices, Commits
  <2> QED BY <2>7, <2>8, <2>10, <2>11, TypePartsNext
<1>4. ASSUME NEW m \in rpcs, ReceiveSnapshotReply(m)
      PROVE  TypeOK'
  <2> DEFINE i == m.dest
             j == m.src
  <2>1. m \in SnapshotReplies /\ i \in Node /\ j \in Node /\ m.term \in Nat
    BY Zenon, <1>0, <1>4, MessageFields DEF ReceiveSnapshotReply, Calls
  <2>2. m.snap_idx \in Nat
    BY <2>1 DEF SnapshotReplies
  <2>3. \/ UNCHANGED leaderVars
        \/ /\ match_index' = [match_index EXCEPT ![i][j] = m.snap_idx]
           /\ next_index' = [next_index EXCEPT ![i][j] = m.snap_idx + 1]
    BY <1>4 DEF ReceiveSnapshotReply
  <2>4. LeaderIndices'
    <3>1. /\ [match_index[i] EXCEPT ![j] = m.snap_idx] \in [Node -> Nat]
          /\ [next_index[i] EXCEPT ![j] = m.snap_idx + 1] \in [Node -> Nat \ {0}]
      BY <1>0, <2>1, <2>2 DEF LeaderIndices
    <3>2. CASE UNCHANGED leaderVars
      BY <1>0, <3>2 DEF LeaderIndices
    <3>3. CASE /\ match_index' = [match_index EXCEPT ![i][j] = m.snap_idx]
               /\ next_index' = [next_index EXCEPT ![i][j] = m.snap_idx + 1]
      <4>1. match_index' \in [Node -> [Node -> Nat]]
        BY <1>0, <2>1, <3>1, <3>3 DEF LeaderIndices
      <4>2. next_index' \in [Node -> [Node -> Nat \ {0}]]
        BY <1>0, <2>1, <3>1, <3>3 DEF LeaderIndices
      <4> QED BY <4>1, <4>2 DEF LeaderIndices
    <3> QED BY <2>3, <3>2, <3>3
  <2>5. /\ BecomeFollower(i, m.term) \/ UNCHANGED <<current_term, voted_for, role>>
        /\ UNCHANGED <<leader_id, commit_index, last_applied, electing, votes, crashes>>
    BY <1>4 DEF ReceiveSnapshotReply
  <2>6. Members'
    BY <1>0, <2>1, <2>5 DEF BecomeFollower, Members
  <2>7. Logs' /\ Calls' /\ Commits'
    BY <1>0, <1>4 DEF ReceiveSnapshotReply, Logs, Calls, Commits
  <2> QED BY <2>4, <2>6, <2>7, TypePartsNext
<1> QED BY <1>2, <1>3, <1>4 DEF Snapshots

\* A restart, also in the middle of a handler, and a lost call keep the types.
LEMMA TypeFailures ==
  ASSUME TypeOK, Failures
  PROVE  TypeOK'
<1> USE DEF diskVars, applyVars, leaderVars, electionVars, history
<1>0. Members /\ LeaderIndices /\ Logs /\ Calls /\ Commits
  BY TypeParts
<1>1. ASSUME NEW i \in Node, NEW calls \in SUBSET rpcs, Restarted(i, calls),
             current_term' \in [Node -> Nat],
             voted_for' \in [Node -> Node \cup {None}],
             UNCHANGED log
      PROVE  TypeOK'
  <2>1. Calls'
    <3>1. ASSUME NEW m \in calls, m.type \in {"AppendEntries", "InstallSnapshot"}
          PROVE  IsMessage([m EXCEPT !.live = FALSE])
      <4> DEFINE orphan == [m EXCEPT !.live = FALSE]
      <4>1. IsMessage(m)
        BY <1>0 DEF Calls
      <4>2. CASE m.type = "AppendEntries"
        <5>1. m \in AppendEntriesCalls
          BY Zenon, <4>1, <4>2, MessageFields
        <5>2. orphan \in AppendEntriesCalls
          BY Zenon, <5>1 DEF AppendEntriesCalls
        <5> QED BY <5>2 DEF IsMessage
      <4>3. CASE m.type = "InstallSnapshot"
        <5>1. m \in InstallSnapshotCalls({m.data})
          BY <4>1, <4>3, MessageFields
        <5>2. orphan \in InstallSnapshotCalls({orphan.data})
              /\ orphan.type = "InstallSnapshot"
          BY Zenon, <5>1 DEF InstallSnapshotCalls
        <5> QED BY <5>2 DEF IsMessage
      <4> QED BY <3>1, <4>2, <4>3
    <3>2. \A x \in rpcs' : \/ x \in calls
                           \/ \E m \in calls :
                                /\ m.type \in {"AppendEntries", "InstallSnapshot"}
                                /\ x = [m EXCEPT !.live = FALSE]
      BY <1>1 DEF Restarted
    <3> QED BY <1>0, <3>1, <3>2 DEF Calls
  <2>2. LeaderIndices'
    <3>1. [j \in Node |-> 1] \in [Node -> Nat \ {0}] /\ [j \in Node |-> 0] \in [Node -> Nat]
      OBVIOUS
    <3>2. /\ next_index' = [next_index EXCEPT ![i] = [j \in Node |-> 1]]
          /\ match_index' = [match_index EXCEPT ![i] = [j \in Node |-> 0]]
      BY <1>1 DEF Restarted
    <3> QED BY <1>0, <3>1, <3>2 DEF LeaderIndices
  <2>3. Members'
    <3>1. RestartIndex(i) \in Nat
      BY LogTypes DEF RestartIndex, Log
    <3> QED BY <1>0, <1>1, <3>1 DEF Restarted, Members
  <2>4. Logs' /\ Commits'
    BY Zenon, <1>0, <1>1 DEF Restarted, Logs, Commits
  <2> QED BY <2>1, <2>2, <2>3, <2>4, TypePartsNext
<1>2. ASSUME NEW i \in Node, Crash(i)
      PROVE  TypeOK'
  BY <1>0, <1>1, <1>2 DEF Crash, Members
<1>3. ASSUME NEW m \in rpcs, CrashInHandler(m)
      PROVE  TypeOK'
  <2>1. m.dest \in Node /\ m.term \in Nat
    BY Zenon, <1>0, MessageFields DEF Calls
  <2>2. current_term' \in [Node -> Nat] /\ voted_for' \in [Node -> Node \cup {None}]
    BY <1>0, <1>3, <2>1 DEF CrashInHandler, Members
  <2> QED BY <1>1, <1>3, <2>1, <2>2 DEF CrashInHandler
<1>4. ASSUME NEW m \in rpcs, Lose(m)
      PROVE  TypeOK'
  <2>1. Members' /\ Calls'
    BY <1>0, <1>4 DEF Lose, Members, Calls
  <2>2. LeaderIndices' /\ Logs' /\ Commits'
    BY Zenon, <1>0, <1>4 DEF Lose, LeaderIndices, Logs, Commits
  <2> QED BY <2>1, <2>2, TypePartsNext
<1> QED BY <1>2, <1>3, <1>4 DEF Failures

LEMMA TypeStep == TypeOK /\ [Next]_vars => TypeOK'
<1> SUFFICES ASSUME TypeOK, [Next]_vars
             PROVE  TypeOK'
  OBVIOUS
<1>1. CASE Next
  BY <1>1, TypeElections, TypeReplication, TypeSnapshots, TypeFailures DEF Next
<1>2. CASE UNCHANGED vars
  <2>1. Members' /\ LeaderIndices' /\ Logs' /\ Calls' /\ Commits'
    BY <1>2, TypeParts DEF vars, diskVars, applyVars, leaderVars, electionVars, history,
                           Members, LeaderIndices, Logs, Calls, Commits
  <2> QED BY <2>1, TypePartsNext
<1> QED BY <1>1, <1>2

\* Type correctness: no behaviour takes a member of a RaftNode, or a call, out
\* of its type; next_index_ stays positive however replies are delayed.
THEOREM TypeCorrect == Spec => []TypeOK
BY TypeInit, TypeStep, PTL DEF Spec
============================================================================
