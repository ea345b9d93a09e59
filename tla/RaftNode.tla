------------------------------ MODULE RaftNode -----------------------------
(***************************************************************************)
(* The coordinators' Raft group: class RaftNode of                         *)
(* src/cluster/raft_node.hpp, one instance per coordinator, with the       *)
(* persistent term and vote of raft_state.hpp, the log of RaftLog and the  *)
(* gRPC calls of raft.proto between the instances.                         *)
(*                                                                         *)
(* Every action is one region of code under RaftNode::mutex_, so steps of  *)
(* the RPC handlers, the ticker thread and the sender threads interleave   *)
(* exactly where the code releases the lock.  An RPC is a record in rpcs   *)
(* that a handler replaces by its reply.  Calls may stay in flight for     *)
(* ever, be lost, and overtake each other; a server may handle a request   *)
(* whose caller has stopped waiting.                                       *)
(***************************************************************************)
EXTENDS RaftState
----------------------------------------------------------------------------
(* Initial state *)

Init ==
  /\ current_term = [i \in Node |-> 0]
  /\ voted_for = [i \in Node |-> None]
  /\ log = [i \in Node |-> EmptyLog]
  /\ role = [i \in Node |-> "Follower"]
  /\ leader_id = [i \in Node |-> None]
  /\ commit_index = [i \in Node |-> 0]
  /\ last_applied = [i \in Node |-> 0]
  /\ applied_commands = [i \in Node |-> << >>]
  /\ next_index = [i \in Node |-> [j \in Node |-> 1]]
  /\ match_index = [i \in Node |-> [j \in Node |-> 0]]
  /\ electing = [i \in Node |-> 0]
  /\ votes = [i \in Node |-> {}]
  /\ rpcs = {}
  /\ crashes = 0
  /\ committed = {}
  /\ leader_log = [t \in {0} |-> << >>]

\* At most MaxRpcs calls are outstanding, from the sender thread to the reply.
RoomFor(n) == Cardinality(rpcs) + n <= MaxRpcs

\* A handled request is replaced by its reply, unless the caller is gone.
Answer(m, reply, waiting) ==
  rpcs' = (rpcs \ {m}) \cup (IF waiting THEN {reply} ELSE {})

\* become_follower_locked, in the state a node i is left in by a message that
\* carries term: a later term is adopted and forgets the vote.
AdoptedTerm(i, term) == IF term > current_term[i] THEN term ELSE current_term[i]
AdoptedVote(i, term) == IF term > current_term[i] THEN None ELSE voted_for[i]

BecomeFollower(i, term) ==
  /\ current_term' = [current_term EXCEPT ![i] = term]
  /\ voted_for' = [voted_for EXCEPT ![i] = None]
  /\ role' = [role EXCEPT ![i] = "Follower"]
----------------------------------------------------------------------------
(* Applying and committing *)

\* apply_committed_entries_locked: the commands between the two indices, the
\* empty ones skipped.
IsCommand(c) == c # NoCommand
NewlyApplied(l, from, upto) ==
  LET next == [k \in 1..(IF upto > from THEN upto - from ELSE 0)
                 |-> command_at(l, from + k)]
  IN  IF \A k \in DOMAIN next : IsCommand(next[k]) THEN next
                                                 ELSE SelectSeq(next, IsCommand)

Apply_OneTooFar(i, l, commit) ==
  /\ commit_index' = [commit_index EXCEPT ![i] = commit]
  /\ last_applied' = [last_applied EXCEPT ![i] = IF commit >= @ THEN commit + 1 ELSE @]
  /\ applied_commands' = [applied_commands EXCEPT ![i] =
                            @ \o NewlyApplied(l, last_applied[i], commit + 1)]
Apply(i, l, commit) ==
  /\ commit_index' = [commit_index EXCEPT ![i] = commit]
  /\ last_applied' = [last_applied EXCEPT ![i] = IF commit > @ THEN commit ELSE @]
  /\ applied_commands' = [applied_commands EXCEPT ![i] =
                            @ \o NewlyApplied(l, last_applied[i], commit)]

\* compute_new_commit_index: the element at position majority of the match
\* indices in descending order, if it lies beyond commit_index and is an entry
\* of the leader's own term.
AtMajority(i, l, match, n) ==
  LET value == [j \in Node |-> IF j = i THEN last_index(l) ELSE match[j]]
  IN  /\ Cardinality({j \in Node : value[j] > n}) < Majority
      /\ Cardinality({j \in Node : value[j] >= n}) >= Majority

OwnTerm_Any(i, l, n) == TRUE
OwnTerm(i, l, n) == term_at(l, n) = current_term[i]

compute_new_commit_index(i, l, match) ==
  LET candidates == {n \in (commit_index[i] + 1)..last_index(l) :
                       AtMajority(i, l, match, n) /\ OwnTerm(i, l, n)}
  IN  IF candidates = {} THEN commit_index[i] ELSE CHOOSE n \in candidates : TRUE

\* advance_commit_index_locked, on the log and the match indices that the
\* caller has just updated.
AdvanceCommit(i, l, match) ==
  LET new_commit == compute_new_commit_index(i, l, match)
  IN  /\ Apply(i, l, new_commit)
      /\ committed' = committed \cup
           {[index |-> k, term |-> term_at(l, k), command |-> command_at(l, k),
             commit_term |-> current_term[i]] :
              k \in (commit_index[i] + 1)..new_commit}
----------------------------------------------------------------------------
(* Elections *)

\* start_election up to the first unlock; the requests of the async threads
\* carry what was read under the lock.
StartElection(i) ==
  /\ role[i] # "Leader"
  /\ electing[i] = 0
  /\ current_term[i] < MaxTerm
  /\ i \in Campaigners[current_term[i] + 1]
  /\ RoomFor(Cardinality(Peers(i)))
  /\ current_term' = [current_term EXCEPT ![i] = @ + 1]
  /\ voted_for' = [voted_for EXCEPT ![i] = i]
  /\ role' = [role EXCEPT ![i] = "Candidate"]
  /\ leader_id' = [leader_id EXCEPT ![i] = None]
  /\ electing' = [electing EXCEPT ![i] = current_term[i] + 1]
  /\ votes' = [votes EXCEPT ![i] = {i}]
  /\ rpcs' = rpcs \cup {[type |-> "RequestVote", src |-> i, dest |-> j,
                         term |-> current_term[i] + 1,
                         last_log_index |-> last_index(log[i]),
                         last_log_term |-> last_term(log[i])] : j \in Peers(i)}
  /\ UNCHANGED <<log, applyVars, leaderVars, history>>

LogUpToDate_Unchecked(m, l) == TRUE
LogUpToDate(m, l) ==
  \/ m.last_log_term > last_term(l)
  \/ m.last_log_term = last_term(l) /\ m.last_log_index >= last_index(l)

handle_request_vote(m) ==
  LET j == m.dest
      term == AdoptedTerm(j, m.term)
      vote_granted == /\ m.term = term
                      /\ AdoptedVote(j, m.term) \in {None, m.src}
                      /\ LogUpToDate(m, log[j])
  IN  /\ m.type = "RequestVote"
      /\ current_term' = [current_term EXCEPT ![j] = term]
      /\ voted_for' = [voted_for EXCEPT ![j] =
                         IF vote_granted THEN m.src ELSE AdoptedVote(j, m.term)]
      /\ role' = [role EXCEPT ![j] = IF m.term > current_term[j] THEN "Follower" ELSE @]
      /\ Answer(m, [type |-> "VoteReply", src |-> j, dest |-> m.src,
                    election_term |-> m.term, term |-> term,
                    vote_granted |-> vote_granted],
                electing[m.src] = m.term)
      /\ UNCHANGED <<log, leader_id, applyVars, leaderVars, electionVars, history>>

\* The async thread of one vote request gets its answer.
ReceiveVote(m) ==
  LET i == m.dest
  IN  /\ m.type = "VoteReply"
      /\ rpcs' = rpcs \ {m}
      /\ IF m.term > m.election_term
         THEN /\ IF m.term > current_term[i]
                 THEN BecomeFollower(i, m.term)
                 ELSE UNCHANGED <<current_term, voted_for, role>>
              /\ UNCHANGED votes
         ELSE /\ votes' = [votes EXCEPT ![i] = IF m.vote_granted THEN @ \cup {m.src} ELSE @]
              /\ UNCHANGED <<current_term, voted_for, role>>
      /\ UNCHANGED <<log, leader_id, applyVars, leaderVars, electing, history>>

\* The node i has won the election of term t: its log, with what is under its
\* snapshot, is that of the leader of its last entry.
LeaderLog(i, t) ==
  leader_log' = [u \in DOMAIN leader_log \cup {t} |->
                   IF u = t THEN SubSeq(leader_log[last_term(log[i])], 1, last_index(log[i]))
                            ELSE leader_log[u]]

\* All futures have returned, by an answer or by their deadline; answers that
\* come later find no one waiting.
FinishElection(i) ==
  LET won == /\ role[i] = "Candidate"
             /\ current_term[i] = electing[i]
             /\ Cardinality(votes[i]) >= Majority
  IN  /\ electing[i] # 0
      /\ electing' = [electing EXCEPT ![i] = 0]
      /\ rpcs' = {m \in rpcs : ~(m.type = "VoteReply" /\ m.dest = i)}
      /\ IF won
         THEN /\ role' = [role EXCEPT ![i] = "Leader"]
              /\ leader_id' = [leader_id EXCEPT ![i] = i]
              /\ next_index' = [next_index EXCEPT ![i] =
                                  [j \in Node |-> last_index(log[i]) + 1]]
              /\ match_index' = [match_index EXCEPT ![i] = [j \in Node |-> 0]]
              /\ LeaderLog(i, electing[i])
         ELSE UNCHANGED <<role, leader_id, leaderVars, leader_log>>
      /\ UNCHANGED <<diskVars, applyVars, votes, crashes, committed>>
----------------------------------------------------------------------------
(* Proposals and replication *)

\* propose, up to its unlock.  The polling loop that follows changes nothing:
\* it returns true once it sees commit_index pass the new entry while the term
\* lasts, so a committed entry may be reported to the client.
Propose(i, command) ==
  LET l == append(log[i], current_term[i], command)
  IN  /\ role[i] = "Leader"
      /\ last_index(log[i]) < MaxIndex
      /\ command \in Proposals[current_term[i]][last_index(log[i]) + 1]
      /\ log' = [log EXCEPT ![i] = l]
      /\ AdvanceCommit(i, l, match_index[i])
      /\ leader_log' = [leader_log EXCEPT ![current_term[i]] =
                          Append(@, [term |-> current_term[i], command |-> command])]
      /\ UNCHANGED <<current_term, voted_for, role, leader_id, leaderVars,
                     electionVars, rpcs, crashes>>

\* replicate_to_followers: the detached thread keeps the term and next_index
\* it captured.  One peer at a time; the peers' threads are independent.
ReplicateToFollower(i, j) ==
  /\ role[i] = "Leader"
  /\ RoomFor(1)
  /\ rpcs' = rpcs \cup {[type |-> "Sender", src |-> i, dest |-> j,
                         term |-> current_term[i], next_idx |-> next_index[i][j],
                         snap |-> log[i].snapshot_last_index]}
  /\ UNCHANGED <<diskVars, role, leader_id, applyVars, leaderVars, electionVars,
                 history>>

\* A thread of send_append_entries_to_peer turns into its request, or ends if
\* its node no longer leads the term.
Send(m, request) ==
  /\ rpcs' = (rpcs \ {m}) \cup
       (IF role[m.src] = "Leader" /\ current_term[m.src] = m.term THEN {request} ELSE {})
  /\ UNCHANGED <<diskVars, role, leader_id, applyVars, leaderVars, electionVars,
                 history>>

\* send_append_entries_to_peer, the first lock region finds that the peer needs
\* entries which are under the snapshot.
SendInstallSnapshot(m) ==
  LET l == log[m.src]
  IN  /\ m.type = "Sender"
      /\ m.next_idx - 1 < l.snapshot_last_index
      /\ Send(m, [type |-> "InstallSnapshot", src |-> m.src, dest |-> m.dest,
                  term |-> m.term,
                  last_included_index |-> l.snapshot_last_index,
                  last_included_term |-> l.snapshot_last_term,
                  data |-> l.snapshot_data, live |-> TRUE])

\* send_append_entries_to_peer, second lock region: the whole tail of the log.
\* The first region has run at some moment since the capture; the snapshot
\* only grows, so its test may have passed iff it would have at the capture.
SendAppendEntries(m) ==
  LET l == log[m.src]
      prev == m.next_idx - 1
      n == IF last_index(l) > prev THEN last_index(l) - prev ELSE 0
  IN  /\ m.type = "Sender"
      /\ prev >= (IF CompactMidSend THEN m.snap ELSE l.snapshot_last_index)
      /\ Send(m, [type |-> "AppendEntries", src |-> m.src, dest |-> m.dest,
                  term |-> m.term,
                  prev_log_index |-> prev,
                  prev_log_term |-> term_at(l, prev),
                  entries |-> [k \in 1..n |-> [term |-> term_at(l, prev + k),
                                               command |-> command_at(l, prev + k)]],
                  leader_commit |-> commit_index[m.src], live |-> TRUE])

\* The request was built before its leader appended entries that the follower
\* already holds: a later request has overtaken it.
Overtaken(m) ==
  /\ m.entries # << >>
  /\ \E k \in (m.prev_log_index + Len(m.entries) + 1)..last_index(log[m.dest]) :
       term_at(log[m.dest], k) = m.term

PrevMatches(m, l) ==
  \/ m.prev_log_index <= l.snapshot_last_index
  \/ /\ has_real_entry_at(l, m.prev_log_index)
     /\ term_at(l, m.prev_log_index) = m.prev_log_term

handle_append_entries(m) ==
  LET j == m.dest
      term == AdoptedTerm(j, m.term)
      current == m.term = term
      success == current /\ PrevMatches(m, log[j])
      l == IF success /\ m.entries # << >>
           THEN truncate_and_append(log[j], m.prev_log_index, m.entries)
           ELSE log[j]
  IN  /\ m.type = "AppendEntries"
      /\ StaleAppends \/ ~Overtaken(m)
      /\ current_term' = [current_term EXCEPT ![j] = term]
      /\ voted_for' = [voted_for EXCEPT ![j] = AdoptedVote(j, m.term)]
      /\ role' = [role EXCEPT ![j] = IF current THEN "Follower" ELSE @]
      /\ leader_id' = [leader_id EXCEPT ![j] = IF current THEN m.src ELSE @]
      /\ log' = [log EXCEPT ![j] = l]
      /\ IF success /\ m.leader_commit > commit_index[j]
         THEN Apply(j, l, Lesser(m.leader_commit, last_index(l)))
         ELSE UNCHANGED applyVars
      /\ Answer(m, [type |-> "AppendReply", src |-> j, dest |-> m.src,
                    request_term |-> m.term, term |-> term, success |-> success,
                    new_match |-> m.prev_log_index + Len(m.entries)],
                m.live)
      /\ UNCHANGED <<leaderVars, electionVars, crashes, committed, leader_log>>

\* A refused peer is tried one entry earlier.
BackOff_Unguarded(next) == next - 1
BackOff(next) == IF next > 1 THEN next - 1 ELSE next

\* The sender thread gets the answer of its AppendEntries.
ReceiveAppendReply(m) ==
  LET i == m.dest
      j == m.src
      leading == role[i] = "Leader" /\ current_term[i] = m.request_term
      match == [match_index[i] EXCEPT ![j] = IF m.new_match > @ THEN m.new_match ELSE @]
  IN  /\ m.type = "AppendReply"
      /\ rpcs' = rpcs \ {m}
      /\ IF m.term > current_term[i]
         THEN BecomeFollower(i, m.term)
         ELSE UNCHANGED <<current_term, voted_for, role>>
      /\ IF m.term <= current_term[i] /\ leading /\ m.success
         THEN /\ match_index' = [match_index EXCEPT ![i] = match]
              /\ next_index' = [next_index EXCEPT ![i][j] = m.new_match + 1]
              /\ AdvanceCommit(i, log[i], match)
         ELSE /\ next_index' = [next_index EXCEPT ![i][j] =
                   IF m.term <= current_term[i] /\ leading THEN BackOff(@) ELSE @]
              /\ UNCHANGED <<match_index, applyVars, committed>>
      /\ UNCHANGED <<log, leader_id, electionVars, crashes, leader_log>>
----------------------------------------------------------------------------
(* Snapshots *)

\* How many of the applied commands the incoming snapshot covers.
TrimCount(m, j) == Lesser(m.last_included_index - log[j].snapshot_last_index,
                          Len(applied_commands[j]))

handle_install_snapshot(m) ==
  LET j == m.dest
      term == AdoptedTerm(j, m.term)
      current == m.term = term
      install == current /\ m.last_included_index > log[j].snapshot_last_index
      Raise(index) == IF m.last_included_index > index THEN m.last_included_index
                                                       ELSE index
  IN  /\ m.type = "InstallSnapshot"
      /\ current_term' = [current_term EXCEPT ![j] = term]
      /\ voted_for' = [voted_for EXCEPT ![j] = AdoptedVote(j, m.term)]
      /\ role' = [role EXCEPT ![j] = IF current THEN "Follower" ELSE @]
      /\ leader_id' = [leader_id EXCEPT ![j] = IF current THEN m.src ELSE @]
      /\ IF install
         THEN /\ applied_commands' = [applied_commands EXCEPT ![j] =
                                        SubSeq(@, TrimCount(m, j) + 1, Len(@))]
              /\ last_applied' = [last_applied EXCEPT ![j] = Raise(@)]
              /\ commit_index' = [commit_index EXCEPT ![j] = Raise(@)]
              /\ log' = [log EXCEPT ![j] = compact(@, m.last_included_index,
                                                   m.last_included_term, m.data)]
         ELSE UNCHANGED <<applyVars, log>>
      /\ Answer(m, [type |-> "SnapshotReply", src |-> j, dest |-> m.src,
                    request_term |-> m.term, term |-> term,
                    snap_idx |-> m.last_included_index], m.live)
      /\ UNCHANGED <<leaderVars, electionVars, history>>

ReceiveSnapshotReply(m) ==
  LET i == m.dest
      j == m.src
  IN  /\ m.type = "SnapshotReply"
      /\ rpcs' = rpcs \ {m}
      /\ IF m.term > current_term[i]
         THEN /\ BecomeFollower(i, m.term)
              /\ UNCHANGED leaderVars
         ELSE /\ IF /\ role[i] = "Leader"
                    /\ current_term[i] = m.request_term
                    /\ m.snap_idx > match_index[i][j]
                 THEN /\ match_index' = [match_index EXCEPT ![i][j] = m.snap_idx]
                      /\ next_index' = [next_index EXCEPT ![i][j] = m.snap_idx + 1]
                 ELSE UNCHANGED leaderVars
              /\ UNCHANGED <<current_term, voted_for, role>>
      /\ UNCHANGED <<log, leader_id, applyVars, electionVars, history>>

\* RaftNode::compact, called by the coordinator once it has applied at least
\* CompactionThreshold of the applied_commands, with the state machine it has
\* reached that way.
CompactLog(i, up_to_index) ==
  LET trim_count == up_to_index - log[i].snapshot_last_index
  IN  /\ log[i].snapshot_last_index < up_to_index
      /\ trim_count >= CompactionThreshold
      /\ up_to_index <= last_applied[i]
      /\ trim_count <= Len(applied_commands[i])
      /\ log' = [log EXCEPT ![i] =
           compact(@, up_to_index, term_at(@, up_to_index),
                   @.snapshot_data \o SubSeq(applied_commands[i], 1, trim_count))]
      /\ applied_commands' = [applied_commands EXCEPT ![i] =
                                SubSeq(@, trim_count + 1, Len(@))]
      /\ UNCHANGED <<current_term, voted_for, role, leader_id, commit_index,
                     last_applied, leaderVars, electionVars, rpcs, history>>
----------------------------------------------------------------------------
(* Crashes and lost calls *)

\* The constructor takes commit_index_ and last_applied_ from the snapshot.
RestartIndex_Zero(i) == 0
RestartIndex(i) == log[i].snapshot_last_index

\* The process dies and RaftNode's constructor runs again: the files survive,
\* the threads do not.  Requests already sent may still arrive.
Restarted(i, calls) ==
  /\ crashes < MaxCrashes
  /\ crashes' = crashes + 1
  /\ role' = [role EXCEPT ![i] = "Follower"]
  /\ leader_id' = [leader_id EXCEPT ![i] = None]
  /\ commit_index' = [commit_index EXCEPT ![i] = RestartIndex(i)]
  /\ last_applied' = [last_applied EXCEPT ![i] = RestartIndex(i)]
  /\ applied_commands' = [applied_commands EXCEPT ![i] = << >>]
  /\ next_index' = [next_index EXCEPT ![i] = [j \in Node |-> 1]]
  /\ match_index' = [match_index EXCEPT ![i] = [j \in Node |-> 0]]
  /\ electing' = [electing EXCEPT ![i] = 0]
  /\ votes' = [votes EXCEPT ![i] = {}]
  /\ rpcs' = LET gone == {m \in calls :
                            \/ m.type = "Sender" /\ m.src = i
                            \/ m.type \in {"VoteReply", "AppendReply", "SnapshotReply"}
                                 /\ m.dest = i}
                 orphan == {m \in calls : m.src = i /\
                              m.type \in {"AppendEntries", "InstallSnapshot"}}
             IN  (calls \ (gone \cup orphan))
                   \cup {[m EXCEPT !.live = FALSE] : m \in orphan}
  /\ UNCHANGED <<committed, leader_log>>

Crash_VoteNotWritten(i) ==
  /\ Restarted(i, rpcs)
  /\ voted_for' = [voted_for EXCEPT ![i] = None]
  /\ UNCHANGED <<current_term, log>>
Crash(i) ==
  /\ Restarted(i, rpcs)
  /\ UNCHANGED diskVars

\* A handler dies after become_follower_locked has written the later term and
\* before it has done anything else.
CrashInHandler(m) ==
  /\ m.type \in {"RequestVote", "AppendEntries", "InstallSnapshot"}
  /\ m.term > current_term[m.dest]
  /\ current_term' = [current_term EXCEPT ![m.dest] = m.term]
  /\ voted_for' = [voted_for EXCEPT ![m.dest] = None]
  /\ Restarted(m.dest, rpcs \ {m})
  /\ UNCHANGED log

\* The network loses a call, or its caller's deadline passes before the
\* answer arrives.
Lose(m) ==
  /\ m.type # "Sender"
  /\ rpcs' = rpcs \ {m}
  /\ UNCHANGED <<diskVars, role, leader_id, applyVars, leaderVars, electionVars,
                 history>>
----------------------------------------------------------------------------
Elections ==
  \/ \E i \in Node : StartElection(i) \/ FinishElection(i)
  \/ \E m \in rpcs : handle_request_vote(m) \/ ReceiveVote(m)

Replication ==
  \/ \E i \in Node, command \in Command \cup {NoCommand} : Propose(i, command)
  \/ \E i \in Node : \E j \in Peers(i) : ReplicateToFollower(i, j)
  \/ \E m \in rpcs : \/ SendInstallSnapshot(m) \/ SendAppendEntries(m)
                     \/ handle_append_entries(m) \/ ReceiveAppendReply(m)

Snapshots ==
  \/ \E i \in Node, index \in 1..MaxIndex : CompactLog(i, index)
  \/ \E m \in rpcs : handle_install_snapshot(m) \/ ReceiveSnapshotReply(m)

Failures ==
  \/ \E i \in Node : Crash(i)
  \/ \E m \in rpcs : CrashInHandler(m) \/ Lose(m)

Next == Elections \/ Replication \/ Snapshots \/ Failures

Spec == Init /\ [][Next]_vars
----------------------------------------------------------------------------
(* Properties *)

\* Election safety: start_election and handle_request_vote never let two
\* nodes lead the same term, whatever is lost, late or restarted.
ElectionSafety ==
  \A i, j \in Node : /\ role[i] = "Leader" /\ role[j] = "Leader"
                     /\ current_term[i] = current_term[j]
                     => i = j

\* Log matching: as long as nothing has been compacted, two logs that hold an
\* entry of the same term at the same index are identical up to it, which is
\* what the prev_log check of handle_append_entries is for.
LogMatching ==
  \A i, j \in Node : \A k \in 1..Lesser(last_index(log[i]), last_index(log[j])) :
    /\ log[i].snapshot_last_index = 0 /\ log[j].snapshot_last_index = 0
    /\ term_at(log[i], k) = term_at(log[j], k)
    => SubSeq(log[i].entries, 1, k) = SubSeq(log[j].entries, 1, k)

\* The state machine a coordinator has reached: the snapshot it started from
\* and what apply_committed_entries_locked has added.
Applied(i) == log[i].snapshot_data \o applied_commands[i]

IsPrefixOf(s, t) == Len(s) <= Len(t) /\ s = SubSeq(t, 1, Len(s))

\* State machine safety: any two coordinators have applied the same commands
\* in the same order, one of them perhaps fewer.
StateMachineSafety ==
  \A i, j \in Node : IsPrefixOf(Applied(i), Applied(j)) \/ IsPrefixOf(Applied(j), Applied(i))

\* Leader completeness: an entry that some leader has committed, and of which
\* propose() may have returned true, is in the log or under the snapshot of
\* every leader of its term and of every later term, even if all nodes have
\* restarted since.
LeaderCompleteness ==
  \A e \in committed, i \in Node :
    role[i] = "Leader" /\ current_term[i] >= e.commit_term =>
      \/ e.index <= log[i].snapshot_last_index
      \/ /\ term_at(log[i], e.index) = e.term
         /\ command_at(log[i], e.index) = e.command

\* Between two calls commit_index_ and last_applied_ agree and never pass the
\* end of the log: RaftLog::compact relies on last_applied_ <= last_index().
AppliedWithinLog ==
  \A i \in Node : /\ commit_index[i] = last_applied[i]
                  /\ last_applied[i] <= last_index(log[i])

\* applied_commands_[k] is the command of absolute index snapshot_last_index +
\* k + 1, as the member's comment says: the coordinator takes the index for
\* the epoch of the command and as the point up to which it compacts.
AppliedIndexed ==
  \A i \in Node :
    /\ last_applied[i] = log[i].snapshot_last_index + Len(applied_commands[i])
    /\ \A e \in committed :
         LET k == e.index - log[i].snapshot_last_index
         IN  k \in DOMAIN applied_commands[i] => applied_commands[i][k] = e.command

\* current_term_ never decreases, and within a term a vote once given stays,
\* across every handler and every crash.
VotesAreStable ==
  [][\A i \in Node : /\ current_term'[i] >= current_term[i]
                     /\ current_term'[i] = current_term[i] /\ voted_for[i] # None
                        => voted_for'[i] = voted_for[i]]_vars
============================================================================
