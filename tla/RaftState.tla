----------------------------- MODULE RaftState -----------------------------
(***************************************************************************)
(* The state of the coordinators' Raft group: the members of class         *)
(* RaftNode of src/cluster/raft_node.hpp, one instance per coordinator,    *)
(* the persistent term and vote of raft_state.hpp, the log of RaftLog and  *)
(* the gRPC calls of raft.proto in flight, with their types.  RaftNode     *)
(* adds the steps.                                                         *)
(***************************************************************************)
EXTENDS RaftLog, FiniteSets

CONSTANTS
  Node,            \* the members of the group (peers_)
  None,            \* the value -1 of voted_for and leader_id
  CompactionThreshold,  \* the coordinator's COMPACTION_THRESHOLD
  Campaigners,     \* bound: the nodes whose election timeout may start term t
  Proposals,       \* bound: the commands that clients may propose to the leader
                   \* of a term, for each index
  MaxTerm,         \* bound: no election starts a later term
  MaxIndex,        \* bound: no leader appends beyond this index
  MaxRpcs,         \* bound: RPCs outstanding at any time
  MaxCrashes,      \* bound: crashes in a behaviour
  StaleAppends,    \* whether a follower may receive an AppendEntries that was
                   \* overtaken by a later one of the same leader
  CompactMidSend   \* whether a leader may compact its log between the two
                   \* lock regions of send_append_entries_to_peer

ASSUME NodeAssumption == IsFiniteSet(Node) /\ Node # {} /\ None \notin Node
ASSUME BoundAssumption == /\ {MaxTerm, MaxIndex, MaxRpcs, MaxCrashes,
                               CompactionThreshold} \subseteq Nat
                          /\ Campaigners \in [1..MaxTerm -> SUBSET Node]
                          /\ Proposals \in [1..MaxTerm -> [1..MaxIndex ->
                                            SUBSET (Command \cup {NoCommand})]]
                          /\ {StaleAppends, CompactMidSend} \subseteq BOOLEAN

VARIABLES
  current_term, voted_for,                  \* PersistentState, on disk
  log,                                      \* RaftLog, on disk
  role, leader_id,
  commit_index, last_applied, applied_commands,
  next_index, match_index,                  \* read only while leader
  electing,   \* term of the election the ticker thread is waiting on, or 0
  votes,      \* the votes that election, or the last one, has collected
  rpcs,       \* sender threads, requests and replies in flight
  crashes,    \* number of crashes so far
  committed,  \* history: the entries a leader's commit_index has passed
  leader_log  \* history: by term, all that its leader's log has ever held

diskVars == <<current_term, voted_for, log>>
applyVars == <<commit_index, last_applied, applied_commands>>
leaderVars == <<next_index, match_index>>
electionVars == <<electing, votes>>
history == <<crashes, committed, leader_log>>
vars == <<diskVars, role, leader_id, applyVars, leaderVars, electionVars,
          rpcs, history>>

Peers(i) == Node \ {i}
Majority_HalfIsEnough == Cardinality(Node) \div 2
Majority == Cardinality(Node) \div 2 + 1
----------------------------------------------------------------------------
(* Types *)

\* The calls of raft.proto in flight, their replies, and the threads that are
\* about to make one.
RequestVoteCalls == [type : {"RequestVote"}, src : Node, dest : Node, term : Nat,
                     last_log_index : Nat, last_log_term : Nat]
VoteReplies == [type : {"VoteReply"}, src : Node, dest : Node, term : Nat,
                election_term : Nat, vote_granted : BOOLEAN]
Senders == [type : {"Sender"}, src : Node, dest : Node, term : Nat,
            next_idx : Nat \ {0}, snap : Nat]
AppendEntriesCalls == [type : {"AppendEntries"}, src : Node, dest : Node, term : Nat,
                       prev_log_index : Nat, prev_log_term : Nat,
                       entries : Seq(Entry), leader_commit : Nat, live : BOOLEAN]
AppendReplies == [type : {"AppendReply"}, src : Node, dest : Node, term : Nat,
                  request_term : Nat, success : BOOLEAN, new_match : Nat]
InstallSnapshotCalls(State) ==
  [type : {"InstallSnapshot"}, src : Node, dest : Node, term : Nat,
   last_included_index : Nat, last_included_term : Nat, data : State, live : BOOLEAN]
SnapshotReplies == [type : {"SnapshotReply"}, src : Node, dest : Node, term : Nat,
                    request_term : Nat, snap_idx : Nat]

IsMessage(m) ==
  \/ m \in RequestVoteCalls \/ m \in VoteReplies \/ m \in Senders
  \/ m \in AppendEntriesCalls \/ m \in AppendReplies \/ m \in SnapshotReplies
  \/ m.type = "InstallSnapshot" /\ m \in InstallSnapshotCalls({m.data})

\* Type invariant: every member of a RaftNode and every call in flight keeps
\* its type; in particular next_index_ never reaches 0, where the unsigned
\* next_idx - 1 of send_append_entries_to_peer would wrap around.  What the
\* state machine holds is the subject of AppliedIndexed, not of the types.
TypeOK ==
  /\ current_term \in [Node -> Nat]
  /\ voted_for \in [Node -> Node \cup {None}]
  /\ log \in [Node -> Log({log[i].snapshot_data : i \in Node})]
  /\ role \in [Node -> {"Follower", "Candidate", "Leader"}]
  /\ leader_id \in [Node -> Node \cup {None}]
  /\ commit_index \in [Node -> Nat]
  /\ last_applied \in [Node -> Nat]
  /\ next_index \in [Node -> [Node -> Nat \ {0}]]
  /\ match_index \in [Node -> [Node -> Nat]]
  /\ electing \in [Node -> Nat]
  /\ votes \in [Node -> SUBSET Node]
  /\ \A m \in rpcs : IsMessage(m)
  /\ crashes \in Nat
  /\ committed \subseteq [index : Nat, term : Nat, commit_term : Nat,
                          command : Command \cup {NoCommand}]
============================================================================
