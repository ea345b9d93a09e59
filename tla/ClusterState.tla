---------------------------- MODULE ClusterState ---------------------------
(***************************************************************************)
(* The replicated topology: how each coordinator (coordinator_main.cpp)    *)
(* turns the committed Raft commands add_shard, remove_shard and           *)
(* set_primary into its own g_shards, snapshots it for RaftNode::compact,  *)
(* writes it to the shared configuration file, and rebuilds it when the    *)
(* process restarts.                                                       *)
(*                                                                         *)
(* The Raft group appears as what RaftNode promises: one sequence of       *)
(* committed commands, of which every node has applied a prefix.  The      *)
(* clients of a shard are always updated together, so g_shards is a        *)
(* function from the active shards to their primaries and epoch, and the   *)
(* set of shard ids that ever had a client: clients are never removed.     *)
(***************************************************************************)
EXTENDS Naturals, Sequences, FiniteSets

CONSTANTS
  Coordinator, Shard, Replica,
  InitialShards,   \* the shards of the configuration file at the start
  InitialPrimary,  \* the replica marked primary in that file
  AddedPrimaries,  \* the sets of replicas that an add request may mark primary
  Requested,       \* bound: the commands that are ever asked for
  CompactionThreshold,  \* COMPACTION_THRESHOLD
  ReAdd,           \* whether a shard id may be added after it was used before
  MaxCommands,     \* bound: commands committed in a behaviour
  MaxRequests,     \* bound: admin requests at a time on one coordinator
  MaxRestarts      \* bound: restarts of coordinators in a behaviour

\* The commands that the admin handlers and the failover threads propose.
Command ==
  [type : {"add_shard"}, shard_id : Shard, primaries : AddedPrimaries]
    \cup [type : {"remove_shard"}, shard_id : Shard]
    \cup [type : {"set_primary"}, shard_id : Shard, replica_id : Replica]
    \cup [type : {"other"}]  \* from /raft/propose: of no type the loop knows

ASSUME ClusterAssumption ==
  /\ InitialShards \subseteq Shard /\ InitialPrimary \in Replica
  /\ AddedPrimaries \subseteq SUBSET Replica /\ {} \notin AddedPrimaries
  /\ Requested \subseteq Command
  /\ CompactionThreshold \in Nat \ {0} /\ ReAdd \in BOOLEAN
  /\ {MaxCommands, MaxRequests, MaxRestarts} \subseteq Nat

VARIABLES
  \* the Raft group
  commands,        \* the committed commands
  declared,        \* history: the topology that each prefix of them declares
  last_applied, snapshot_last_index, snapshot_data,
  late,            \* history: whether a node has installed a snapshot that ends
                   \* before the last command it had applied
  \* g_shards of each coordinator
  topology,        \* its active clients
  known,           \* the shard ids of all its clients, inactive ones included
  \* apply_pending_raft_commands
  g_snapshot_applied_index, g_local_applied_count,
  phase,           \* "idle", "applying" or "compacting", under g_apply_mutex
  status,          \* the copy of RaftNode::status() that the loop works on
  reached,         \* history: the index of the last command in topology
  \* the admin handlers, the failover threads and the file
  requests,        \* validated commands, before propose() and after it
  config_file,
  restarts

raftVars == <<commands, declared, last_applied, snapshot_last_index, snapshot_data, late>>
viewVars == <<topology, known, reached>>
applyVars == <<g_snapshot_applied_index, g_local_applied_count, phase, status>>
adminVars == <<requests, config_file>>
vars == <<raftVars, viewVars, applyVars, adminVars, restarts>>

\* A coordinator knows the primaries and the epoch of each active shard.
Topology(S) == [S -> [primaries : SUBSET Replica, epoch : Nat]]

Without(t, s) == [x \in DOMAIN t \ {s} |-> t[x]]
With(t, s, client) == [x \in DOMAIN t \cup {s} |-> IF x = s THEN client ELSE t[x]]

\* What a command does to a topology, its index in the log being the epoch.
\* present tells whether the shard counts as existing.
Effect(t, command, epoch, present) ==
  LET s == command.shard_id
  IN  CASE command.type = "add_shard" ->
             IF present THEN t
             ELSE With(t, s, [primaries |-> command.primaries, epoch |-> epoch])
        [] command.type = "remove_shard" -> Without(t, s)
        [] command.type = "set_primary" ->
             IF s \in DOMAIN t
             THEN With(t, s, [primaries |-> {command.replica_id}, epoch |-> epoch])
             ELSE t
        [] command.type = "other" -> t

\* load_cluster_config and the clients that main() makes from it.
FromFile(file) == [s \in DOMAIN file |-> [primaries |-> file[s], epoch |-> 0]]

\* persist_cluster_state: endpoints are saved without their epochs.
ToFile(t) == [s \in DOMAIN t |-> t[s].primaries]
----------------------------------------------------------------------------
Init ==
  LET file == [s \in InitialShards |-> {InitialPrimary}]
  IN  /\ commands = << >>
      /\ declared = <<FromFile(file)>>
      /\ last_applied = [c \in Coordinator |-> 0]
      /\ snapshot_last_index = [c \in Coordinator |-> 0]
      /\ snapshot_data = [c \in Coordinator |-> FromFile(file)]
      /\ late = FALSE
      /\ topology = [c \in Coordinator |-> FromFile(file)]
      /\ known = [c \in Coordinator |-> InitialShards]
      /\ reached = [c \in Coordinator |-> 0]
      /\ g_snapshot_applied_index = [c \in Coordinator |-> 0]
      /\ g_local_applied_count = [c \in Coordinator |-> 0]
      /\ phase = [c \in Coordinator |-> "idle"]
      /\ status = [c \in Coordinator |-> [snapshot_last_index |-> 0, size |-> 0]]
      /\ requests = [c \in Coordinator |-> {}]
      /\ config_file = file
      /\ restarts = 0
----------------------------------------------------------------------------
(* The Raft group, as RaftNode behaves towards its coordinator *)

\* A node learns that one more command is committed and applies it.
Learn(c) ==
  /\ last_applied[c] < Len(commands)
  /\ last_applied' = [last_applied EXCEPT ![c] = @ + 1]
  /\ UNCHANGED <<commands, declared, snapshot_last_index, snapshot_data, late, viewVars,
                 applyVars, adminVars, restarts>>

\* handle_install_snapshot with the snapshot of d, if it is newer than the one c
\* has.  What c has applied behind its own snapshot is not looked at.
Advances(index, c) == index > snapshot_last_index[c]

InstallSnapshot(c, d) ==
  LET index == snapshot_last_index[d]
  IN  /\ Advances(index, c)
      /\ snapshot_last_index' = [snapshot_last_index EXCEPT ![c] = index]
      /\ snapshot_data' = [snapshot_data EXCEPT ![c] = snapshot_data[d]]
      /\ last_applied' = [last_applied EXCEPT ![c] = IF index > @ THEN index ELSE @]
      /\ late' = (late \/ index < last_applied[c])
      /\ UNCHANGED <<commands, declared, viewVars, applyVars, adminVars, restarts>>
----------------------------------------------------------------------------
(* apply_pending_raft_commands: the poller, and the handlers after propose() *)

\* Whether the node has a snapshot that topology does not come from.  After
\* its own compaction a coordinator applies its own snapshot once more.
Newer_OrSame(c) == snapshot_last_index[c] >= g_snapshot_applied_index[c]
Newer_Never(c) == FALSE
Newer(c) == snapshot_last_index[c] > g_snapshot_applied_index[c]

\* apply_raft_snapshot: all clients become inactive, new ones are added.
apply_raft_snapshot(c) ==
  /\ topology' = [topology EXCEPT ![c] = snapshot_data[c]]
  /\ known' = [known EXCEPT ![c] = @ \cup DOMAIN snapshot_data[c]]
  /\ reached' = [reached EXCEPT ![c] = snapshot_last_index[c]]

\* RaftNode::status(), under its lock: where the log starts, and how many applied
\* commands it holds from there.
RaftStatus(c) ==
  [snapshot_last_index |-> snapshot_last_index[c],
   size |-> last_applied[c] - snapshot_last_index[c]]

\* Up to the loop: copies the status and catches up with a newer snapshot.
ReadStatus(c) ==
  LET st == RaftStatus(c)
      newer == Newer(c)
      count == IF newer THEN 0 ELSE g_local_applied_count[c]
  IN  /\ phase[c] = "idle"
      /\ newer \/ st.size > g_local_applied_count[c]
      /\ IF newer
         THEN /\ apply_raft_snapshot(c)
              /\ g_snapshot_applied_index' =
                   [g_snapshot_applied_index EXCEPT ![c] = st.snapshot_last_index]
         ELSE UNCHANGED <<viewVars, g_snapshot_applied_index>>
      /\ g_local_applied_count' = [g_local_applied_count EXCEPT ![c] = count]
      /\ status' = [status EXCEPT ![c] = st]
      /\ phase' = [phase EXCEPT ![c] = IF st.size > count THEN "applying" ELSE "idle"]
      /\ UNCHANGED <<raftVars, adminVars, restarts>>

CommandIndex_IgnoresSnapshot(st, i) == i + 1
CommandIndex(st, i) == st.snapshot_last_index + i + 1

\* One round of the loop.  The last one sets the count, which no one reads
\* before, and decides whether to compact.
ApplyNext(c) ==
  LET i == g_local_applied_count[c]
      command_epoch == CommandIndex(status[c], i)
      command == commands[command_epoch]
      present == command.type = "add_shard" /\ command.shard_id \in known[c]
  IN  /\ phase[c] = "applying"
      /\ topology' = [topology EXCEPT ![c] = Effect(@, command, command_epoch, present)]
      /\ known' = [known EXCEPT ![c] =
                     IF command.type = "add_shard" THEN @ \cup {command.shard_id} ELSE @]
      /\ reached' = [reached EXCEPT ![c] = status[c].snapshot_last_index + i + 1]
      /\ g_local_applied_count' = [g_local_applied_count EXCEPT ![c] = i + 1]
      /\ phase' = [phase EXCEPT ![c] =
                     IF i + 1 < status[c].size THEN "applying"
                     ELSE IF i + 1 >= CompactionThreshold THEN "compacting" ELSE "idle"]
      /\ UNCHANGED <<raftVars, g_snapshot_applied_index, status, adminVars, restarts>>

CompactUpTo_OneMore(c) == status[c].snapshot_last_index + g_local_applied_count[c] + 1
CompactUpTo(c) == status[c].snapshot_last_index + g_local_applied_count[c]

\* The active clients, with their epochs.
serialize_raft_snapshot(c) == topology[c]

\* RaftNode::compact with the serialized topology, which refuses if a snapshot
\* that covers as much has been installed since the status was read.
CompactLog(c) ==
  LET up_to == CompactUpTo(c)
      compacts == snapshot_last_index[c] < up_to /\ up_to <= last_applied[c]
  IN  /\ phase[c] = "compacting"
      /\ phase' = [phase EXCEPT ![c] = "idle"]
      /\ IF compacts
         THEN /\ snapshot_last_index' = [snapshot_last_index EXCEPT ![c] = up_to]
              /\ snapshot_data' = [snapshot_data EXCEPT ![c] = serialize_raft_snapshot(c)]
              /\ g_local_applied_count' = [g_local_applied_count EXCEPT ![c] = 0]
         ELSE UNCHANGED <<snapshot_last_index, snapshot_data, g_local_applied_count>>
      /\ UNCHANGED <<commands, declared, last_applied, late, viewVars,
                     g_snapshot_applied_index, status, adminVars, restarts>>
----------------------------------------------------------------------------
(* The admin handlers and health_check_loop *)

Rebalances(command) == command.type \in {"add_shard", "remove_shard"}

\* The tests that the handlers of /admin/shards/add, remove and set_primary
\* make on their own view; a failover promotes an active replica as well.
Valid(c, command) ==
  LET s == command.shard_id
  IN  CASE command.type = "add_shard" -> TRUE
        [] command.type = "remove_shard" ->
             /\ s \in DOMAIN topology[c] /\ topology[c][s].primaries # {}
             /\ Cardinality(DOMAIN topology[c]) > 1
        [] command.type = "set_primary" -> s \in DOMAIN topology[c]
        [] command.type = "other" -> TRUE

\* A request passes the tests and takes the rebalancing flag if it needs it.
Request(c, command) ==
  /\ Cardinality(requests[c]) < MaxRequests
  /\ Valid(c, command)
  /\ Rebalances(command) => \A r \in requests[c] : r.waiting => ~Rebalances(r.command)
  /\ requests' = [requests EXCEPT ![c] =
                    @ \cup {[command |-> command, waiting |-> TRUE, committed |-> 0]}]
  /\ UNCHANGED <<raftVars, viewVars, applyVars, config_file, restarts>>

\* Shard ids that an add must not use again unless ReAdd.
Used == InitialShards \cup
        {commands[n].shard_id : n \in {m \in DOMAIN commands : commands[m].type = "add_shard"}}

\* A proposed command is committed, perhaps after propose() has given up on it.
\* c leads, so it has applied every command up to this one.
Commit(c, r) ==
  LET n == Len(commands) + 1
      t == declared[n]
      add == r.command.type = "add_shard"
      committed == IF r.waiting /\ r.command.type # "other"
                   THEN {[r EXCEPT !.committed = n]} ELSE {}
  IN  /\ r.committed = 0
      /\ n <= MaxCommands
      /\ add /\ ~ReAdd => r.command.shard_id \notin Used
      /\ commands' = Append(commands, r.command)
      /\ declared' = Append(declared, Effect(t, r.command, n, add /\ r.command.shard_id \in DOMAIN t))
      /\ last_applied' = [last_applied EXCEPT ![c] = n]
      /\ requests' = [requests EXCEPT ![c] = (@ \ {r}) \cup committed]
      /\ UNCHANGED <<snapshot_last_index, snapshot_data, late, viewVars, applyVars,
                     config_file, restarts>>

\* propose() returns false because c does not lead or no longer does, and the
\* command is never committed.
Refuse(c, r) ==
  /\ r.committed = 0
  /\ requests' = [requests EXCEPT ![c] = @ \ {r}]
  /\ UNCHANGED <<raftVars, viewVars, applyVars, config_file, restarts>>

\* propose() returns false and leaves the command in the log.
TimeOut(c, r) ==
  /\ r.committed = 0 /\ r.waiting
  /\ requests' = [requests EXCEPT ![c] = (@ \ {r}) \cup {[r EXCEPT !.waiting = FALSE]}]
  /\ UNCHANGED <<raftVars, viewVars, applyVars, config_file, restarts>>

\* The handler has applied what is committed and calls persist_cluster_state,
\* unless it finds that the shard it has added is not there.
Persist(c, r) ==
  LET missing == r.command.type = "add_shard" /\ r.command.shard_id \notin DOMAIN topology[c]
  IN  /\ 0 < r.committed /\ r.committed <= reached[c]
      /\ config_file' = IF missing THEN config_file ELSE ToFile(topology[c])
      /\ requests' = [requests EXCEPT ![c] = @ \ {r}]
      /\ UNCHANGED <<raftVars, viewVars, applyVars, restarts>>

\* The process ends and main() runs again: clients from the file, the commands
\* behind the snapshot to be learned and applied again.
Restart(c) ==
  LET index == snapshot_last_index[c]
  IN  /\ restarts < MaxRestarts
      /\ restarts' = restarts + 1
      /\ topology' = [topology EXCEPT ![c] = FromFile(config_file)]
      /\ known' = [known EXCEPT ![c] = DOMAIN config_file]
      /\ reached' = [reached EXCEPT ![c] = index]
      /\ last_applied' = [last_applied EXCEPT ![c] = index]
      /\ g_snapshot_applied_index' = [g_snapshot_applied_index EXCEPT ![c] = index]
      /\ g_local_applied_count' = [g_local_applied_count EXCEPT ![c] = 0]
      /\ phase' = [phase EXCEPT ![c] = "idle"]
      /\ requests' = [requests EXCEPT ![c] =
                        {[r EXCEPT !.waiting = FALSE] : r \in {q \in @ : q.committed = 0}}]
      /\ UNCHANGED <<commands, declared, snapshot_last_index, snapshot_data, late, status,
                     config_file>>
----------------------------------------------------------------------------
RaftSteps(c) == Learn(c) \/ \E d \in Coordinator : InstallSnapshot(c, d)
ApplySteps(c) == ReadStatus(c) \/ ApplyNext(c) \/ CompactLog(c)
AdminSteps(c) == \/ \E command \in Requested : Request(c, command)
                 \/ \E r \in requests[c] : \/ Commit(c, r) \/ Refuse(c, r)
                                           \/ TimeOut(c, r) \/ Persist(c, r)

Next == \E c \in Coordinator : RaftSteps(c) \/ ApplySteps(c) \/ AdminSteps(c) \/ Restart(c)

Spec == Init /\ [][Next]_vars

\* The leader's heartbeats keep every node learning, and the poller thread runs
\* apply_pending_raft_commands every 50 ms.
FairSpec == Spec /\ \A c \in Coordinator : WF_vars(Learn(c)) /\ WF_vars(ApplySteps(c))
----------------------------------------------------------------------------
(* Properties *)

\* The topology that the first n commands declare.
Declared(n) == declared[n + 1]

\* t lacks nothing but shards of u.
Within(t, u) == DOMAIN t \subseteq DOMAIN u /\ \A s \in DOMAIN t : t[s] = u[s]

\* At every moment a coordinator's clients, their primaries and their epochs are
\* those that some prefix of the committed commands declares, namely the one it
\* has reached, whether it got there command by command, by an installed
\* snapshot or by applying its own snapshot again.  Once a snapshot has been
\* installed that ends before what its receiver had applied, shards may be missing
\* (the re-applied add_shard finds the inactive client), but a coordinator still
\* has no shard, primary or epoch that the commands do not declare.
ViewMatchesLog ==
  \A c \in Coordinator :
    /\ Within(topology[c], Declared(reached[c]))
    /\ late \/ topology[c] = Declared(reached[c])

\* A snapshot holds the topology of its index, with the same exception: what a
\* coordinator lacks is missing from the snapshots it makes.
SnapshotMatchesLog ==
  \A c \in Coordinator :
    /\ Within(snapshot_data[c], Declared(snapshot_last_index[c]))
    /\ late \/ snapshot_data[c] = Declared(snapshot_last_index[c])

\* A coordinator that has learned all commands knows the shards they leave, also
\* when the commands are under its snapshot and it has restarted since: the log
\* keeps the state machine's state at the snapshot's index for that.
RestartKeepsShards ==
  \A c \in Coordinator :
    reached[c] = Len(commands) => DOMAIN topology[c] = DOMAIN Declared(reached[c])

\* A coordinator goes back to an earlier topology only when it restarts, or once a
\* snapshot has been installed that ends before what its receiver had applied.
\* Its own compactions, which make it apply its own snapshot again, never do it.
ReachedNeverBack ==
  [][restarts' = restarts /\ ~late
       => \A c \in Coordinator : reached'[c] >= reached[c]]_vars

\* Every coordinator gets to apply every committed command, restarted or not.
CatchesUp ==
  \A c \in Coordinator : \A n \in 1..MaxCommands : Len(commands) >= n ~> reached[c] >= n
============================================================================
