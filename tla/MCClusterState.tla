--------------------------- MODULE MCClusterState --------------------------
(* ClusterState for TLC. *)
EXTENDS ClusterState, TLC

CONSTANTS c1, c2, s1, s2, r1, r2,
  MaxFree          \* bound: commands that may come in any way

\* Add requests mark the first replica.
FirstOnly == {{r1}}

\* A shard comes and goes, primaries move, something unknown is proposed.
SomeOfEach ==
  [type : {"add_shard"}, shard_id : {s2}, primaries : AddedPrimaries]
    \cup [type : {"remove_shard"}, shard_id : {s2}]
    \cup [type : {"set_primary"}, shard_id : {s1, s2}, replica_id : {r2}]
    \cup [type : {"other"}]

\* Primaries move.
OneMoves == [type : {"set_primary"}, shard_id : {s1}, replica_id : {r2}]

\* The cases of cluster_views that have bounds of their own: a few commands of any
\* kind, from requests that fail or are late as well; and more of them, known and
\* committed as they are asked for, so that a node may take a snapshot that ends
\* between its own one and what it has applied.
Prompt ==
  /\ \A c \in Coordinator : \A r \in requests[c] :
       r.waiting /\ \A d \in Coordinator \ {c} : requests[d] = {}
  /\ \A n \in DOMAIN commands : commands[n].type # "other"
ViewCases == (Len(commands) <= MaxFree \/ Prompt)'

\* The state without what is not read again: the status that an idle poller has
\* worked on, and the file once no process starts any more.
LiveState ==
  <<raftVars, viewVars, g_snapshot_applied_index, g_local_applied_count, phase,
    [c \in Coordinator |-> IF phase[c] = "idle" THEN << >> ELSE status[c]],
    requests, IF restarts < MaxRestarts THEN config_file ELSE << >>, restarts>>

CoordinatorSymmetry == Permutations({c1, c2})
============================================================================
