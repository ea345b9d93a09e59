------------------------------ MODULE MCShards -----------------------------
(***************************************************************************)
(* One shard node, with the steps of its handlers (ShardNode), or several  *)
(* shards and coordinators (ClusterWrites), for TLC: in a behaviour only   *)
(* one of the two moves.                                                   *)
(***************************************************************************)
EXTENDS ShardNode, ClusterWrites

CONSTANTS t1, t2, k1, k2, v1, v2, m1, m2

Insert(k, v, m, e) == [op |-> "Insert", key |-> k, data |-> [vector |-> v, metadata |-> m], epoch |-> e]
Delete(k, e) == [op |-> "Delete", key |-> k, epoch |-> e]

\* One key is inserted with different data, and deleted; another key shares the
\* metadata file and the epoch with it.
Mixed == {Insert(k1, v1, m1, 1), Insert(k1, v1, m2, 1), Insert(k1, v2, Blank, 1), Delete(k1, 1),
          Insert(k2, v1, m2, 2), Delete(k2, 0)}

NoScene ==
  [coordinators |-> {}, replicas |-> {}, keys |-> {}, shards |-> {}, spare |-> {}, leaving |-> {},
   home |-> << >>, kinds |-> {}, promotes |-> {}, failover |-> FALSE,
   serial |-> FALSE, writes |-> 0, downs |-> 0, late |-> 0, commands |-> 0]

\* One shard with three replicas and one key.
OneShard == [NoScene EXCEPT !.coordinators = {1}, !.replicas = 1..3, !.shards = {1}, !.keys = {k1},
                            !.home = (k1 :> 1), !.kinds = {"insert"}, !.writes = 2]

\* Two coordinators write, one after the other, while the primary is changed; and
\* three writes of which two may be in the epoch check of a node at once, which may
\* also be started again.
Fencing == {[OneShard EXCEPT !.coordinators = {1, 2}, !.promotes = {2}, !.commands = 1, !.serial = TRUE],
            [OneShard EXCEPT !.coordinators = {1, 2}, !.replicas = {1}, !.promotes = {1},
                             !.commands = 2, !.writes = 3, !.downs = 1]}

\* Inserts and deletes of one key, with late requests and a node that is down.
Opposing == {[OneShard EXCEPT !.coordinators = {1, 2}, !.kinds = {"insert", "delete"},
                              !.late = 1, !.downs = 1]}

\* A replica misses a write and the primary goes down; and what follows when the
\* failover commits.
FailingOver == {[OneShard EXCEPT !.failover = TRUE, !.downs = 2],
                [OneShard EXCEPT !.failover = TRUE, !.replicas = 1..2, !.downs = 2, !.late = 1,
                                 !.writes = 1, !.commands = 1]}

\* The key moves to a shard that is added, or from one that is removed, while
\* another coordinator learns of it later.
TwoShards == [OneShard EXCEPT !.coordinators = {1, 2}, !.replicas = 1..2, !.home = (k1 :> 2),
                              !.late = 1, !.commands = 1]
Moving == {[TwoShards EXCEPT !.spare = {2}, !.late = 0],
           [TwoShards EXCEPT !.spare = {2}, !.coordinators = {1}, !.kinds = {"insert", "delete"},
                             !.writes = 3],
           [TwoShards EXCEPT !.shards = {1, 2}, !.leaving = {2}]}

MCScenes == {NoScene} \cup Fencing \cup Opposing \cup FailingOver \cup Moving

MCInit == Init /\ WritesInit
MCNext ==
  \/ scene = NoScene /\ Next /\ UNCHANGED writesVars
  \/ scene # NoScene /\ WritesNext /\ UNCHANGED vars
MCSpec == MCInit /\ [][MCNext]_<<vars, writesVars>>

ThreadSymmetry == Permutations(Thread)
============================================================================
