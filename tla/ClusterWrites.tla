----------------------------- MODULE ClusterWrites -----------------------------
(***************************************************************************)
(* What the coordinators (coordinator_main.cpp) do to the data on the      *)
(* shard nodes: quorum writes of several coordinators, the failover of a   *)
(* shard whose primary does not answer, and the migration of keys when a   *)
(* shard is added or removed.                                              *)
(*                                                                         *)
(* A shard node checks the epoch of a request, stores it and handles the   *)
(* request in steps that other requests come between; ShardNode has the    *)
(* steps of the handler.  The Raft group is the sequence of committed      *)
(* commands: its leader is coordinator 1, and each coordinator applies     *)
(* them by itself.  RaftNode and ClusterState have the details.  A request *)
(* stays on the wire when its deadline passes, and arrives then or never.  *)
(* All inserts of a key carry the same data.                               *)
(*                                                                         *)
(*   scene.coordinators, scene.replicas, scene.keys                        *)
(*   scene.shards    the shards of the configuration                       *)
(*   scene.spare     the shards that are added, at most one                *)
(*   scene.leaving   the shards that are removed, at most one              *)
(*   scene.home      the shard of a key on the ring, if it is there        *)
(*   scene.kinds     the writes that clients ask for                       *)
(*   scene.promotes  the replicas that an operator makes primary           *)
(*   scene.failover  whether health_check_loop runs                        *)
(*   scene.serial    bound: a write begins when no other is under way      *)
(*   scene.writes, scene.downs, scene.late, scene.commands   bounds:       *)
(*                   writes, nodes that go down, requests that outlive     *)
(*                   their deadline, committed commands                    *)
(***************************************************************************)
EXTENDS Integers, Sequences, FiniteSets, SequencesExt, TLC

CONSTANTS Scenes, FAILURES_BEFORE_FAILOVER

VARIABLES
  scene,
  record, alive, fence,   \* the shard nodes: data, process, current_epoch_
  declared,               \* the committed commands
  applied,                \* how many of them a coordinator has applied
  g_shards,               \* its clients: is_primary and epoch
  active,                 \* its shards with active clients, as on its ring
  telling,                \* the clients that set_primary has yet to change
  wire,                   \* requests that have not arrived
  op,                     \* the quorum write of each thread
  health,                 \* health_check_loop of the leader, and its proposals
  move,                   \* the rebalancing handler of the leader
  bound,                  \* counts against the bounds
  settled,                \* history: what the writes of a key have left
  acked,                  \* history: the epoch of the latest acknowledged write
  missed,                 \* history: the nodes that have missed a write
  fenceLost,              \* history: the epoch of a node has fallen
  staleAck,               \* history: a write with an old epoch was acknowledged
  lossy                   \* history: a failover chose a node that lacks a write

nodeVars == <<record, alive, fence>>
viewVars == <<applied, g_shards, active, telling>>
pastVars == <<settled, acked, missed, fenceLost, staleAck, lossy>>
writesVars ==
  <<scene, nodeVars, declared, viewVars, wire, op, health, move, bound, pastVars>>

AllShards == scene.shards \cup scene.spare
Nodes == AllShards \X scene.replicas

\* Thread 0 is the rebalancing handler; a coordinator has one other thread.
Threads == scene.coordinators \cup {0}
CoordinatorOf(w) == IF w = 0 THEN 1 ELSE w

Clients(epoch) == [r \in scene.replicas |-> [is_primary |-> r = 1, epoch |-> epoch]]
Idle == [pc |-> "idle"]
NoRound == [pc |-> "idle", shards |-> << >>, primary |-> 0, left |-> << >>,
            candidate |-> 0, count |-> 0, asked |-> {}, began |-> 0]

WritesInit ==
  /\ scene \in Scenes
  /\ record = [s \in AllShards |-> [r \in scene.replicas |-> [k \in scene.keys |-> "none"]]]
  /\ alive = Nodes
  /\ fence = [s \in AllShards |-> [r \in scene.replicas |-> 0]]
  /\ declared = << >> /\ applied = [c \in scene.coordinators |-> 0]
  /\ g_shards = [c \in scene.coordinators |-> [s \in AllShards |-> Clients(0)]]
  /\ active = [c \in scene.coordinators |-> scene.shards]
  /\ telling = [c \in scene.coordinators |-> {}]
  /\ wire = {} /\ op = [w \in Threads |-> Idle]
  /\ health = [failures |-> [s \in AllShards |-> 0], proposed |-> {}] @@ NoRound
  /\ move = Idle
  /\ bound = [writes |-> 0, downs |-> 0, late |-> 0]
  /\ settled = [k \in scene.keys |-> "open"] /\ acked = [s \in AllShards |-> 0]
  /\ missed = {} /\ fenceLost = FALSE /\ staleAck = FALSE /\ lossy = FALSE
--------------------------------------------------------------------------------
(* The view of a coordinator *)

\* HashRing::route.
route(k, shards) ==
  IF scene.home[k] \in shards THEN scene.home[k] ELSE CHOOSE s \in shards : TRUE

Primaries(c, s) == {r \in scene.replicas : g_shards[c][s][r].is_primary}

\* The primary comes first.
replicas_for_shard(c, s) ==
  SetToSortSeq(Primaries(c, s), <) \o SetToSortSeq(scene.replicas \ Primaries(c, s), <)

\* 0 for none.
find_primary(c, s) ==
  IF Primaries(c, s) = {} THEN 0 ELSE Head(replicas_for_shard(c, s))

\* apply_pending_raft_commands, the next command, whose index is the epoch.
\* set_primary changes one client after another under a lock that writers share.
ApplyCommand(c) ==
  LET n == applied[c] + 1
      command == declared[n]
      s == command.shard
  IN  /\ telling[c] = {} /\ n <= Len(declared)
      /\ \/ /\ command.type = "set_primary"
            /\ telling' = [telling EXCEPT ![c] = scene.replicas]
            /\ UNCHANGED <<applied, g_shards, active>>
         \/ /\ command.type = "add_shard"
            /\ applied' = [applied EXCEPT ![c] = n]
            /\ g_shards' = [g_shards EXCEPT ![c][s] = Clients(n)]
            /\ active' = [active EXCEPT ![c] = @ \cup {s}]
            /\ UNCHANGED telling
         \/ /\ command.type = "remove_shard"
            /\ applied' = [applied EXCEPT ![c] = n]
            /\ active' = [active EXCEPT ![c] = @ \ {s}]
            /\ UNCHANGED <<g_shards, telling>>
      /\ UNCHANGED <<scene, nodeVars, declared, wire, op, health, move, bound, pastVars>>

NewClient(r, command, n) == [is_primary |-> r = command.replica, epoch |-> n]

TellClient(c) ==
  LET n == applied[c] + 1
      command == declared[n]
      r == CHOOSE x \in telling[c] : \A y \in telling[c] : x <= y
  IN  /\ telling[c] # {}
      /\ g_shards' = [g_shards EXCEPT ![c][command.shard][r] = NewClient(r, command, n)]
      /\ telling' = [telling EXCEPT ![c] = @ \ {r}]
      /\ applied' = IF telling[c] = {r} THEN [applied EXCEPT ![c] = n] ELSE applied
      /\ UNCHANGED <<scene, nodeVars, declared, active, wire, op, health, move, bound, pastVars>>
--------------------------------------------------------------------------------
(* The shard nodes *)

Handled(kind, state) ==
  CASE kind = "insert" -> [state |-> "live", ok |-> TRUE]
    [] kind = "delete" /\ state = "none" -> [state |-> "none", ok |-> FALSE]
    [] OTHER -> [state |-> "dead", ok |-> TRUE]

\* An answer reaches the thread that waits for it; quorum_insert and quorum_delete
\* count them.
Answered(o, r, ok) ==
  [o EXCEPT !.waiting = @ \ {r}, !.acks = IF ok THEN @ \cup {r} ELSE @]

IsAwaited(m) ==
  LET o == op[m.w]
  IN  o.pc \in {"send", "wait"} /\ <<o.n, o.kind, o.key>> = <<m.n, m.kind, m.key>> /\ m.replica \in o.waiting

Answer(m, ok) ==
  op' = IF IsAwaited(m) THEN [op EXCEPT ![m.w] = Answered(@, m.replica, ok)] ELSE op

\* The handler of a request goes on.
GoesOn(m, at) == (wire \ {m}) \cup {[m EXCEPT !.at = at]}

Miss(m, ok) == missed' = IF ok THEN missed ELSE missed \cup {<<m.shard, m.replica>>}

\* A request arrives, in time or after its deadline.  check_and_advance_epoch loads
\* and compares, and stores in a step of its own.  Where no command is committed
\* all epochs are 0 and the check does nothing.
Checked == scene.commands > 0

Fenced_Never(m) == FALSE
Fenced(m) == m.epoch < fence[m.shard][m.replica]

Check(m) ==
  /\ Checked /\ m.at = "wire" /\ <<m.shard, m.replica>> \in alive
  /\ IF Fenced(m)
     THEN wire' = wire \ {m} /\ Answer(m, FALSE) /\ Miss(m, FALSE)
     ELSE /\ wire' = GoesOn(m, IF m.epoch > fence[m.shard][m.replica] THEN "store" ELSE "serve")
          /\ UNCHANGED <<op, missed>>
  /\ UNCHANGED <<scene, nodeVars, declared, viewVars, health, move, bound,
                 settled, acked, fenceLost, staleAck, lossy>>

Store(m) ==
  /\ m.at = "store" /\ <<m.shard, m.replica>> \in alive
  /\ fence' = [fence EXCEPT ![m.shard][m.replica] = m.epoch]
  /\ fenceLost' = (fenceLost \/ m.epoch < fence[m.shard][m.replica])
  /\ wire' = GoesOn(m, "serve")
  /\ UNCHANGED <<scene, record, alive, declared, viewVars, op, health, move, bound,
                 settled, acked, missed, staleAck, lossy>>

Serve(m) ==
  LET handled == Handled(m.kind, record[m.shard][m.replica][m.key])
  IN  /\ m.at = IF Checked THEN "serve" ELSE "wire"
      /\ <<m.shard, m.replica>> \in alive
      /\ wire' = wire \ {m}
      /\ record' = [record EXCEPT ![m.shard][m.replica][m.key] = handled.state]
      /\ Answer(m, handled.ok) /\ Miss(m, handled.ok)
      /\ UNCHANGED <<scene, alive, fence, declared, viewVars, health, move, bound,
                     settled, acked, fenceLost, staleAck, lossy>>

\* A node that is down takes no request, and does not finish those it has taken.
Refuse(m) ==
  /\ <<m.shard, m.replica>> \notin alive
  /\ wire' = wire \ {m}
  /\ Answer(m, FALSE) /\ Miss(m, FALSE)
  /\ UNCHANGED <<scene, nodeVars, declared, viewVars, health, move, bound,
                 settled, acked, fenceLost, staleAck, lossy>>

\* The deadline of a request passes before it arrives or is answered.
Expire(m) ==
  /\ IsAwaited(m) /\ bound.late < scene.late
  /\ bound' = [bound EXCEPT !.late = @ + 1]
  /\ Answer(m, FALSE) /\ Miss(m, FALSE)
  /\ UNCHANGED <<scene, nodeVars, declared, viewVars, wire, health, move,
                 settled, acked, fenceLost, staleAck, lossy>>

\* The records are in a mapped file; current_epoch_ is only in memory.
Down(s, r) ==
  /\ <<s, r>> \in alive /\ bound.downs < scene.downs
  /\ bound' = [bound EXCEPT !.downs = @ + 1]
  /\ alive' = alive \ {<<s, r>>}
  /\ fenceLost' = (fenceLost \/ fence[s][r] > 0)
  /\ fence' = [fence EXCEPT ![s][r] = 0]
  /\ UNCHANGED <<scene, record, declared, viewVars, wire, op, health, move,
                 settled, acked, missed, staleAck, lossy>>

Up(s, r) ==
  /\ <<s, r>> \notin alive
  /\ \A m \in wire : <<m.shard, m.replica>> = <<s, r>> => m.at = "wire"
  /\ alive' = alive \cup {<<s, r>>}
  /\ UNCHANGED <<scene, record, fence, declared, viewVars, wire, op, health, move, bound, pastVars>>
--------------------------------------------------------------------------------
(* Quorum writes *)

rebalancing(c) == c = 1 /\ move.pc \notin {"idle", "done"}

\* The shards that the first n commands leave.
Topology(n) ==
  {s \in AllShards : \/ /\ s \in scene.shards
                        /\ \A i \in 1..n : declared[i] # [type |-> "remove_shard", shard |-> s]
                     \/ \E i \in 1..n : declared[i] = [type |-> "add_shard", shard |-> s]}

\* A write says nothing certain of its key if one of the other kind, a migration or
\* a change of the shards is under way.
Opposed(c, kind, k) ==
  \/ \E w \in Threads : op[w].pc # "idle" /\ op[w].key = k /\ op[w].kind # kind
  \/ \E m \in wire : m.key = k /\ m.kind # kind
  \/ move.pc \notin {"idle", "done"}
  \/ active[c] # Topology(Len(declared))

NewOp(kind, k, opposed) ==
  [pc |-> "route", kind |-> kind, key |-> k, shard |-> 0, n |-> bound.writes, todo |-> << >>,
   primary |-> 0, waiting |-> {}, acks |-> {}, epochs |-> {}, floor |-> 0, opposed |-> opposed]

\* The handlers of POST and DELETE /vectors, up to the copy of the ring.
Ask(c, kind, k) ==
  LET opposite == [w \in Threads |->
        IF op[w].pc # "idle" /\ op[w].key = k /\ op[w].kind # kind
        THEN [op[w] EXCEPT !.opposed = TRUE] ELSE op[w]]
  IN  /\ op[c].pc = "idle" /\ ~rebalancing(c) /\ bound.writes < scene.writes
      /\ scene.serial => \A w \in Threads : op[w].pc = "idle"
      /\ bound' = [bound EXCEPT !.writes = @ + 1]
      /\ op' = [opposite EXCEPT ![c] =
                  [NewOp(kind, k, Opposed(c, kind, k)) EXCEPT !.shard = route(k, active[c])]]
      /\ settled' = IF settled[k] # kind THEN [settled EXCEPT ![k] = "open"] ELSE settled
      /\ UNCHANGED <<scene, nodeVars, declared, viewVars, wire, health, move,
                     acked, missed, fenceLost, staleAck, lossy>>

\* Then live_shards and replicas_for_shard.  The shard may be gone by now.
Pool(c) ==
  LET s == op[c].shard
      pooled == [op[c] EXCEPT !.pc = "send", !.floor = acked[s], !.todo = replicas_for_shard(c, s)]
  IN  /\ op[c].pc = "route"
      /\ op' = [op EXCEPT ![c] = IF s \in active[c] THEN pooled ELSE Idle]
      /\ UNCHANGED <<scene, nodeVars, declared, viewVars, wire, health, move, bound, pastVars>>

\* The loop that reads the flag and the epoch of each client and submits a request.
Send(w) ==
  LET o == op[w]
      r == Head(o.todo)
      client == g_shards[CoordinatorOf(w)][o.shard][r]
      sent == [o EXCEPT !.todo = Tail(@), !.pc = IF Len(o.todo) = 1 THEN "wait" ELSE "send", !.waiting = @ \cup {r}, !.epochs = @ \cup {client.epoch},
                        !.primary = IF client.is_primary THEN r ELSE @]
  IN  /\ o.pc = "send"
      /\ op' = [op EXCEPT ![w] = sent]
      /\ wire' = wire \cup {[w |-> w, n |-> o.n, shard |-> o.shard, replica |-> r,
                             kind |-> o.kind, key |-> o.key, epoch |-> client.epoch, at |-> "wire"]}
      /\ UNCHANGED <<scene, nodeVars, declared, viewVars, health, move, bound, pastVars>>

Majority == Cardinality(scene.replicas) \div 2 + 1

IsQuorum_HalfIsEnough(o) == o.primary \in o.acks /\ Cardinality(o.acks) >= Cardinality(scene.replicas) \div 2
IsQuorum(o) == o.primary \in o.acks /\ Cardinality(o.acks) >= Majority

\* A quorum of answers may be in before the last one, but all are waited for.
IsComplete(w) == op[w].pc = "wait" /\ op[w].waiting = {}

Finish(c) ==
  LET o == op[c]
      ok == IsQuorum(o)
  IN  /\ c # 0 /\ IsComplete(c)
      /\ op' = [op EXCEPT ![c] = Idle]
      /\ settled' = IF ok /\ ~o.opposed THEN [settled EXCEPT ![o.key] = o.kind] ELSE settled
      /\ acked' = IF ok THEN [acked EXCEPT ![o.shard] = Max({@, Min(o.epochs)})] ELSE acked
      /\ staleAck' = (staleAck \/ (ok /\ Max(o.epochs) < o.floor))
      /\ UNCHANGED <<scene, nodeVars, declared, viewVars, wire, health, move, bound,
                     missed, fenceLost, lossy>>
--------------------------------------------------------------------------------
(* Commands: what propose commits *)

CanCommit == Len(declared) < scene.commands
Commit(command) == CanCommit /\ declared' = Append(declared, command)

\* POST /admin/shards/set_primary, up to the commit.
set_primary(s, r) ==
  /\ s \in active[1] /\ r \in scene.promotes
  /\ Commit([type |-> "set_primary", shard |-> s, replica |-> r])
  /\ UNCHANGED <<scene, nodeVars, viewVars, wire, op, health, move, bound, pastVars>>
--------------------------------------------------------------------------------
(* health_check_loop *)

HealthSteps == <<scene, nodeVars, viewVars, wire, op, move, settled, acked, missed, fenceLost, staleAck>>

\* A call of a node in time, and one that fails: the node is down or answers late.
Reached(s, r) == <<s, r>> \in alive /\ UNCHANGED bound
Missing(s, r) ==
  /\ <<s, r>> \in alive => bound.late < scene.late
  /\ bound' = IF <<s, r>> \in alive THEN [bound EXCEPT !.late = @ + 1] ELSE bound

\* No write is under way.
IsQuiet == wire = {} /\ \A w \in Threads : op[w].pc = "idle"

StartRound ==
  /\ scene.failover /\ health.pc = "idle"
  /\ health' = [health EXCEPT !.pc = "ping", !.shards = SetToSortSeq(active[1], <)]
  /\ UNCHANGED <<HealthSteps, declared, bound, lossy>>

\* On to the next shard, with failures as given.
NextShard(failures) ==
  health' = [NoRound EXCEPT !.shards = Tail(health.shards),
                            !.pc = IF Len(health.shards) = 1 THEN "idle" ELSE "ping"]
              @@ [health EXCEPT !.failures = failures]

Ping ==
  LET s == Head(health.shards)
      primary == find_primary(1, s)
      failures == health.failures[s] + 1
      With(n) == [health.failures EXCEPT ![s] = n]
  IN  /\ health.pc = "ping"
      /\ \/ primary = 0 /\ NextShard(health.failures) /\ UNCHANGED bound
         \/ primary # 0 /\ Reached(s, primary) /\ NextShard(With(0))
         \/ /\ primary # 0 /\ Missing(s, primary)
            /\ IF failures < FAILURES_BEFORE_FAILOVER THEN NextShard(With(failures))
               ELSE health' = [health EXCEPT
                      !.pc = "stats", !.failures = With(FAILURES_BEFORE_FAILOVER), !.primary = primary,
                      !.left = SelectSeq(replicas_for_shard(1, s), LAMBDA r : r # primary),
                      !.began = IF IsQuiet THEN bound.writes ELSE -1]
      /\ UNCHANGED <<HealthSteps, declared, lossy>>

element_count(s, r) == Cardinality({k \in scene.keys : record[s][r][k] = "live"})

\* Stats of one replica after another; the first with the highest count is chosen.
IsBetter_Later(count) == TRUE
IsBetter(count) == health.candidate = 0 \/ count > health.count

Stats ==
  LET s == Head(health.shards)
      r == Head(health.left)
      count == element_count(s, r)
      next == [health EXCEPT !.left = Tail(@)]
  IN  /\ health.pc = "stats" /\ health.left # << >>
      /\ \/ /\ Reached(s, r)
            /\ health' = IF IsBetter(count)
                         THEN [next EXCEPT !.candidate = r, !.count = count, !.asked = @ \cup {r}]
                         ELSE [next EXCEPT !.asked = @ \cup {r}]
         \/ Missing(s, r) /\ health' = next
      /\ UNCHANGED <<HealthSteps, declared, lossy>>

\* A write that was acknowledged is not on the candidate, although all the others
\* were asked while no write was under way and at most one of them has ever missed
\* a write.
Loses(s) ==
  /\ health.began = bound.writes /\ scene.kinds = {"insert"}
  /\ health.asked = scene.replicas \ {health.primary}
  /\ Cardinality({r \in health.asked : <<s, r>> \in missed}) <= 1
  /\ \E k \in scene.keys :
       \/ settled[k] = "insert" /\ record[s][health.candidate][k] # "live"
       \/ settled[k] = "delete" /\ record[s][health.candidate][k] = "live"

\* The proposal is left to a thread of its own.
Decide ==
  LET s == Head(health.shards)
  IN  /\ health.pc = "stats" /\ health.left = << >>
      /\ IF health.candidate = 0 THEN NextShard(health.failures) /\ UNCHANGED lossy
         ELSE /\ health' = [NoRound EXCEPT !.shards = Tail(health.shards),
                                           !.pc = IF Len(health.shards) = 1 THEN "idle" ELSE "ping"]
                @@ [health EXCEPT !.failures[s] = 0, !.proposed = @ \cup {<<s, health.candidate>>}]
              /\ lossy' = (lossy \/ Loses(s))
      /\ UNCHANGED <<HealthSteps, declared, bound>>

\* The thread proposes set_primary, which commits or not.
Promote(p) ==
  /\ health' = [health EXCEPT !.proposed = @ \ {p}]
  /\ \/ UNCHANGED declared
     \/ Commit([type |-> "set_primary", shard |-> p[1], replica |-> p[2]])
  /\ UNCHANGED <<HealthSteps, bound, lossy>>
--------------------------------------------------------------------------------
(* The rebalancing handlers *)

MoveSteps == <<scene, nodeVars, viewVars, wire, health, pastVars>>

\* The writes that were let in before are not waited for.
InDoubt == [w \in Threads |-> IF op[w].pc = "idle" THEN op[w] ELSE [op[w] EXCEPT !.opposed = TRUE]]

NoMove == [pc |-> "list", kind |-> "", shard |-> 0, sources |-> << >>, source |-> 0, primary |-> 0,
           pool |-> {}, left |-> {}, key |-> 0, partial |-> FALSE]

\* POST /admin/shards/add commits first, and goes on when the command is applied.
AddShard(s) ==
  /\ move.pc = "idle" /\ s \in scene.spare
  /\ \/ /\ Commit([type |-> "add_shard", shard |-> s])
        /\ move' = [NoMove EXCEPT !.pc = "apply", !.kind = "add", !.shard = s]
     \/ UNCHANGED declared /\ move' = [pc |-> "done", partial |-> FALSE]
  /\ op' = InDoubt
  /\ UNCHANGED <<MoveSteps, bound>>

\* POST /admin/shards/remove takes the leaving shard and its primary as they are.
RemoveShard(s) ==
  /\ move.pc = "idle" /\ s \in scene.leaving
  /\ move' = IF s \notin active[1] \/ find_primary(1, s) = 0 \/ Cardinality(active[1]) <= 1
             THEN [pc |-> "done", partial |-> FALSE]
             ELSE [NoMove EXCEPT !.kind = "remove", !.shard = s, !.source = s, !.pool = active[1],
                                 !.primary = find_primary(1, s)]
  /\ op' = InDoubt
  /\ UNCHANGED <<MoveSteps, declared, bound>>

\* apply_pending_raft_commands of the handler has returned.
MoveApplied ==
  /\ move.pc = "apply" /\ applied[1] = Len(declared) /\ telling[1] = {}
  /\ move' = IF move.kind = "remove" THEN [pc |-> "done", partial |-> move.partial]
             ELSE [move EXCEPT !.pc = "source", !.pool = active[1],
                               !.sources = SetToSortSeq(active[1] \ {move.shard}, <)]
  /\ UNCHANGED <<MoveSteps, declared, op, bound>>

\* add: the next shard that keys are taken from.  One without a primary is skipped.
NextSource ==
  /\ move.pc = "source"
  /\ move' =
       IF move.sources = << >> THEN [pc |-> "done", partial |-> move.partial]
       ELSE LET s == Head(move.sources)
                p == find_primary(1, s)
            IN  [move EXCEPT !.pc = IF p = 0 THEN "source" ELSE "list", !.sources = Tail(@),
                             !.source = s, !.primary = p, !.partial = @ \/ p = 0]
  /\ UNCHANGED <<MoveSteps, declared, op, bound>>

\* The shards that the ring of the handler has.
NewRing == IF move.kind = "add" THEN move.pool ELSE move.pool \ {move.shard}

Dest(k) == route(k, NewRing)

\* ListLocalIds of the primary.  add keeps the keys that the new shard takes.
List ==
  LET ids == {k \in scene.keys : record[move.source][move.primary][k] = "live"}
      taken == {k \in ids : move.kind = "add" => Dest(k) = move.shard}
  IN  /\ move.pc = "list"
      /\ \/ Reached(move.source, move.primary) /\ move' = [move EXCEPT !.pc = "next", !.left = taken]
         \/ /\ Missing(move.source, move.primary)
            /\ move' = [move EXCEPT !.pc = "next", !.partial = TRUE]
      /\ UNCHANGED <<MoveSteps, declared, op>>

\* A quorum write of the handler.
OpOf(kind, s) ==
  [NewOp(kind, move.key, FALSE) EXCEPT !.pc = "send", !.shard = s, !.todo = replicas_for_shard(1, s)]

NextKey ==
  /\ move.pc = "next"
  /\ \/ /\ move.left = {}
        /\ move' = [move EXCEPT !.pc = IF move.kind = "add" THEN "source" ELSE "propose"]
     \/ \E k \in move.left : move' = [move EXCEPT !.pc = "get", !.key = k, !.left = @ \ {k}]
  /\ UNCHANGED <<MoveSteps, declared, op, bound>>

\* migrate_one_key: GetVector of the source's primary, a quorum insert, and when it
\* succeeds a quorum delete, whose result is not looked at.
Deletes_Always(o) == TRUE
Deletes(o) == IsQuorum(o)

Get ==
  LET there == record[move.source][move.primary][move.key] = "live"
  IN  /\ move.pc = "get"
      /\ \/ /\ there /\ Reached(move.source, move.primary)
            /\ op' = [op EXCEPT ![0] = OpOf("insert", Dest(move.key))]
            /\ move' = [move EXCEPT !.pc = "insert"]
         \/ /\ ~there /\ Reached(move.source, move.primary)
            /\ move' = [move EXCEPT !.pc = "next", !.partial = TRUE]
            /\ UNCHANGED op
         \/ /\ Missing(move.source, move.primary)
            /\ move' = [move EXCEPT !.pc = "next", !.partial = TRUE]
            /\ UNCHANGED op
      /\ UNCHANGED <<MoveSteps, declared>>

MoveInserted ==
  /\ move.pc = "insert" /\ IsComplete(0)
  /\ IF Deletes(op[0])
     THEN /\ op' = [op EXCEPT ![0] = OpOf("delete", move.source)]
          /\ move' = [move EXCEPT !.pc = "delete"]
     ELSE op' = [op EXCEPT ![0] = Idle] /\ move' = [move EXCEPT !.pc = "next", !.partial = TRUE]
  /\ UNCHANGED <<MoveSteps, declared, bound>>

MoveDeleted ==
  /\ move.pc = "delete" /\ IsComplete(0)
  /\ op' = [op EXCEPT ![0] = Idle] /\ move' = [move EXCEPT !.pc = "next"]
  /\ UNCHANGED <<MoveSteps, declared, bound>>

\* remove commits last.
ProposeRemove ==
  /\ move.pc = "propose"
  /\ \/ /\ Commit([type |-> "remove_shard", shard |-> move.shard])
        /\ move' = [move EXCEPT !.pc = "apply"]
     \/ UNCHANGED declared /\ move' = [pc |-> "done", partial |-> move.partial]
  /\ UNCHANGED <<MoveSteps, op, bound>>

Migration ==
  \/ \E s \in AllShards : AddShard(s) \/ RemoveShard(s)
  \/ MoveApplied \/ NextSource \/ List \/ NextKey
  \/ Get \/ MoveInserted \/ MoveDeleted \/ ProposeRemove
--------------------------------------------------------------------------------
Failover == StartRound \/ Ping \/ Stats \/ Decide \/ \E p \in health.proposed : Promote(p)

Applying == \E c \in scene.coordinators : ApplyCommand(c) \/ TellClient(c)

Writing ==
  \/ \E c \in scene.coordinators, kind \in scene.kinds, k \in scene.keys : Ask(c, kind, k)
  \/ \E c \in scene.coordinators : Pool(c) \/ Finish(c)
  \/ \E w \in Threads : Send(w)

Network ==
  \/ \E m \in wire : Check(m) \/ Store(m) \/ Serve(m) \/ Refuse(m) \/ Expire(m)
  \/ \E s \in AllShards, r \in scene.replicas : Down(s, r) \/ Up(s, r)

WritesNext ==
  \/ Applying \/ Writing \/ Network \/ Failover \/ Migration
  \/ \E s \in AllShards, r \in scene.replicas : set_primary(s, r)

WritesSpec == WritesInit /\ [][WritesNext]_writesVars
--------------------------------------------------------------------------------
(* Properties *)

Holders(s, k) == {r \in scene.replicas : record[s][r][k] = "live"}
HasMajority(s, k) == Cardinality(Holders(s, k)) >= Majority

\* What an acknowledged insert stored stays on a majority of some shard that is
\* active for each coordinator, also while and after keys are migrated, as
\* migrate_one_key inserts before it deletes and remove commits last.  Not for a
\* coordinator that has yet to learn of an added shard, and not when the remove
\* handler could not list or move a key, since it removes the shard all the same.
StoredStands ==
  \A k \in scene.keys, c \in scene.coordinators :
    /\ settled[k] = "insert"
    /\ Topology(Len(declared)) \cap scene.spare \subseteq active[c]
    /\ scene.leaving # {} /\ move.pc # "idle" => ~move.partial
    => \E s \in active[c] : HasMajority(s, k)

\* What an acknowledged delete removed is live on no majority of the shard that
\* the ring has for the key, whatever nodes were down or deletes are late.  Not when
\* an insert of the key was under way or still on the wire as the delete began, be
\* its deadline over: it may arrive after the delete and bring the key back.
RemovedStands ==
  \A k \in scene.keys : settled[k] = "delete" => ~HasMajority(route(k, Topology(Len(declared))), k)

\* Once a write with the epoch of a set_primary is acknowledged, no write that
\* begins later with older epochs is: the majorities meet in a node whose
\* current_epoch_ refuses it.  Unless a node's current_epoch_ has fallen: it was
\* started again, or a smaller epoch, compared before a larger one was stored, was
\* stored after it.
FencedOut == staleAck => fenceLost

\* health_check_loop, asking all other replicas while no write is under way,
\* promotes one that holds every acknowledged insert, if at most one of them has
\* missed a write: the one with the highest element_count.
FailoverKeepsWrites == ~lossy
================================================================================
