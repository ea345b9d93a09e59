------------------------------- MODULE Experiment -------------------------------
(****************************************************************************)
(* What the experiment runners and the chaos harness are all made of: a     *)
(* driver (pc), writer threads, a sampler thread, a chaos thread, and the   *)
(* replicas of one shard, which they write to, probe, kill and restart.     *)
(* The steps here are those the programs share; NanoRun, QdrantRun and      *)
(* WeaviateRun hold the programs.  `plan` is the command line of the run    *)
(* and what its environment does to it; it never changes.                   *)
(*                                                                          *)
(*   plan.program   "experiment" (run_experiment.py), "harness"             *)
(*                  (chaos_harness.py), "qdrant" (qdrant_run_experiment.py) *)
(*                  "weaviate" (the Weaviate studies) or "analysis"         *)
(*   plan.nodes     the replicas; 0 is the coordinator of a nano-db cluster *)
(*   plan.writers   the writer threads, and plan.batch the ids of a request *)
(*   plan.pool      the ids there are to write                              *)
(*   plan.chaos     "none", "whole" (the whole run) or "quiesce"            *)
(*   plan.contradicts   --no-chaos is given as well                         *)
(*   plan.query     of the `sift` queries there are `n` are pinned; with    *)
(*                  mode "nonpinned" `draw` of `reserve` others are drawn   *)
(*                  for the agreement of each round                         *)
(*   plan.rounds, plan.kills   bounds on sampling rounds and kills          *)
(*   plan.interrupt  whether Ctrl-C may be pressed                          *)
(*   plan.stale     an earlier run left its results                         *)
(*   plan.docker    "prompt", or "slow": a call may raise, outlive a join   *)
(*                  or, without a timeout, never return                     *)
(*                                                                          *)
(* crashed is a history: the processes that the driver started after the    *)
(* chaos and that did not stay up.                                          *)
(****************************************************************************)
EXTENDS Metrics

CONSTANTS Plans,    \* the runs to consider
          Query,    \* a query: all ids, nearest first
          K         \* how many answers are scored

VARIABLES
  plan, pc, exit, todo,              \* the driver, and what a loop of it has left
  stop, chaosStop, pause,            \* the threading.Events
  next, exhausted, attempted, failed, confirmed, writing,       \* the writers
  up, hold, pending, indexed, primary,                          \* the cluster
  round, scores, rounds,                                        \* the sampler
  chaos, events, kills, crashed,                                \* the chaos thread
  gate, check, files,
  lab                                \* what only one of the programs has

driverVars == <<pc, exit, todo>>
flagVars == <<stop, chaosStop, pause>>
writerVars == <<next, exhausted, attempted, failed, confirmed, writing>>
clusterVars == <<up, hold, pending, indexed, primary>>
samplerVars == <<round, scores, rounds>>
chaosVars == <<chaos, events, kills, crashed>>
restVars == <<gate, check, files, lab>>
vars == <<plan, driverVars, flagVars, writerVars, clusterVars, samplerVars,
          chaosVars, restVars>>

Nodes == plan.nodes
Procs == IF plan.program \in {"experiment", "harness"} THEN Nodes \cup {0} ELSE Nodes
Running == pc # "exited"

\* Once the threads are joined nothing the run records depends on the writers,
\* the sampler and the replicas any more; the chaos thread may still act.
Measuring == pc \notin {"writing", "teardown", "killing", "hung", "exited"}

\* A round: `began` is what a replica held when it was first asked.
NoRound == [at |-> "idle", exact |-> FALSE, intended |-> {}, corpus |-> << >>,
            seen |-> << >>, began |-> << >>, offset |-> << >>, local |-> << >>,
            obs |-> << >>, loo |-> << >>]

ExperimentInit ==
  /\ plan \in Plans
  /\ exit = -1
  /\ stop = FALSE /\ chaosStop = FALSE /\ pause = FALSE
  /\ next = 1 /\ exhausted = FALSE /\ attempted = 0 /\ failed = 0
  /\ confirmed = << >>
  /\ writing = [w \in plan.writers |-> [at |-> "off", ids |-> {}]]
  /\ indexed = [n \in Nodes |-> {}]
  /\ pending = [n \in Nodes |-> {}]
  /\ round = NoRound /\ scores = << >> /\ rounds = 0
  /\ chaos = [at |-> "off", target |-> 0, alive |-> FALSE, step |-> 0, schedule |-> << >>]
  /\ events = << >> /\ kills = 0 /\ crashed = {}
  /\ gate = [node |-> 0, good |-> TRUE, history |-> << >>, timeUp |-> FALSE,
             late |-> FALSE, blank |-> FALSE]
  /\ check = [at |-> "off", before |-> 0, total |-> 0, degraded |-> FALSE,
              lost |-> FALSE, alarms |-> {}]

\* Before a cluster is brought up.
NoCluster ==
  /\ up = [p \in Procs |-> FALSE]
  /\ hold = [n \in Nodes |-> {}]

idle == <<plan, writerVars, clusterVars, samplerVars, chaosVars>>
Goto(l) == pc' = l /\ UNCHANGED <<exit, todo>>
Loop(l) == pc' = l /\ todo' = Procs /\ UNCHANGED exit
Die(code) == pc' = "exited" /\ exit' = code /\ UNCHANGED todo

\* A docker call that has no timeout, of a daemon that does not answer: the
\* driver stays in it.
DockerHangs(calls) ==
  /\ pc \in calls /\ plan.docker = "slow"
  /\ Goto("hung")
  /\ UNCHANGED <<idle, flagVars, restVars>>

-----------------------------------------------------------------------------
(* The cluster, external: a write reaches each replica by itself, at any     *)
(* time after it was sent, also when the writer has given up on it, or never. *)

Deliver(n) ==
  /\ Measuring /\ up[n]
  /\ \E b \in pending[n] :
       /\ pending' = [pending EXCEPT ![n] = @ \ {b}]
       /\ hold' = [hold EXCEPT ![n] = @ \cup b]
  /\ gate' = [gate EXCEPT !.late = @ \/ pause]
  /\ UNCHANGED <<plan, driverVars, flagVars, writerVars, up, indexed, primary,
                 samplerVars, chaosVars, check, files, lab>>

\* Only the gate looks at the index of a replica.
Index(n) ==
  /\ Measuring /\ plan.gate /\ up[n] /\ indexed[n] # hold[n]
  /\ indexed' = [indexed EXCEPT ![n] = hold[n]]
  /\ UNCHANGED <<plan, driverVars, flagVars, writerVars, up, hold, pending, primary,
                 samplerVars, chaosVars, restVars>>

Cluster == \E n \in Nodes : Deliver(n) \/ Index(n)

-----------------------------------------------------------------------------
(* Writers.                                                                  *)

Sent(w, ids) ==
  /\ writing' = [writing EXCEPT ![w] = [at |-> "sent", ids |-> ids]]
  /\ attempted' = attempted + Cardinality(ids)
  /\ pending' = [n \in Nodes |-> pending[n] \cup {ids}]

Holders(ids) == {n \in Nodes : ids \subseteq hold[n]}

\* A row of the corpus stays where it was appended.
AppendCorpus(ids) == confirmed' = confirmed \o SetToSortSeq(ids, <)

\* Under the writer's lock: the ids are confirmed, and are rows of the corpus.
Confirmed(w) ==
  /\ AppendCorpus(writing[w].ids)
  /\ writing' = [writing EXCEPT ![w] = [at |-> "top", ids |-> {}]]
  /\ UNCHANGED <<plan, driverVars, flagVars, next, exhausted, attempted, failed,
                 clusterVars, samplerVars, chaosVars, restVars>>

\* Any other status, or no answer in time.
WriteFails(w) ==
  /\ Measuring /\ writing[w].at = "sent"
  /\ failed' = failed + Cardinality(writing[w].ids)
  /\ writing' = [writing EXCEPT ![w] = [at |-> "top", ids |-> {}]]
  /\ UNCHANGED <<plan, driverVars, flagVars, next, exhausted, attempted, confirmed,
                 clusterVars, samplerVars, chaosVars, restVars>>

WriterStops(w) ==
  /\ Measuring /\ writing[w].at = "top" /\ stop
  /\ writing' = [writing EXCEPT ![w].at = "ended"]
  /\ UNCHANGED <<plan, driverVars, flagVars, next, exhausted, attempted, failed,
                 confirmed, clusterVars, samplerVars, chaosVars, restVars>>

-----------------------------------------------------------------------------
(* One sampling round.  The replicas are probed by threads of their own, so  *)
(* their two requests interleave with everything else.                       *)

roundOnly == <<plan, driverVars, flagVars, writerVars, clusterVars, scores, rounds,
               chaosVars, restVars>>

\* The ids to hold the replicas to are read first ...
ReadIntended(from, intended, exact) ==
  /\ round.at = from
  /\ round' = [NoRound EXCEPT !.at = "intended", !.exact = exact,
                              !.intended = intended]
  /\ UNCHANGED roundOnly

\* ... and the corpus they are scored against second.
ReadCorpus ==
  /\ Measuring /\ round.at = "intended"
  /\ round' = [round EXCEPT !.at = "probing", !.corpus = confirmed,
                            !.seen = [n \in Nodes |-> "todo"],
                            !.began = [n \in Nodes |-> {}],
                            !.offset = [n \in Nodes |-> 1],
                            !.local = [n \in Nodes |-> {}],
                            !.obs = [n \in Nodes |-> << >>],
                            !.loo = [n \in Nodes |-> << >>]]
  /\ UNCHANGED roundOnly

Asked(n, states) == Measuring /\ round.at = "probing" /\ round.seen[n] \in states

\* A request that fails makes the replica unreachable for the round.
ProbeFails(n) ==
  /\ Asked(n, {"todo", "paging", "listed", "searched"}) /\ ~up[n]
  /\ round' = [round EXCEPT !.seen[n] = "unreachable", !.local[n] = {}]
  /\ UNCHANGED roundOnly

\* The queries of the pool, each with an order of its own, and some in order.
Nearest(q) ==
  [i \in 1..Len(Query) |-> Query[1 + ((i + q - 2) % Len(Query))]]

InOrder(qs) == LET s == SetToSortSeq(qs, <) IN [j \in 1..Len(s) |-> Nearest(s[j])]

k_fetch == 3 * K

\* What a replica that finds only `found` answers to each query.
Answers(qs, found, k) ==
  [j \in DOMAIN qs |-> First(SelectSeq(qs[j], LAMBDA i : i \in found), k)]

\* A graph may miss an id.
Found(n) == {hold[n]} \cup {hold[n] \ {i} : i \in hold[n]}

\* The shard's intended set is what its reachable replicas hold of the intended.
Rows(r) ==
  LET live == {n \in Nodes : r.seen[n] = "answered"}
      intended_s == UNION {r.local[n] : n \in live} \cap r.intended
      obs == [n \in live |-> IF plan.query.mode = "nonpinned" THEN r.loo[n]
                             ELSE r.obs[n]]
  IN  [n \in Nodes |->
        IF n \notin live
        THEN [reachable |-> FALSE, n_intended |-> Cardinality(intended_s)]
        ELSE LET m == score_replica(InOrder(lab.pick), r.obs[n], r.local[n], intended_s,
                                    r.corpus, K)
             IN  [reachable |-> TRUE, n_intended |-> Cardinality(intended_s),
                  index_recall |-> m.index_recall, e2e_recall |-> m.e2e_recall,
                  completeness |-> m.completeness,
                  answered |-> \A j \in DOMAIN r.obs[n] :
                                 intended_s \subseteq ToSet(r.obs[n][j]),
                  shard_agreement |-> pairwise_agreement(obs, K),
                  loo_agreement |-> leave_one_out_agreement(obs, K)[n]]]

\* A mutant: the intended ids are read when the rows are made.
Score_IntendedLast ==
  /\ Measuring /\ round.at = "probing"
  /\ \A n \in Nodes : round.seen[n] \in {"answered", "unreachable"}
  /\ scores' = Rows([round EXCEPT !.intended = ToSet(confirmed)])
  /\ round' = [NoRound EXCEPT !.at = "scored"]
  /\ UNCHANGED <<plan, driverVars, flagVars, writerVars, clusterVars, rounds, chaosVars,
                 restVars>>

\* Every replica was asked: the round is scored.
RoundScored ==
  /\ Measuring /\ round.at = "probing"
  /\ \A n \in Nodes : round.seen[n] \in {"answered", "unreachable"}
  /\ round' = [NoRound EXCEPT !.at = "scored"]

Score ==
  /\ RoundScored
  /\ scores' = Rows(round)
  /\ UNCHANGED <<plan, driverVars, flagVars, writerVars, clusterVars, rounds, chaosVars,
                 restVars>>

\* The rows join the run's, and the sampler waits for its interval.
RowsOut ==
  /\ round.at = "scored"
  /\ round' = NoRound
  /\ scores' = << >>
  /\ rounds' = rounds + 1
  /\ UNCHANGED <<plan, driverVars, flagVars, writerVars, clusterVars, chaosVars,
                 restVars>>

\* An exception in the round: it is noted, its rows are lost, the loop goes on.
RoundRaises ==
  /\ round.at \in {"intended", "probing"}
  /\ round' = NoRound
  /\ rounds' = rounds + 1
  /\ UNCHANGED <<plan, driverVars, flagVars, writerVars, clusterVars, scores, chaosVars,
                 restVars>>

-----------------------------------------------------------------------------
(* The chaos thread.                                                         *)

ChaosStopEvt == IF plan.chaos = "quiesce" THEN chaosStop ELSE stop
ChaosOver == chaos.at \in {"off", "ended"}

chaosOnly == <<plan, driverVars, flagVars, writerVars, hold, pending, indexed, primary,
               samplerVars, restVars>>

\* The stop event is seen at the top of the loop.
ChaosEnds ==
  /\ Running /\ chaos.at = "wait" /\ ChaosStopEvt
  /\ chaos' = [chaos EXCEPT !.at = "ended"]
  /\ UNCHANGED <<up, events, kills, crashed, chaosOnly>>

\* A process or container that is started is alive after its grace, or is not.
Starts(p) == \E alive \in BOOLEAN : up' = [up EXCEPT ![p] = alive]

\* The stop event is seen while the target is down: it is started again, and
\* the kill is not recorded.
ChaosEndsDown ==
  /\ Running /\ chaos.at = "down" /\ ChaosStopEvt
  /\ Starts(chaos.target)
  /\ chaos' = [chaos EXCEPT !.at = "ended"]
  /\ UNCHANGED <<events, kills, crashed, chaosOnly>>

-----------------------------------------------------------------------------
(* The phases of a run, the same in both runners.                            *)

Sampling == {"baseline", "whole", "pre", "chaosStart", "chaos", "chaosJoin", "revive",
             "quiesce", "joining"}

\* phase 1/3 of the quiesce protocol is over.
PreOver ==
  /\ pc = "pre"
  /\ Goto("chaosStart")
  /\ UNCHANGED <<idle, flagVars, restVars>>

\* phase 2/3 is over: the chaos thread is told to stop.
ChaosPhaseOver ==
  /\ pc = "chaos"
  /\ chaosStop' = TRUE
  /\ Goto("chaosJoin")
  /\ UNCHANGED <<idle, stop, pause, restVars>>

\* ct.join(timeout): a docker call that hangs outlives it.
JoinChaos ==
  /\ pc = "chaosJoin"
  /\ ChaosOver \/ plan.docker = "slow"
  /\ Loop("revive")
  /\ UNCHANGED <<idle, flagVars, restVars>>

\* Shard replicas in order, the coordinator last.
NextProc == IF todo \cap Nodes # {} THEN Min(todo \cap Nodes) ELSE 0

\* A mutant: the processes are looked at and left as they are.
Revive_Nothing ==
  /\ pc = "revive" /\ todo # {}
  /\ todo' = todo \ {NextProc}
  /\ UNCHANGED <<plan, pc, exit, flagVars, writerVars, clusterVars, samplerVars, chaosVars,
                 restVars>>

\* Each process that is not alive is started, once, whatever comes of it.
Revive ==
  /\ pc = "revive" /\ todo # {}
  /\ todo' = todo \ {NextProc}
  /\ IF up[NextProc] THEN UNCHANGED up ELSE Starts(NextProc)
  /\ crashed' = IF up'[NextProc] THEN crashed ELSE crashed \cup {NextProc}
  /\ UNCHANGED <<plan, pc, exit, flagVars, writerVars, hold, pending, indexed, primary,
                 samplerVars, chaos, events, kills, restVars>>

Revived(l) ==
  /\ pc = "revive" /\ todo = {}
  /\ Goto(l)
  /\ UNCHANGED <<idle, flagVars, restVars>>

\* The last phase is over, or Ctrl-C in any: every thread is told to stop.
StopAll ==
  /\ \/ pc \in {"baseline", "whole", "quiesce"}
     \/ /\ pc \in {"pre", "chaosStart", "chaos", "chaosJoin", "revive"}
        /\ plan.interrupt
  /\ chaosStop' = TRUE /\ stop' = TRUE
  /\ Goto("joining")
  /\ UNCHANGED <<idle, pause, restVars>>

\* The results in the order of names, and after the last one l.
WriteFile(names, l) ==
  /\ pc = "writing"
  /\ LET left == SelectSeq(names, LAMBDA f : files[f] # "new")
     IN  IF left = << >> THEN pc' = l /\ exit' = 0 /\ todo' = Procs /\ UNCHANGED files
         ELSE files' = [files EXCEPT ![Head(left)] = "new"] /\ UNCHANGED driverVars
  /\ UNCHANGED <<idle, flagVars, gate, check, lab>>
================================================================================
