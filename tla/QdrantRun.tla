------------------------------- MODULE QdrantRun -------------------------------
(****************************************************************************)
(* One run of qdrant_run_experiment.py: main and _run_experiment_body, with *)
(* the writers, the sampler, the index gate and the chaos threads of        *)
(* qdrant_docker_harness.py against the containers of the Qdrant cluster.   *)
(*                                                                          *)
(*   plan.until      --warmup-until-written, 0 when not given               *)
(*   plan.gate, plan.score   --index-gate, --score-at-gate                  *)
(*   plan.schedule   --kill-schedule and what goes with it, or NoSchedule   *)
(*   plan.quiesces   --duration leaves a quiesce window                     *)
(*   plan.consecutive, plan.tol   --index-gate-consecutive and              *)
(*                   --index-gate-tol, in quarters                          *)
(*   plan.telemetry  --capture-telemetry                                    *)
(*   plan.page       the ids of a page, page_size                           *)
(*   plan.terms      bound: the terms in which a node of the cluster leads  *)
(****************************************************************************)
EXTENDS Experiment, KillSchedule, IndexGate

NoSchedule == [condition |-> "", count |-> 0, window |-> 0, target |-> 0]

\* The files main removes when it starts, and the others the run may write.
OUTPUT_FILES == {"samples", "events", "telemetry", "meta"}
Files == OUTPUT_FILES \cup {"gate_scores", "index_gate_failed"}

\* The command line: what argparse lets through.
QdrantCommandLine ==
  /\ plan.writers \subseteq Nat /\ plan.batch \in Nat \ {0} /\ plan.pool \in Nat
  /\ plan.chaos \in {"none", "whole", "quiesce"}
  /\ plan.contradicts \in BOOLEAN /\ plan.quiesces \in BOOLEAN
  /\ plan.schedule = NoSchedule \/ plan.schedule.condition \in KILL_CONDITIONS
  /\ plan.gate \in BOOLEAN /\ plan.score \in BOOLEAN /\ plan.telemetry \in BOOLEAN
  /\ plan.consecutive \in Int /\ plan.tol \in Int
  /\ plan.until \in Nat /\ plan.query.n \in Nat

QdrantInit ==
  /\ ExperimentInit /\ NoCluster
  /\ plan.program = "qdrant" /\ QdrantCommandLine
  /\ pc = "check" /\ todo = {}
  /\ lab = [pick |-> {}, leads |-> {}, term |-> 0, asked |-> {}, claims |-> {},
            violated |-> FALSE, cleared |-> FALSE]
  /\ primary = 0        \* Qdrant has no primary
  /\ files = [f \in Files |-> IF plan.stale THEN "old" ELSE "none"]

Leave(code) == pc' = "teardown" /\ exit' = code /\ UNCHANGED todo

\* The combinations main refuses, with their exit status.
Refused ==
  {code \in {1, 2} :
     \/ code = 2 /\ plan.gate /\ (plan.consecutive < 1 \/ plan.tol \notin 0..3)
     \/ code = 2 /\ plan.contradicts /\ plan.schedule # NoSchedule
     \/ code = 1 /\ plan.contradicts /\ plan.chaos = "quiesce"}

CheckArguments ==
  /\ pc = "check"
  /\ IF Refused = {} THEN Goto("stubs") ELSE Die(Max(Refused))
  /\ UNCHANGED <<idle, flagVars, restVars>>

\* The gRPC stubs of the probe are generated; without grpc_tools, or when protoc
\* fails, this raises.
ensure_stubs ==
  /\ pc = "stubs"
  /\ Goto("clear") \/ Die(1)
  /\ UNCHANGED <<idle, flagVars, restVars>>

\* Then the files this script owns are removed; one that cannot be, or a directory
\* that cannot be made, raises.
ClearOutput ==
  /\ pc = "clear"
  /\ \E gone \in SUBSET OUTPUT_FILES :
       /\ files' = [f \in Files |-> IF f \in gone THEN "none" ELSE files[f]]
       /\ \/ gone = OUTPUT_FILES /\ Goto("queries") /\ lab' = [lab EXCEPT !.cleared = TRUE]
          \/ Die(1) /\ UNCHANGED lab
  /\ UNCHANGED <<idle, flagVars, gate, check>>

\* The pinned queries: as many as asked for of those there are.
qdrant_make_queries ==
  /\ pc = "queries"
  /\ LET q == plan.query
     IN  IF q.n > q.sift THEN Die(1) /\ UNCHANGED lab
         ELSE /\ \E pick \in kSubset(q.n, 1..q.sift) : lab' = [lab EXCEPT !.pick = pick]
              /\ Goto("bringup")
  /\ UNCHANGED <<idle, flagVars, gate, check, files>>

\* bring_up_cluster removes what an earlier run left and starts the containers;
\* docker may have started some when it fails.
ComposeUp ==
  /\ pc = "bringup"
  /\ \/ up' = [n \in Nodes |-> TRUE] /\ Goto("ready")
     \/ /\ \E some \in SUBSET Nodes : up' = [n \in Nodes |-> n \in some]
        /\ Leave(1)
  /\ UNCHANGED <<plan, flagVars, writerVars, hold, pending, indexed, primary,
                 samplerVars, chaosVars, restVars>>

\* Each wait of it polls to a deadline, answers False at it, or raises.
Stage(l, after) ==
  /\ pc = l
  /\ Goto(after) \/ Leave(1)
  /\ UNCHANGED <<idle, flagVars, restVars>>

wait_for_nodes_ready == Stage("ready", "formed")
wait_for_cluster_formed == Stage("formed", "collection")
create_collection == Stage("collection", "active")
wait_for_shards_active == Stage("active", "body")

\* _run_experiment_body starts the writers.
StartWriters ==
  /\ pc = "body"
  /\ writing' = [w \in plan.writers |-> [at |-> "top", ids |-> {}]]
  /\ Goto("warmup")
  /\ UNCHANGED <<plan, flagVars, next, exhausted, attempted, failed, confirmed,
                 clusterVars, samplerVars, chaosVars, restVars>>

\* Ctrl-C outside the try of the phases ends the run through main's finally.
InterruptEarly ==
  /\ pc \in {"warmup", "until", "before", "gate", "after", "exact"} /\ plan.interrupt
  /\ Leave(130)
  /\ round' = NoRound
  /\ UNCHANGED <<plan, writerVars, clusterVars, scores, rounds, chaosVars, flagVars,
                 restVars>>

-----------------------------------------------------------------------------
(* RetainingWriter.loop: batches of ids, held while the gate has paused them. *)

_make_batch == {i \in next..(next + plan.batch - 1) : i <= plan.pool}

QdrantTake(w) ==
  /\ Measuring /\ writing[w].at = "top" /\ ~stop /\ ~pause
  /\ next' = next + Cardinality(_make_batch)
  /\ IF _make_batch = {}
     THEN /\ exhausted' = TRUE
          /\ writing' = [writing EXCEPT ![w].at = "ended"]
          /\ UNCHANGED <<attempted, pending>>
     ELSE Sent(w, _make_batch) /\ UNCHANGED exhausted
  /\ UNCHANGED <<plan, driverVars, flagVars, failed, confirmed, up, hold, indexed,
                 primary, samplerVars, chaosVars, restVars>>

\* The collection is created with a write consistency factor of 1.
QdrantConfirm(w) ==
  /\ Measuring /\ writing[w].at = "sent"
  /\ Holders(writing[w].ids) # {}
  /\ Confirmed(w)

QdrantWriter(w) == QdrantTake(w) \/ QdrantConfirm(w) \/ WriteFails(w) \/ WriterStops(w)

-----------------------------------------------------------------------------
(* Warm-up and index gate.                                                   *)

\* time.sleep(warmup_s), and the wait for a number of confirmed writes.
Warmup ==
  /\ pc = "warmup"
  /\ Goto(IF plan.until = 0 THEN "gated" ELSE "until")
  /\ UNCHANGED <<idle, flagVars, restVars>>

\* A mutant: without its cap, the wait ends with the writes or the pool alone.
WarmupPoll_NoCap ==
  /\ pc = "until"
  /\ \/ /\ Len(confirmed) >= plan.until
        /\ Goto("gated") /\ UNCHANGED stop
     \/ /\ Len(confirmed) < plan.until /\ exhausted
        /\ Leave(4) /\ stop' = TRUE
  /\ gate' = [gate EXCEPT !.timeUp = FALSE]
  /\ UNCHANGED <<idle, chaosStop, pause, check, files, lab>>

WarmupPoll ==
  /\ pc = "until"
  /\ \/ /\ Len(confirmed) >= plan.until
        /\ Goto("gated") /\ UNCHANGED stop
     \/ /\ Len(confirmed) < plan.until /\ (exhausted \/ gate.timeUp)
        /\ Leave(4) /\ stop' = TRUE
  /\ gate' = [gate EXCEPT !.timeUp = FALSE]
  /\ UNCHANGED <<idle, chaosStop, pause, check, files, lab>>

\* The deadline of the wait the driver is in passes.
TimeUp ==
  /\ pc \in {"until", "gate"} /\ ~gate.timeUp
  /\ gate' = [gate EXCEPT !.timeUp = TRUE]
  /\ UNCHANGED <<idle, driverVars, flagVars, check, files, lab>>

\* With --index-gate the writers are paused; a request already sent goes on.
EnterGate ==
  /\ pc = "gated"
  /\ IF plan.gate
     THEN pause' = TRUE /\ Goto(IF plan.score THEN "before" ELSE "gate")
     ELSE UNCHANGED pause /\ Goto("start")
  /\ UNCHANGED <<idle, stop, chaosStop, restVars>>

\* poll_index_state asks the nodes in turn.
PollNode ==
  /\ pc = "gate" /\ gate.node < Max(Nodes)
  /\ LET n == gate.node + 1
     IN  \E green \in BOOLEAN :
           gate' = [gate EXCEPT !.node = n, !.good = @ /\ RowCloses(
                      [reachable |-> up[n], green |-> green,
                       indexed |-> Cardinality(indexed[n]),
                       points |-> Cardinality(hold[n])], plan.tol)]
  /\ UNCHANGED <<idle, driverVars, flagVars, check, files, lab>>

\* The end of a poll: the gate closes, has taken too long, or is polled again.
PollDone ==
  /\ pc = "gate" /\ gate.node = Max(Nodes)
  /\ LET history == Remembered(gate.history, gate.good, plan.consecutive)
         closed == gate_decision(history, plan.consecutive)
     IN  /\ gate' = [gate EXCEPT !.node = 0, !.good = TRUE, !.history = history]
         /\ \/ /\ closed
               /\ Goto(IF plan.score THEN "after" ELSE "closed")
               /\ UNCHANGED <<stop, files>>
            \/ /\ ~closed /\ gate.timeUp
               /\ stop' = TRUE /\ Leave(3)
               /\ files' = [files EXCEPT !["index_gate_failed"] = "new"]
            \/ /\ ~closed /\ ~gate.timeUp
               /\ UNCHANGED <<driverVars, stop, files>>
  /\ UNCHANGED <<idle, chaosStop, pause, check, lab>>

\* score_at_gate: the driver samples before the gate, after it, and exactly.  A
\* blank index_recall is no number, and the difference of the two raises.
AtGate == pc \in {"before", "after", "exact"}
Blank == \E n \in Nodes : ~scores[n].reachable \/ IsNaN(scores[n].index_recall)

ScoredAtGate ==
  /\ round.at = "scored" /\ AtGate
  /\ round' = NoRound /\ scores' = << >>
  /\ gate' = [gate EXCEPT !.blank = @ \/ Blank]
  /\ \/ pc = "before" /\ Goto("gate") /\ UNCHANGED files
     \/ pc = "after" /\ Goto("exact") /\ UNCHANGED files
     \/ /\ pc = "exact" /\ ~gate'.blank /\ Goto("closed")
        /\ files' = [files EXCEPT !["gate_scores"] = "new"]
     \/ pc = "exact" /\ gate'.blank /\ Leave(1) /\ UNCHANGED files
  /\ UNCHANGED <<plan, flagVars, writerVars, clusterVars, rounds, chaosVars, check, lab>>

LeaveGate ==
  /\ pc = "closed"
  /\ pause' = FALSE
  /\ Goto("start")
  /\ UNCHANGED <<idle, stop, chaosStop, restVars>>

-----------------------------------------------------------------------------
(* The phases.                                                               *)

\* The sampler, validator and telemetry threads start; main enters a phase.
StartSampler ==
  /\ pc = "start"
  /\ \/ plan.chaos = "none" /\ Goto("baseline")
     \/ plan.chaos = "whole" /\ Goto("chaosStart")
     \/ plan.chaos = "quiesce" /\ plan.quiesces /\ Goto("pre")
     \/ plan.chaos = "quiesce" /\ ~plan.quiesces /\ Leave(1)
  /\ stop' = (stop \/ (plan.chaos = "quiesce" /\ ~plan.quiesces))
  /\ UNCHANGED <<idle, chaosStop, pause, restVars>>

\* list_local_ids: pages of ids in order, each from the offset the one before it
\* named, while the replica may be written to, killed and started.
Rest(n) == {i \in hold[n] : i >= round.offset[n]}
Page(n) == {i \in Rest(n) : Cardinality({j \in Rest(n) : j < i}) < plan.page}

\* External: the first id that did not fit in the page.
next_page_offset(rest) == Min(rest)

\* A mutant: the first page is taken for all of them.
Scroll_FirstPage(n) ==
  /\ Asked(n, {"todo", "paging"}) /\ up[n]
  /\ round' = [round EXCEPT !.began[n] = hold[n], !.local[n] = Page(n),
                            !.seen[n] = "listed"]
  /\ UNCHANGED roundOnly

Scroll(n) ==
  /\ Asked(n, {"todo", "paging"}) /\ up[n]
  /\ LET rest == Rest(n) \ Page(n)
     IN  round' = [round EXCEPT
           !.began[n] = IF round.seen[n] = "todo" THEN hold[n] ELSE @,
           !.local[n] = @ \cup Page(n),
           !.seen[n] = IF rest = {} THEN "listed" ELSE "paging",
           !.offset[n] = IF rest = {} THEN 1 ELSE next_page_offset(rest)]
  /\ UNCHANGED roundOnly

\* search_batch: one request for all queries; an exact search misses nothing.
CoreSearchBatch(n) ==
  /\ Asked(n, {"listed"}) /\ up[n]
  /\ \E found \in IF round.exact THEN {hold[n]} ELSE Found(n) :
       round' = [round EXCEPT !.seen[n] = "answered",
                              !.obs[n] = Answers(InOrder(lab.pick), found, k_fetch)]
  /\ UNCHANGED roundOnly

\* sample_once, by the sampler or, at the gate, by the driver.  Which of the
\* confirmed ids have settled depends on clocks read outside the writer's lock.
QdrantAsk ==
  \/ /\ AtGate \/ (pc \in Sampling /\ ~stop /\ rounds < plan.rounds)
     /\ \E settled \in SUBSET ToSet(confirmed) : ReadIntended("idle", settled, pc = "exact")
  \/ ReadCorpus
  \/ \E n \in Nodes : Scroll(n) \/ CoreSearchBatch(n) \/ ProbeFails(n)

qdrant_sample_once == QdrantAsk \/ Score

qdrant_sampler_loop ==
  /\ pc \in Sampling
  /\ RowsOut \/ RoundRaises

\* _chaos_thread: the schedule is built here, and a ValueError ends the run.
NodeNames == SetToSortSeq(Nodes, <)

StartChaos ==
  /\ pc = "chaosStart"
  /\ LET s == plan.schedule
         feasible == Feasible(s.condition, NodeNames, s.count, s.window, s.target)
     IN  IF s # NoSchedule /\ ~feasible
         THEN Leave(1) /\ UNCHANGED chaos
         ELSE /\ Goto(IF plan.chaos = "whole" THEN "whole" ELSE "chaos")
              /\ chaos' = [chaos EXCEPT !.at = "wait",
                   !.schedule = IF s = NoSchedule THEN << >>
                                ELSE Steps(s.condition, NodeNames, s.count, s.target)]
  /\ UNCHANGED <<plan, flagVars, writerVars, clusterVars, samplerVars, events, kills,
                 crashed, restVars>>

\* Each thread is joined for 10 s: less than a chaos thread that has just killed
\* a container, or a sampling round, may take.
QdrantJoin ==
  /\ pc = "joining"
  /\ Goto("writing")
  /\ UNCHANGED <<idle, flagVars, restVars>>

\* docker inspect and docker start have a timeout of 30 s, which raises here.
ReviveRaises ==
  /\ pc = "revive" /\ todo # {} /\ plan.docker = "slow"
  /\ Leave(1)
  /\ UNCHANGED <<idle, flagVars, restVars>>

QdrantPhases ==
  \/ PreOver \/ StartChaos \/ ChaosPhaseOver \/ JoinChaos \/ Revive
  \/ Revived("quiesce") \/ StopAll \/ QdrantJoin

-----------------------------------------------------------------------------
(* The chaos loops of qdrant_docker_harness.py.                              *)

Scheduled == plan.schedule # NoSchedule
Event(failedKill, alive) ==
  [target |-> chaos.target, failed |-> failedKill, alive |-> alive,
   seq |-> chaos.step, killed_while_down |-> Scheduled /\ ~failedKill /\ ~chaos.alive]

\* chaos_loop takes any container.
PickTarget ==
  /\ Running /\ chaos.at = "wait" /\ ~ChaosStopEvt /\ ~Scheduled
  /\ Len(events) < plan.kills
  /\ \E n \in Nodes : chaos' = [chaos EXCEPT !.at = "kill", !.target = n, !.alive = up[n]]
  /\ UNCHANGED <<up, events, kills, crashed, chaosOnly>>

\* chaos_loop_scheduled the next of its schedule, and notes whether it was alive.
NextStep ==
  /\ Running /\ chaos.at = "wait" /\ ~ChaosStopEvt /\ Scheduled
  /\ chaos' = IF chaos.step = Len(chaos.schedule) THEN [chaos EXCEPT !.at = "ended"]
              ELSE LET n == chaos.schedule[chaos.step + 1].target
                   IN  [chaos EXCEPT !.at = "kill", !.target = n, !.alive = up[n],
                                     !.step = @ + 1]
  /\ UNCHANGED <<up, events, kills, crashed, chaosOnly>>

\* A mutant: a call that raises leaves no event.
DockerKill_RaisesSilently ==
  /\ Running /\ chaos.at = "kill"
  /\ \/ /\ up' = [up EXCEPT ![chaos.target] = FALSE]
        /\ kills' = kills + (IF up[chaos.target] THEN 1 ELSE 0)
     \/ plan.docker = "slow" /\ UNCHANGED <<up, kills>>
  /\ chaos' = [chaos EXCEPT !.at = IF plan.docker = "slow" THEN "wait" ELSE "down"]
  /\ UNCHANGED <<events, crashed, chaosOnly>>

\* docker kill: a container that is not up stays so, and the exit status is not
\* looked at.  A call that hangs raises, whether or not it took effect.
DockerKill ==
  /\ Running /\ chaos.at = "kill"
  /\ \/ /\ up' = [up EXCEPT ![chaos.target] = FALSE]
        /\ kills' = kills + (IF up[chaos.target] THEN 1 ELSE 0)
     \/ plan.docker = "slow" /\ UNCHANGED <<up, kills>>
  /\ \/ chaos' = [chaos EXCEPT !.at = "down"] /\ UNCHANGED events /\ up'[chaos.target] = FALSE
     \/ /\ plan.docker = "slow"
        /\ chaos' = [chaos EXCEPT !.at = "wait"]
        /\ events' = Append(events, Event(TRUE, FALSE))
  /\ UNCHANGED <<crashed, chaosOnly>>

\* docker start after the time down, and the event of the kill.
DockerStart ==
  /\ Running /\ chaos.at = "down" /\ ~ChaosStopEvt
  /\ Starts(chaos.target)
  /\ events' = Append(events, Event(FALSE, up'[chaos.target]))
  /\ chaos' = [chaos EXCEPT !.at = "wait"]
  /\ UNCHANGED <<kills, crashed, chaosOnly>>

DockerStartRaises ==
  /\ Running /\ chaos.at = "down" /\ plan.docker = "slow"
  /\ events' = Append(events, Event(TRUE, FALSE))
  /\ chaos' = [chaos EXCEPT !.at = "wait"]
  /\ UNCHANGED <<up, kills, crashed, chaosOnly>>

QdrantChaos ==
  \/ PickTarget \/ NextStep \/ DockerKill \/ DockerStart \/ DockerStartRaises
  \/ ChaosEnds \/ ChaosEndsDown

-----------------------------------------------------------------------------
(* validator_loop watches the consensus of the cluster, of which only the    *)
(* leaders are modelled: leads holds the pairs <<node, term>> of those that   *)
(* would say they lead.                                                      *)

validatorOnly == <<plan, driverVars, flagVars, writerVars, clusterVars, samplerVars,
                   chaosVars, gate, check, files>>

\* External: a node that is up is elected in a new term; those that led in an
\* earlier one find out when they find out.
Elect(n) ==
  /\ pc \in Sampling /\ up[n] /\ lab.term < plan.terms
  /\ lab' = [lab EXCEPT !.term = @ + 1,
                        !.leads = {l \in @ : l[1] # n} \cup {<<n, lab.term + 1>>}]
  /\ UNCHANGED validatorOnly

StepDown(l) ==
  /\ pc \in Sampling /\ l[2] < lab.term
  /\ lab' = [lab EXCEPT !.leads = @ \ {l}]
  /\ UNCHANGED validatorOnly

\* The nodes are asked in turn; one that does not answer in time is passed over.
AskRole(n) ==
  /\ pc \in Sampling /\ plan.terms > 0 /\ lab.asked # Nodes /\ n = Min(Nodes \ lab.asked)
  /\ lab.asked # {} \/ ~stop
  /\ \E told \in {{}, IF up[n] THEN {l \in lab.leads : l[1] = n} ELSE {}} :
       lab' = [lab EXCEPT !.asked = @ \cup {n}, !.claims = @ \cup told]
  /\ UNCHANGED validatorOnly

SplitBrain(claims) ==
  Cardinality(claims) > 1 /\ Cardinality({l[2] : l \in claims}) = 1

JudgeRoles ==
  /\ pc \in Sampling /\ lab.asked = Nodes
  /\ lab' = [lab EXCEPT !.asked = {}, !.claims = {},
                        !.violated = @ \/ SplitBrain(lab.claims)]
  /\ UNCHANGED validatorOnly

validator_loop ==
  \/ \E n \in Nodes : AskRole(n)
  \/ JudgeRoles

Consensus == (\E n \in Nodes : Elect(n)) \/ (\E l \in lab.leads : StepDown(l))

-----------------------------------------------------------------------------
(* The results, in the order they are written, and the teardown.             *)

Telemetry == IF plan.telemetry THEN <<"telemetry">> ELSE << >>

\* A mutant: run_meta.json is not the last.
WriteResults_MetaFirst ==
  WriteFile(<<"meta", "samples", "events">> \o Telemetry, "teardown")

WriteResults ==
  WriteFile(<<"samples", "events">> \o Telemetry \o <<"meta">>, "teardown")

WriteRaises ==
  /\ pc = "writing"
  /\ Leave(1)
  /\ UNCHANGED <<idle, flagVars, restVars>>

\* main's finally: the containers are removed, then the process and its daemon
\* threads are gone.
TearDown ==
  /\ pc = "teardown"
  /\ up' = [n \in Nodes |-> FALSE]
  /\ pc' = "exited"
  /\ UNCHANGED <<plan, exit, todo, flagVars, writerVars, hold, pending, indexed, primary,
                 samplerVars, chaosVars, restVars>>

QdrantDriver ==
  \/ CheckArguments \/ ensure_stubs \/ ClearOutput \/ qdrant_make_queries
  \/ ComposeUp \/ wait_for_nodes_ready \/ wait_for_cluster_formed
  \/ create_collection \/ wait_for_shards_active \/ StartWriters
  \/ Warmup \/ WarmupPoll \/ EnterGate \/ PollNode \/ PollDone
  \/ AtGate /\ QdrantAsk
  \/ ScoredAtGate \/ LeaveGate \/ StartSampler \/ QdrantPhases
  \/ WriteResults \/ TearDown

QdrantThreads ==
  \/ \E w \in plan.writers : QdrantWriter(w)
  \/ qdrant_sample_once \/ qdrant_sampler_loop \/ QdrantChaos \/ validator_loop

QdrantNext ==
  \/ QdrantDriver \/ QdrantThreads \/ Cluster \/ Consensus \/ TimeUp \/ InterruptEarly
  \/ WriteRaises \/ ReviveRaises \/ DockerHangs({"bringup", "teardown"})
================================================================================
