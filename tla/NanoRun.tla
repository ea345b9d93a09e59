-------------------------------- MODULE NanoRun --------------------------------
(****************************************************************************)
(* One run of run_experiment.py (plan.program = "experiment") or of         *)
(* chaos_harness.py ("harness") against a nano-db cluster of processes: one *)
(* shard with its replicas, and coordinator 0 for the group of three.       *)
(****************************************************************************)
EXTENDS Experiment

KillAll(code) == pc' = "killing" /\ exit' = code /\ todo' = Procs

\* The command line of run_experiment.py: what argparse lets through.
CommandLine ==
  /\ plan.writers \subseteq Nat /\ plan.pool \in Nat
  /\ plan.chaos \in {"none", "whole", "quiesce"}
  /\ plan.contradicts \in BOOLEAN /\ plan.quiesces \in BOOLEAN
  /\ plan.query \in [mode : {"pinned", "nonpinned"}, sift : Nat, n : Nat \ {0},
                     draw : Nat, reserve : Nat]

NanoInit ==
  /\ ExperimentInit /\ NoCluster
  /\ plan.program \in {"experiment", "harness"}
  /\ CommandLine
  /\ pc = (IF plan.program = "harness" THEN "starting" ELSE "options")
  /\ todo = Procs
  /\ primary = Min(Nodes)
  /\ lab = [pick |-> {}, reserve |-> {}, drawn |-> {}, seen |-> {}, draws |-> 0]
  /\ files = [f \in {"samples", "events", "meta"} |-> IF plan.stale THEN "old" ELSE "none"]

nonpinned == plan.query.mode = "nonpinned"

\* The combinations main refuses.
OptionsRefused ==
  LET q == plan.query
  IN  \/ plan.contradicts
      \/ nonpinned /\ q.draw > q.reserve
      \/ nonpinned /\ q.n + q.reserve > q.sift

CheckOptions ==
  /\ pc = "options"
  /\ IF OptionsRefused THEN Die(1) ELSE Goto("queries")
  /\ UNCHANGED <<idle, flagVars, restVars>>

remaining(pick) == (1..plan.query.sift) \ pick

\* The pinned queries, and a reserve of what remains.
make_queries ==
  /\ pc = "queries"
  /\ LET q == plan.query
         reserved == IF nonpinned THEN q.reserve ELSE 0
     IN  IF q.n + reserved > q.sift THEN Die(1) /\ UNCHANGED lab
         ELSE /\ \E pick \in kSubset(q.n, 1..q.sift) :
                \E reserve \in kSubset(reserved, remaining(pick)) :
                  lab' = [lab EXCEPT !.pick = pick, !.reserve = reserve]
              /\ Goto("starting")
  /\ UNCHANGED <<idle, flagVars, gate, check, files>>

\* The processes are started in turn; main returns at the first that is not
\* alive after its grace period.
StartProcess ==
  /\ pc = "starting" /\ todo # {}
  /\ \/ /\ up' = [up EXCEPT ![NextProc] = TRUE]
        /\ todo' = todo \ {NextProc}
        /\ UNCHANGED <<pc, exit>>
     \/ Die(1) /\ UNCHANGED up
  /\ UNCHANGED <<plan, flagVars, writerVars, hold, pending, indexed, primary,
                 samplerVars, chaosVars, restVars>>

wait_for_coordinators_ready ==
  /\ pc = "starting" /\ todo = {}
  /\ Goto("leader") \/ KillAll(1)
  /\ UNCHANGED <<idle, flagVars, restVars>>

\* A leader answers in time, or everything is killed.
wait_for_raft_leader ==
  /\ pc = "leader"
  /\ Goto("led") \/ KillAll(1)
  /\ UNCHANGED <<idle, flagVars, restVars>>

WritersStart ==
  /\ writing' = [w \in plan.writers |-> [at |-> "top", ids |-> {}]]
  /\ UNCHANGED <<plan, flagVars, next, exhausted, attempted, failed, confirmed,
                 clusterVars, samplerVars, events, kills, crashed, gate, files, lab>>

\* run_experiment starts its writers and warms up.
StartWarmup ==
  /\ pc = "led" /\ plan.program = "experiment"
  /\ Goto("warmup")
  /\ WritersStart /\ UNCHANGED <<chaos, check>>

\* chaos_harness starts all its threads at once.
StartHarness ==
  /\ pc = "led" /\ plan.program = "harness"
  /\ Goto("run")
  /\ chaos' = [chaos EXCEPT !.at = "wait"]
  /\ check' = [check EXCEPT !.at = "top"]
  /\ WritersStart

-----------------------------------------------------------------------------
(* The cluster, external.  A primary that is down is replaced, when a        *)
(* coordinator is there to do it, by a replica that is up.                   *)

Failover ==
  /\ Measuring /\ plan.program # "qdrant" /\ ~up[primary] /\ up[0]
  /\ \E n \in Nodes : up[n] /\ primary' = n
  /\ UNCHANGED <<plan, driverVars, flagVars, writerVars, up, hold, pending, indexed,
                 samplerVars, chaosVars, restVars>>

-----------------------------------------------------------------------------
(* Writers.  The experiment's take an id under a lock; the harness's read    *)
(* and increment one counter without.                                        *)

NanoTake(w) ==
  /\ Measuring /\ plan.program = "experiment" /\ writing[w].at = "top" /\ ~stop
  /\ next' = next + 1
  /\ IF next > plan.pool
     THEN /\ exhausted' = TRUE
          /\ writing' = [writing EXCEPT ![w].at = "ended"]
          /\ UNCHANGED <<attempted, pending>>
     ELSE Sent(w, {next}) /\ UNCHANGED exhausted
  /\ UNCHANGED <<plan, driverVars, flagVars, failed, confirmed, up, hold, indexed,
                 primary, samplerVars, chaosVars, restVars>>

ReadCounter(w) ==
  /\ Measuring /\ plan.program = "harness" /\ writing[w].at = "top" /\ ~stop
  /\ next <= plan.pool
  /\ writing' = [writing EXCEPT ![w] = [at |-> "counted", ids |-> {next}]]
  /\ UNCHANGED <<plan, driverVars, flagVars, next, exhausted, attempted, failed,
                 confirmed, clusterVars, samplerVars, chaosVars, restVars>>

SendCounted(w) ==
  /\ Measuring /\ writing[w].at = "counted"
  /\ \E seen \in writing[w].ids \cup {next} : next' = seen + 1
  /\ Sent(w, writing[w].ids)
  /\ UNCHANGED <<plan, driverVars, flagVars, exhausted, failed, confirmed, up, hold,
                 indexed, primary, samplerVars, chaosVars, restVars>>

\* The coordinator answers 201 when the primary and a majority have stored it.
NanoConfirm(w) ==
  /\ Measuring /\ writing[w].at = "sent" /\ up[0]
  /\ primary \in Holders(writing[w].ids)
  /\ 2 * Cardinality(Holders(writing[w].ids)) > Cardinality(Nodes)
  /\ Confirmed(w)

NanoWriter(w) ==
  \/ NanoTake(w) \/ ReadCounter(w) \/ SendCounted(w) \/ NanoConfirm(w)
  \/ WriteFails(w) \/ WriterStops(w)

-----------------------------------------------------------------------------
(* chaos_harness.validator_loop: the confirmed count is read before /stats.  *)

checkOnly == <<plan, driverVars, flagVars, writerVars, clusterVars, samplerVars,
               chaosVars, gate, files, lab>>

SnapshotConfirmed ==
  /\ Measuring /\ check.at = "top" /\ ~stop
  /\ check' = [check EXCEPT !.at = "ask", !.before = Len(confirmed)]
  /\ UNCHANGED checkOnly

\* /stats counts what the primary holds, and says when it could not ask it.
AskStats ==
  /\ Measuring /\ check.at = "ask"
  /\ check' =
       IF ~up[0] THEN [check EXCEPT !.at = "top", !.before = 0]
       ELSE [check EXCEPT !.at = "answer",
              !.total = IF up[primary] THEN Cardinality(hold[primary]) ELSE 0,
              !.degraded = ~up[primary],
              !.lost = ~(ToSet(First(confirmed, check.before)) \subseteq hold[primary])]
  /\ UNCHANGED checkOnly

Alarm(c, count) ==
  IF c.total < count /\ ~c.degraded THEN {IF c.lost THEN "LOST_WRITE" ELSE "false"} ELSE {}

\* A mutant: the confirmed count is read after /stats.
StatsAnswer_CountAfter ==
  /\ Measuring /\ check.at = "answer"
  /\ check' = [at |-> "top", before |-> 0, total |-> 0, degraded |-> FALSE,
               lost |-> FALSE, alarms |-> check.alarms \cup Alarm(check, Len(confirmed))]
  /\ UNCHANGED checkOnly

StatsAnswer ==
  /\ Measuring /\ check.at = "answer"
  /\ check' = [at |-> "top", before |-> 0, total |-> 0, degraded |-> FALSE,
               lost |-> FALSE, alarms |-> check.alarms \cup Alarm(check, check.before)]
  /\ UNCHANGED checkOnly

\* Printed at the end: writers that read the same counter confirm the same id.
duplicate_id_count == Len(confirmed) - Cardinality(ToSet(confirmed))

Validator == SnapshotConfirmed \/ AskStats \/ StatsAnswer

-----------------------------------------------------------------------------
(* chaos_harness.chaos_loop: SIGKILL, which always takes, some time down,    *)
(* and a start.                                                              *)

NanoKill ==
  /\ Running /\ chaos.at = "wait" /\ ~ChaosStopEvt /\ Len(events) < plan.kills
  /\ \E p \in Procs :
       /\ chaos' = [chaos EXCEPT !.at = "down", !.target = p]
       /\ up' = [up EXCEPT ![p] = FALSE]
       /\ kills' = kills + (IF up[p] THEN 1 ELSE 0)
  /\ UNCHANGED <<events, crashed, chaosOnly>>

NanoRestart ==
  /\ Running /\ chaos.at = "down" /\ ~ChaosStopEvt
  /\ Starts(chaos.target)
  /\ events' = Append(events, [target |-> chaos.target, failed |-> FALSE,
                               alive |-> up'[chaos.target]])
  /\ chaos' = [chaos EXCEPT !.at = "wait"]
  /\ UNCHANGED <<kills, crashed, chaosOnly>>

NanoChaos == NanoKill \/ NanoRestart \/ ChaosEnds \/ ChaosEndsDown

-----------------------------------------------------------------------------
(* run_experiment.main after the start.                                      *)

\* The warm-up is over and the sampler starts.
StartPhases ==
  /\ pc = "warmup"
  /\ \/ plan.chaos = "none" /\ Goto("baseline") /\ UNCHANGED stop
     \/ plan.chaos = "whole" /\ Goto("chaosStart") /\ UNCHANGED stop
     \/ plan.chaos = "quiesce" /\ plan.quiesces /\ Goto("pre") /\ UNCHANGED stop
     \/ plan.chaos = "quiesce" /\ ~plan.quiesces /\ KillAll(1) /\ stop' = TRUE
  /\ UNCHANGED <<idle, chaosStop, pause, restVars>>

\* Ctrl-C in the warm-up is not caught.
InterruptWarmup ==
  /\ pc = "warmup" /\ plan.interrupt
  /\ Die(130)
  /\ UNCHANGED <<idle, flagVars, restVars>>

StartNanoChaos ==
  /\ pc = "chaosStart"
  /\ Goto(IF plan.chaos = "whole" THEN "whole" ELSE "chaos")
  /\ chaos' = [chaos EXCEPT !.at = "wait"]
  /\ UNCHANGED <<plan, flagVars, writerVars, clusterVars, samplerVars, events, kills,
                 crashed, restVars>>

\* Each round of the sampler draws from the reserve anew; too large a draw raises.
make_loo_queries ==
  /\ pc \in Sampling /\ ~stop /\ rounds < plan.rounds /\ nonpinned
  /\ round.at = "idle"
  /\ IF plan.query.draw > Cardinality(lab.reserve)
     THEN rounds' = rounds + 1 /\ UNCHANGED <<lab, round>>
     ELSE /\ \E drawn \in kSubset(plan.query.draw, lab.reserve) :
               lab' = [lab EXCEPT !.drawn = drawn, !.seen = @ \cup drawn,
                                  !.draws = @ + 1]
          /\ round' = [NoRound EXCEPT !.at = "drawn"]
          /\ UNCHANGED rounds
  /\ UNCHANGED <<plan, driverVars, flagVars, writerVars, clusterVars, scores, chaosVars,
                 gate, check, files>>

\* _probe_one: every id the replica holds, ...
ListLocalIds(n) ==
  /\ Asked(n, {"todo"}) /\ up[n]
  /\ round' = [round EXCEPT !.seen[n] = "listed", !.began[n] = hold[n],
                            !.local[n] = hold[n]]
  /\ UNCHANGED roundOnly

\* The answers so far and the one to the next query, of what is found now.
AndNext(answers, qs, found, k) ==
  Append(answers, Answers(qs, found, k)[Len(answers) + 1])

\* ... its answers to the pinned queries, asked one by one, ...
SearchBatch(n) ==
  /\ Asked(n, {"listed"}) /\ up[n]
  /\ \E found \in Found(n) :
       LET obs == AndNext(round.obs[n], InOrder(lab.pick), found, k_fetch)
       IN  round' = [round EXCEPT !.obs[n] = obs,
                       !.seen[n] = IF Len(obs) < Cardinality(lab.pick) THEN "listed"
                                   ELSE IF nonpinned THEN "searched" ELSE "answered"]
  /\ UNCHANGED roundOnly

\* ... and, when they are not pinned, to the queries for the agreement.
SearchLoo(n) ==
  /\ Asked(n, {"searched"}) /\ up[n]
  /\ \E found \in Found(n) :
       LET obs == AndNext(round.loo[n], InOrder(lab.drawn), found, K)
       IN  round' = [round EXCEPT !.loo[n] = obs,
                       !.seen[n] = IF Len(obs) < Cardinality(lab.drawn) THEN "searched"
                                   ELSE "answered"]
  /\ UNCHANGED roundOnly

\* sample_once.  An id is confirmed and its time read under one lock, so the ids
\* that have settled are a prefix of the confirmed ones.
nano_sample_once ==
  \/ /\ pc \in Sampling /\ ~stop /\ rounds < plan.rounds
     /\ \E n \in 0..Len(confirmed) :
          ReadIntended(IF nonpinned THEN "drawn" ELSE "idle",
                       ToSet(First(confirmed, n)), FALSE)
  \/ ReadCorpus
  \/ \E n \in Nodes : ListLocalIds(n) \/ SearchBatch(n) \/ SearchLoo(n) \/ ProbeFails(n)
  \/ Score

nano_sampler_loop ==
  make_loo_queries \/ (pc \in Sampling /\ (RowsOut \/ RoundRaises))

\* The threads are joined for 10 s each, longer than the chaos thread needs once
\* it has been told to stop.
NanoJoin ==
  /\ pc = "joining"
  /\ ChaosOver \/ ~ChaosStopEvt
  /\ IF plan.program = "harness" THEN Loop("revive") ELSE Goto("writing")
  /\ UNCHANGED <<idle, flagVars, restVars>>

NanoPhases ==
  \/ StartPhases \/ PreOver \/ StartNanoChaos \/ ChaosPhaseOver \/ JoinChaos \/ Revive
  \/ plan.program = "experiment" /\ Revived("quiesce")
  \/ StopAll \/ NanoJoin

WriteNano == WriteFile(<<"samples", "events", "meta">>, "killing")

\* An exception while writing ends the program where it is.
WriteNanoRaises ==
  /\ pc = "writing"
  /\ Die(1)
  /\ UNCHANGED <<idle, flagVars, restVars>>

KillNext ==
  /\ pc = "killing"
  /\ IF todo = {} THEN pc' = "exited" /\ UNCHANGED <<up, todo>>
     ELSE /\ up' = [up EXCEPT ![NextProc] = FALSE]
          /\ todo' = todo \ {NextProc} /\ UNCHANGED pc
  /\ UNCHANGED <<plan, exit, flagVars, writerVars, hold, pending, indexed, primary,
                 samplerVars, chaosVars, restVars>>

-----------------------------------------------------------------------------
(* chaos_harness.main after the start.                                       *)

\* The duration is over.
StopHarness ==
  /\ pc = "run"
  /\ stop' = TRUE
  /\ Goto("joining")
  /\ UNCHANGED <<idle, chaosStop, pause, restVars>>

\* /stats is read once more, from the first coordinator of ten tries to answer.
FinalCheck ==
  /\ pc = "final"
  /\ \E final_ok \in {FALSE, up[0]} :
       /\ KillAll(IF check.alarms # {} \/ ~final_ok THEN 1 ELSE 0)
       /\ check' = [check EXCEPT !.at = "off", !.before = Len(confirmed),
                      !.total = IF final_ok /\ up[primary]
                                THEN Cardinality(hold[primary]) ELSE 0]
  /\ UNCHANGED <<idle, flagVars, gate, files, lab>>

Harness ==
  \/ StopHarness \/ FinalCheck
  \/ plan.program = "harness" /\ Revived("final")

NanoDriver ==
  \/ CheckOptions \/ make_queries
  \/ StartProcess \/ wait_for_coordinators_ready \/ wait_for_raft_leader
  \/ StartWarmup \/ StartHarness
  \/ NanoPhases \/ WriteNano \/ KillNext \/ Harness

NanoThreads ==
  \/ \E w \in plan.writers : NanoWriter(w)
  \/ nano_sample_once \/ nano_sampler_loop \/ NanoChaos \/ Validator

NanoNext ==
  NanoDriver \/ NanoThreads \/ Cluster \/ Failover \/ InterruptWarmup \/ WriteNanoRaises
================================================================================
