------------------------------ MODULE MCExperiments ------------------------------
(****************************************************************************)
(* Runs of the programs, each small in all but what it is about.            *)
(****************************************************************************)
EXTENDS Experiments

Base == [program |-> "qdrant", nodes |-> {1, 2}, writers |-> {}, batch |-> 1, pool |-> 0,
         chaos |-> "none", rounds |-> 0, kills |-> 0, docker |-> "prompt", until |-> 0,
         gate |-> FALSE, score |-> FALSE, schedule |-> NoSchedule, quiesces |-> TRUE,
         interrupt |-> FALSE, stale |-> FALSE, study |-> "", contradicts |-> FALSE,
         consecutive |-> 2, tol |-> 0, page |-> 2, terms |-> 0, telemetry |-> TRUE,
         misses |-> 0,
         query |-> [mode |-> "pinned", sift |-> 1, n |-> 1, draw |-> 0, reserve |-> 0]]

\* Two writers race the warm-up and the gate, one of them on an empty cluster;
\* the driver samples at the gate; a batch and a restart fall between two pages of
\* a round; a round meets a write.
QdrantData ==
  {[Base EXCEPT !.writers = {1, 2}, !.pool = 2, !.gate = TRUE, !.tol = 2, !.until = 2],
   [Base EXCEPT !.writers = {1}, !.pool = 1, !.gate = TRUE, !.interrupt = TRUE],
   [Base EXCEPT !.writers = {1}, !.pool = 1, !.batch = 2, !.gate = TRUE, !.score = TRUE],
   [Base EXCEPT !.nodes = {1}, !.writers = {1}, !.pool = 3, !.batch = 2, !.rounds = 1,
                !.page = 1, !.chaos = "whole", !.kills = 1],
   [Base EXCEPT !.writers = {1}, !.pool = 1, !.rounds = 1, !.chaos = "whole",
                !.kills = 1]}

Quiesce == [Base EXCEPT !.chaos = "quiesce", !.kills = 2, !.interrupt = TRUE,
                        !.stale = TRUE]

QdrantFaults ==
  {Quiesce, [Quiesce EXCEPT !.docker = "slow"], [Quiesce EXCEPT !.quiesces = FALSE]}

\* Feasible and infeasible schedules: windows that the two gaps fit, or just miss.
Schedules ==
  {[Quiesce EXCEPT !.schedule = [condition |-> c, count |-> n, window |-> w, target |-> t],
                   !.stale = FALSE] :
     c \in KILL_CONDITIONS, n \in {2, 3}, w \in {28, 98}, t \in {2, 3}}

\* A node leads in each of three terms; arguments that are refused.
QdrantRest ==
  {[Base EXCEPT !.nodes = {1, 2, 3}, !.terms = 3],
   [Base EXCEPT !.gate = TRUE, !.consecutive = 0, !.stale = TRUE],
   [Base EXCEPT !.gate = TRUE, !.tol = 4, !.stale = TRUE],
   [Base EXCEPT !.telemetry = FALSE, !.stale = TRUE],
   [Quiesce EXCEPT !.contradicts = TRUE],
   [Base EXCEPT !.query.n = 2, !.stale = TRUE]}

Nano == [Base EXCEPT !.program = "experiment"]

\* Pinned queries apart, two of a reserve of two or three; pools that are too small.
Loo(n, draw, reserve) ==
  [Nano EXCEPT !.rounds = 2, !.query = [mode |-> "nonpinned", sift |-> 3, n |-> n,
                                        draw |-> draw, reserve |-> reserve]]
LooRuns ==
  {Loo(1, 2, 2), Loo(1, 3, 2), Loo(2, 1, 2), [Nano EXCEPT !.query.n = 2],
   [Nano EXCEPT !.query.sift = 2, !.query.n = 2, !.writers = {1}, !.pool = 1, !.rounds = 1],
   [Loo(1, 1, 1) EXCEPT !.writers = {1}, !.pool = 1, !.rounds = 1]}

NanoRuns ==
  {[Nano EXCEPT !.writers = {1}, !.pool = 2, !.rounds = 1],
   [Nano EXCEPT !.writers = {1}, !.pool = 1, !.rounds = 1, !.chaos = "whole", !.kills = 1],
   [Nano EXCEPT !.chaos = "quiesce", !.kills = 2, !.interrupt = TRUE, !.stale = TRUE],
   [Nano EXCEPT !.chaos = "quiesce", !.quiesces = FALSE],
   [Nano EXCEPT !.chaos = "quiesce", !.contradicts = TRUE]}

Harnessed == [Nano EXCEPT !.program = "harness", !.nodes = {1, 2, 3}, !.chaos = "whole",
                          !.writers = {1}, !.pool = 1, !.kills = 1]
TwoWriters == [Harnessed EXCEPT !.nodes = {1}, !.writers = {1, 2}, !.kills = 0]

\* Both arms on fresh classes, with ten queries of which up to two miss an id, so
\* that the control may also score better than before; both arms after an earlier
\* attempt; and a repair of three.
Weaviate == [Base EXCEPT !.program = "weaviate", !.study = "dissociation", !.pool = 2,
                         !.query.n = 10]

WeaviateRuns ==
  {[Weaviate EXCEPT !.rounds = 1, !.misses = 2],
   [Weaviate EXCEPT !.rounds = 2, !.stale = TRUE, !.interrupt = TRUE, !.docker = "slow"],
   [Weaviate EXCEPT !.study = "repair", !.nodes = {1, 2, 3}, !.batch = 2, !.pool = 4,
                    !.rounds = 3, !.docker = "slow"]}

\* The analysers: twenty writes at once dilute one that is missing.
Analysis(study) == [Base EXCEPT !.program = "analysis", !.study = study]
AnalysisRuns ==
  {Analysis("ranks"),
   [Analysis("healing") EXCEPT !.pool = 1, !.rounds = 3],
   [Analysis("healing") EXCEPT !.nodes = {1}, !.batch = 20, !.pool = 2, !.rounds = 3]}

MCPlans == QdrantData \cup QdrantFaults \cup Schedules \cup QdrantRest
             \cup NanoRuns \cup LooRuns \cup {Harnessed, TwoWriters} \cup WeaviateRuns
             \cup AnalysisRuns
MCQuery == <<2, 1, 3>>

\* Once the threads are joined, what they worked on no longer matters.
View ==
  IF Measuring THEN vars
  ELSE <<plan, driverVars, flagVars, up, chaosVars, files, check, lab>>
================================================================================
