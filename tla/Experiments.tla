------------------------------- MODULE Experiments -------------------------------
(****************************************************************************)
(* The programs that measure a cluster under faults, and what their records *)
(* may be trusted for.                                                      *)
(****************************************************************************)
EXTENDS NanoRun, QdrantRun, WeaviateRun, Analyses

IsNano == plan.program \in {"experiment", "harness"}
IsQdrant == plan.program = "qdrant"
IsWeaviate == plan.program = "weaviate"
IsAnalysis == plan.program = "analysis"

Init == NanoInit \/ QdrantInit \/ WeaviateInit \/ AnalysisInit
Next ==
  \/ IsNano /\ NanoNext
  \/ IsQdrant /\ QdrantNext
  \/ IsWeaviate /\ WeaviateNext
  \/ IsAnalysis /\ AnalysisNext
Spec == Init /\ [][Next]_vars

\* The main thread and the chaos thread are scheduled, and the deadline of a wait
\* passes; a request of the main thread itself is answered or times out.  Nothing
\* is assumed of the writers, of the replicas, of the optimizer, of the sampler and
\* of a docker call that has no timeout.
Driver ==
  \/ IsNano /\ NanoDriver
  \/ IsQdrant /\ QdrantDriver
  \/ IsWeaviate /\ WeaviateDriver
  \/ IsAnalysis /\ AnalysisDriver
ChaosThread == (IsQdrant /\ QdrantChaos) \/ (IsNano /\ NanoChaos)
Deadline == (IsQdrant /\ TimeUp) \/ (IsWeaviate /\ WindowPasses)
FairSpec ==
  /\ Spec
  /\ WF_vars(Driver) /\ WF_vars(ChaosThread) /\ WF_vars(Deadline)
  /\ WF_round(IsQdrant /\ AtGate /\ RoundScored)

-----------------------------------------------------------------------------

\* sample_once reads the intended ids before the corpus, so that each of them can
\* be scored: a reachable replica of a shard with intended ids has an e2e_recall.
IntendedIsScored ==
  round.at = "scored" =>
    \A n \in Nodes : scores[n].reachable /\ scores[n].n_intended > 0
                       => ~IsNaN(scores[n].e2e_recall)

\* list_local_ids of the Qdrant probe turns pages while the replica is written to
\* and restarted: what it lists was held, and all that was held when it began is
\* listed.
ListedIsHeld ==
  round.at = "probing" =>
    \A n \in Nodes : round.seen[n] \in {"listed", "searched", "answered"} =>
      round.began[n] \subseteq round.local[n] /\ round.local[n] \subseteq hold[n]

\* What a closed index gate says: unless a write landed after the writers were
\* paused, every replica holds points and has indexed them but for the tolerance.
GateMeansIndexed ==
  pc \in {"after", "exact", "closed"} /\ ~gate.late =>
    \A n \in Nodes :
      hold[n] # {} /\ 4 * Cardinality(indexed[n]) >= (4 - plan.tol) * Cardinality(hold[n])

\* When the quiesce window or the final check begins nothing will be killed, and a
\* process is down only if it was started again after the chaos and did not stay
\* up: one start is all that the driver tries, and it does not look at the result.
QuietAfterChaos ==
  pc \in {"quiesce", "final"} /\ plan.docker = "prompt" =>
    ChaosOver /\ \A p \in Procs : up[p] \/ p \in crashed

\* Every kill that took effect is an event of the record, one whose docker call
\* raised included; only the kill the chaos thread is in, or was in when it was
\* told to stop, is not.
KillsAreRecorded ==
  kills <= Len(events) + (IF chaos.at \in {"down", "ended"} THEN 1 ELSE 0)

\* run_meta.json is written last: with it every other result is of the same run
\* (telemetry only when it is captured).  And once qdrant_run_experiment has cleared
\* its OUTPUT_FILES, none of them is of an earlier run, however it ends.  Before,
\* arguments it refuses and an ensure_stubs that raises leave them as they were,
\* and gate_scores.json and index_gate_failed.json are never cleared.
ResultsAreWhole ==
  /\ (IsNano \/ IsQdrant) /\ files["meta"] = "new" =>
       \A f \in DOMAIN files \cap OUTPUT_FILES :
         files[f] = "new" \/ (f = "telemetry" /\ ~plan.telemetry /\ files[f] = "none")
  /\ IsQdrant /\ lab.cleared => \A f \in OUTPUT_FILES : files[f] # "old"

\* The validator of chaos_harness.py reports a lost write only when the primary it
\* counted lacks a write that was confirmed, or when two writers confirmed one id,
\* which the duplicates printed at the end tell apart.
NoFalseAlarm == "false" \in check.alarms => duplicate_id_count > 0

\* recovery_with_censoring claims no more of the victim than was so: that it had
\* caught up by the sample it names, and not by the answered one before it.
RecoveryIsTrue ==
  IsWeaviate =>
    LET r == recovery_with_censoring(lab.series)
        ok == {i \in DOMAIN lab.series : lab.series[i].ok}
        caughtUpBy(i) == lab.doneAt # -1 /\ lab.doneAt < i
    IN  CASE r.censored = "right" -> ~caughtUpBy(r.at)
          [] r.censored = "left" -> caughtUpBy(r.at)
          [] r.censored = "none" -> /\ caughtUpBy(r.at)
                                    /\ \E i \in ok : i < r.at /\ ~caughtUpBy(i)
          [] OTHER -> ok = {}

\* What analyze_dissociation.py calls a dissociation is one: the victim held the
\* whole divergence when its graph was searched, and the graph missed some of what
\* the victim held, unless the recall of the control rose between its snapshots:
\* the verdict compares the two differences, and a control that had missed an id
\* before and finds it after makes a chaos arm look damaged that lost nothing.
\* Were the truth not of everything the victim held, a sound graph would do.
DissociationIsReal ==
  IsWeaviate /\ pc = "exited" =>
    \A d \in Dissociations(lab.rows) :
      div_ids \subseteq lab.held /\ (lab.missed \/ Less(d[1].before, d[1].after))

\* The Mann-Whitney tests of aggregate.py, score_qdrant_detector.py and
\* analyze_dissociation.py give one p, ties and all, whichever group comes first.
RankTestsAgree ==
  Study("ranks") =>
    LET same(p, q) == p[1] * q[2] = q[1] * p[2] /\ IsNaN(p) = IsNaN(q)
        a == Present(lab.a)
    IN  /\ same(mann_whitney(lab.a, lab.b), mann_whitney(lab.b, lab.a))
        /\ same(mann_whitney(lab.a, lab.b), mann_whitney_smaller(a, lab.b))
        /\ a # << >> => same(mannwhitney_exact(a, lab.b), mann_whitney_smaller(lab.b, a))

\* heal_stats calls a run healed only when missed writes came back, however many
\* new ones were written meanwhile, and not healed only when some replica lacked
\* one in the last phase sampled.  (Of rows that are all reachable: the mean is
\* over those, and a damaged replica that is gone at the end would be left out.)
HealingIsReal ==
  Study("healing") /\ pc = "report" /\ (\A i \in DOMAIN lab.rows : lab.rows[i].reachable) =>
    LET says == heal_stats(lab.rows)
        end == lab.rows[Len(lab.rows)].t
    IN  /\ says = "healed" => lab.recovered > 0
        /\ says = "not healed" =>
             \E i \in DOMAIN lab.rows : Phase(lab.rows[i].t) = Phase(end)
                                           /\ ~IsOne(lab.rows[i].completeness)

\* Every run ends, unless a docker call that has no timeout does not return: every
\* other wait has a deadline, and no join waits for a thread that is not told to
\* stop.
RunEnds == <>(pc \in {"exited", "hung"})
================================================================================
