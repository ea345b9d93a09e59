-------------------------------- MODULE Analyses --------------------------------
(****************************************************************************)
(* Recorded runs and the analyser that reads them.  plan.study is           *)
(*   "ranks"     two groups of runs and the tests that compare them;        *)
(*   "healing"   writes are missed in the chaos window, and may come back.  *)
(* `lab` holds what was recorded and, for healing, what was true.           *)
(****************************************************************************)
EXTENDS Experiment, Reports, RankTests

Values == 0..2

\* The tests do not look at the order of a group.
Ascending(xs) == \A i, j \in DOMAIN xs : i < j => xs[i] <= xs[j]
Groups(vals) == {xs \in UNION {[1..n -> vals] : n \in 1..3} : Ascending(xs)}

RanksInit == lab \in [a : Groups(Values \cup {Missing}), b : Groups(Values)]
HealingInit == lab = [t |-> 0, intended |-> 1, missing |-> [n \in Nodes |-> 0],
                      rows |-> << >>, recovered |-> 0, writes |-> 0]

AnalysisInit ==
  /\ ExperimentInit /\ plan.program = "analysis"
  /\ todo = {} /\ primary = 0 /\ NoCluster /\ files = << >>
  /\ CASE plan.study = "ranks" -> RanksInit /\ pc = "report"
       [] plan.study = "healing" -> HealingInit /\ pc = "recording"

Study(s) == plan.program = "analysis" /\ plan.study = s
Recorded(l) == lab' = l /\ Goto(pc) /\ UNCHANGED <<idle, flagVars, gate, check, files>>
Moved(l, to) == lab' = l /\ Goto(to) /\ UNCHANGED <<idle, flagVars, gate, check, files>>

\* The analyser prints its report.
Report == pc = "report" /\ Die(0) /\ UNCHANGED <<idle, flagVars, restVars>>

-----------------------------------------------------------------------------
(* A quiesce run: the time passes in steps of 30 s.                          *)

Healing == Study("healing") /\ pc = "recording"

\* Writes go on in every phase; in the chaos window a replica may miss one.
HealingWrite ==
  /\ Healing
  /\ \E n \in {1, plan.batch}, missed \in SUBSET Nodes :
       /\ lab.writes < plan.pool
       /\ Phase(lab.t) # "during" => missed = {}
       /\ missed # {} => n = 1
       /\ Recorded([lab EXCEPT !.intended = @ + n, !.writes = @ + 1,
                               !.missing = [m \in Nodes |->
                                 @[m] + IF m \in missed THEN 1 ELSE 0]])

\* A missed write comes back.
HealingRecover(n) ==
  /\ Healing /\ lab.t >= chaos_stop_rel /\ lab.missing[n] > 0
  /\ Recorded([lab EXCEPT !.missing[n] = @ - 1, !.recovered = @ + 1])

\* A round, at most one in 30 s: a row for each replica, that of an unreachable one
\* without numbers.
HealingRound ==
  /\ Healing /\ Len(lab.rows) < plan.rounds * Cardinality(Nodes)
  /\ \A i \in DOMAIN lab.rows : lab.rows[i].t # lab.t
  /\ \E live \in SUBSET Nodes :
       LET at == SetToSortSeq(Nodes, <)
           row(n) == [t |-> lab.t, reachable |-> n \in live,
                      completeness |-> IF n \in live
                        THEN <<lab.intended - lab.missing[n], lab.intended>> ELSE NaN]
       IN  Recorded([lab EXCEPT !.rows = @ \o [i \in DOMAIN at |-> row(at[i])]])

HealingTime ==
  /\ Healing
  /\ IF Phase(lab.t) = "post60p" THEN Moved(lab, "report")
     ELSE Recorded([lab EXCEPT !.t = @ + 1])

-----------------------------------------------------------------------------

AnalysisDriver == Report \/ HealingTime
AnalysisNext ==
  \/ AnalysisDriver
  \/ HealingWrite \/ HealingRound \/ (\E n \in Nodes : HealingRecover(n))
================================================================================
