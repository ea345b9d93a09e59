-------------------------------- MODULE Reports --------------------------------
(****************************************************************************)
(* What the analysers make of the rows that the experiments recorded, as    *)
(* pure functions: heal_stats of replica_recall/analyze.py.  Numbers are    *)
(* fractions as in Metrics.                                                 *)
(****************************************************************************)
EXTENDS Dissociation

-----------------------------------------------------------------------------
(* heal_stats: does a cluster heal once the faults have stopped?  A row is   *)
(* [t, reachable, completeness, n_intended], with times in steps of 30 s.    *)

chaos_start_rel == 1
chaos_stop_rel == 2

Phase(t) ==
  LET dt == t - chaos_stop_rel
  IN  CASE t < chaos_start_rel -> "pre"
        [] chaos_start_rel <= t /\ t < chaos_stop_rel -> "during"
        [] dt = 0 -> "post0_30"
        [] dt = 1 -> "post30_60"
        [] dt > 1 -> "post60p"

\* A mutant: the share that is missing, which falls as more is written.
Absent_Share(r) == <<r.completeness[2] - r.completeness[1], r.completeness[2]>>

\* (1 - completeness) * n_intended, completeness being a fraction of n_intended.
Absent(r) == <<r.completeness[2] - r.completeness[1], 1>>

\* The rows of a phase that count, and what their replicas lack on average.
RowsOf(rows, p) ==
  SelectSeq(rows, LAMBDA r : r.reachable /\ ~IsNaN(r.completeness) /\ Phase(r.t) = p)
MeanAbsent(rows, p) ==
  LET rs == RowsOf(rows, p) IN Mean([i \in DOMAIN rs |-> Absent(rs[i])])

\* The damage is what is missing right after the stop, the residual what is in
\* the last phase that was sampled; nine tenths have to be back.
heal_stats(rows) ==
  LET seen == SelectSeq(<<"post60p", "post30_60", "post0_30">>,
                        LAMBDA p : RowsOf(rows, p) # << >>)
      pre == MeanAbsent(rows, "pre")
      last == MeanAbsent(rows, Head(seen))
      at_stop == IF RowsOf(rows, "post0_30") # << >> THEN MeanAbsent(rows, "post0_30")
                 ELSE last
      damage == Minus(at_stop, pre)
      residual == Minus(last, pre)
  IN  IF seen = << >> \/ IsNaN(pre) THEN "unknown"
      ELSE IF ~Less(<<0, 1>>, damage) THEN "unknown"
      ELSE IF AtMost(<<10 * residual[1], residual[2]>>, damage) THEN "healed"
      ELSE "not healed"
================================================================================
