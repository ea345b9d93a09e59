------------------------------ MODULE Dissociation ------------------------------
(****************************************************************************)
(* analyze_dissociation.py, on the records that dissociation.py saved: a    *)
(* record is [chaos, aborted, before, after, held, end], with NaN for the   *)
(* None of a snapshot or a series that gave no number.  One seed is enough, *)
(* as records of two seeds never meet.                                      *)
(****************************************************************************)
EXTENDS Metrics

Minus(x, y) == <<x[1] * y[2] - y[1] * x[2], x[2] * y[2]>>
Less(x, y) == x[1] * y[2] < y[1] * x[2]

\* Aborted runs are left out.
Used(rows, chaos) ==
  {r \in {rows[i] : i \in DOMAIN rows} : ~r.aborted /\ r.chaos = chaos}

ir_delta(r) == Minus(r.after, r.before)

\* An arithmetic on a None raises, and so does the report of a seed whose control
\* was aborted, and the drift of no control at all.
Raises(rows) ==
  \/ Used(rows, FALSE) = {}
  \/ \E r \in Used(rows, FALSE) \cup Used(rows, TRUE) : IsNaN(r.before) \/ IsNaN(r.after)

\* The primary metric: completeness returned to 1, and the chaos arm lost more of
\* its index_recall than its control.
healed(r) == IsOne(r.end)

damaged(b, r) == Less(ir_delta(r), ir_delta(b))

Dissociations(rows) ==
  IF Raises(rows) THEN {}
  ELSE {<<b, r>> \in Used(rows, FALSE) \X Used(rows, TRUE) : healed(r) /\ damaged(b, r)}
================================================================================
