------------------------------- MODULE RankTests -------------------------------
(****************************************************************************)
(* The exact tests the analysers compare two groups of runs with.  The      *)
(* Mann-Whitney test is written three times: in replica_recall/aggregate.py,*)
(* in loo_agreement_qdrant/score_qdrant_detector.py, and in                 *)
(* weaviate_dissociation/analyze_dissociation.py.  Values are integers,     *)
(* Missing stands for the NaN of a run that gave no number, and a p is a    *)
(* fraction as in Metrics.  The groups here are small enough for all three  *)
(* to enumerate; the normal approximation and the permutation test that two *)
(* of them fall back to are not modelled.                                   *)
(****************************************************************************)
EXTENDS Metrics

Missing == -1

\* The runs of a group that gave a number.
Present(xs) == SelectSeq(xs, LAMBDA x : x # Missing)

\* A mutant: a tie counts for nothing.
U2_NoTies(xs, ys) ==
  2 * Cardinality({p \in (DOMAIN xs) \X (DOMAIN ys) : xs[p[1]] > ys[p[2]]})

\* Twice the U of xs against ys, of which a tie is one half.
U2(xs, ys) ==
  2 * Cardinality({p \in (DOMAIN xs) \X (DOMAIN ys) : xs[p[1]] > ys[p[2]]})
    + Cardinality({p \in (DOMAIN xs) \X (DOMAIN ys) : xs[p[1]] = ys[p[2]]})

\* combinations(range(len(pool)), n), and the values that one of them picks.
Splits(pool, n) == kSubset(n, DOMAIN pool)
Picked(pool, S) ==
  LET at == SetToSortSeq(S, <) IN [i \in DOMAIN at |-> pool[at[i]]]
SplitU2(pool, S) == U2(Picked(pool, S), Picked(pool, DOMAIN pool \ S))

Distance(x, y) == IF x > y THEN x - y ELSE y - x

\* aggregate.py: the share of the splits whose U is as far from the centre.
mann_whitney(a, b) ==
  LET xs == Present(a)
      ys == Present(b)
      centre2 == Len(xs) * Len(ys)
      pool == SortSeq(xs \o ys, <)
      splits == Splits(pool, Len(xs))
      extreme == {S \in splits : Distance(SplitU2(pool, S), centre2)
                                   >= Distance(U2(xs, ys), centre2)}
  IN  IF xs = << >> \/ ys = << >> THEN NaN
      ELSE <<Cardinality(extreme), Cardinality(splits)>>

\* The smaller of the U of either group, doubled.
Smaller(u2, n1, n2) == Min({u2, 2 * n1 * n2 - u2})

\* score_qdrant_detector.py: the share whose smaller U is as small.
mann_whitney_smaller(a, b) ==
  LET pool == a \o b
      small(u2) == Smaller(u2, Len(a), Len(b))
      splits == Splits(pool, Len(a))
      extreme == {S \in splits : small(SplitU2(pool, S)) <= small(U2(a, b))}
  IN  IF a = << >> \/ b = << >> THEN NaN
      ELSE <<Cardinality(extreme), Cardinality(splits)>>

\* analyze_dissociation.py: the same, and an empty group is one split.
mannwhitney_exact(a, b) ==
  LET pool == a \o b
      small(u2) == Smaller(u2, Len(a), Len(b))
      splits == Splits(pool, Len(a))
      hit == {S \in splits : small(SplitU2(pool, S)) <= small(U2(a, b))}
  IN  <<Cardinality(hit), Cardinality(splits)>>
================================================================================
