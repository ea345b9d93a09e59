-------------------------------- MODULE Metrics --------------------------------
(****************************************************************************)
(* The measurement core, replica_recall/metrics.py: pure functions from     *)
(* what one replica answered and holds to the numbers recorded for it.      *)
(* A vector is known by its id, and a query by the order in which it has    *)
(* the ids, nearest first; that is all the exact search uses.  A float is   *)
(* an exact fraction <<numerator, denominator>>, and NaN is <<0, 0>>.       *)
(****************************************************************************)
EXTENDS Integers, Sequences, FiniteSets, SequencesExt, FiniteSetsExt

NaN == <<0, 0>>
IsNaN(x) == x[2] = 0
IsOne(x) == x[1] = x[2] /\ ~IsNaN(x)
AtMost(x, y) == x[1] * y[2] <= y[1] * x[2]

Plus(x, y) == <<x[1] * y[2] + y[1] * x[2], x[2] * y[2]>>

\* The mean of the numbers of a sequence, NaN for none.
Mean(xs) ==
  IF xs = << >> THEN NaN
  ELSE LET total == FoldSeq(Plus, <<0, 1>>, xs)
       IN  <<total[1], total[2] * Len(xs)>>

First(s, k) == SubSeq(s, 1, IF k < Len(s) THEN k ELSE Len(s))

\* Corpus.rows_for: a corpus snapshot is the sequence of the ids in it, a row a
\* position; ids that are not in it are dropped, rows ascend.
rows_for(corpus, wanted) ==
  SetToSortSeq({r \in 1..Len(corpus) : corpus[r] \in wanted}, <)

\* exact_topk_rows over the gathered rows: min(k, n) of them, nearest first.
exact_topk_rows(query, corpus, rows, k) ==
  LET sub == {corpus[rows[j]] : j \in DOMAIN rows}
  IN  First(SelectSeq(query, LAMBDA i : i \in sub), k)

\* recall_at_k: set overlap, undefined when there is nothing to find.
recall_at_k(observed, truth, k) ==
  IF truth = << >> THEN NaN
  ELSE LET t == ToSet(First(truth, k))
           o == ToSet(First(observed, k))
       IN  <<Cardinality(o \cap t), Cardinality(t)>>

set_completeness(local, intended) ==
  IF intended = {} THEN NaN
  ELSE <<Cardinality(local \cap intended), Cardinality(intended)>>

\* The overlap of two replicas' answers to one query, as a sequence: empty when
\* both are, which is no information and not agreement.
Overlap(a, b, k) ==
  LET sa == ToSet(First(a, k))
      sb == ToSet(First(b, k))
  IN  IF sa = {} /\ sb = {} THEN << >>
      ELSE << <<Cardinality(sa \cap sb),
                Max({Cardinality(sa), Cardinality(sb)})>> >>

\* Over all queries: obs[n] is the sequence of n's answers, one per query.
Overlaps(obs, n, m, k) ==
  FlattenSeq([q \in 1..Len(obs[n]) |-> Overlap(obs[n][q], obs[m][q], k)])

\* pairwise_agreement over the replicas that answered.
pairwise_agreement(obs, k) ==
  LET names == SetToSeq(DOMAIN obs)
      pairs == SetToSeq({p \in (1..Len(names)) \X (1..Len(names)) : p[1] < p[2]})
  IN  IF Len(names) < 2 THEN NaN
      ELSE Mean(FlattenSeq([i \in 1..Len(pairs) |->
             Overlaps(obs, names[pairs[i][1]], names[pairs[i][2]], k)]))

\* leave_one_out_agreement: how well each replica agrees with its peers.
leave_one_out_agreement(obs, k) ==
  [n \in DOMAIN obs |->
     IF Cardinality(DOMAIN obs) < 3 THEN NaN
     ELSE Mean(FlattenSeq(LET peers == SetToSeq(DOMAIN obs \ {n})
                          IN  [j \in 1..Len(peers) |-> Overlaps(obs, n, peers[j], k)]))]

\* _mean_recall of score_replica: the truth is exact over the rows; an answer is
\* limited to `restrict` before it is cut to k.
MeanRecall(queries, observed, corpus, rows, restrict, k) ==
  IF rows = << >> THEN NaN
  ELSE LET score(q) == recall_at_k(
                         First(SelectSeq(observed[q], LAMBDA i : i \in restrict), k),
                         exact_topk_rows(queries[q], corpus, rows, k), k)
       IN  Mean(SelectSeq([q \in 1..Len(queries) |-> score(q)],
                          LAMBDA x : ~IsNaN(x)))

\* score_replica: index_recall against the replica's own ids, not restricted;
\* e2e_recall against the shard's intended ids, restricted to them.
score_replica(queries, observed, local, intended, corpus, k) ==
  LET returned == UNION {ToSet(observed[q]) : q \in DOMAIN observed}
  IN  [index_recall |-> MeanRecall(queries, observed, corpus,
                                   rows_for(corpus, local), returned, k),
       e2e_recall |-> MeanRecall(queries, observed, corpus,
                                 rows_for(corpus, intended), intended, k),
       completeness |-> set_completeness(local, intended),
       n_local |-> Cardinality(local),
       n_intended |-> Cardinality(intended)]
================================================================================
