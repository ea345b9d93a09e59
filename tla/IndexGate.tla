------------------------------- MODULE IndexGate -------------------------------
(****************************************************************************)
(* The decision of qdrant_index_gate.py.  A poll row is what one node says  *)
(* of its collection: [reachable, indexed, points, green].  Of a finished   *)
(* poll the decision only uses whether every row of it closes the gate, so  *)
(* the history is a sequence of Booleans.  The tolerance counts quarters.   *)
(****************************************************************************)
EXTENDS Integers, Sequences

\* A mutant: a node without points counts as indexed.
node_fraction_EmptyIsIndexed(row) ==
  IF ~row.reachable THEN <<0, 1>>
  ELSE <<IF row.indexed < row.points THEN row.indexed ELSE row.points, row.points>>

\* indexed / points, as a fraction; 0 when unreachable or without points.
node_fraction(row) ==
  IF ~row.reachable \/ row.points = 0 THEN <<0, 1>>
  ELSE <<IF row.indexed < row.points THEN row.indexed ELSE row.points, row.points>>

\* At least 1 - tol of what the node holds is indexed.
RowCloses(row, tol) ==
  /\ row.reachable
  /\ row.green
  /\ 4 * node_fraction(row)[1] >= (4 - tol) * node_fraction(row)[2]

\* history keeps the last max(consecutive, 3) polls.
Remembered(history, poll, consecutive) ==
  LET all == Append(history, poll)
      kept == IF consecutive < 3 THEN 3 ELSE consecutive
  IN  IF Len(all) > kept THEN Tail(all) ELSE all

gate_decision(history, consecutive) ==
  /\ Len(history) >= consecutive
  /\ \A i \in (Len(history) - consecutive + 1)..Len(history) : history[i]
================================================================================
