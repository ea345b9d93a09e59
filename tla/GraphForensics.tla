--------------------------- MODULE GraphForensics ---------------------------
(***************************************************************************)
(* graph_forensics.py: what it makes of the file of an index, whose        *)
(* process may have been killed at any point.  It reads the records and    *)
(* the header, and nothing of the memory.                                  *)
(***************************************************************************)
EXTENDS HnswIndex

Written == {i \in Id : node[i].written}

\* load_index: the records up to the last that is written.  Ids are handed out in
\* order, so that those among them that are not are of calls that had an id and
\* had not written; which of these come before the last is left open.
load_index == {Written \cup holes : holes \in SUBSET (used \ Written)}

\* Written, never linked outward at layer 0.
out_degree_0(nodes) == {i \in nodes : node[i].neighbors[0] = {}}

\* The links of all the layers together, but for those to outside the extent.
Edges(nodes) ==
  {e \in nodes \X nodes : \E l \in Layer : e[2] \in node[e[1]].neighbors[l]}

in_degree_0(nodes, edges) == nodes \ ({header.entry} \cup {e[2] : e \in edges})

isolated_both_ways(nodes, edges) == in_degree_0(nodes, edges) \cap out_degree_0(nodes)

\* A mutant: over the links of layer 0, as the comment has it.
unreachable_from_entry_Layer0(nodes, edges) ==
  IF header.entry \in nodes THEN nodes \ Reached(0, header.entry) ELSE {}

\* What the breadth-first search from the entry point does not meet; None if the
\* entry point is not in the file.
unreachable_from_entry(nodes, edges) ==
  IF header.entry \notin nodes THEN {}
  ELSE UNION {nodes \ seen : seen \in
         {s \in SUBSET nodes : header.entry \in s /\ \A e \in edges : e[1] \in s => e[2] \in s}}

\* search, by an index that is opened on this file.
SearchesOfFile ==
  IF header.entry = NoEntry THEN {{}}
  ELSE {search_layer(n, 0) : n \in Descents(header.entry, header.layer, 0)}
-----------------------------------------------------------------------------
(* Properties *)

\* "unreached here means unreachable, full stop": at whatever instant the process
\* is killed, no search of an index opened on the file returns a node that the
\* autopsy calls unreachable or invisible.
UnreachableIsUnfound ==
  LET found == UNION SearchesOfFile
  IN  \A nodes \in load_index :
        LET edges == Edges(nodes)
        IN  found \cap (unreachable_from_entry(nodes, edges) \cup in_degree_0(nodes, edges)
                         \cup isolated_both_ways(nodes, edges)) = {}
=============================================================================
