------------------------------ MODULE ResultStore ------------------------------
(****************************************************************************)
(* What a sweep promises the analysis that reads its output: the store      *)
(* holds, per cell, nothing or the output of one run that was made for that *)
(* cell and that ended well, and what it holds stays until the user asks    *)
(* for it to be replaced.  Sweeps.tla is shown to implement this.           *)
(****************************************************************************)
EXTENDS Naturals

CONSTANT Cells                       \* one per (seed, condition)

VARIABLES filed,                     \* the run each cell's directory holds
          good,                      \* the pairs <<run, cell>> that ended well
          replacing                  \* the user asked for --force

vars == <<filed, good, replacing>>

None == 0                            \* runs are numbered from 1

Init == /\ filed = [c \in Cells |-> None]
        /\ good = {}
        /\ replacing = FALSE

\* A run made for c ends well; a run that did keeps that standing.
Finish(c) == /\ good \subseteq good'
             /\ \A p \in good' \ good : p[2] = c
             /\ UNCHANGED <<filed, replacing>>

\* The output of a good run of c, one that ends with this step perhaps, becomes
\* what the store holds for c.
File(c) == /\ filed[c] = None \/ replacing
           /\ good \subseteq good'
           /\ \A p \in good' \ good : p[2] = c
           /\ \E p \in good' : /\ p[2] = c
                               /\ filed' = [filed EXCEPT ![c] = p[1]]
           /\ UNCHANGED replacing

\* The old output of a cell that is being replaced goes first.
Drop(c) == /\ replacing
           /\ filed' = [filed EXCEPT ![c] = None]
           /\ UNCHANGED <<good, replacing>>

Request == /\ replacing' \in BOOLEAN
           /\ UNCHANGED <<filed, good>>

Next == Request \/ \E c \in Cells : Finish(c) \/ File(c) \/ Drop(c)

Spec == Init /\ [][Next]_vars
================================================================================
