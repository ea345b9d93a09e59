----------------------------- MODULE MCHnswIndex ---------------------------
(* HnswIndex and GraphForensics for TLC. *)
EXTENDS GraphForensics, TLC

\* No action and no property tells threads apart, or ids.
Alike == Permutations(Thread) \cup Permutations(Id)

\* The cases of the run: a crash in three calls, and four calls without one.
CrashCases == (crashes = 0 \/ calls <= 3)'
============================================================================
