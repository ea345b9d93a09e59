------------------------------ MODULE KillSchedule ------------------------------
(****************************************************************************)
(* build_kill_schedule of qdrant_docker_harness.py, the planned order of    *)
(* container kills.  Times are in half seconds, so that every one is whole. *)
(****************************************************************************)
EXTENDS Integers, Sequences

SHORT_GAP_S == 10
LONG_GAP_S == 80
FIXED_DOWN_S == 9
KILL_CONDITIONS == {"short-gap-same-node", "long-gap-same-node", "spread"}

Gap(condition) ==
  IF condition = "short-gap-same-node" THEN SHORT_GAP_S ELSE LONG_GAP_S

\* What the schedule does at each kill; at_s counts from the start of the chaos.
Steps(condition, names, n_kills, target) ==
  [i \in 1..n_kills |->
     [seq |-> i - 1,
      target |-> IF condition = "spread" THEN names[i] ELSE target,
      at_s |-> (i - 1) * (FIXED_DOWN_S + Gap(condition)),
      down_for_s |-> FIXED_DOWN_S]]

Span(steps) == steps[Len(steps)].at_s + FIXED_DOWN_S

\* The requests build_kill_schedule does not answer with a ValueError.
Feasible(condition, names, n_kills, window_s, target) ==
  /\ condition \in KILL_CONDITIONS
  /\ n_kills >= 2
  /\ IF condition = "spread" THEN n_kills <= Len(names)
     ELSE \E i \in 1..Len(names) : names[i] = target
  /\ Span(Steps(condition, names, n_kills, target)) <= window_s
================================================================================
