----------------------------- MODULE MCRaftNode ----------------------------
(* Instances of RaftNode for TLC. *)
EXTENDS RaftNode, TLC

CONSTANTS n1, n2, n3

\* Who may start which term.
OnlyN1 == [t \in 1..MaxTerm |-> {n1}]
Alternating == [t \in 1..MaxTerm |-> IF t % 2 = 1 THEN {n1} ELSE {n2}]
ThenOthers == [t \in 1..MaxTerm |-> IF t % 2 = 1 THEN {n1} ELSE {n2, n3}]

\* Every proposal is a command of its own.  With OneOverwrites the second leader
\* has one command, which may replace two of the first.
Distinct == [t \in 1..MaxTerm |-> [k \in 1..MaxIndex |-> {10 * t + k}]]
OneOverwrites == [Distinct EXCEPT ![2][2] = {}]
DistinctCommands == {10 * t + k : t \in 1..MaxTerm, k \in 1..MaxIndex}

\* With OnlyN1 and ThenOthers the other two nodes remain interchangeable.
FollowerSymmetry == Permutations(Node \ {n1})

\* The state without what can no longer be read: leader_id is only reported
\* to clients, the votes of a finished election are not looked at again, and
\* FinishElection overwrites the indices of a node that does not lead.  Only
\* the proofs speak of leader_log.
LiveState ==
  <<diskVars, role, applyVars, electing, rpcs, crashes, committed,
    [i \in Node |-> IF electing[i] # 0 THEN votes[i] ELSE {}],
    [i \in Node |-> IF role[i] = "Leader" THEN <<next_index[i], match_index[i]>>
                                          ELSE << >>]>>

Terms(n) == \A i \in Node : current_term[i] <= n
Indices(n) == \A i \in Node : last_index(log[i]) <= n

\* The cases of one run that have bounds of their own.  Elections: a crash while
\* two nodes compete to succeed a leader; terms in which n1 and one of the others
\* take turns, in the fourth with the calls of one node at a time.  Snapshots: one
\* leader with two entries, which calls one follower at a time; two terms of it,
\* and crashes, with one entry.
TakingTurns ==
  /\ crashes = 0
  /\ \E i \in Node \ {n1} : electing[i] = 0 /\ role[i] = "Follower"
  /\ Terms(3) \/ \A m, n \in rpcs : m.src = n.src
ElectionCases == (Terms(2) \/ TakingTurns)'
OneFollowerCalled == \A m, n \in rpcs : {m.src, m.dest} = {n.src, n.dest}
SnapshotCases ==
  ((crashes = 0 /\ Terms(1) /\ OneFollowerCalled) \/ Indices(1))'
============================================================================
