--------------------------- MODULE RaftHistories ---------------------------
(***************************************************************************)
(* The invariant behind LogMatching, over the histories of RaftNode: what  *)
(* the leader of each term has had in its log.                             *)
(***************************************************************************)
EXTENDS RaftVotes

\* The terms that have had a leader, and 0, the term of the empty log.
Elected == DOMAIN leader_log

\* A term has one leader, and a majority that can elect no other.
ElectedBy(t, i, Q) ==
  /\ Cardinality(Q) >= Majority
  /\ current_term[i] > t \/ (current_term[i] = t /\ role[i] # "Candidate")
  /\ \A j \in Q : VoteStands(j, t, i) /\ (\A k \in Node : Counts(j, k, t) => k = i)
ElectedOnce ==
  \A t \in Elected \ {0} : \E i \in Node, Q \in SUBSET Node : ElectedBy(t, i, Q)

\* A sequence of entries is, up to each of them, the log of the leader that
\* proposed it, according to the history h of the leaders' logs.
Traced(s, h) ==
  \A k \in 1..Len(s) : /\ s[k].term \in DOMAIN h /\ k <= Len(h[s[k].term])
                       /\ \A n \in 1..k : s[n] = h[s[k].term][n]

Histories(h) ==
  /\ 0 \in DOMAIN h /\ DOMAIN h \subseteq Nat
  /\ \A t \in DOMAIN h : h[t] \in Seq(Entry) /\ Traced(h[t], h)

\* A leader's log only grows.
Grows(h, later) ==
  \A t \in DOMAIN h : /\ t \in DOMAIN later /\ Len(h[t]) <= Len(later[t])
                      /\ \A k \in 1..Len(h[t]) : later[t][k] = h[t][k]

\* What an AppendEntries carries is a piece of its leader's log.
Piece(prev, prev_term, entries, l) ==
  /\ prev + Len(entries) <= Len(l)
  /\ \A k \in 1..Len(entries) : entries[k] = l[prev + k]
  /\ prev > 0 => prev_term = l[prev].term
AppendOK(m, h) ==
  m.entries # << >> =>
    m.term \in DOMAIN h /\ Piece(m.prev_log_index, m.prev_log_term, m.entries, h[m.term])

\* No coordinator has compacted its log yet.
NoneCompacted == \A i \in Node : log[i].snapshot_last_index = 0

\* The inductive invariant behind LogMatching.  The logs have to be compared
\* with what the leaders have had: two logs may share entries of a leader that
\* has lost its log to a later one since.
LogsTraced ==
  \A j \in Node : Traced(log[j].entries, leader_log) /\ log[j].snapshot_last_term = 0
LeadersTraced ==
  \A i \in Node : role[i] = "Leader" =>
    current_term[i] \in Elected /\ log[i].entries = leader_log[current_term[i]]
AppendsTraced ==
  \A m \in rpcs : /\ m.type # "InstallSnapshot"
                  /\ m.type = "AppendEntries" => AppendOK(m, leader_log)
MatchingInv ==
  /\ ElectedOnce /\ Histories(leader_log)
  /\ LogsTraced /\ LeadersTraced /\ AppendsTraced
----------------------------------------------------------------------------
(* What most steps do to the logs: nothing *)

CallsKept ==
  \A m \in rpcs' : m.type \in {"AppendEntries", "InstallSnapshot"} =>
    \E n \in rpcs : /\ n.type = m.type /\ n.term = m.term
                    /\ m.type = "AppendEntries" =>
                         /\ m.prev_log_index = n.prev_log_index
                         /\ m.prev_log_term = n.prev_log_term
                         /\ m.entries = n.entries
LogsKept == UNCHANGED <<log, leader_log>> /\ CallsKept
============================================================================
