----------------------------- MODULE RaftVotes -----------------------------
(***************************************************************************)
(* What the elections of RaftNode rest on: the inductive invariant behind  *)
(* ElectionSafety, and what a step may do to terms, votes and leaders.     *)
(***************************************************************************)
EXTENDS RaftState

\* The vote that j gave i in term t stands: it can no longer go to another.
VoteStands(j, t, i) == \/ current_term[j] > t
                       \/ current_term[j] = t /\ voted_for[j] = i

\* The vote of j counts for i in term t: it is among those that i, the
\* candidate or the leader of t, has collected, or is on its way to i.
Leads(i, t) == role[i] = "Leader" /\ current_term[i] = t
Campaigns(i, t) == t > 0 /\ (electing[i] = t \/ Leads(i, t))
Granted(j, i, t) ==
  \E m \in rpcs : /\ m.type = "VoteReply" /\ m.src = j /\ m.dest = i
                  /\ m.election_term = t /\ m.vote_granted
Counts(j, i, t) == (Campaigns(i, t) /\ j \in votes[i]) \/ Granted(j, i, t)

\* The inductive invariant behind ElectionSafety.  A reply belongs to the
\* election its candidate is waiting on.  A vote that counts stands, which is
\* why it cannot be given again; that it counts only once has to be said
\* separately, as the voter may have moved on to a later term.
RequestsInv == \A m \in rpcs : m.type = "RequestVote" => m.term > 0
RepliesInv ==
  \A m \in rpcs : m.type = "VoteReply" =>
    electing[m.dest] > 0 /\ m.election_term = electing[m.dest]
LeadersInv ==
  \A i \in Node : role[i] = "Leader" =>
    current_term[i] > 0 /\ electing[i] = 0 /\ Cardinality(votes[i]) >= Majority
StandingInv ==
  \A i, j \in Node, t \in Nat : Counts(j, i, t) => VoteStands(j, t, i)
UniqueInv ==
  \A i, k, j \in Node, t \in Nat : Counts(j, i, t) /\ Counts(j, k, t) => i = k
ElectionInv == RequestsInv /\ RepliesInv /\ LeadersInv /\ StandingInv /\ UniqueInv
----------------------------------------------------------------------------
(* What a step may do to terms and votes *)

\* The action behind VotesAreStable.
VoteStep ==
  \A i \in Node : /\ current_term'[i] >= current_term[i]
                  /\ current_term'[i] = current_term[i] /\ voted_for[i] # None
                     => voted_for'[i] = voted_for[i]

\* A node stops leading when its term changes.
LeaderStep ==
  \A i \in Node : role'[i] = "Leader" =>
                    role[i] = "Leader" /\ current_term'[i] = current_term[i]

\* A node becomes a candidate with a new term.
CandidateStep ==
  \A i \in Node : role'[i] = "Candidate" =>
    \/ current_term'[i] > current_term[i]
    \/ role[i] = "Candidate" /\ current_term'[i] = current_term[i]

\* A vote given in this step, by a node that had none standing for another.
Fresh(j, i, t) == /\ current_term'[j] = t /\ voted_for'[j] = i
                  /\ \A k \in Node : VoteStands(j, t, k) => k = i

\* Two majorities share a node, as the division in FinishElection's quorum
\* ensures for even and odd groups alike.
QuorumsMeet ==
  \A P, Q \in SUBSET Node :
    Cardinality(P) >= Majority /\ Cardinality(Q) >= Majority => P \cap Q # {}

\* What a step may do to the votes that count.
CountsStep ==
  \A i, j \in Node, t \in Nat : Counts(j, i, t)' => Counts(j, i, t) \/ Fresh(j, i, t)
============================================================================
