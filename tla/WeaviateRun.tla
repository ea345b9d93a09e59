------------------------------ MODULE WeaviateRun ------------------------------
(****************************************************************************)
(* The Weaviate studies: dissociation.py (plan.study = "dissociation"),     *)
(* which runs a control and a chaos arm on a class of its own each, and     *)
(* repair_once of characterize.py ("repair"), one outage timed until the    *)
(* victim has caught up.  One thread drives three containers; writes are    *)
(* batches of one id here; ids 1..D are the base corpus, D+1..2D the        *)
(* divergence, and a query has them nearest first as in Metrics.            *)
(*                                                                          *)
(*   plan.batch      D, the size of either set                              *)
(*   plan.rounds     a bound on the completeness samples                    *)
(*   plan.query.n    the queries of a snapshot, and plan.misses a bound on  *)
(*                   those of them whose answer the graph misses an id of   *)
(*   plan.stale      an earlier attempt left classes of the same names      *)
(*                                                                          *)
(* lab is what only these studies have: arm, class and who is in the schema *)
(* membership, the peers that are paused, the snapshot under way and the    *)
(* record of the arm.  doneAt is a history: the samples that were taken     *)
(* when the victim came to hold the whole divergence.                       *)
(****************************************************************************)
EXTENDS Experiment, Dissociation

VICTIM == Max(Nodes)
PEERS == Nodes \ {VICTIM}

DIVERGENCE == plan.batch
base_ids == 1..DIVERGENCE
div_ids == (DIVERGENCE + 1)..(2 * DIVERGENCE)
all_ids == base_ids \cup div_ids

Arms == IF plan.study = "dissociation" THEN <<"control", "chaos">> ELSE <<"repair">>
Arm == Arms[lab.arm]

\* A class is fresh, or holds what an earlier attempt left.
NewArm(k) ==
  [arm |-> k, exists |-> plan.stale, placed |-> IF plan.stale THEN Nodes ELSE {},
   paused |-> {}, held |-> {}, missed |-> FALSE, baseline |-> FALSE,
   before |-> NaN, score |-> NaN, series |-> << >>, doneAt |-> IF plan.stale THEN 0 ELSE -1,
   aborted |-> FALSE, classes |-> plan.stale, members |-> Nodes,
   rows |-> << >>]

LeftBehind == [n \in Nodes |-> IF plan.stale THEN all_ids ELSE {}]

\* The cluster is up and full when a study begins; characterize.py writes to a
\* class that is there.
WeaviateInit ==
  /\ ExperimentInit
  /\ plan.program = "weaviate"
  /\ pc = IF plan.study = "dissociation" THEN "topology" ELSE "stopping"
  /\ todo = {} /\ primary = 0
  /\ up = [n \in Nodes |-> TRUE]
  /\ hold = LeftBehind
  /\ files = << >>
  /\ lab = IF plan.study = "dissociation" THEN NewArm(1)
           ELSE [NewArm(1) EXCEPT !.exists = TRUE, !.placed = Nodes]

Reach(n) == up[n] /\ n \notin lab.paused
labOnly == <<plan, flagVars, writerVars, up, hold, pending, indexed, primary, samplerVars,
             chaosVars, gate, check, files>>
Exit(code) == pc' = "exited" /\ exit' = code /\ UNCHANGED todo
Lab(changed) == lab' = changed /\ UNCHANGED labOnly

-----------------------------------------------------------------------------
(* The cluster, external.                                                    *)

\* Asynchronous replication brings a replica an id that another one holds.
Repair(n) ==
  /\ Running /\ Reach(n) /\ n \in lab.placed
  /\ \E m \in lab.placed \ {n} : Reach(m) /\ \E i \in hold[m] \ hold[n] :
       hold' = [hold EXCEPT ![n] = @ \cup {i}]
  /\ lab' = IF n = VICTIM /\ lab.doneAt = -1 /\ div_ids \subseteq hold'[n]
            THEN [lab EXCEPT !.doneAt = Len(lab.series)] ELSE lab
  /\ UNCHANGED <<plan, driverVars, flagVars, writerVars, up, pending, indexed, primary,
                 samplerVars, chaosVars, gate, check, files>>

\* A node that was restarted is back in the membership some time later.
Rejoin(n) ==
  /\ Running /\ up[n] /\ n \notin lab.members
  /\ Lab([lab EXCEPT !.members = @ \cup {n}])
  /\ UNCHANGED driverVars

WeaviateCluster == \E n \in Nodes : Repair(n) \/ Rejoin(n)

-----------------------------------------------------------------------------
(* dissociation.main and the fresh class of a run.                           *)

\* What is known of the class of the topology check.
verify_class == {"expected", "absent", "other"}

\* A class of another shape stops the study; none at all is fine.
CheckTopology ==
  /\ pc = "topology"
  /\ \E found \in verify_class : IF found = "other" THEN Exit(2) ELSE Goto("member")
  /\ Lab(lab)

Abort == Goto("record") /\ Lab([lab EXCEPT !.aborted = TRUE])

\* Node 0 is asked until every node is healthy, or for 120 s.  It answering
\* nothing is a text, which has no "nodes", and raises.
wait_full_membership ==
  /\ pc = "member"
  /\ \/ lab.members = Nodes /\ ~gate.timeUp /\ Goto("delete") /\ Lab(lab)
     \/ gate.timeUp /\ Abort
     \/ Exit(1) /\ Lab(lab)

\* The answer to the DELETE is not looked at.
DeleteClass ==
  /\ pc = "delete"
  /\ Goto("create")
  /\ \/ /\ hold' = [n \in Nodes |-> {}]
        /\ lab' = [lab EXCEPT !.exists = FALSE, !.placed = {}, !.doneAt = -1]
        /\ UNCHANGED <<plan, flagVars, writerVars, up, pending, indexed, primary,
                       samplerVars, chaosVars, gate, check, files>>
     \/ Lab(lab)

\* create_class is content with a class that exists in the expected shape.  A new
\* one is placed on the nodes that are members just then, which one may not be.
create_class ==
  /\ pc = "create"
  /\ \/ /\ Goto("verify")
        /\ \/ lab.exists /\ Lab(lab)
           \/ /\ ~lab.exists
              /\ \E late \in {{}} \cup {{n} : n \in Nodes} :
                   Lab([lab EXCEPT !.exists = TRUE, !.placed = lab.members \ late])
     \/ Abort

\* The holders counted are the nodes with a shard of any class.
Holders3 == IF lab.classes THEN Nodes ELSE lab.placed

VerifyPlacement ==
  /\ pc = "verify"
  /\ \/ Holders3 = Nodes /\ Goto("count") /\ Lab(lab)
     \/ Holders3 # Nodes /\ Abort
     \/ Exit(1) /\ Lab(lab)

\* class_count, of what node 0 can see; it may also not answer, which passes for none.
class_count ==
  /\ pc = "count"
  /\ \/ Goto("shard") /\ Lab(lab)
     \/ (\E n \in Nodes : hold[n] # {}) /\ Abort

\* Without the shard of this class, or without its distance, the run is given up.
shard_for_class ==
  /\ pc = "shard"
  /\ (Goto("distance") /\ Lab(lab)) \/ Abort

schema_distance ==
  /\ pc = "distance"
  /\ \/ pc' = "base" /\ todo' = base_ids /\ UNCHANGED exit /\ Lab(lab)
     \/ Abort

FreshClass ==
  \/ DeleteClass \/ create_class \/ VerifyPlacement \/ class_count \/ shard_for_class
  \/ schema_distance

-----------------------------------------------------------------------------
(* write_objects: batch after batch, until one is not answered with 200.     *)
(* Which replicas stored a batch is theirs to know; l is what follows, and   *)
(* dissociation.py goes there after a failure too.                           *)

write_objects(l, failing) ==
  \/ /\ todo # {}
     /\ \E got \in SUBSET {n \in lab.placed : Reach(n)} :
          /\ hold' = [n \in Nodes |-> IF n \in got THEN hold[n] \cup {Min(todo)}
                                      ELSE hold[n]]
          /\ \/ got # {} /\ todo' = todo \ {Min(todo)} /\ UNCHANGED <<pc, exit>>
             \/ Goto(failing)
     /\ UNCHANGED <<plan, flagVars, writerVars, up, pending, indexed, primary,
                    samplerVars, chaosVars, restVars>>
  \/ todo = {} /\ Goto(l) /\ Lab(lab)

WriteBase == pc = "base" /\ write_objects("pausing", "pausing")
WriteControl == pc = "control" /\ write_objects("pausing", "pausing")
WriteDivergence ==
  pc = "diverging" /\ write_objects("restarting",
                        IF Arm = "repair" THEN "failing" ELSE "restarting")

-----------------------------------------------------------------------------
(* index_recall_snapshot: the peers are paused, the victim is asked what it  *)
(* holds and for its nearest, and the peers are resumed whatever happened.   *)

PausePeers ==
  /\ pc = "pausing"
  /\ Goto("isolated")
  /\ Lab([lab EXCEPT !.paused = PEERS, !.score = NaN, !.held = {}, !.missed = FALSE])

\* time.sleep(3), which is before the try.
Settle ==
  /\ pc = "isolated"
  /\ Goto("listing")
  /\ Lab(lab)

\* Which of these ids the victim holds, or that it did not serve the request.
objects_present_ids(ids) ==
  {[ok |-> FALSE, got |-> {}]} \cup
  {[ok |-> TRUE, got |-> hold[n] \cap ids] : n \in {m \in {VICTIM} : Reach(m)}}

ListHeld ==
  /\ pc = "listing"
  /\ \E a \in objects_present_ids(all_ids) :
       /\ Goto(IF a.ok THEN "searching" ELSE "resuming")
       /\ Lab([lab EXCEPT !.held = a.got])

\* The nearest the victim's graph finds when it misses the ids in lost.
search_full_ids(lost) ==
  ToSet(First(SelectSeq(Query, LAMBDA i : i \in hold[VICTIM] \ lost), K))

\* A mutant: the truth is of the base corpus alone.
exact_topk_BaseOnly(held) ==
  First(SelectSeq(Query, LAMBDA i : i \in held \cap base_ids), K)

exact_topk(held) == First(SelectSeq(Query, LAMBDA i : i \in held), K)

\* The share of the truth in the answers to all queries: the graph may miss an id
\* in some of them.  Queries that are not answered or have no truth do not count.
SearchVictim ==
  /\ pc = "searching"
  /\ Goto("resuming")
  /\ LET truth == ToSet(exact_topk(lab.held))
         hits(lost) == Cardinality(search_full_ids(lost) \cap truth)
         queries == plan.query.n
     IN  \/ Lab([lab EXCEPT !.score = NaN, !.missed = FALSE])
         \/ /\ Reach(VICTIM) /\ truth # {}
            /\ \E bad \in 0..plan.misses, i \in hold[VICTIM] :
                 Lab([lab EXCEPT !.missed = bad > 0,
                   !.score = <<(queries - bad) * hits({}) + bad * hits({i}),
                               queries * Cardinality(truth)>>])

ResumePeers ==
  /\ pc = "resuming"
  /\ Goto("floor")
  /\ Lab([lab EXCEPT !.paused = {}])

snapshot == PausePeers \/ Settle \/ ListHeld \/ SearchVictim \/ ResumePeers

BelowFloor(x) == 10 * x[1] < 9 * x[2]

\* The snapshot before has to be good for the run to go on; the one after ends it.
AfterSnapshot ==
  /\ pc = "floor"
  /\ \/ lab.baseline /\ Goto("record") /\ Lab(lab)
     \/ /\ ~lab.baseline /\ (IsNaN(lab.score) \/ BelowFloor(lab.score))
        /\ Abort
     \/ /\ ~lab.baseline /\ ~IsNaN(lab.score) /\ ~BelowFloor(lab.score)
        /\ IF Arm = "chaos" THEN Goto("stopping")
           ELSE pc' = "control" /\ todo' = div_ids /\ UNCHANGED exit
        /\ Lab([lab EXCEPT !.baseline = TRUE, !.before = lab.score])

-----------------------------------------------------------------------------
(* The outage, and the samples after it.                                     *)

upOnly == <<plan, flagVars, writerVars, hold, pending, indexed, primary, samplerVars,
            chaosVars, gate, check, files>>

StopVictim ==
  /\ pc = "stopping"
  /\ pc' = "diverging" /\ todo' = div_ids /\ UNCHANGED exit
  /\ up' = [up EXCEPT ![VICTIM] = FALSE]
  /\ lab' = [lab EXCEPT !.members = @ \ {VICTIM}]
  /\ UNCHANGED upOnly

RestartVictim ==
  /\ pc = "restarting"
  /\ Goto("observing")
  /\ up' = [up EXCEPT ![VICTIM] = TRUE]
  /\ UNCHANGED <<lab, upOnly>>

\* repair_once gives up when its write failed, and starts the victim before.
RestartAfterFailure ==
  /\ pc = "failing"
  /\ Goto("record")
  /\ up' = [up EXCEPT ![VICTIM] = TRUE]
  /\ lab' = [lab EXCEPT !.aborted = TRUE]
  /\ UNCHANGED upOnly

Sampled(a) == [lab EXCEPT !.series = Append(@, [ok |-> a.ok, n |-> Cardinality(a.got)])]

\* one_run samples the divergence until its window is over ...
SampleCompleteness ==
  /\ pc = "observing" /\ ~gate.timeUp /\ Len(lab.series) < plan.rounds
  /\ Arm = "chaos"
  /\ \E a \in objects_present_ids(div_ids) : Lab(Sampled(a))
  /\ UNCHANGED driverVars

\* ... and repair_once until the victim has all of it.
PollVictim ==
  /\ pc = "observing" /\ ~gate.timeUp /\ Len(lab.series) < plan.rounds
  /\ Arm = "repair"
  /\ \E a \in objects_present_ids(div_ids) :
       /\ Lab(Sampled(a))
       /\ Goto(IF Cardinality(a.got) = DIVERGENCE THEN "record" ELSE pc)

WindowOver ==
  /\ pc = "observing" /\ gate.timeUp
  /\ Goto(IF Arm = "repair" THEN "record" ELSE "pausing")
  /\ Lab(lab)

\* A mutant: a first sample that is complete is a recovery at its time.
recovery_with_censoring_Instant(series) ==
  LET ok == {i \in DOMAIN series : series[i].ok}
      complete == {i \in ok : series[i].n >= DIVERGENCE}
  IN  IF ok = {} THEN [censored |-> "no-data", at |-> 0]
      ELSE IF complete = {} THEN [censored |-> "right", at |-> Max(ok)]
      ELSE [censored |-> "none", at |-> Min(complete)]

\* When the victim had caught up, as far as the samples can tell; a sample's time
\* is its place in the series.
recovery_with_censoring(series) ==
  LET ok == {i \in DOMAIN series : series[i].ok}
      complete == {i \in ok : series[i].n >= DIVERGENCE}
  IN  IF ok = {} THEN [censored |-> "no-data", at |-> 0]
      ELSE IF complete = {} THEN [censored |-> "right", at |-> Max(ok)]
      ELSE IF Min(ok) \in complete THEN [censored |-> "left", at |-> Min(ok)]
      ELSE [censored |-> "none", at |-> Min(complete)]

-----------------------------------------------------------------------------

\* The share of the divergence in the last sample, if it was answered.
completeness_end ==
  LET s == lab.series
  IN  IF s = << >> \/ ~s[Len(s)].ok THEN NaN ELSE <<s[Len(s)].n, DIVERGENCE>>

Record ==
  [chaos |-> Arm = "chaos", aborted |-> lab.aborted, before |-> lab.before,
   after |-> lab.score, held |-> Cardinality(lab.held), end |-> completeness_end]

\* The record of the run is saved with those before it, and the next arm begins
\* on a class of its own; the classes of the arms before are left.
SaveRecord ==
  /\ pc = "record"
  /\ LET rows == Append(lab.rows, Record)
     IN  IF lab.arm = Len(Arms)
         THEN Exit(0) /\ lab' = [lab EXCEPT !.rows = rows] /\ UNCHANGED hold
         ELSE /\ Goto("member")
              /\ hold' = LeftBehind
              /\ lab' = [NewArm(lab.arm + 1) EXCEPT !.members = lab.members, !.rows = rows,
                           !.classes = lab.classes \/ lab.placed = Nodes]
  /\ gate' = [gate EXCEPT !.timeUp = FALSE]
  /\ UNCHANGED <<plan, flagVars, writerVars, up, pending, indexed, primary, samplerVars,
                 chaosVars, check, files>>

\* The window of the wait or of the observation passes.
WindowPasses ==
  /\ pc \in {"member", "observing"} /\ ~gate.timeUp
  /\ gate' = [gate EXCEPT !.timeUp = TRUE]
  /\ UNCHANGED <<plan, driverVars, flagVars, writerVars, clusterVars, samplerVars,
                 chaosVars, check, files, lab>>

\* Ctrl-C: the finally of the snapshot resumes the peers, from the try on.
InterruptStudy ==
  /\ plan.interrupt /\ Running
  /\ Exit(130)
  /\ Lab([lab EXCEPT !.paused = IF pc \in {"listing", "searching", "resuming"} THEN {} ELSE @])

WeaviateDriver ==
  \/ CheckTopology \/ wait_full_membership \/ FreshClass \/ WriteBase \/ WriteControl
  \/ WriteDivergence \/ snapshot \/ AfterSnapshot \/ StopVictim \/ RestartVictim
  \/ RestartAfterFailure \/ SampleCompleteness \/ PollVictim \/ WindowOver \/ SaveRecord

WeaviateNext ==
  \/ WeaviateDriver \/ WeaviateCluster \/ WindowPasses \/ InterruptStudy
  \/ DockerHangs({"pausing", "resuming", "stopping", "restarting", "failing"})
================================================================================
