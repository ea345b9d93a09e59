------------------------------ MODULE SweepsProofs ------------------------------
(****************************************************************************)
(* sweep.py and qdrant_sweep.py implement ResultStore, for every number of  *)
(* cells, every choice of conditions and every number of interrupted and    *)
(* resumed sweeps.                                                          *)
(****************************************************************************)
EXTENDS Sweeps, WellFoundedInduction, TLAPS

(****************************************************************************)
(* The inductive invariant.                                                 *)
(****************************************************************************)

Types ==
  /\ tool \in {"sweep", "qdrant"}
  /\ pc \in {"off", "cell", "waiting", "replace", "move", "next", "done"}
  /\ cell \in Cells /\ force \in BOOLEAN
  /\ made \in Seq(Run)
  /\ dirs \in [Cells \cup {Results} -> Dir]

\* Every sweep that is left to do has a cell.
Queue ==
  /\ queue \in Seq(SUBSET Cells)
  /\ queue # << >>
  /\ \A i \in 1..Len(queue) : queue[i] # {}
  /\ pc = "next" => Len(queue) > 1

RunnerSteps == {"launch", "run", "samples", "meta", "ended", "over"}

\* Only the last run can be going on, and only while it is waited for or has
\* been left behind by an interrupt; its exit status is still to come.
Runs ==
  /\ \A r \in 1..Last :
       /\ made[r].step \in RunnerSteps
       /\ Live(r) => r = Last /\ made[r].exit = "none"
  /\ pc \notin {"off", "waiting"} => \A r \in 1..Last : ~Live(r)

\* What is in results/ comes from the last run, and has its metadata once that
\* run has written them.
Output ==
  /\ dirs[Results].samples \in {0, Last} /\ dirs[Results].meta \in {0, Last}
  /\ Last # 0 /\ (made[Last].step = "meta" \/ (pc = "waiting" /\ made[Last].exit = "ok"))
       => dirs[Results].meta = Last

\* The cell the program is at, from the start of its run to the move.
AtCell ==
  /\ pc \in {"waiting", "replace", "move"} => Last # 0 /\ made[Last].cell = cell
  /\ pc \in {"waiting", "replace"} => dirs[cell].samples = 0 \/ force
  /\ pc \in {"replace", "move"} => Accepted(Last) /\ dirs[Results].samples = Last
  /\ pc = "move" => dirs[cell] = NoDir

Inv == Types /\ Queue /\ Runs /\ Output /\ AtCell

(****************************************************************************)
(* Facts about the operators.                                               *)
(****************************************************************************)

\* Least, by which main's loop is modelled, finds a cell of every set that has
\* one.
LEMMA LeastIn ==
  ASSUME NEW S \in SUBSET Nat, S # {}
  PROVE  Least(S) \in S
<1>1. PICK R : R = {ss \in Nat \X Nat : ss[1] < ss[2]} /\ IsWellFoundedOn(R, Nat)
  BY NatLessThanWellFounded, Zenon DEF OpToRel
<1>2. PICK m \in S : \A d \in S : ~(<<d, m>> \in R)
  BY Zenon, <1>1, WFMin
<1>3. ASSUME NEW d \in S, d < m PROVE FALSE
  <2>1. <<d, m>> \in Nat \X Nat /\ <<d, m>>[1] < <<d, m>>[2]
    BY <1>3
  <2>2. <<d, m>> \in R
    BY <1>1, <2>1, Zenon
  <2> QED BY <2>2, <1>2
<1>4. \A d \in S : m <= d
  BY <1>3, SMT
<1> QED BY Zenon, <1>4 DEF Least

\* The runs of sweep.py and qdrant_sweep.py are judged by Accepted.
LEMMA GoodIsAccepted ==
  ASSUME Types, Types'
  PROVE  \A r : (Good(r) <=> Accepted(r)) /\ (Good(r)' <=> Accepted(r)')
BY Zenon DEF Types, Good

\* The cells are numbered from 1, so that results/ is none of them.
LEMMA CellsAreNaturals == Cells \subseteq Nat /\ Results \notin Cells /\ 1 \in Cells
BY SweepsAssumption DEF Cells, Results

\* A run is changed in one place of the record of the runs.
LEMMA RunChanges ==
  ASSUME Types, NEW r \in 1..Last, NEW x \in Run, made' = [made EXCEPT ![r] = x]
  PROVE  /\ made' \in Seq(Run) /\ Last' = Last
         /\ \A q \in 1..Last : made'[q] = IF q = r THEN x ELSE made[q]
BY DEF Types, Last

\* The record of the runs holds one record per run.
LEMMA RunIsTyped ==
  ASSUME Types, NEW r \in 1..Last
  PROVE  made[r] \in Run /\ Last \in Nat
BY DEF Types, Last

\* The loop goes to another of its cells, to the next sweep, or to its end.
LEMMA LoopAdvances ==
  ASSUME Types, Queue, NEW o, Advance(o)
  PROVE  /\ pc' \in {"cell", "next", "done"} /\ cell' \in Cells
         /\ pc' = "next" => Len(queue) > 1
         /\ UNCHANGED <<tool, queue, force>>
<1>1. Head(queue) \subseteq Cells
  BY DEF Queue
<1>2. Later # {} => Least(Later) \in Cells
  BY <1>1, LeastIn, CellsAreNaturals DEF Later
<1> QED BY <1>2 DEF Advance, Types

\* The queues an invocation can start with.
LEMMA QueuesHaveCells ==
  ASSUME NEW q \in Only \cup BothInTurn
  PROVE  /\ q \in Seq(SUBSET Cells) /\ q # << >>
         /\ \A i \in 1..Len(q) : q[i] # {}
         /\ Least(Head(q)) \in Cells
<1>1. ChaosCells \subseteq Cells /\ Controls \subseteq Cells
  BY SweepsAssumption DEF Cells, Controls
<1>2. CASE q \in Only
  <2>1. PICK S \in SUBSET Cells : q = <<S>> /\ S # {}
    BY <1>1, <1>2 DEF Only
  <2>2. Least(S) \in Cells
    BY Zenon, <2>1, LeastIn, CellsAreNaturals
  <2> QED BY <2>1, <2>2
<1>3. CASE q \in BothInTurn
  <2>1. q = <<Controls, ChaosCells>> /\ Controls # {} /\ ChaosCells # {}
    BY <1>3 DEF BothInTurn
  <2>2. Least(Controls) \in Cells
    BY Zenon, <1>1, <2>1, LeastIn, CellsAreNaturals
  <2> QED BY <1>1, <2>1, <2>2
<1> QED BY <1>2, <1>3

(****************************************************************************)
(* The steps of the two programs, and of the run they wait for.             *)
(****************************************************************************)

Invocation == NoRunner /\ Invoked(BOOLEAN, Only \cup BothInTurn, "cell")

StartsRun ==
  /\ pc = "cell"
  /\ dirs[cell].samples = 0 \/ force
  /\ dirs' = [dirs EXCEPT ![Results] = NoDir]
  /\ Start("launch")

Accepts == IF tool = "sweep" THEN SweepAccepts ELSE QdrantAccepts

Collects ==
  /\ pc = "waiting"
  /\ At(Last, "ended")
  /\ IF Accepts
     THEN pc' = "replace" /\ UNCHANGED <<tool, queue, cell, force, outcome, sweeps>>
     ELSE Advance("failed")
  /\ Becomes(Last, "over")
  /\ UNCHANGED files

RunStep(r) ==
  Launch(r) \/ WriteSamples(r) \/ WriteMeta(r) \/ ExitWell(r) \/ ExitFailing(r)

\* The steps of the other programs are not taken.
LEMMA StepsTaken ==
  ASSUME Types, Runs, Next
  PROVE  \/ Invocation \/ StartsRun \/ Collects \/ Skip \/ NextSweep \/ Interrupt
         \/ RemoveOld \/ MoveResults \/ \E r \in 1..Last : RunStep(r)
<1>1. CASE InvokeSweep \/ InvokeQdrant \/ InvokeGated \/ InvokeHealing
  <2>1. <<Cells>> \in Only
    BY CellsAreNaturals DEF Only
  <2>2. Invocation
    BY Zenon, <1>1, <2>1 DEF InvokeSweep, InvokeQdrant, InvokeGated, InvokeHealing,
                      Invoked, Invocation
  <2> QED BY <2>2
<1>2. CASE InvokeGate \/ InvokeReproduction
  BY <1>2 DEF InvokeGate, InvokeReproduction, Types
<1>3. CASE Program
  <2>1. CASE SweepStart \/ QdrantStart
    BY <2>1, CellsAreNaturals
       DEF SweepStart, QdrantStart, SweepSkips, QdrantSkips, StartsRun
  <2>2. CASE SweepCollect \/ QdrantCollect
    BY <2>2 DEF SweepCollect, QdrantCollect, Collects, Accepts
  <2>3. CASE GateStart \/ GateCollect \/ StartDetached \/ SeeMarker
    BY <2>3 DEF GateStart, GateCollect, StartDetached, SeeMarker, Types
  <2>4. CASE StageFails \/ StageDeps \/ StageBuild \/ StageCorpus \/ CheckCell
             \/ StageAnalyse
    BY <2>4 DEF StageFails, StageDeps, StageBuild, StageCorpus, CheckCell,
                StageAnalyse, Types
  <2> QED BY <1>3, <2>1, <2>2, <2>3, <2>4 DEF Program
<1>4. CASE \E r \in 1..Last : Experiment(r)
  <2>1. PICK r \in 1..Last : Experiment(r)
    BY <1>4
  <2>2. ~ExitGated(r) /\ ~FileInShell(r)
    BY DEF ExitGated, FileInShell, Types
  <2>3. ~RemoveMarker(r) /\ ~ClearResults(r) /\ ~TouchMarker(r)
    BY DEF RemoveMarker, ClearResults, TouchMarker, At, Runs, RunnerSteps
  <2> QED BY <2>1, <2>2, <2>3 DEF Experiment, RunStep
<1> QED BY <1>1, <1>2, <1>3, <1>4 DEF Next

\* Starting main, for any of the conditions it can be given, keeps Inv.
LEMMA InvocationKeeps == ASSUME Inv, Invocation PROVE Inv'
<1>1. queue' \in Only \cup BothInTurn /\ force' \in BOOLEAN /\ pc' = "cell"
      /\ cell' = Least(Head(queue')) /\ UNCHANGED <<tool, made, dirs>>
  BY DEF Invocation, Invoked, files
<1>2. Types' /\ Queue'
  BY <1>1, QueuesHaveCells DEF Inv, Types, Queue
<1>3. Runs'
  BY <1>1 DEF Inv, Runs, Invocation, NoRunner, Live, Last
<1>4. Output' /\ AtCell'
  BY <1>1 DEF Inv, Output, AtCell, Last
<1> QED BY <1>2, <1>3, <1>4 DEF Inv

Steps == {"marker", "clear", "launch", "run", "samples", "meta", "ended", "filed", "over"}

\* A step of a run changes where that run is and nothing else of the record.
LEMMA RunMoves ==
  ASSUME Types, NEW r \in 1..Last, NEW s \in Steps, Becomes(r, s)
  PROVE  /\ made' \in Seq(Run) /\ Last' = Last
         /\ \A q \in 1..Last : q # r => made'[q] = made[q]
         /\ made'[r].step = s /\ made'[r].exit = made[r].exit
         /\ made'[r].cell = made[r].cell /\ made'[r].enough = made[r].enough
<1> DEFINE x == [made[r] EXCEPT !.step = s]
<1>1. made[r] \in Run
  BY RunIsTyped
<1>2. /\ x \in Run
      /\ x.step = s /\ x.exit = made[r].exit /\ x.cell = made[r].cell
      /\ x.enough = made[r].enough
  BY <1>1 DEF Run, Steps
<1>3. made' = [made EXCEPT ![r] = x]
  BY DEF Becomes
<1> HIDE DEF x
<1>4. /\ made' \in Seq(Run) /\ Last' = Last
      /\ \A q \in 1..Last : made'[q] = IF q = r THEN x ELSE made[q]
  BY Zenon, <1>2, <1>3, RunChanges
<1>5. made'[r] = x
  BY <1>4
<1> QED BY <1>2, <1>4, <1>5

\* run_one, when it does not skip: results/ is cleared, so that what is found in
\* it later is the output of the run that starts here.
LEMMA StartKeeps == ASSUME Inv, StartsRun PROVE Inv'
<1> DEFINE x == [cell |-> cell, step |-> "launch", exit |-> "none",
                 interrupted |-> FALSE, enough |-> FALSE]
<1>1. /\ made' = Append(made, x) /\ pc' = "waiting" /\ pc = "cell"
      /\ dirs' = [dirs EXCEPT ![Results] = NoDir]
      /\ UNCHANGED <<tool, queue, cell, force>>
  BY DEF StartsRun, Start
<1>2. x \in Run /\ NoDir \in Dir
  BY DEF Inv, Types, Run, NoDir, Dir
<1>3. /\ made' \in Seq(Run) /\ Last' = Last + 1
      /\ \A q \in 1..Last : made'[q] = made[q]
      /\ made'[Last'] = x
  BY <1>1, <1>2 DEF Inv, Types, Last
<1>4. made'[Last'].step = "launch" /\ made'[Last'].exit = "none"
      /\ made'[Last'].cell = cell
  BY <1>3
<1> HIDE DEF x
<1>5. Last \in Nat
  BY DEF Inv, Types, Last
<1>6. Types' /\ Queue'
  BY <1>1, <1>2, <1>3 DEF Inv, Types, Queue
<1>7. Runs'
  <2>1. \A q \in 1..Last : ~Live(q)'
    BY Zenon, <1>1, <1>3 DEF Inv, Runs, Live
  <2>2. \A q \in 1..Last' : q \in 1..Last \/ q = Last'
    BY <1>3, <1>5
  <2>3. \A q \in 1..Last' :
          /\ made'[q].step \in RunnerSteps
          /\ Live(q)' => q = Last' /\ made'[q].exit = "none"
    BY <1>3, <1>4, <2>1, <2>2 DEF Inv, Runs, RunnerSteps
  <2> QED BY Zenon, <1>1, <2>3 DEF Runs
<1>8. dirs'[Results] = NoDir /\ dirs'[cell] = dirs[cell]
  BY <1>1, CellsAreNaturals DEF Inv, Types
<1>9. Output'
  BY <1>4, <1>8 DEF Output, NoDir
<1>10. AtCell'
  BY <1>1, <1>3, <1>4, <1>5, <1>8 DEF AtCell, StartsRun
<1> QED BY <1>6, <1>7, <1>9, <1>10 DEF Inv

\* What a step that ends a cell has to leave: no run going on.
LEMMA AdvanceKeeps ==
  ASSUME Inv, NEW o, Advance(o), \A r \in 1..Last : ~Live(r),
         UNCHANGED <<made, dirs>>
  PROVE  Inv'
<1>1. /\ pc' \in {"cell", "next", "done"} /\ cell' \in Cells
      /\ pc' = "next" => Len(queue) > 1
      /\ UNCHANGED <<tool, queue, force>>
  BY LoopAdvances DEF Inv
<1>2. Types' /\ Queue'
  BY <1>1 DEF Inv, Types, Queue
<1>3. Runs'
  BY <1>1 DEF Inv, Runs, Live, Last
<1>4. Output' /\ AtCell'
  BY <1>1 DEF Inv, Output, AtCell, Last
<1> QED BY <1>2, <1>3, <1>4 DEF Inv

\* run_one returns before it starts anything when the cell has its output.
LEMMA SkipKeeps == ASSUME Inv, Skip PROVE Inv'
<1>1. \A r \in 1..Last : ~Live(r)
  BY DEF Skip, Inv, Runs
<1> QED BY <1>1, AdvanceKeeps DEF Skip, files

\* The healing sweep goes from the controls to the runs with faults, or stops.
LEMMA NextSweepKeeps == ASSUME Inv, NextSweep PROVE Inv'
<1>1. UNCHANGED <<tool, force, made, dirs>> /\ pc = "next"
  BY DEF NextSweep, files
<1>2. CASE pc' = "done" /\ UNCHANGED <<queue, cell>>
  BY <1>1, <1>2 DEF Inv, Types, Queue, Runs, Live, Output, AtCell, Last
<1>3. CASE pc' = "cell" /\ queue' = Tail(queue) /\ cell' = Least(Head(queue'))
  <2>1. /\ queue' \in Seq(SUBSET Cells) /\ Len(queue') = Len(queue) - 1
        /\ \A i \in 1..Len(queue') : queue'[i] = queue[i + 1]
    BY <1>3 DEF Inv, Queue
  <2>2. Len(queue) \in Nat /\ Len(queue) > 1
    BY <1>1 DEF Inv, Queue
  <2>3. \A i \in 1..Len(queue') : i + 1 \in 1..Len(queue)
    BY <2>1, <2>2
  <2>4. \A i \in 1..Len(queue) : queue[i] # {}
    BY DEF Inv, Queue
  <2>5. Len(queue') \in Nat \ {0}
    BY <2>1, <2>2
  <2>6. Len(queue') \in Nat \ {0} /\ \A i \in 1..Len(queue') : queue'[i] # {}
    BY Zenon, <2>1, <2>3, <2>4, <2>5
  <2>7. queue' # << >> /\ Head(queue') \in SUBSET Cells /\ Head(queue') # {}
    BY <2>1, <2>6
  <2>8. cell' \in Cells
    BY <1>3, <2>7, LeastIn, CellsAreNaturals
  <2>9. Types' /\ Queue'
    BY <1>1, <1>3, <2>1, <2>6, <2>7, <2>8 DEF Inv, Types, Queue
  <2>10. Runs' /\ Output' /\ AtCell'
    BY <1>1, <1>3 DEF Inv, Runs, Live, Output, AtCell, Last
  <2> QED BY <2>9, <2>10 DEF Inv
<1> QED BY <1>2, <1>3 DEF NextSweep

\* run_one after the run: what it accepts is the last run, made for the cell,
\* good, with its samples in results/.
LEMMA CollectKeeps == ASSUME Inv, Collects PROVE Inv'
<1>1. Last \in 1..Last /\ made[Last].step = "ended" /\ pc = "waiting"
  BY DEF Collects, At
<1>2. /\ made' \in Seq(Run) /\ Last' = Last
      /\ \A q \in 1..Last : q # Last => made'[q] = made[q]
      /\ made'[Last].step = "over" /\ made'[Last].exit = made[Last].exit
      /\ made'[Last].cell = made[Last].cell /\ made'[Last].enough = made[Last].enough
  BY <1>1, RunMoves DEF Collects, Inv, Steps
<1>3. UNCHANGED dirs
  BY DEF Collects, files
<1>4. \A q \in 1..Last : ~Live(q) /\ ~Live(q)'
  BY <1>1, <1>2 DEF Inv, Runs, Live
<1>5. \A q \in 1..Last : made'[q].step \in RunnerSteps
  BY <1>2 DEF Inv, Runs, RunnerSteps
<1>6. Runs'
  BY <1>2, <1>4, <1>5 DEF Runs
<1>7. CASE Accepts
  <2>1. pc' = "replace" /\ UNCHANGED <<tool, queue, cell, force>>
    BY <1>7 DEF Collects
  <2>2. Types' /\ Queue'
    BY <1>2, <1>3, <2>1 DEF Inv, Types, Queue
  <2>3. /\ made[Last].exit = "ok" /\ dirs[Results].samples = Last
        /\ dirs[Results].meta = Last /\ made[Last].cell = cell
    BY <1>1, <1>7 DEF Accepts, SweepAccepts, QdrantAccepts, Inv, Output, AtCell
  <2>4. tool = "qdrant" /\ cell \in ChaosCells => made[Last].enough
    BY <1>1, <1>7, <2>3 DEF Accepts, QdrantAccepts
  <2>5. Accepted(Last)'
    BY <1>2, <2>1, <2>3, <2>4 DEF Accepted
  <2>6. Output' /\ AtCell'
    BY <1>1, <1>2, <1>3, <2>1, <2>3, <2>5 DEF Inv, Output, AtCell
  <2> QED BY <1>6, <2>2, <2>6 DEF Inv
<1>8. CASE ~Accepts
  <2>1. /\ pc' \in {"cell", "next", "done"} /\ cell' \in Cells
        /\ pc' = "next" => Len(queue) > 1
        /\ UNCHANGED <<tool, queue, force>>
    BY <1>8, LoopAdvances DEF Inv, Collects
  <2>2. Types' /\ Queue'
    BY <1>2, <1>3, <2>1 DEF Inv, Types, Queue
  <2>3. Output' /\ AtCell'
    BY <1>2, <1>3, <2>1 DEF Inv, Output, AtCell
  <2> QED BY <1>6, <2>2, <2>3 DEF Inv
<1> QED BY <1>7, <1>8

\* rmtree of the cell's old directory leaves results/ alone.
LEMMA RemoveOldKeeps == ASSUME Inv, RemoveOld PROVE Inv'
<1>1. /\ pc = "replace" /\ pc' = "move" /\ dirs' = [dirs EXCEPT ![cell] = NoDir]
      /\ UNCHANGED <<tool, queue, cell, force, made>>
  BY DEF RemoveOld
<1>2. dirs'[Results] = dirs[Results] /\ dirs'[cell] = NoDir
  BY <1>1, CellsAreNaturals DEF Inv, Types
<1>3. Types' /\ Queue'
  BY <1>1 DEF Inv, Types, Queue, Dir, NoDir
<1>4. Runs'
  BY <1>1 DEF Inv, Runs, Live, Last
<1>5. Output' /\ AtCell'
  BY <1>1, <1>2 DEF Inv, Output, AtCell, Last, Accepted
<1> QED BY <1>3, <1>4, <1>5 DEF Inv

\* The move empties results/ and ends the cell.
LEMMA MoveKeeps == ASSUME Inv, MoveResults PROVE Inv'
<1>1. /\ pc = "move" /\ Advance("ok") /\ UNCHANGED made
      /\ dirs' = [dirs EXCEPT ![cell] = IF @.there THEN @ ELSE dirs[Results],
                              ![Results] = NoDir]
  BY DEF MoveResults
<1>2. /\ pc' \in {"cell", "next", "done"} /\ cell' \in Cells
      /\ pc' = "next" => Len(queue) > 1
      /\ UNCHANGED <<tool, queue, force>>
  BY <1>1, LoopAdvances DEF Inv
<1>3. dirs' \in [Cells \cup {Results} -> Dir] /\ dirs'[Results] = NoDir
  BY Zenon, <1>1, CellsAreNaturals DEF Inv, Types, Dir, NoDir
<1>4. Types' /\ Queue'
  BY <1>1, <1>2, <1>3 DEF Inv, Types, Queue
<1>5. Runs' /\ \A r \in 1..Last : ~Live(r)
  BY <1>1, <1>2 DEF Inv, Runs, Live, Last
<1>6. Output'
  BY <1>1, <1>2, <1>3, <1>5 DEF Inv, AtCell, Output, Live, Last, NoDir
<1>7. AtCell'
  BY <1>2 DEF AtCell
<1> QED BY <1>4, <1>5, <1>6, <1>7 DEF Inv

\* The run an interrupt reaches: in its phases it goes on, elsewhere it fails.
LEMMA InterruptedRun ==
  ASSUME Types, NEW r \in 1..Last,
         made' = [made EXCEPT ![r].interrupted = TRUE,
                     ![r].step = IF @ = "run" THEN @ ELSE "ended",
                     ![r].exit = IF made[r].step = "run" THEN @ ELSE "failed"]
  PROVE  /\ made' \in Seq(Run) /\ Last' = Last
         /\ \A q \in 1..Last : q # r => made'[q] = made[q]
         /\ made[r].step = "run" => /\ made'[r].step = "run"
                                    /\ made'[r].exit = made[r].exit
         /\ made[r].step # "run" => /\ made'[r].step = "ended"
                                    /\ made'[r].exit = "failed"
         /\ made'[r].cell = made[r].cell
<1>1. made[r] \in Run
  BY RunIsTyped
<1>2. PICK x \in Run :
        /\ made' = [made EXCEPT ![r] = x]
        /\ made[r].step = "run" => x.step = "run" /\ x.exit = made[r].exit
        /\ made[r].step # "run" => x.step = "ended" /\ x.exit = "failed"
        /\ x.cell = made[r].cell
  <2> DEFINE a == [made[r] EXCEPT !.interrupted = TRUE]
             b == [a EXCEPT !.step = IF @ = "run" THEN @ ELSE "ended"]
             c == [b EXCEPT !.exit = IF made[r].step = "run" THEN @ ELSE "failed"]
  <2>1. /\ a \in Run
        /\ a.step = made[r].step /\ a.exit = made[r].exit /\ a.cell = made[r].cell
    BY Zenon, <1>1 DEF Run
  <2>2. /\ b \in Run
        /\ b.step = IF made[r].step = "run" THEN "run" ELSE "ended"
        /\ b.exit = made[r].exit /\ b.cell = made[r].cell
    <3> HIDE DEF a
    <3> QED BY <2>1 DEF Run
  <2>3. /\ c \in Run /\ c.step = b.step /\ c.cell = made[r].cell
        /\ c.exit = IF made[r].step = "run" THEN made[r].exit ELSE "failed"
    <3> HIDE DEF b
    <3> QED BY <2>2 DEF Run
  <2>4. made' = [[[made EXCEPT ![r] = a] EXCEPT ![r] = b] EXCEPT ![r] = c]
    BY Zenon DEF Types, Last
  <2>5. made' = [made EXCEPT ![r] = c]
    <3> HIDE DEF a, b, c
    <3> QED BY Zenon, <2>4
  <2> HIDE DEF c
  <2> QED BY Zenon, <2>2, <2>3, <2>5
<1>3. /\ made' \in Seq(Run) /\ Last' = Last
      /\ \A q \in 1..Last : made'[q] = IF q = r THEN x ELSE made[q]
  BY Zenon, <1>2, RunChanges
<1>4. made'[r] = x
  BY Zenon, <1>3
<1> QED BY Zenon, <1>2, <1>3, <1>4

\* Ctrl-C leaves no exit status 0 behind, and a run that goes on after it stays
\* the only one.
LEMMA InterruptKeeps == ASSUME Inv, Interrupt PROVE Inv'
<1>1. /\ pc \notin {"off", "done"} /\ pc' = "off"
      /\ UNCHANGED <<tool, queue, cell, force, dirs>>
  BY DEF Interrupt, files
<1>2. CASE UNCHANGED made
  <2>1. Types' /\ Queue' /\ Output' /\ AtCell'
    BY <1>1, <1>2 DEF Inv, Types, Queue, Output, AtCell, Last
  <2>2. Runs'
    BY <1>1, <1>2 DEF Inv, Runs, Live, Last
  <2> QED BY <2>1, <2>2 DEF Inv
<1>3. CASE ~UNCHANGED made
  <2>1. pc = "waiting" /\ Live(Last)
        /\ made' = [made EXCEPT ![Last].interrupted = TRUE,
                     ![Last].step = IF @ = "run" THEN @ ELSE "ended",
                     ![Last].exit = IF made[Last].step = "run" THEN @ ELSE "failed"]
    BY Zenon, <1>3 DEF Interrupt
  <2>2. Last \in 1..Last
    BY <2>1 DEF Inv, Types, AtCell, Last
  <2>3. /\ made' \in Seq(Run) /\ Last' = Last
        /\ \A q \in 1..Last : q # Last => made'[q] = made[q]
        /\ made[Last].step = "run" => /\ made'[Last].step = "run"
                                      /\ made'[Last].exit = made[Last].exit
        /\ made[Last].step # "run" => /\ made'[Last].step = "ended"
                                      /\ made'[Last].exit = "failed"
    BY Zenon, <2>1, <2>2, InterruptedRun DEF Inv
  <2>4. Types' /\ Queue'
    BY <1>1, <2>3 DEF Inv, Types, Queue
  <2>5. Runs'
    BY <1>1, <2>3 DEF Inv, Runs, RunnerSteps, Live
  <2>6. Output' /\ AtCell'
    BY <1>1, <2>2, <2>3 DEF Inv, Output, AtCell
  <2> QED BY <2>4, <2>5, <2>6 DEF Inv
<1> QED BY <1>2, <1>3

\* A run that is going on is the last one, and it writes into results/.
LEMMA LiveRun ==
  ASSUME Inv, NEW r \in 1..Last, \E s \in {"launch", "run", "samples", "meta"} : At(r, s)
  PROVE  /\ r = Last /\ Last # 0 /\ made[r].exit = "none"
         /\ pc \in {"off", "waiting"} /\ Place(r) = Results
         /\ dirs[Results] \in Dir
<1>1. Live(r)
  BY DEF At, Live
<1> QED BY <1>1 DEF Inv, Types, Runs, Place

\* What the run may do to its record and to results/ while the program stands
\* still.
LEMMA RunGoesOn ==
  ASSUME Inv, pc \in {"off", "waiting"}, Last # 0,
         UNCHANGED <<tool, pc, queue, cell, force>>,
         made' \in Seq(Run), Last' = Last,
         \A q \in 1..Last : q # Last => made'[q] = made[q],
         made'[Last].cell = made[Last].cell,
         made'[Last].step \in {"run", "samples", "meta", "ended"},
         made'[Last].step # "ended" => made'[Last].exit = "none",
         NEW d \in Dir, dirs' = [dirs EXCEPT ![Results] = d],
         d.samples \in {0, Last}, d.meta \in {0, Last},
         made'[Last].step = "meta" \/ made'[Last].exit = "ok" => d.meta = Last
  PROVE  Inv'
<1>1. dirs'[Results] = d /\ \A c \in Cells : dirs'[c] = dirs[c]
  BY CellsAreNaturals DEF Inv, Types
<1>2. Types' /\ Queue'
  BY Zenon DEF Inv, Types, Queue
<1>3. Runs'
  BY DEF Inv, Runs, RunnerSteps, Live
<1>4. Output'
  BY <1>1 DEF Output
<1>5. AtCell'
  BY <1>1 DEF Inv, AtCell, Types
<1> QED BY <1>2, <1>3, <1>4, <1>5 DEF Inv

\* Whatever the run does next, what is in results/ is still its own.
LEMMA RunStepKeeps ==
  ASSUME Inv, NEW r \in 1..Last, RunStep(r)
  PROVE  Inv'
<1>1. /\ r = Last /\ Last # 0 /\ made[r].exit = "none"
      /\ pc \in {"off", "waiting"} /\ Place(r) = Results
      /\ dirs[Results] \in Dir
  BY Zenon, LiveRun DEF RunStep, Launch, WriteSamples, WriteMeta, ExitWell, ExitFailing
<1>2. UNCHANGED <<tool, pc, queue, cell, force>>
  BY Zenon DEF RunStep, Launch, WriteSamples, WriteMeta, ExitWell, ExitFailing, driver
<1>3. dirs[Results].samples \in {0, Last} /\ dirs[Results].meta \in {0, Last}
  BY DEF Inv, Output
<1>4. Last \in Nat /\ made[Last] \in Run
  BY <1>1, RunIsTyped DEF Inv
<1>5. CASE Launch(r)
  <2>1. /\ made' \in Seq(Run) /\ Last' = Last
        /\ \A q \in 1..Last : q # Last => made'[q] = made[q]
        /\ made'[Last].cell = made[Last].cell
        /\ made'[Last].step = "run" /\ made'[Last].exit = "none"
    BY <1>1, <1>5, RunMoves DEF Launch, Inv, Steps
  <2> DEFINE e == IF tool = "qdrant"
                  THEN [dirs[Results] EXCEPT !.there = TRUE, !.samples = 0, !.meta = 0]
                  ELSE [dirs[Results] EXCEPT !.there = TRUE]
  <2>2. dirs' = [dirs EXCEPT ![Results] = e]
    BY Zenon, <1>1, <1>5 DEF Launch, Inv, Types
  <2>3. e \in Dir /\ e.samples \in {0, Last} /\ e.meta \in {0, Last}
    BY Zenon, <1>1, <1>3 DEF Dir
  <2> HIDE DEF e
  <2> QED BY Zenon, <1>1, <1>2, <2>1, <2>2, <2>3, RunGoesOn
<1>6. CASE WriteSamples(r)
  <2>1. /\ made' \in Seq(Run) /\ Last' = Last
        /\ \A q \in 1..Last : q # Last => made'[q] = made[q]
        /\ made'[Last].cell = made[Last].cell
        /\ made'[Last].step = "samples" /\ made'[Last].exit = "none"
    BY <1>1, <1>6, RunMoves DEF WriteSamples, Inv, Steps
  <2> DEFINE e == [dirs[Results] EXCEPT !.samples = Last]
  <2>2. dirs' = [dirs EXCEPT ![Results] = e]
    BY <1>1, <1>6 DEF WriteSamples
  <2>3. e \in Dir /\ e.samples \in {0, Last} /\ e.meta \in {0, Last}
    BY <1>1, <1>3, <1>4 DEF Dir
  <2> HIDE DEF e
  <2> QED BY Zenon, <1>1, <1>2, <2>1, <2>2, <2>3, RunGoesOn
<1>7. CASE WriteMeta(r)
  <2>1. PICK k \in BOOLEAN :
          made' = [made EXCEPT ![r].step = "meta", ![r].enough = k]
    BY Zenon, <1>7 DEF WriteMeta
  <2> DEFINE x == [made[r] EXCEPT !.step = "meta", !.enough = k]
  <2>2. x \in Run /\ x.step = "meta" /\ x.exit = "none" /\ x.cell = made[Last].cell
    BY Zenon, <1>1, <1>4 DEF Run
  <2>3. made' = [made EXCEPT ![r] = x]
    BY Zenon, <2>1
  <2> HIDE DEF x
  <2>4. /\ made' \in Seq(Run) /\ Last' = Last
        /\ \A q \in 1..Last : made'[q] = IF q = r THEN x ELSE made[q]
    BY Zenon, <2>2, <2>3, RunChanges DEF Inv
  <2>5. made'[Last] = x
    BY <1>1, <2>4
  <2> DEFINE e == [dirs[Results] EXCEPT !.meta = Last]
  <2>6. dirs' = [dirs EXCEPT ![Results] = e]
    BY <1>1, <1>7 DEF WriteMeta
  <2>7. e \in Dir /\ e.samples \in {0, Last} /\ e.meta = Last
    BY <1>1, <1>3, <1>4 DEF Dir
  <2> HIDE DEF e
  <2> QED BY Zenon, <1>1, <1>2, <2>2, <2>4, <2>5, <2>6, <2>7, RunGoesOn
<1>8. CASE ExitWell(r) \/ ExitFailing(r)
  <2>1. PICK x \in {"ok", "failed"} :
          /\ made' = [made EXCEPT ![r].step = "ended", ![r].exit = x]
          /\ x = "ok" => At(r, "meta")
    BY <1>8 DEF ExitWell, ExitFailing
  <2> DEFINE y == [made[r] EXCEPT !.step = "ended", !.exit = x]
  <2>2. y \in Run /\ y.step = "ended" /\ y.exit = x /\ y.cell = made[Last].cell
    BY Zenon, <1>1, <1>4 DEF Run
  <2>3. made' = [made EXCEPT ![r] = y]
    BY Zenon, <2>1
  <2> HIDE DEF y
  <2>4. /\ made' \in Seq(Run) /\ Last' = Last
        /\ \A q \in 1..Last : made'[q] = IF q = r THEN y ELSE made[q]
    BY Zenon, <2>2, <2>3, RunChanges DEF Inv
  <2>5. made'[Last] = y
    BY <1>1, <2>4
  <2>6. dirs' = [dirs EXCEPT ![Results] = dirs[Results]]
    BY <1>8 DEF ExitWell, ExitFailing, files, Inv, Types
  <2>7. x = "ok" => dirs[Results].meta = Last
    BY <1>1, <2>1 DEF At, Inv, Output
  <2> QED BY Zenon, <1>1, <1>2, <1>3, <2>2, <2>4, <2>5, <2>6, <2>7, RunGoesOn
<1> QED BY <1>5, <1>6, <1>7, <1>8 DEF RunStep

\* Before the first invocation there is no run and no directory.
LEMMA InitHolds == ASSUME Tools \subseteq {"sweep", "qdrant"}, Init PROVE Inv
<1>1. NoDir \in Dir
  BY DEF NoDir, Dir
<1>2. Types
  <2>1. << >> \in Seq(Run)
    OBVIOUS
  <2> QED BY Zenon, <1>1, <2>1, CellsAreNaturals DEF Init, Types
<1>3. Queue
  BY CellsAreNaturals DEF Init, Queue
<1>4. Last = 0
  BY DEF Init, Last
<1>5. dirs[Results] = NoDir
  BY DEF Init
<1>6. Runs /\ Output /\ AtCell
  BY <1>4, <1>5 DEF Init, Runs, Output, AtCell, NoDir
<1> QED BY <1>2, <1>3, <1>6 DEF Inv

\* Inv is inductive.
LEMMA StepHolds == ASSUME Inv, [Next]_vars PROVE Inv'
<1>1. CASE UNCHANGED vars
  BY <1>1 DEF vars, driver, files, Inv, Types, Queue, Runs, Live, Output, AtCell,
              Accepted, Last
<1>2. CASE Next
  BY <1>2, StepsTaken, InvocationKeeps, StartKeeps, CollectKeeps, SkipKeeps,
     NextSweepKeeps, InterruptKeeps, RemoveOldKeeps, MoveKeeps, RunStepKeeps DEF Inv
<1> QED BY <1>1, <1>2

(****************************************************************************)
(* The refinement: what the store holds and the runs that ended well.       *)
(****************************************************************************)

Filed == [c \in Cells |-> Counted(c)]
Goods == {<<r, made[r].cell>> : r \in {q \in 1..Last : Good(q)}}

\* For these two programs the store is the samples.csv of the cells' directories.
LEMMA FiledIsSamples ==
  ASSUME Inv, Inv'
  PROVE  /\ Filed = [c \in Cells |-> dirs[c].samples]
         /\ Filed' = [c \in Cells |-> dirs'[c].samples]
BY DEF Inv, Types, Filed, Counted

\* A step that leaves the cells' directories alone leaves the store alone.
LEMMA FiledSame ==
  ASSUME Inv, Inv', \A c \in Cells : dirs'[c] = dirs[c]
  PROVE  Filed' = Filed
<1>1. \A c \in Cells : Counted(c)' = Counted(c)
  BY DEF Inv, Types, Counted
<1> QED BY <1>1 DEF Filed

\* The runs that ended well stay the same when no exit status is set.
LEMMA GoodsSame ==
  ASSUME \A q \in 1..Last : /\ q \in 1..Last'
                            /\ Good(q)' <=> Good(q)
                            /\ made'[q].cell = made[q].cell,
         \A q \in 1..Last' : q \notin 1..Last => ~Good(q)'
  PROVE  Goods' = Goods
BY DEF Goods

Stutters == Filed' = Filed /\ Goods' = Goods /\ UNCHANGED force

\* A step that changes none of the three leaves ResultStore's state as it is.
LEMMA StutterIsStutter == Stutters => UNCHANGED Store!vars
BY DEF Stutters, Filed, Goods, Store!vars

\* An invocation is a request, with or without --force.
LEMMA InvocationMaps == ASSUME Inv, Inv', Invocation PROVE Store!Next
<1>1. UNCHANGED <<made, dirs, tool>> /\ force' \in BOOLEAN
  BY DEF Invocation, Invoked, files
<1>2. Filed' = Filed
  BY <1>1, FiledSame
<1>3. Goods' = Goods
  BY <1>1, GoodsSame, GoodIsAccepted DEF Accepted, Last, Inv, Types
<1> QED BY <1>1, <1>2, <1>3 DEF Filed, Goods, Store!Next, Store!Request

\* A run that starts has not ended well, and clearing results/ files nothing.
LEMMA StartMaps == ASSUME Inv, Inv', StartsRun PROVE Stutters
<1> DEFINE x == [cell |-> cell, step |-> "launch", exit |-> "none",
                 interrupted |-> FALSE, enough |-> FALSE]
<1>1. /\ made' = Append(made, x) /\ dirs' = [dirs EXCEPT ![Results] = NoDir]
      /\ UNCHANGED <<tool, force>>
  BY DEF StartsRun, Start
<1>2. x \in Run
  BY DEF Inv, Types, Run
<1>3. /\ Last' = Last + 1 /\ Last \in Nat
      /\ \A q \in 1..Last : made'[q] = made[q]
      /\ made'[Last'].exit = "none"
  BY <1>1, <1>2 DEF Inv, Types, Last
<1> HIDE DEF x
<1>4. \A c \in Cells : dirs'[c] = dirs[c]
  BY <1>1, CellsAreNaturals DEF Inv, Types
<1>5. ASSUME NEW q \in 1..Last
      PROVE  q \in 1..Last' /\ (Good(q)' <=> Good(q)) /\ made'[q].cell = made[q].cell
  <2>1. q \in 1..Last'
    BY <1>3
  <2>2. made'[q] = made[q]
    BY <1>3
  <2>3. Good(q)' <=> Good(q)
    BY <1>1, <2>2, GoodIsAccepted DEF Accepted, Inv, Types
  <2> QED BY <2>1, <2>2, <2>3
<1>6. ASSUME NEW q \in 1..Last', q \notin 1..Last
      PROVE  ~Good(q)'
  <2>1. q = Last'
    BY <1>3, <1>6
  <2>2. made'[q].exit = "none" /\ tool' # "reproduction"
    BY <1>3, <2>1 DEF Inv, Types
  <2> QED BY <2>2, GoodIsAccepted DEF Accepted, Inv, Types
<1>7. Goods' = Goods
  BY <1>5, <1>6, GoodsSame
<1>8. Filed' = Filed
  BY <1>4, FiledSame
<1> QED BY <1>1, <1>7, <1>8 DEF Stutters

\* The run that is going on ends well, for its own cell, or the store is left as
\* it is.
LEMMA LastRunMaps ==
  ASSUME Inv, Inv', NEW r \in 1..Last, Last' = Last, made[r].exit = "none",
         \A q \in 1..Last : q # r => made'[q] = made[q],
         made'[r].cell = made[r].cell,
         UNCHANGED <<tool, force>>, \A c \in Cells : dirs'[c] = dirs[c]
  PROVE  Stutters \/ Store!Next
<1>1. Filed' = Filed
  BY FiledSame
<1>2. ~Good(r)
  BY GoodIsAccepted DEF Accepted, Inv, Types
<1>3. \A q \in 1..Last : /\ q # r => (Good(q)' <=> Good(q))
                         /\ made'[q].cell = made[q].cell
  BY GoodIsAccepted DEF Accepted, Inv, Types
<1>4. CASE ~Good(r)'
  <2>1. Goods' = Goods
    BY <1>2, <1>3, <1>4, GoodsSame
  <2> QED BY <1>1, <2>1 DEF Stutters
<1>5. CASE Good(r)'
  <2>1. PICK c \in Cells : c = made[r].cell
    BY RunIsTyped DEF Inv, Run
  <2>2. Goods' = Goods \cup {<<r, c>>}
    BY <1>2, <1>3, <1>5, <2>1 DEF Goods
  <2>3. Store!Finish(c)
    BY <1>1, <2>2 DEF Filed, Goods, Store!Finish
  <2> QED BY <2>3 DEF Store!Next
<1> QED BY <1>4, <1>5

\* A step of the run is Finish for its cell, or no step of the store.
LEMMA RunStepMaps ==
  ASSUME Inv, Inv', NEW r \in 1..Last, RunStep(r)
  PROVE  Stutters \/ Store!Next
<1>1. made[r].exit = "none" /\ Place(r) = Results
  BY Zenon, LiveRun DEF RunStep, Launch, WriteSamples, WriteMeta, ExitWell, ExitFailing
<1>2. UNCHANGED <<tool, force>>
  BY Zenon DEF RunStep, Launch, WriteSamples, WriteMeta, ExitWell, ExitFailing, driver
<1>3. \A c \in Cells : dirs'[c] = dirs[c]
  BY Zenon, <1>1, CellsAreNaturals
     DEF RunStep, Launch, WriteSamples, WriteMeta, ExitWell, ExitFailing, files,
         Inv, Types
<1>4. PICK x \in Run : made' = [made EXCEPT ![r] = x] /\ x.cell = made[r].cell
  <2>1. made[r] \in Run
    BY RunIsTyped DEF Inv
  <2>2. CASE Launch(r) \/ WriteSamples(r)
    <3>1. PICK s \in {"run", "samples"} : Becomes(r, s)
      BY <2>2 DEF Launch, WriteSamples
    <3> DEFINE y == [made[r] EXCEPT !.step = s]
    <3>2. y \in Run /\ y.cell = made[r].cell
      BY <2>1 DEF Run
    <3>3. made' = [made EXCEPT ![r] = y]
      BY <3>1 DEF Becomes
    <3> HIDE DEF y
    <3> QED BY Zenon, <3>2, <3>3
  <2>3. CASE WriteMeta(r)
    <3>1. PICK k \in BOOLEAN :
            made' = [made EXCEPT ![r].step = "meta", ![r].enough = k]
      BY Zenon, <2>3 DEF WriteMeta
    <3> DEFINE y == [made[r] EXCEPT !.step = "meta", !.enough = k]
    <3>2. y \in Run /\ y.cell = made[r].cell
      BY Zenon, <2>1 DEF Run
    <3>3. made' = [made EXCEPT ![r] = y]
      BY Zenon, <3>1
    <3> HIDE DEF y
    <3> QED BY Zenon, <3>2, <3>3
  <2>4. CASE ExitWell(r) \/ ExitFailing(r)
    <3>1. PICK e \in {"ok", "failed"} :
            made' = [made EXCEPT ![r].step = "ended", ![r].exit = e]
      BY <2>4 DEF ExitWell, ExitFailing
    <3> DEFINE y == [made[r] EXCEPT !.step = "ended", !.exit = e]
    <3>2. y \in Run /\ y.cell = made[r].cell
      BY Zenon, <2>1 DEF Run
    <3>3. made' = [made EXCEPT ![r] = y]
      BY Zenon, <3>1
    <3> HIDE DEF y
    <3> QED BY Zenon, <3>2, <3>3
  <2> QED BY <2>2, <2>3, <2>4 DEF RunStep
<1>5. /\ Last' = Last
      /\ \A q \in 1..Last : made'[q] = IF q = r THEN x ELSE made[q]
  BY Zenon, <1>4, RunChanges DEF Inv
<1>6. made'[r].cell = made[r].cell
  BY <1>4, <1>5
<1> QED BY <1>1, <1>2, <1>3, <1>5, <1>6, LastRunMaps

\* An interrupt files nothing and makes no run good.
LEMMA InterruptMaps == ASSUME Inv, Inv', Interrupt PROVE Stutters \/ Store!Next
<1>1. UNCHANGED <<tool, force, dirs>>
  BY DEF Interrupt, files
<1>2. CASE UNCHANGED made
  <2>1. Filed' = Filed
    BY <1>1, FiledSame
  <2>2. Goods' = Goods
    BY <1>1, <1>2, GoodIsAccepted DEF Goods, Accepted, Last, Inv, Types
  <2> QED BY <1>1, <2>1, <2>2 DEF Stutters
<1>3. CASE ~UNCHANGED made
  <2>1. pc = "waiting" /\ Live(Last)
        /\ made' = [made EXCEPT ![Last].interrupted = TRUE,
                     ![Last].step = IF @ = "run" THEN @ ELSE "ended",
                     ![Last].exit = IF made[Last].step = "run" THEN @ ELSE "failed"]
    BY Zenon, <1>3 DEF Interrupt
  <2>2. Last \in 1..Last /\ made[Last].exit = "none"
    BY <2>1 DEF Inv, Types, AtCell, Runs, Last
  <2>3. /\ Last' = Last /\ made'[Last].cell = made[Last].cell
        /\ \A q \in 1..Last : q # Last => made'[q] = made[q]
    BY Zenon, <2>1, <2>2, InterruptedRun DEF Inv
  <2>4. PICK r \in 1..Last : r = Last
    BY <2>2
  <2> QED BY <1>1, <2>2, <2>3, <2>4, LastRunMaps
<1> QED BY <1>2, <1>3

\* Reading the exit status changes neither the store nor the standing of a run.
LEMMA CollectMaps == ASSUME Inv, Inv', Collects PROVE Stutters
<1>1. Last \in 1..Last
  BY DEF Collects, At
<1>2. /\ Last' = Last
      /\ \A q \in 1..Last : q # Last => made'[q] = made[q]
      /\ made'[Last].step = "over" /\ made'[Last].exit = made[Last].exit
      /\ made'[Last].cell = made[Last].cell /\ made'[Last].enough = made[Last].enough
  BY <1>1, RunMoves DEF Collects, Inv, Steps
<1>3. UNCHANGED <<tool, force, dirs>>
  BY DEF Collects, files, Advance
<1>4. ASSUME NEW q \in 1..Last
      PROVE  (Good(q)' <=> Good(q)) /\ made'[q].cell = made[q].cell
  BY <1>2, <1>3, GoodIsAccepted DEF Accepted, Inv, Types
<1>5. Goods' = Goods
  BY <1>2, <1>4, GoodsSame
<1>6. Filed' = Filed
  BY <1>3, FiledSame
<1> QED BY <1>3, <1>5, <1>6 DEF Stutters

\* A skipped cell keeps what it has.
LEMMA SkipMaps == ASSUME Inv, Inv', Skip \/ NextSweep PROVE Stutters
<1>1. UNCHANGED <<tool, force, made, dirs>>
  BY DEF Skip, NextSweep, Advance, files
<1>2. Filed' = Filed
  BY <1>1, FiledSame
<1>3. Goods' = Goods
  BY <1>1, GoodIsAccepted DEF Goods, Accepted, Last, Inv, Types
<1> QED BY <1>1, <1>2, <1>3 DEF Stutters

\* rmtree is Drop under --force; without it there was nothing in the directory.
LEMMA RemoveOldMaps == ASSUME Inv, Inv', RemoveOld PROVE Stutters \/ Store!Next
<1>1. /\ pc = "replace" /\ dirs' = [dirs EXCEPT ![cell] = NoDir] /\ cell \in Cells
      /\ UNCHANGED <<tool, force, made>>
  BY DEF RemoveOld, Inv, Types
<1>2. Goods' = Goods
  BY <1>1, GoodIsAccepted DEF Goods, Accepted, Last, Inv, Types
<1>3. \A c \in Cells : dirs'[c].samples = IF c = cell THEN 0 ELSE dirs[c].samples
  BY <1>1 DEF Inv, Types, NoDir
<1>4. /\ Filed = [c \in Cells |-> dirs[c].samples]
      /\ Filed' = [c \in Cells |-> dirs'[c].samples]
  BY FiledIsSamples
<1>5. CASE dirs[cell].samples = 0
  BY <1>1, <1>2, <1>3, <1>4, <1>5 DEF Stutters
<1>6. CASE force
  <2>1. Filed' = [Filed EXCEPT ![cell] = 0]
    BY <1>3, <1>4
  <2>2. Store!Drop(cell)
    BY <1>1, <1>2, <1>6, <2>1 DEF Filed, Goods, Store!Drop, Store!None
  <2> QED BY <1>1, <2>2 DEF Store!Next
<1> QED BY <1>1, <1>5, <1>6 DEF Inv, AtCell

\* The move is File: the destination is gone, so the directory does not nest.
LEMMA MoveMaps == ASSUME Inv, Inv', MoveResults PROVE Store!Next
<1>1. /\ pc = "move" /\ cell \in Cells
      /\ dirs' = [dirs EXCEPT ![cell] = IF @.there THEN @ ELSE dirs[Results],
                              ![Results] = NoDir]
      /\ UNCHANGED <<tool, force, made>>
  BY DEF MoveResults, Advance, Inv, Types
<1>2. Goods' = Goods
  BY <1>1, GoodIsAccepted DEF Goods, Accepted, Last, Inv, Types
<1>3. /\ dirs[cell] = NoDir /\ Good(Last) /\ dirs[Results].samples = Last
      /\ made[Last].cell = cell /\ Last # 0
  BY <1>1, GoodIsAccepted DEF Inv, AtCell
<1>4. \A c \in Cells : dirs'[c].samples = IF c = cell THEN Last ELSE dirs[c].samples
  BY <1>1, <1>3, CellsAreNaturals DEF Inv, Types, NoDir
<1>5. /\ Filed = [c \in Cells |-> dirs[c].samples]
      /\ Filed' = [c \in Cells |-> dirs'[c].samples]
  BY FiledIsSamples
<1>6. Filed' = [Filed EXCEPT ![cell] = Last] /\ Filed[cell] = 0
  <2>1. Filed' = [Filed EXCEPT ![cell] = Last]
    BY Zenon, <1>1, <1>4, <1>5
  <2>2. dirs[cell].samples = 0
    BY <1>3 DEF NoDir
  <2> QED BY Zenon, <1>1, <1>5, <2>1, <2>2
<1>7. <<Last, cell>> \in Goods
  <2>1. Last \in 1..Last
    BY <1>3 DEF Inv, Types, Last
  <2> QED BY <1>3, <2>1 DEF Goods
<1>8. PICK c \in Cells : c = cell
  BY <1>1
<1>9. Store!File(c)
  <2>1. \E p \in Goods' : p[2] = c /\ Filed' = [Filed EXCEPT ![c] = p[1]]
    BY Zenon, <1>2, <1>6, <1>7, <1>8
  <2>2. Goods \subseteq Goods' /\ \A p \in Goods' \ Goods : p[2] = c
    BY <1>2
  <2>3. Filed[c] = 0
    BY Zenon, <1>6, <1>8
  <2> QED BY Zenon, <1>1, <2>1, <2>2, <2>3 DEF Filed, Goods, Store!File, Store!None
<1> QED BY <1>9 DEF Store!Next

\* Every step of the programs is a step of ResultStore or leaves its state as it
\* is.
LEMMA StepMaps == ASSUME Inv, Inv', [Next]_vars PROVE [Store!Next]_Store!vars
<1>1. CASE UNCHANGED vars
  <2>1. Filed' = Filed
    BY <1>1, FiledSame DEF vars, files
  <2>2. Goods' = Goods /\ UNCHANGED force
    BY <1>1, GoodIsAccepted DEF vars, driver, Goods, Accepted, Last, Inv, Types
  <2> QED BY <2>1, <2>2, StutterIsStutter DEF Stutters
<1>2. CASE Next
  <2>1. Stutters \/ Store!Next
    BY <1>2, StepsTaken, InvocationMaps, StartMaps, CollectMaps, SkipMaps,
       InterruptMaps, RemoveOldMaps, MoveMaps, RunStepMaps DEF Inv
  <2> QED BY <2>1, StutterIsStutter
<1> QED BY <1>1, <1>2

\* run_one of sweep.py and of qdrant_sweep.py: for every number of cells and of
\* interrupted, failed and resumed sweeps, a cell's directory only ever goes from
\* nothing to the output of one accepted run made for that cell, and is replaced
\* only under --force.
THEOREM StoreKept ==
  ASSUME Tools \subseteq {"sweep", "qdrant"}
  PROVE  Spec => StoreIsKept
<1>1. Init => Inv
  BY InitHolds
<1>2. Init => Store!Init
  <2> SUFFICES ASSUME Init PROVE Store!Init
    OBVIOUS
  <2>1. \A c \in Cells : Counted(c) = 0
    BY <1>1 DEF Inv, Types, Counted, Init, NoDir
  <2>2. Last = 0
    BY DEF Init, Last
  <2> QED BY <2>1, <2>2 DEF Init, Store!Init, Store!None
<1>3. Inv /\ [Next]_vars => Inv'
  BY StepHolds
<1>4. Inv /\ Inv' /\ [Next]_vars => [Store!Next]_Store!vars
  BY StepMaps
<1> QED BY <1>1, <1>2, <1>3, <1>4, PTL DEF Spec, StoreIsKept, Store!Spec
================================================================================
