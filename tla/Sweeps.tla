--------------------------------- MODULE Sweeps ---------------------------------
(****************************************************************************)
(* The four programs that make one experiment run per cell, a cell being a  *)
(* seed and a condition, and file its output: replica_recall/sweep.py,      *)
(* cross_system_replication/qdrant_sweep.py, qdrant_index_gate/sweep_gate.py*)
(* and layer1_reproduction/run_reproduction.py.  The experiment is a        *)
(* process of its own that writes samples.csv, then run_meta.json, and      *)
(* exits; here only the files it leaves and the status it exits with        *)
(* matter.  The user may interrupt a program and invoke it again.  The      *)
(* sweeps of qdrant_gated_index_recall and qdrant_index_recall_healing call *)
(* qdrant_sweep.py with fixed arguments, the latter for one condition after *)
(* the other.                                                               *)
(****************************************************************************)
EXTENDS Naturals, Sequences

CONSTANTS Tools,          \* the programs considered, one of them per behaviour
          NumCells,
          ChaosCells,     \* the cells whose condition injects faults
          Resumed,        \* the programs interrupted, or invoked again
          MaxSweeps       \* bound: invocations of the program

ASSUME SweepsAssumption ==
  /\ Tools \subseteq {"sweep", "qdrant", "gate", "reproduction", "forensics"}
  /\ NumCells \in Nat \ {0}
  /\ ChaosCells \subseteq 1..NumCells
  /\ MaxSweeps \in Nat

Cells == 1..NumCells
Results == 0                         \* the fixed results/ directory of a runner

VARIABLES tool,           \* the program
          pc,             \* where it is
          queue,          \* the cells of this sweep, and of those it starts next
          cell,           \* the cell its loop has reached
          force,          \* --force
          outcome,        \* what it reported of each cell
          sweeps,         \* invocations so far
          made,           \* every run made, in order
          dirs,           \* results/ and each cell's directory
          marker,         \* reproduction: /tmp/cell_*.done in the container
          mount           \* reproduction: runs copied back to the bind mount

driver == <<tool, pc, queue, cell, force, outcome, sweeps>>
files == <<dirs, marker, mount>>
vars == <<driver, made, files>>

\* A directory: the run that wrote each file, 0 for a file that is not there.
NoDir == [there |-> FALSE, samples |-> 0, meta |-> 0, gated |-> 0]

Last == Len(made)
Live(r) == made[r].step \notin {"ended", "over"}
Place(r) == IF tool = "gate" THEN made[r].cell ELSE Results
At(r, s) == r \in 1..Last /\ made[r].step = s

Init == /\ tool \in Tools
        /\ pc = "off"
        /\ queue = <<Cells>>
        /\ cell = 1
        /\ force = FALSE
        /\ outcome = [c \in Cells |-> "none"]
        /\ sweeps = 0
        /\ made = << >>
        /\ dirs = [d \in Cells \cup {Results} |-> NoDir]
        /\ marker = [c \in Cells |-> FALSE]
        /\ mount = [c \in Cells |-> 0]

(****************************************************************************)
(* The experiment process.                                                  *)
(****************************************************************************)

Becomes(r, s) == made' = [made EXCEPT ![r].step = s]

\* The runner starts: it makes its directory; the Qdrant one also removes the
\* files an earlier run left in it, but not that run's gate failure.
Launch(r) ==
  /\ At(r, "launch")
  /\ dirs' = [dirs EXCEPT ![Place(r)] =
                IF tool \in {"qdrant", "gate"}
                THEN [@ EXCEPT !.there = TRUE, !.samples = 0, !.meta = 0]
                ELSE [@ EXCEPT !.there = TRUE]]
  /\ Becomes(r, "run")
  /\ UNCHANGED <<driver, marker, mount>>

\* samples.csv; a run interrupted during its phases comes here early.
WriteSamples(r) ==
  /\ At(r, "run")
  /\ dirs[Place(r)].there
  /\ dirs' = [dirs EXCEPT ![Place(r)].samples = r]
  /\ Becomes(r, "samples")
  /\ UNCHANGED <<driver, marker, mount>>

\* run_meta.json, with whether enough happened in the run: a kill if there was
\* chaos, and for sweep_gate.py the writes that the cell asks for.
WriteMeta(r) ==
  /\ At(r, "samples")
  /\ dirs[Place(r)].there
  /\ dirs' = [dirs EXCEPT ![Place(r)].meta = r]
  /\ \E e \in (IF tool = "gate" \/ made[r].cell \in ChaosCells THEN BOOLEAN ELSE {TRUE}) :
       made' = [made EXCEPT ![r].step = "meta", ![r].enough = e]
  /\ UNCHANGED <<driver, marker, mount>>

\* The cluster is torn down and the process returns 0.
ExitWell(r) ==
  /\ At(r, "meta")
  /\ made' = [made EXCEPT ![r].step = "ended", ![r].exit = "ok"]
  /\ UNCHANGED <<driver, files>>

\* The cluster does not come up, a write or the teardown raises.
ExitFailing(r) ==
  /\ \E s \in {"run", "samples", "meta"} : At(r, s)
  /\ made' = [made EXCEPT ![r].step = "ended", ![r].exit = "failed"]
  /\ UNCHANGED <<driver, files>>

\* The gate never closes: index_gate_failed.json, exit status 3.
ExitGated(r) ==
  /\ tool = "gate"
  /\ At(r, "run")
  /\ made' = [made EXCEPT ![r].step = "ended", ![r].exit = "gated"]
  /\ dirs' = [dirs EXCEPT ![Place(r)].gated = r]
  /\ UNCHANGED <<driver, marker, mount>>

(****************************************************************************)
(* The shell a cell of run_reproduction runs in: it removes the marker,     *)
(* clears results/, runs the experiment, whatever its exit status files     *)
(* what there is, and touches the marker.                                   *)
(****************************************************************************)

RemoveMarker(r) ==
  /\ At(r, "marker")
  /\ marker' = [marker EXCEPT ![made[r].cell] = FALSE]
  /\ Becomes(r, "clear")
  /\ UNCHANGED <<driver, dirs, mount>>

ClearResults(r) ==
  /\ At(r, "clear")
  /\ dirs' = [dirs EXCEPT ![Results] = NoDir]
  /\ Becomes(r, "launch")
  /\ UNCHANGED <<driver, marker, mount>>

\* mv nests the directory in a destination that exists: nothing there changes.
FileInShell(r) ==
  LET c == made[r].cell IN
  /\ tool = "reproduction"
  /\ At(r, "ended")
  /\ IF dirs[Results].samples = 0 THEN UNCHANGED dirs
     ELSE dirs' = [dirs EXCEPT ![c] = IF @.there THEN @ ELSE dirs[Results],
                               ![Results] = NoDir]
  /\ Becomes(r, "filed")
  /\ UNCHANGED <<driver, marker, mount>>


TouchMarker(r) ==
  /\ At(r, "filed")
  /\ marker' = [marker EXCEPT ![made[r].cell] = TRUE]
  /\ Becomes(r, "over")
  /\ UNCHANGED <<driver, dirs, mount>>

(****************************************************************************)
(* The loop over the cells.                                                 *)
(****************************************************************************)

Least(S) == CHOOSE c \in S : \A d \in S : c <= d
Later == {c \in Head(queue) : c > cell}

Advance(o) ==
  /\ outcome' = [outcome EXCEPT ![cell] = o]
  /\ cell' = IF Later # {} THEN Least(Later) ELSE cell
  /\ pc' = IF Later # {} THEN "cell"
           ELSE IF tool = "reproduction" THEN "swept"
           ELSE IF Len(queue) > 1 THEN "next" ELSE "done"
  /\ UNCHANGED <<tool, queue, force, sweeps>>

Start(step) ==
  /\ made' = Append(made, [cell |-> cell, step |-> step, exit |-> "none",
                           interrupted |-> FALSE, enough |-> FALSE])
  /\ pc' = "waiting"
  /\ UNCHANGED <<tool, queue, cell, force, outcome, sweeps, marker, mount>>

\* The program is started, again if it may be resumed; what its arguments can
\* change of the loop is --force and which cells it goes through.
Invoked(forcing, sets, first) ==
  /\ pc \in {"off", "done"}
  /\ sweeps < (IF tool \in Resumed THEN MaxSweeps ELSE 1)
  /\ sweeps' = sweeps + 1
  /\ force' \in forcing
  /\ pc' = first
  /\ queue' \in sets
  /\ cell' = Least(Head(queue'))
  /\ outcome' = [c \in Cells |-> "none"]
  /\ UNCHANGED <<tool, made, files>>

\* Started from a shell, so after the runner that held it is gone.
NoRunner == \A r \in 1..Last : ~Live(r)

Controls == Cells \ ChaosCells
Only == {<<S>> : S \in {Cells, Controls, ChaosCells} \ {{}}}     \* --only

\* The sweep of qdrant_index_recall_healing: the baseline, then the quiesce
\* condition.
BothInTurn == IF {} \in {Controls, ChaosCells} THEN {} ELSE {<<Controls, ChaosCells>>}

InvokeSweep == tool = "sweep" /\ NoRunner /\ Invoked(BOOLEAN, Only, "cell")
InvokeQdrant == tool = "qdrant" /\ NoRunner /\ Invoked(BOOLEAN, Only, "cell")
InvokeGated ==
  tool = "qdrant" /\ NoRunner /\ Invoked(BOOLEAN, {<<Cells>>}, "cell")
InvokeHealing ==
  tool = "qdrant" /\ NoRunner /\ Invoked({FALSE}, Only \cup BothInTurn, "cell")
InvokeGate == tool = "gate" /\ NoRunner /\ Invoked({FALSE}, Only, "cell")
InvokeReproduction == tool = "reproduction" /\ Invoked({FALSE}, {<<Cells>>}, "deps")

\* rc or run("quiesce"): the next sweep starts if this one returned 0.
NextSweep ==
  /\ pc = "next"
  /\ IF \E c \in Head(queue) : outcome[c] = "failed"
     THEN pc' = "done" /\ UNCHANGED <<queue, cell>>
     ELSE /\ pc' = "cell"
          /\ queue' = Tail(queue)
          /\ cell' = Least(Head(queue'))
  /\ UNCHANGED <<tool, force, outcome, sweeps, made, files>>

\* Ctrl-C reaches the program and the runner it waits for.  A runner in its
\* phases ends them early and writes its files; at any other point it dies.
\* A cell of run_reproduction is detached and goes on.
Interrupt ==
  /\ tool \in Resumed
  /\ pc \notin {"off", "done"}
  /\ pc' = "off"
  /\ IF tool = "reproduction" \/ pc # "waiting" \/ ~Live(Last)
     THEN UNCHANGED made
     ELSE made' = [made EXCEPT ![Last].interrupted = TRUE,
                     ![Last].step = IF @ = "run" THEN @ ELSE "ended",
                     ![Last].exit = IF made[Last].step = "run" THEN @ ELSE "failed"]
  /\ UNCHANGED <<tool, queue, cell, force, outcome, sweeps, files>>

\* sweep.py, run_one: skip, or clear results/ and run.
SweepSkips == tool = "sweep" /\ dirs[cell].samples # 0 /\ ~force

SweepStart ==
  /\ tool = "sweep" /\ pc = "cell"
  /\ ~SweepSkips
  /\ dirs' = [dirs EXCEPT ![Results] = NoDir]
  /\ Start("launch")

\* Mutant: the exit status is not looked at.
SweepAccepts_AnyExit == dirs[Results].samples # 0

\* The exit status, then whether samples.csv is there.
SweepAccepts == made[Last].exit = "ok" /\ dirs[Results].samples # 0

SweepCollect ==
  /\ tool = "sweep" /\ pc = "waiting"
  /\ At(Last, "ended")
  /\ IF SweepAccepts
     THEN pc' = "replace" /\ UNCHANGED <<tool, queue, cell, force, outcome, sweeps>>
     ELSE Advance("failed")
  /\ Becomes(Last, "over")
  /\ UNCHANGED files

\* qdrant_sweep.py, run_one: as sweep.py, and a run with chaos in which no
\* kill completed is refused.
QdrantSkips == tool = "qdrant" /\ dirs[cell].samples # 0 /\ ~force

QdrantStart ==
  /\ tool = "qdrant" /\ pc = "cell"
  /\ ~QdrantSkips
  /\ dirs' = [dirs EXCEPT ![Results] = NoDir]
  /\ Start("launch")

QdrantAccepts ==
  /\ made[Last].exit = "ok"
  /\ dirs[Results].samples # 0
  /\ (cell \in ChaosCells /\ dirs[Results].meta # 0)
       => made[dirs[Results].meta].enough

QdrantCollect ==
  /\ tool = "qdrant" /\ pc = "waiting"
  /\ At(Last, "ended")
  /\ IF QdrantAccepts
     THEN pc' = "replace" /\ UNCHANGED <<tool, queue, cell, force, outcome, sweeps>>
     ELSE Advance("failed")
  /\ Becomes(Last, "over")
  /\ UNCHANGED files

\* Mutant: the old directory is left where it is.
RemoveOld_Kept ==
  /\ pc = "replace"
  /\ pc' = "move"
  /\ UNCHANGED <<tool, queue, cell, force, outcome, sweeps, made, dirs, marker, mount>>

\* Both: rmtree(dest), then move results/ there; a move into a directory that
\* exists nests.
RemoveOld ==
  /\ pc = "replace"
  /\ dirs' = [dirs EXCEPT ![cell] = NoDir]
  /\ pc' = "move"
  /\ UNCHANGED <<tool, queue, cell, force, outcome, sweeps, made, marker, mount>>

MoveResults ==
  /\ pc = "move"
  /\ dirs' = [dirs EXCEPT ![cell] = IF @.there THEN @ ELSE dirs[Results],
                          ![Results] = NoDir]
  /\ Advance("ok")
  /\ UNCHANGED <<made, marker, mount>>

\* sweep_gate.py, run_one: the runner writes into the cell's own directory.
GateSkips == tool = "gate" /\ (dirs[cell].meta # 0 \/ dirs[cell].gated # 0)

GateStart ==
  /\ tool = "gate" /\ pc = "cell"
  /\ ~GateSkips
  /\ dirs' = [dirs EXCEPT ![cell].there = TRUE]
  /\ Start("launch")

GateVerdict ==
  CASE made[Last].exit = "gated" /\ dirs[cell].gated # 0 -> "gated"
    [] made[Last].exit = "ok" /\ dirs[cell].samples # 0 /\ dirs[cell].meta # 0
       /\ made[dirs[cell].meta].cell = cell /\ made[dirs[cell].meta].enough -> "ok"
    [] OTHER -> "failed"

GateCollect ==
  /\ tool = "gate" /\ pc = "waiting"
  /\ At(Last, "ended")
  /\ Advance(GateVerdict)
  /\ Becomes(Last, "over")
  /\ UNCHANGED files

\* run_reproduction.py asks done_in_work.
ReproductionSkips == tool = "reproduction" /\ dirs[cell].samples # 0

Skip ==
  /\ pc = "cell"
  /\ SweepSkips \/ QdrantSkips \/ GateSkips \/ ReproductionSkips
  /\ Advance("skip")
  /\ UNCHANGED <<made, files>>

(****************************************************************************)
(* run_reproduction.py: the stages, and the cells of the sweep stage.       *)
(****************************************************************************)

\* A stage whose command fails raises and ends the program.
StageFails ==
  /\ pc \in {"deps", "build", "corpus"}
  /\ pc' = "off"
  /\ UNCHANGED <<tool, queue, cell, force, outcome, sweeps, made, files>>

\* rsync --delete removes from the container what the mount does not have,
\* results/ among it; the filed cells are excluded.
SyncToWork == dirs' = [dirs EXCEPT ![Results] = NoDir]

\* Every cell's directory is copied back to the mount, replacing its files.
SyncResultsBack ==
  mount' = [c \in Cells |-> IF dirs[c].there THEN dirs[c].samples ELSE mount[c]]

StageDeps ==
  /\ pc = "deps"
  /\ SyncToWork
  /\ pc' = "build"
  /\ UNCHANGED <<tool, queue, cell, force, outcome, sweeps, made, marker, mount>>

StageBuild ==
  /\ pc = "build" /\ pc' = "corpus"
  /\ UNCHANGED <<tool, queue, cell, force, outcome, sweeps, made, files>>

StageCorpus ==
  /\ pc = "corpus" /\ pc' = "cell"
  /\ UNCHANGED <<tool, queue, cell, force, outcome, sweeps, made, files>>

\* run_cell_detached: docker exec -d, then poll for the marker.
StartDetached ==
  /\ tool = "reproduction" /\ pc = "cell"
  /\ ~ReproductionSkips
  /\ UNCHANGED dirs
  /\ Start("marker")

SeeMarker ==
  /\ tool = "reproduction" /\ pc = "waiting"
  /\ marker[cell]
  /\ pc' = "check"
  /\ UNCHANGED <<tool, queue, cell, force, outcome, sweeps, made, files>>

\* done_in_work decides.
CheckCell ==
  /\ pc = "check"
  /\ SyncResultsBack
  /\ Advance(IF dirs[cell].samples # 0 THEN "ok" ELSE "failed")
  /\ UNCHANGED <<made, dirs, marker>>

\* A failed cell ends the program here; otherwise the analysis is written
\* among the results and they are copied back once more.
StageAnalyse ==
  /\ pc = "swept"
  /\ IF \E c \in Cells : outcome[c] = "failed" THEN UNCHANGED mount
     ELSE SyncResultsBack
  /\ pc' = "done"
  /\ UNCHANGED <<tool, queue, cell, force, outcome, sweeps, made, dirs, marker>>

Experiment(r) ==
  \/ Launch(r) \/ WriteSamples(r) \/ WriteMeta(r)
  \/ ExitWell(r) \/ ExitFailing(r) \/ ExitGated(r)
  \/ RemoveMarker(r) \/ ClearResults(r) \/ FileInShell(r) \/ TouchMarker(r)

Program ==
  \/ Skip \/ NextSweep \/ SweepStart \/ SweepCollect \/ QdrantStart \/ QdrantCollect
  \/ RemoveOld \/ MoveResults \/ GateStart \/ GateCollect
  \/ StageFails \/ StageDeps \/ StageBuild \/ StageCorpus
  \/ StartDetached \/ SeeMarker \/ CheckCell \/ StageAnalyse

Next ==
  \/ InvokeSweep \/ InvokeQdrant \/ InvokeGated \/ InvokeHealing
  \/ InvokeGate \/ InvokeReproduction
  \/ Interrupt \/ Program
  \/ \E r \in 1..Last : Experiment(r)

Spec == Init /\ [][Next]_vars

(****************************************************************************)
(* What is checked.                                                         *)
(****************************************************************************)

Dir == [there : BOOLEAN, samples : Nat, meta : Nat, gated : Nat]
Run == [cell : Cells, interrupted : BOOLEAN, enough : BOOLEAN,
        step : {"marker", "clear", "launch", "run", "samples", "meta",
                "ended", "filed", "over"},
        exit : {"none", "ok", "failed", "gated"}]

\* The run whose output the analysis of a cell reads.  analyze_gate.py goes by
\* the files alone: run_meta.json, or else the gate that did not close.
Counted(c) == CASE tool = "reproduction" -> mount[c]
                [] tool = "gate" -> IF dirs[c].meta # 0 THEN dirs[c].meta ELSE dirs[c].gated
                [] OTHER -> dirs[c].samples

\* What each program accepts as a run: run_reproduction asks for samples.csv
\* alone, the analysis of the gate sweep for a file of the run, the others for
\* exit status 0, qdrant_sweep also for a kill.
Accepted(r) == /\ made[r].exit = "ok"
               /\ (tool = "qdrant" /\ made[r].cell \in ChaosCells) => made[r].enough
Good(r) == CASE tool = "reproduction" ->
                  made[r].step \in {"samples", "meta", "ended", "filed", "over"}
             [] tool = "gate" -> r \in {dirs[made[r].cell].meta, dirs[made[r].cell].gated}
             [] OTHER -> Accepted(r)

Store == INSTANCE ResultStore
         WITH filed <- [c \in Cells |-> Counted(c)],
              good <- {<<r, made[r].cell>> : r \in {q \in 1..Last : Good(q)}},
              replacing <- force

\* run_one and stage_sweep: through failures, interrupts and resumed sweeps, a
\* cell's directory only ever goes from nothing to the output of one run that
\* was made for that cell and accepted, and changes again only under --force.
StoreIsKept == Store!Spec

\* What a sweep that went through all its cells said of them is so: a cell
\* reported ok, or as one whose gate did not close, holds a run made by this very
\* sweep, and a skipped one holds a run made for it.  Two removals and a move stand
\* between the run and the report.  A cell that sweep.py or qdrant_sweep.py reports
\* as failed has nothing to be counted, unless --force left an earlier run there.
\* Of sweep_gate.py that is not claimed: a run that fails after run_meta.json, or
\* whose metadata are not as asked for, is reported as failed, and counted.
ReportIsTrue ==
  pc = "done" =>
    \A c \in Cells :
      /\ outcome[c] \in {"ok", "gated", "skip"} => Counted(c) # 0 /\ made[Counted(c)].cell = c
      /\ outcome[c] \in {"ok", "gated"} =>
           \A r \in 1..Last : made[r].cell = c => r <= Counted(c)
      /\ outcome[c] = "failed" /\ tool \in {"sweep", "qdrant"} => Counted(c) = 0 \/ force

================================================================================
