------------------------------- MODULE Forensics -------------------------------
(****************************************************************************)
(* replica_recall/forensics_experiment.py, a fifth program of the family of *)
(* Sweeps: it makes a run per cell and then reads the index files the run's *)
(* replicas left in chaos_run/ (GraphForensics says what it finds there),   *)
(* and the kills in results/events.json.  Its findings are one JSON file,   *)
(* rewritten whole after every run.  Nothing clears results/ between runs.  *)
(****************************************************************************)
EXTENDS Sweeps

VARIABLES append,         \* --append
          results,        \* the list main holds
          OUT_JSON        \* forensics_results.json

study == <<append, results, OUT_JSON>>
allVars == <<vars, study>>

\* The runner empties chaos_run/ when it starts, so the files there are those
\* of the last run that got so far; events.json is written with samples.csv.
OnDisk == CHOOSE r \in 1..Last :
            /\ made[r].step # "launch"
            /\ \A q \in r+1..Last : made[q].step = "launch"
Events == dirs[Results].samples

ForensicsInit == /\ Init
                 /\ append = FALSE
                 /\ results = << >>
                 /\ OUT_JSON = [there |-> FALSE, whole |-> TRUE, rows |-> << >>]

\* --append goes on from the records of OUT_JSON, when there is one.
ReadBack(appending) == IF appending /\ OUT_JSON.there THEN OUT_JSON.rows ELSE << >>

\* json.load raises on a file that is not whole, before anything is done.
InvokeForensics(appending) ==
  /\ tool = "forensics" /\ NoRunner
  /\ appending => OUT_JSON.whole
  /\ Invoked({FALSE}, Only, "cell")
  /\ append' = appending
  /\ results' = ReadBack(appending)
  /\ UNCHANGED OUT_JSON

ForensicsStart ==
  /\ tool = "forensics" /\ pc = "cell"
  /\ UNCHANGED <<dirs, study>>
  /\ Start("launch")

\* Mutant: the exit status is not looked at.
ForensicsAccepts_AnyExit == TRUE

ForensicsAccepts == made[Last].exit = "ok"

\* run_one: a run that failed adds nothing.
ForensicsCollect ==
  /\ tool = "forensics" /\ pc = "waiting"
  /\ At(Last, "ended")
  /\ pc' = IF ForensicsAccepts THEN "dissect" ELSE "dump"
  /\ Becomes(Last, "over")
  /\ UNCHANGED <<tool, queue, cell, force, outcome, sweeps, files, study>>

\* The kills, then the index files; an analysis that raises adds nothing.
Dissect ==
  /\ pc = "dissect"
  /\ \E read \in {<< >>, <<[cell |-> cell, index |-> OnDisk, kills |-> Events]>>} :
       results' = results \o read
  /\ pc' = "dump"
  /\ UNCHANGED <<tool, queue, cell, force, outcome, sweeps, made, files, append, OUT_JSON>>

\* open(OUT_JSON, "w") empties the file, json.dump fills it.
Open ==
  /\ pc = "dump"
  /\ OUT_JSON' = [there |-> TRUE, whole |-> FALSE, rows |-> << >>]
  /\ pc' = "dumping"
  /\ UNCHANGED <<tool, queue, cell, force, outcome, sweeps, made, files, append, results>>

Dump ==
  /\ pc = "dumping"
  /\ OUT_JSON' = [there |-> TRUE, whole |-> TRUE, rows |-> results]
  /\ Advance("none")
  /\ UNCHANGED <<made, files, append, results>>

ForensicsProgram == ForensicsStart \/ ForensicsCollect \/ Dissect \/ Open \/ Dump

ForensicsNext ==
  \/ Next /\ UNCHANGED study
  \/ \E appending \in BOOLEAN : InvokeForensics(appending)
  \/ ForensicsProgram

\* A program runs on, and a run ends: its phases are sleeps and its requests
\* have timeouts.
ForensicsSpec ==
  /\ ForensicsInit
  /\ [][ForensicsNext]_allVars
  /\ WF_allVars((Program /\ UNCHANGED study) \/ ForensicsProgram)
  /\ WF_allVars((\E r \in 1..Last : Experiment(r)) /\ UNCHANGED study)

(****************************************************************************)
(* What is checked.                                                         *)
(****************************************************************************)

\* run_one: the kills a record counts and the index it describes are those of
\* one run, which was made for the record's cell and exited with 0, though
\* results/ and chaos_run/ still hold the files of earlier and failed runs.
RecordsAreOfOneRun ==
  \A i \in 1..Len(results) :
    LET r == results[i].index IN
    /\ results[i].kills = r
    /\ made[r].cell = results[i].cell
    /\ made[r].exit = "ok"
================================================================================
