------------------------------ MODULE RaftLog ------------------------------
(***************************************************************************)
(* The replicated log of src/cluster/raft_log.hpp.  A log is a record with *)
(* the four data members of class RaftLog; the accessors and mutations are *)
(* operators on such records and keep the names of the methods.  Indices   *)
(* are absolute and 1-based: a snapshot stands for the indices             *)
(* 1..snapshot_last_index and entries[k] has absolute index                *)
(* snapshot_last_index + k.  Writing the file is part of each mutation.    *)
(*                                                                         *)
(* Here and in the other modules, Name_Slip before a definition Name is a  *)
(* faulty variant of Name; no specification uses it.  It records a mistake *)
(* that the properties are known to detect.                                *)
(***************************************************************************)
EXTENDS Naturals, Sequences

CONSTANTS
  Command,  \* the commands a client may propose
  NoCommand \* the empty string, which command_at returns for a missing entry

Entry == [term : Nat, command : Command \cup {NoCommand}]

\* snapshot_data is the serialised state machine, one of the given states; the
\* specifications use the sequence of the commands that were applied to it.
Log(State) == [entries : Seq(Entry),
               snapshot_last_index : Nat,
               snapshot_last_term : Nat,
               snapshot_data : State]

EmptyLog == [entries |-> << >>,
             snapshot_last_index |-> 0,
             snapshot_last_term |-> 0,
             snapshot_data |-> << >>]

Lesser(a, b) == IF a < b THEN a ELSE b
----------------------------------------------------------------------------
(* Accessors *)

last_index(log) == log.snapshot_last_index + Len(log.entries)

last_term(log) ==
  IF log.entries # << >> THEN log.entries[Len(log.entries)].term
                         ELSE log.snapshot_last_term

has_real_entry_at(log, index) ==
  log.snapshot_last_index < index /\ index <= last_index(log)

\* 0 outside the log; the snapshot answers with its last term for every index
\* that it covers.
term_at(log, index) ==
  IF has_real_entry_at(log, index)
  THEN log.entries[index - log.snapshot_last_index].term
  ELSE IF index \in 1..log.snapshot_last_index THEN log.snapshot_last_term
                                               ELSE 0

command_at(log, index) ==
  IF has_real_entry_at(log, index)
  THEN log.entries[index - log.snapshot_last_index].command
  ELSE NoCommand
----------------------------------------------------------------------------
(* Mutations *)

append(log, term, command) ==
  [log EXCEPT !.entries = Append(@, [term |-> term, command |-> command])]

truncate_and_append_NoTruncation(log, keep_count, new_entries) ==
  [log EXCEPT !.entries = @ \o new_entries]

\* Everything after keep_count goes, whether or not it agrees with
\* new_entries; the new entries the snapshot already covers are skipped.
truncate_and_append(log, keep_count, new_entries) ==
  LET snap == log.snapshot_last_index
      physical_keep == IF keep_count > snap THEN keep_count - snap ELSE 0
      covered == IF keep_count < snap THEN snap - keep_count ELSE 0
  IN  [log EXCEPT !.entries =
         SubSeq(@, 1, Lesser(physical_keep, Len(@)))
           \o SubSeq(new_entries, covered + 1, Len(new_entries))]

compact_KeepsOneMore(log, up_to_index, snapshot_term, data) ==
  LET remove_count == Lesser(up_to_index - log.snapshot_last_index - 1,
                             Len(log.entries))
  IN  [entries |-> SubSeq(log.entries, remove_count + 1, Len(log.entries)),
       snapshot_last_index |-> up_to_index,
       snapshot_last_term |-> snapshot_term,
       snapshot_data |-> data]

\* What follows up_to_index is kept without looking at its term.
compact(log, up_to_index, snapshot_term, data) ==
  IF up_to_index <= log.snapshot_last_index THEN log
  ELSE LET remove_count == Lesser(up_to_index - log.snapshot_last_index,
                                  Len(log.entries))
       IN  [entries |-> SubSeq(log.entries, remove_count + 1, Len(log.entries)),
            snapshot_last_index |-> up_to_index,
            snapshot_last_term |-> snapshot_term,
            snapshot_data |-> data]
============================================================================
