----------------------------- MODULE ShardNode -----------------------------
(***************************************************************************)
(* One shard node: the Insert and Delete handlers of ShardServiceImpl as   *)
(* gRPC threads that interleave between the locks and atomics they use,    *)
(* with the id map (IdMapStore) and the metadata file (MetadataHandler).   *)
(* Of the index it has the node records, which the handlers read back;     *)
(* HnswIndex has the graph, the element count and the header.              *)
(*                                                                         *)
(* A crash is one of the process: the id map and the metadata are flushed  *)
(* and the index is mapped, so their files survive it; current_epoch_ and  *)
(* offsets_ are in memory and start again from 0 and from the order of the *)
(* metadata file.  Local ids count from 1 here.                            *)
(***************************************************************************)
EXTENDS Integers, Sequences, FiniteSets

CONSTANTS
  Thread,       \* the gRPC threads
  Key,          \* external ids
  Vector, Metadata,
  Blank,        \* what was never written reads as this
  Requested,    \* bound: the requests that are ever made
  MaxCalls,     \* bound: requests in a behaviour
  MaxCrashes    \* bound: crashes in a behaviour

\* Blank metadata is the empty string.
Data == [vector : Vector, metadata : Metadata \cup {Blank}]

Request ==
  [op : {"Insert"}, key : Key, data : Data, epoch : Nat]
    \cup [op : {"Delete"}, key : Key, epoch : Nat]

ASSUME ShardAssumption ==
  /\ IsFiniteSet(Key) /\ Blank \notin Vector \cup Metadata
  /\ Requested \subseteq Request
  /\ {MaxCalls, MaxCrashes} \subseteq Nat

VARIABLES
  reverse,        \* IdMapStore: the key of each local id, in memory and on disk
  nodes,          \* the node records in the mapped file, by local id
  metadata_file,  \* the metadata in the order it was saved
  offsets,        \* the place in it of each local id, 0 for none
  current_epoch,
  handler,        \* what each thread is doing
  stored,         \* history: the data that acknowledged Inserts have left, by key
  removed,        \* history: the keys that acknowledged Deletes have removed
  contended,      \* history: the keys for which two requests overlapped
  described,      \* history: the last metadata an acknowledged Insert of a key brought
  calls, crashes

indexVars == <<nodes, metadata_file, offsets>>
history == <<stored, removed, contended, described>>
vars == <<reverse, indexVars, current_epoch, handler, history, calls, crashes>>

LocalId == 1..Cardinality(Key)
Node == [vector : Vector \cup {Blank}, is_deleted : BOOLEAN]

Init ==
  /\ reverse = << >>
  /\ nodes = [i \in LocalId |-> [vector |-> Blank, is_deleted |-> FALSE]]
  /\ metadata_file = << >> /\ offsets = [i \in LocalId |-> 0]
  /\ current_epoch = 0
  /\ handler = [t \in Thread |-> [pc |-> "idle"]]
  /\ stored = [k \in Key |-> {}] /\ removed = {}
  /\ contended = {} /\ described = [k \in Key |-> Blank]
  /\ calls = 0 /\ crashes = 0
----------------------------------------------------------------------------
(* The steps of a handler *)

Busy == {t \in Thread : handler[t].pc # "idle"}

Goto(t, pc) == handler' = [handler EXCEPT ![t].pc = pc]

\* A request arrives.  From now on a Delete may remove what is stored, and an
\* Insert may store again what was removed.  Requests of both kinds that
\* overlap oppose each other.
Receive(t, r) ==
  LET others == {u \in Busy : handler[u].request.key = r.key}
      opposed == {u \in others : handler[u].request.op # r.op}
      new == [pc |-> "load_epoch", request |-> r, opposed |-> opposed # {}, id |-> 0]
  IN  /\ handler[t].pc = "idle"
      /\ calls < MaxCalls
      /\ calls' = calls + 1
      /\ handler' = [u \in Thread |-> IF u = t THEN new
                                     ELSE IF u \in opposed THEN [handler[u] EXCEPT !.opposed = TRUE]
                                     ELSE handler[u]]
      /\ stored' = IF r.op = "Delete" THEN [stored EXCEPT ![r.key] = {}] ELSE stored
      /\ removed' = IF r.op = "Insert" THEN removed \ {r.key} ELSE removed
      /\ contended' = IF others = {} THEN contended ELSE contended \cup {r.key}
      /\ UNCHANGED <<reverse, indexVars, current_epoch, described, crashes>>

\* The handler answers.  An answer of ok tells what is stored if nothing has
\* opposed the request.
Reply(t, ok) ==
  LET r == handler[t].request
      counts == ok /\ ~handler[t].opposed
  IN  /\ handler' = [handler EXCEPT ![t] = [pc |-> "idle"]]
      /\ stored' = IF counts /\ r.op = "Insert"
                   THEN [stored EXCEPT ![r.key] = {r.data}] ELSE stored
      /\ removed' = IF counts /\ r.op = "Delete" THEN removed \cup {r.key} ELSE removed
      /\ described' = IF ok /\ r.op = "Insert" /\ r.data.metadata # Blank
                      THEN [described EXCEPT ![r.key] = r.data.metadata] ELSE described
      /\ UNCHANGED <<contended, calls, crashes>>

AfterEpoch(r) == IF r.op = "Insert" THEN "assign" ELSE "lookup"

\* check_and_advance_epoch: loads and compares, and stores in a later step, so that
\* a smaller epoch may replace a larger one.
LoadEpoch(t) ==
  LET r == handler[t].request
  IN  /\ handler[t].pc = "load_epoch"
      /\ UNCHANGED <<reverse, indexVars, current_epoch>>
      /\ IF r.epoch < current_epoch
         THEN Reply(t, FALSE)
         ELSE /\ Goto(t, IF r.epoch > current_epoch THEN "store_epoch" ELSE AfterEpoch(r))
              /\ UNCHANGED <<history, calls, crashes>>

StoreEpoch(t) ==
  LET r == handler[t].request
  IN  /\ handler[t].pc = "store_epoch"
      /\ current_epoch' = r.epoch
      /\ Goto(t, AfterEpoch(r))
      /\ UNCHANGED <<reverse, indexVars, history, calls, crashes>>

LocalIds(k) == {i \in DOMAIN reverse : reverse[i] = k}
IdOf(k) == CHOOSE i \in LocalIds(k) : TRUE

\* IdMapStore::assign, under its lock; a new key goes to the file first.
IsNew(k) == LocalIds(k) = {}

Assign(t) ==
  LET k == handler[t].request.key
      is_new == IsNew(k)
  IN  /\ handler[t].pc = "assign"
      /\ reverse' = IF is_new THEN Append(reverse, k) ELSE reverse
      /\ handler' = [handler EXCEPT ![t].pc = IF is_new THEN "write" ELSE "is_deleted",
                                    ![t].id = IF is_new THEN Len(reverse) + 1 ELSE IdOf(k)]
      /\ UNCHANGED <<indexVars, current_epoch, history, calls, crashes>>

\* A key that has an id is written again only if its record is tombstoned.
IsDeleted(t) ==
  /\ handler[t].pc = "is_deleted"
  /\ Goto(t, IF nodes[handler[t].id].is_deleted THEN "write" ELSE "same_vector")
  /\ UNCHANGED <<reverse, indexVars, current_epoch, history, calls, crashes>>

\* get_vector_data, which is empty for a record tombstoned in the meantime, and
\* then get_metadata.
SameVector(t) ==
  LET node == nodes[handler[t].id]
  IN  /\ handler[t].pc = "same_vector"
      /\ UNCHANGED <<reverse, indexVars, current_epoch>>
      /\ IF ~node.is_deleted /\ node.vector = handler[t].request.data.vector
         THEN Goto(t, "same_metadata") /\ UNCHANGED <<history, calls, crashes>>
         ELSE Reply(t, FALSE)

get_metadata(i) == IF offsets[i] = 0 THEN Blank ELSE metadata_file[offsets[i]]

SameMetadata_NotCompared(t) == TRUE
SameMetadata(t) == get_metadata(handler[t].id) = handler[t].request.data.metadata

Compare(t) ==
  /\ handler[t].pc = "same_metadata"
  /\ Reply(t, SameMetadata(t))
  /\ UNCHANGED <<reverse, indexVars, current_epoch>>

\* HNSW::insert writes the record and at the end saves metadata that is not
\* empty.
NewNode_KeepsTombstone(t) ==
  [vector |-> handler[t].request.data.vector,
   is_deleted |-> nodes[handler[t].id].is_deleted]
NewNode(t) ==
  [vector |-> handler[t].request.data.vector, is_deleted |-> FALSE]

WriteNode(t) ==
  /\ handler[t].pc = "write"
  /\ nodes' = [nodes EXCEPT ![handler[t].id] = NewNode(t)]
  /\ Goto(t, "save")
  /\ UNCHANGED <<reverse, metadata_file, offsets, current_epoch, history, calls, crashes>>

save_metadata(i, m) ==
  IF m = Blank THEN UNCHANGED <<metadata_file, offsets>>
  ELSE /\ metadata_file' = Append(metadata_file, m)
       /\ offsets' = [offsets EXCEPT ![i] = Len(metadata_file) + 1]

SaveMetadata(t) ==
  /\ handler[t].pc = "save"
  /\ save_metadata(handler[t].id, handler[t].request.data.metadata)
  /\ Reply(t, TRUE)
  /\ UNCHANGED <<reverse, nodes, current_epoch>>

\* IdMapStore::lookup in Delete.
Lookup(t) ==
  LET k == handler[t].request.key
  IN  /\ handler[t].pc = "lookup"
      /\ UNCHANGED <<reverse, indexVars, current_epoch>>
      /\ IF LocalIds(k) = {}
         THEN Reply(t, FALSE)
         ELSE /\ handler' = [handler EXCEPT ![t].pc = "test", ![t].id = IdOf(k)]
              /\ UNCHANGED <<history, calls, crashes>>

\* HNSW::delete_vector tests the mark before it sets it.
TestMark(t) ==
  /\ handler[t].pc = "test"
  /\ UNCHANGED <<reverse, indexVars, current_epoch>>
  /\ IF nodes[handler[t].id].is_deleted
     THEN Reply(t, TRUE)
     ELSE Goto(t, "mark") /\ UNCHANGED <<history, calls, crashes>>

Mark(t) ==
  /\ handler[t].pc = "mark"
  /\ nodes' = [nodes EXCEPT ![handler[t].id].is_deleted = TRUE]
  /\ Reply(t, TRUE)
  /\ UNCHANGED <<reverse, metadata_file, offsets, current_epoch>>

\* rebuild_index takes the place in the file for the local id.
rebuild_index == [i \in LocalId |-> IF i <= Len(metadata_file) THEN i ELSE 0]

\* The process ends and is started again on its files.
Crash ==
  /\ crashes < MaxCrashes
  /\ crashes' = crashes + 1
  /\ offsets' = rebuild_index
  /\ current_epoch' = 0
  /\ handler' = [t \in Thread |-> [pc |-> "idle"]]
  /\ UNCHANGED <<reverse, nodes, metadata_file, history, calls>>
----------------------------------------------------------------------------
(* Handlers that only read *)

\* The keys that are mapped and not tombstoned.
ListLocalIds == {k \in Key : \E i \in LocalIds(k) : ~nodes[i].is_deleted}

\* The vector and the metadata of a key, or nothing.
GetVector(k) ==
  {[vector |-> nodes[i].vector, metadata |-> get_metadata(i)] :
     i \in {j \in LocalIds(k) : ~nodes[j].is_deleted}}
----------------------------------------------------------------------------
Step(t) ==
  \/ \E r \in Requested : Receive(t, r)
  \/ LoadEpoch(t) \/ StoreEpoch(t)
  \/ Assign(t) \/ IsDeleted(t) \/ SameVector(t) \/ Compare(t)
  \/ WriteNode(t) \/ SaveMetadata(t)
  \/ Lookup(t) \/ TestMark(t) \/ Mark(t)

Next == (\E t \in Thread : Step(t)) \/ Crash

Spec == Init /\ [][Next]_vars
----------------------------------------------------------------------------
(* Properties *)

\* What the acknowledged requests for a key left stands: after an Insert the key
\* is listed and its record written, after a Delete it is listed no more, whatever
\* runs for other keys or is repeated for this one, and across crashes.
OutcomeStands ==
  /\ \A k \in Key : stored[k] # {} => k \in ListLocalIds /\ nodes[IdOf(k)].vector # Blank
  /\ \A k \in removed : k \notin ListLocalIds

\* GetVector returns what was acknowledged for a key whose requests came one at
\* a time: the vector of the last Insert, also when a crash cut an Insert short
\* and the client tried again, and, until the order of the metadata file is read
\* back at a start, the metadata of the last Insert that brought any.  An Insert
\* without metadata, after a Delete, leaves that of the record it replaces.
ReadsBack ==
  \A k \in Key \ contended : \A d \in stored[k] :
    \E found \in GetVector(k) :
      found.vector = d.vector /\ (crashes = 0 => found.metadata = described[k])
============================================================================
