----------------------------- MODULE HnswIndex -----------------------------
(***************************************************************************)
(* The HNSW index of a shard node: insert and delete_vector called by      *)
(* several threads, which interleave between the locks and atomics the     *)
(* class uses, and a crash of the process at any point.                    *)
(*                                                                         *)
(* The node records and the header are in the mapped file and survive a    *)
(* crash of the process; entry_point, max_layer and element_count are in   *)
(* memory and are read back from the header.                               *)
(*                                                                         *)
(* Vectors are left out.  What depends on them is left open: the level of  *)
(* a node, where a greedy descent ends, and which neighbour is nearest.    *)
(* The index holds fewer than M nodes, so that the beam of search_layer    *)
(* never fills, select_neighbors_heuristic keeps every candidate and       *)
(* add_link always finds room: lists of neighbours are sets.               *)
(***************************************************************************)
EXTENDS Integers, FiniteSets

CONSTANTS
  Thread,
  Id,           \* node ids, as IdMapStore assigns them
  NoEntry,      \* NO_ENTRY
  MaxLayer,     \* MAX_LAYERS - 1
  CountLimit,   \* element_count wraps at CountLimit
  MaxCalls,     \* bound: calls in a behaviour
  MaxDeletes,   \* bound: those of delete_vector
  MaxCrashes    \* bound: crashes in a behaviour

ASSUME IndexAssumption ==
  /\ IsFiniteSet(Id) /\ NoEntry \notin Id
  /\ {MaxLayer, MaxCalls, MaxDeletes, MaxCrashes} \subseteq Nat
  /\ CountLimit \in Nat /\ CountLimit > MaxCalls

VARIABLES
  node,                      \* the node records
  header,                    \* the FileHeader
  entry_point, max_layer, element_count,
  init_lock,                 \* the thread that holds init_lock_, if any
  handler,                   \* what each thread is doing
  used,                      \* the ids handed to insert so far
  finished,                  \* history: ids whose insert returned, not deleted since
  lapses,                    \* history: which of the events below have happened
  calls, deletes, crashes

memory == <<entry_point, max_layer, element_count>>
history == <<used, finished, lapses, calls, deletes, crashes>>
vars == <<node, header, memory, init_lock, handler, history>>

\* What an index may meet that it does not recover from:
\*   early      a second call began before the index had an entry point
\*   contended  two calls for one id overlapped
\*   revived    an id was inserted again
\*   exposed    the entry point was a tombstone
\*   torn       a crash cut an insert short
Lapsed(kind, happened) == IF happened THEN {kind} ELSE {}

Layer == 0..MaxLayer
Fresh(level) ==
  [written |-> TRUE, max_layer |-> level, is_deleted |-> FALSE,
   neighbors |-> [l \in Layer |-> {}]]
\* The file is allocated in full and zero-filled.
Zero == [Fresh(0) EXCEPT !.written = FALSE]
Idle == [pc |-> "idle"]
Busy == {t \in Thread : handler[t] # Idle}
Free == {}

Init ==
  /\ node = [i \in Id |-> Zero]
  /\ header = [count |-> 0, entry |-> NoEntry, layer |-> -1]
  /\ entry_point = NoEntry /\ max_layer = -1 /\ element_count = 0
  /\ init_lock = Free
  /\ handler = [t \in Thread |-> Idle]
  /\ used = {} /\ finished = {} /\ lapses = {}
  /\ calls = 0 /\ deletes = 0 /\ crashes = 0
----------------------------------------------------------------------------
(* Reading the graph *)

\* The nodes that a walk over the links of one layer meets, tombstones included.
Reached(layer, from) ==
  {n \in Id : \A S \in SUBSET Id :
     from \in S /\ (\A s \in S : node[s].neighbors[layer] \subseteq S) => n \in S}

\* search_layer: the live nodes of the walk.
search_layer(from, layer) == {n \in Reached(layer, from) : ~node[n].is_deleted}

\* Where the greedy descent from layer top to above layer bottom may end.
Descents(from, top, bottom) ==
  LET Ends[l \in bottom..top] ==
        IF l = top THEN {from} ELSE UNION {Reached(l + 1, n) : n \in Ends[l + 1]}
  IN  IF bottom < top THEN Ends[bottom] ELSE {from}

\* search: what a search returns that asks for enough results, for each way the
\* descent may go.
Searches ==
  IF entry_point = NoEntry THEN {{}}
  ELSE {search_layer(n, 0) : n \in Descents(entry_point, max_layer, 0)}
----------------------------------------------------------------------------
(* insert *)

At(t, pc) == handler[t].pc = pc
Goto(t, pc) == handler' = [handler EXCEPT ![t].pc = pc]

\* The level is drawn at random, as high as a record has room for.
get_random_level == Layer

\* A call takes an id that is new, or, as ShardServiceImpl::Insert does, one
\* that is tombstoned.
Begin(t, i, call) ==
  /\ At(t, "idle")
  /\ calls < MaxCalls
  /\ calls' = calls + 1
  /\ handler' = [handler EXCEPT ![t] = call]
  /\ used' = used \cup {i}
  /\ finished' = finished \ {i}
  /\ lapses' = lapses \cup Lapsed("early", max_layer = -1 /\ calls > 0)
                    \cup Lapsed("contended", \E u \in Busy : handler[u].id = i)
                    \cup Lapsed("revived", call.op = "insert" /\ i \in used)
  /\ UNCHANGED <<node, header, memory, init_lock, crashes>>

insert(t, i, level) ==
  /\ i \in used => node[i].is_deleted
  /\ Begin(t, i, [pc |-> "write", op |-> "insert", id |-> i, level |-> level,
                  curr |-> NoEntry, layer |-> 0, todo |-> {}, reg |-> 0])
  /\ UNCHANGED deletes

WriteNode(t) ==
  /\ At(t, "write")
  /\ node' = [node EXCEPT ![handler[t].id] = Fresh(handler[t].level)]
  /\ Goto(t, "first")
  /\ UNCHANGED <<header, memory, init_lock, history>>

\* The first test of the entry point is without init_lock_.
First(t) ==
  /\ At(t, "first")
  /\ Goto(t, IF entry_point = NoEntry THEN "init" ELSE "enter")
  /\ UNCHANGED <<node, header, memory, init_lock, history>>

\* The second is with it.  The first element keeps the lock until it returns.
InitEntry(t) ==
  /\ At(t, "init")
  /\ init_lock = Free
  /\ UNCHANGED <<node, header, max_layer, element_count, used, finished, calls, deletes,
                 crashes>>
  /\ IF entry_point = NoEntry
     THEN /\ entry_point' = handler[t].id
          /\ lapses' = lapses \cup Lapsed("exposed", node[handler[t].id].is_deleted)
          /\ init_lock' = {t}
          /\ Goto(t, "init_layer")
     ELSE UNCHANGED <<entry_point, lapses, init_lock>> /\ Goto(t, "enter")

InitLayer_Bottom(t) ==
  /\ At(t, "init_layer")
  /\ max_layer' = 0
  /\ Goto(t, "count")
  /\ UNCHANGED <<node, header, entry_point, element_count, init_lock, history>>
InitLayer(t) ==
  /\ At(t, "init_layer")
  /\ max_layer' = handler[t].level
  /\ Goto(t, "count")
  /\ UNCHANGED <<node, header, entry_point, element_count, init_lock, history>>

Enter(t) ==
  /\ At(t, "enter")
  /\ handler' = [handler EXCEPT ![t].pc = "descend", ![t].curr = entry_point]
  /\ UNCHANGED <<node, header, memory, init_lock, history>>

Descend(t) ==
  /\ At(t, "descend")
  /\ \E n \in Descents(handler[t].curr, max_layer, handler[t].level) :
       handler' = [handler EXCEPT ![t].pc = "connect", ![t].curr = n]
  /\ UNCHANGED <<node, header, memory, init_lock, history>>

\* The loop over layers starts at the lower of the two tops, or not at all.
TopLayer(t) == IF handler[t].level < max_layer THEN handler[t].level ELSE max_layer

Connect(t) ==
  /\ At(t, "connect")
  /\ handler' = [handler EXCEPT ![t].pc = IF TopLayer(t) = -1 THEN "raise" ELSE "select",
                                ![t].layer = TopLayer(t)]
  /\ UNCHANGED <<node, header, memory, init_lock, history>>

BelowLayer_TopOnly(t) == "raise"
\* After layer 0 the loop ends.
BelowLayer(t) == IF handler[t].layer = 0 THEN "raise" ELSE "select"

\* search_layer and select_neighbors_heuristic; the nearest of the neighbours is
\* where the next layer starts.
Selected(t) == search_layer(handler[t].curr, handler[t].layer) \ {handler[t].id}

Select(t) ==
  /\ At(t, "select")
  /\ \/ /\ Selected(t) = {}
        /\ handler' = [handler EXCEPT ![t].pc = BelowLayer(t), ![t].layer = @ - 1]
     \/ \E nearest \in Selected(t) :
          handler' = [handler EXCEPT ![t].pc = "link", ![t].todo = Selected(t), ![t].curr = nearest]
  /\ UNCHANGED <<node, header, memory, init_lock, history>>

\* add_link, under the lock of the node it changes: there and back.
add_link(src, dest, layer) == node' = [node EXCEPT ![src].neighbors[layer] = @ \cup {dest}]

Link(t) ==
  /\ At(t, "link")
  /\ \E n \in handler[t].todo :
       /\ add_link(handler[t].id, n, handler[t].layer)
       /\ handler' = [handler EXCEPT ![t].pc = "link_back", ![t].reg = n]
  /\ UNCHANGED <<header, memory, init_lock, history>>

LinkBack(t) ==
  LET rest == handler[t].todo \ {handler[t].reg}
  IN  /\ At(t, "link_back")
      /\ add_link(handler[t].reg, handler[t].id, handler[t].layer)
      /\ handler' = [handler EXCEPT ![t].pc = IF rest = {} THEN BelowLayer(t) ELSE "link",
                                    ![t].layer = IF rest = {} THEN @ - 1 ELSE @,
                                    ![t].todo = rest]
      /\ UNCHANGED <<header, memory, init_lock, history>>

\* A node above the top layer becomes the entry point, after a second test under
\* init_lock_.
Raise(t) ==
  /\ At(t, "raise")
  /\ Goto(t, IF handler[t].level > max_layer THEN "raise_entry" ELSE "count")
  /\ UNCHANGED <<node, header, memory, init_lock, history>>

RaiseEntry(t) ==
  /\ At(t, "raise_entry")
  /\ init_lock = Free
  /\ UNCHANGED <<node, header, max_layer, element_count, used, finished, calls, deletes,
                 crashes>>
  /\ IF handler[t].level > max_layer
     THEN /\ entry_point' = handler[t].id
          /\ lapses' = lapses \cup Lapsed("exposed", node[handler[t].id].is_deleted)
          /\ init_lock' = {t}
          /\ Goto(t, "raise_layer")
     ELSE UNCHANGED <<entry_point, lapses, init_lock>> /\ Goto(t, "count")

RaiseLayer(t) ==
  /\ At(t, "raise_layer")
  /\ max_layer' = handler[t].level
  /\ init_lock' = Free
  /\ Goto(t, "count")
  /\ UNCHANGED <<node, header, entry_point, element_count, history>>

Count(t) ==
  /\ At(t, "count")
  /\ element_count' = (element_count + 1) % CountLimit
  /\ Goto(t, "header")
  /\ UNCHANGED <<node, header, entry_point, max_layer, init_lock, history>>
----------------------------------------------------------------------------
(* delete_vector *)

delete_vector(t, i) ==
  /\ i \in used
  /\ deletes < MaxDeletes
  /\ deletes' = deletes + 1
  /\ Begin(t, i, [pc |-> "test", op |-> "delete_vector", id |-> i, reg |-> 0])

TestMark(t) ==
  /\ At(t, "test")
  /\ IF node[handler[t].id].is_deleted
     THEN handler' = [handler EXCEPT ![t] = Idle] ELSE Goto(t, "mark")
  /\ UNCHANGED <<node, header, memory, init_lock, history>>

Mark(t) ==
  /\ At(t, "mark")
  /\ node' = [node EXCEPT ![handler[t].id].is_deleted = TRUE]
  /\ lapses' = lapses \cup Lapsed("exposed", handler[t].id = entry_point)
  /\ Goto(t, "uncount")
  /\ UNCHANGED <<header, memory, init_lock, used, finished, calls, deletes, crashes>>

Uncount_Skipped(t) ==
  /\ At(t, "uncount")
  /\ Goto(t, "header")
  /\ UNCHANGED <<node, header, memory, init_lock, history>>
Uncount(t) ==
  /\ At(t, "uncount")
  /\ element_count' = (element_count - 1) % CountLimit
  /\ Goto(t, "header")
  /\ UNCHANGED <<node, header, entry_point, max_layer, init_lock, history>>
----------------------------------------------------------------------------
(* persist_header, the end of both, and the crash *)

\* Each field is loaded and then stored, without a lock.
StoreField(t, pc, field, next) ==
  /\ At(t, pc)
  /\ header' = [header EXCEPT ![field] = handler[t].reg]
  /\ handler' = [handler EXCEPT ![t].pc = next[1], ![t].reg = next[2]]
  /\ UNCHANGED <<node, memory, init_lock, history>>

persist_header(t) ==
  \/ /\ At(t, "header")
     /\ handler' = [handler EXCEPT ![t].pc = "header_count", ![t].reg = element_count]
     /\ UNCHANGED <<node, header, memory, init_lock, history>>
  \/ StoreField(t, "header_count", "count", <<"header_entry", entry_point>>)
  \/ StoreField(t, "header_entry", "entry", <<"header_layer", max_layer>>)
  \/ StoreField(t, "header_layer", "layer", <<"return", 0>>)

Return(t) ==
  /\ At(t, "return")
  /\ handler' = [handler EXCEPT ![t] = Idle]
  /\ init_lock' = init_lock \ {t}
  /\ finished' = IF handler[t].op = "insert" THEN finished \cup {handler[t].id} ELSE finished
  /\ UNCHANGED <<node, header, memory, used, lapses, calls, deletes, crashes>>

\* The process ends and the constructor opens the same file.
Crash ==
  /\ crashes < MaxCrashes
  /\ crashes' = crashes + 1
  /\ entry_point' = header.entry /\ max_layer' = header.layer /\ element_count' = header.count
  /\ init_lock' = Free
  /\ handler' = [t \in Thread |-> Idle]
  /\ lapses' = lapses \cup Lapsed("torn", \E t \in Busy : handler[t].op = "insert")
                    \cup Lapsed("exposed", header.entry # NoEntry /\ node[header.entry].is_deleted)
  /\ UNCHANGED <<node, header, used, finished, calls, deletes>>
----------------------------------------------------------------------------
Step(t) ==
  \/ \E i \in Id : (\E level \in get_random_level : insert(t, i, level)) \/ delete_vector(t, i)
  \/ WriteNode(t) \/ First(t) \/ InitEntry(t) \/ InitLayer(t)
  \/ Enter(t) \/ Descend(t) \/ Connect(t) \/ Select(t) \/ Link(t) \/ LinkBack(t)
  \/ Raise(t) \/ RaiseEntry(t) \/ RaiseLayer(t) \/ Count(t)
  \/ TestMark(t) \/ Mark(t) \/ Uncount(t)
  \/ persist_header(t) \/ Return(t)

Next == (\E t \in Thread : Step(t)) \/ Crash

Spec == Init /\ [][Next]_vars
----------------------------------------------------------------------------
(* Properties *)

\* When no call is under way, every search can return every node whose insert
\* has returned, however inserts and deletes of different nodes have overlapped,
\* and after a restart from the header they have written.
InsertedIsFound ==
  Busy = {} /\ lapses = {} => \A S \in Searches : finished \subseteq S

\* While no thread is changing them, the entry point and the top layer describe
\* the same node (the race that the comment at the end of insert is about).
EntryOwnsTopLayer ==
  init_lock = Free /\ entry_point # NoEntry /\ lapses = {} /\ crashes = 0 =>
    node[entry_point].max_layer = max_layer

\* When no call is under way, size() is the number of live nodes, unless two
\* calls for one id have overlapped or the count was read back from the header.
CountIsLive ==
  Busy = {} /\ "contended" \notin lapses /\ crashes = 0 =>
    element_count = Cardinality({i \in used : ~node[i].is_deleted})

\* insert is thread-safe: with no deletion and no crash, what was inserted is
\* found once all inserts have returned.
InsertIsThreadSafe ==
  Busy = {} /\ deletes = 0 /\ crashes = 0 => \A S \in Searches : finished \subseteq S
============================================================================
