------------------------ MODULE ClusterStateProofs -------------------------
(***************************************************************************)
(* What apply_pending_raft_commands makes of the committed commands is     *)
(* what they declare, for every number of coordinators, shards, replicas   *)
(* and commands, every threshold of compaction and every order of the      *)
(* steps that ClusterState allows.                                         *)
(***************************************************************************)
EXTENDS ClusterState, TLAPS

\* Where a coordinator stands, by index.
Indices ==
  /\ last_applied \in [Coordinator -> Nat]
  /\ snapshot_last_index \in [Coordinator -> Nat]
  /\ reached \in [Coordinator -> Nat]
  /\ g_snapshot_applied_index \in [Coordinator -> Nat]
  /\ g_local_applied_count \in [Coordinator -> Nat]
  /\ phase \in [Coordinator -> {"idle", "applying", "compacting"}]
  /\ status \in [Coordinator -> [snapshot_last_index : Nat, size : Nat]]
  /\ Len(commands) \in Nat
  /\ restarts \in Nat /\ late \in BOOLEAN

\* The end of the commands that the loop works on.
StatusEnd(c) == status[c].snapshot_last_index + status[c].size

Bounds(c) ==
  /\ snapshot_last_index[c] <= last_applied[c]
  /\ last_applied[c] <= Len(commands)
  /\ reached[c] <= last_applied[c]
  /\ g_snapshot_applied_index[c] <= snapshot_last_index[c]

\* The cursor of an idle loop counts from the snapshot that the view comes from,
\* or the node has a newer snapshot, which is not behind the view unless a late
\* one has been installed.
IdleCursor(c) ==
  phase[c] = "idle" =>
    IF Newer(c) THEN late \/ reached[c] <= snapshot_last_index[c]
    ELSE reached[c] = snapshot_last_index[c] + g_local_applied_count[c]

\* In the loop it counts from the snapshot of the status; a snapshot that is
\* installed meanwhile covers what the loop has still to do unless it is late.
LoopCursor(c) ==
  phase[c] # "idle" =>
    /\ status[c].snapshot_last_index = g_snapshot_applied_index[c]
    /\ reached[c] = status[c].snapshot_last_index + g_local_applied_count[c]
    /\ StatusEnd(c) <= last_applied[c]
    /\ Newer(c) => late \/ StatusEnd(c) <= snapshot_last_index[c]
    /\ g_local_applied_count[c] <= status[c].size
    /\ phase[c] = "applying" => g_local_applied_count[c] < status[c].size

CursorInv == Indices /\ \A c \in Coordinator : Bounds(c) /\ IdleCursor(c) /\ LoopCursor(c)

LEMMA CursorInit == Init => CursorInv
<1> SUFFICES ASSUME Init PROVE CursorInv
  OBVIOUS
<1>1. Indices
  <2>1. late \in BOOLEAN
    BY Zenon DEF Init
  <2> QED BY <2>1, ClusterAssumption DEF Init, Indices
<1>2. ASSUME NEW c \in Coordinator PROVE Bounds(c) /\ ~Newer(c) /\ IdleCursor(c) /\ LoopCursor(c)
  <2>1. Bounds(c) /\ ~Newer(c) /\ phase[c] = "idle"
    BY ClusterAssumption DEF Init, Bounds, Newer
  <2>2. reached[c] = snapshot_last_index[c] + g_local_applied_count[c]
    BY DEF Init
  <2>3. LoopCursor(c)
    BY <2>1 DEF LoopCursor
  <2> QED BY Zenon, <2>1, <2>2, <2>3 DEF IdleCursor
<1> QED BY Zenon, <1>1, <1>2 DEF CursorInv

\* What a step of the coordinator c leaves alone.
OthersKept(c) ==
  \A x \in Coordinator \ {c} :
    /\ last_applied'[x] = last_applied[x]
    /\ snapshot_last_index'[x] = snapshot_last_index[x]
    /\ reached'[x] = reached[x]
    /\ g_snapshot_applied_index'[x] = g_snapshot_applied_index[x]
    /\ g_local_applied_count'[x] = g_local_applied_count[x]
    /\ phase'[x] = phase[x]
    /\ status'[x] = status[x]

LEMMA OneMoves ==
  ASSUME CursorInv, Indices', NEW c \in Coordinator, OthersKept(c),
         Len(commands) <= Len(commands'), late => late',
         Bounds(c)', IdleCursor(c)', LoopCursor(c)'
  PROVE  CursorInv'
<1> SUFFICES ASSUME NEW x \in Coordinator
             PROVE  (Bounds(x) /\ IdleCursor(x) /\ LoopCursor(x))'
  BY DEF CursorInv
<1>1. CASE x = c
  BY <1>1
<1>2. CASE x # c
  <2>1. Bounds(x) /\ IdleCursor(x) /\ LoopCursor(x)
    BY DEF CursorInv
  <2>2. Len(commands) \in Nat /\ Len(commands') \in Nat /\ last_applied[x] \in Nat
    BY DEF CursorInv, Indices
  <2>3. /\ last_applied'[x] = last_applied[x]
        /\ snapshot_last_index'[x] = snapshot_last_index[x]
        /\ reached'[x] = reached[x]
        /\ g_snapshot_applied_index'[x] = g_snapshot_applied_index[x]
        /\ g_local_applied_count'[x] = g_local_applied_count[x]
        /\ phase'[x] = phase[x]
        /\ status'[x] = status[x]
    BY <1>2 DEF OthersKept
  <2>4. Bounds(x)'
    BY <2>1, <2>2, <2>3 DEF Bounds
  <2>5. IdleCursor(x)' /\ LoopCursor(x)'
    BY <2>1, <2>3 DEF IdleCursor, LoopCursor, Newer, StatusEnd
  <2> QED BY <2>4, <2>5
<1> QED BY <1>1, <1>2

Numbers(c) ==
  /\ Len(commands) \in Nat
  /\ last_applied[c] \in Nat /\ snapshot_last_index[c] \in Nat /\ reached[c] \in Nat
  /\ g_snapshot_applied_index[c] \in Nat /\ g_local_applied_count[c] \in Nat
  /\ status[c].snapshot_last_index \in Nat /\ status[c].size \in Nat

LEMMA AllNumbers == ASSUME CursorInv PROVE \A c \in Coordinator : Numbers(c)
BY DEF CursorInv, Indices, Numbers

LEMMA LearnCursor ==
  ASSUME CursorInv, NEW c \in Coordinator, Learn(c)
  PROVE  CursorInv' /\ reached' = reached
<1>1. Indices' /\ OthersKept(c)
  <2>1. /\ last_applied' = [last_applied EXCEPT ![c] = last_applied[c] + 1]
        /\ last_applied[c] + 1 \in Nat
        /\ UNCHANGED <<commands, snapshot_last_index, reached, g_snapshot_applied_index,
                       g_local_applied_count, phase, status, restarts, late>>
    BY DEF Learn, viewVars, applyVars, CursorInv, Indices
  <2> QED BY <2>1 DEF CursorInv, Indices, OthersKept
<1>2. Bounds(c) /\ IdleCursor(c) /\ LoopCursor(c) /\ Numbers(c)
  BY AllNumbers DEF CursorInv
<1>3. /\ last_applied'[c] = last_applied[c] + 1 /\ last_applied[c] < Len(commands)
      /\ UNCHANGED <<commands, snapshot_last_index, reached, g_snapshot_applied_index,
                     g_local_applied_count, phase, status, late>>
  BY DEF Learn, viewVars, applyVars, CursorInv, Indices
<1>4. Bounds(c)'
  BY <1>2, <1>3 DEF Bounds, Numbers
<1>5. IdleCursor(c)'
  BY <1>2, <1>3 DEF IdleCursor, Newer
<1>6. LoopCursor(c)'
  <2>1. StatusEnd(c) <= last_applied[c] => StatusEnd(c) <= last_applied'[c]
    BY <1>2, <1>3 DEF StatusEnd, Numbers
  <2> QED BY <1>2, <1>3, <2>1 DEF LoopCursor, Newer, StatusEnd
<1>7. Len(commands) <= Len(commands')
  BY <1>2, <1>3 DEF Numbers
<1> QED BY <1>1, <1>3, <1>4, <1>5, <1>6, <1>7, OneMoves

LEMMA SumTyped == \A m, n \in Nat : m + n \in Nat
OBVIOUS

LEMMA InstallCursor ==
  ASSUME CursorInv, NEW c \in Coordinator, NEW d \in Coordinator, InstallSnapshot(c, d)
  PROVE  CursorInv' /\ reached' = reached
<1> DEFINE index == snapshot_last_index[d]
           last == IF index > last_applied[c] THEN index ELSE last_applied[c]
<1>1. Indices' /\ OthersKept(c) /\ UNCHANGED commands /\ (late => late')
  <2>1. /\ snapshot_last_index' = [snapshot_last_index EXCEPT ![c] = index]
        /\ last_applied' = [last_applied EXCEPT ![c] = IF index > @ THEN index ELSE @]
        /\ late' = (late \/ index < last_applied[c])
        /\ UNCHANGED <<commands, reached, g_snapshot_applied_index, g_local_applied_count,
                       phase, status, restarts>>
    BY Zenon DEF InstallSnapshot, viewVars, applyVars
  <2>2. index \in Nat /\ late' \in BOOLEAN /\ (late => late')
    BY Zenon, <2>1 DEF CursorInv, Indices
  <2>3. Indices'
    BY Zenon, <2>1, <2>2 DEF CursorInv, Indices
  <2>4. OthersKept(c)
    BY Zenon, <2>1 DEF CursorInv, Indices, OthersKept
  <2> QED BY Zenon, <2>1, <2>2, <2>3, <2>4
<1>2. Bounds(d) /\ Bounds(c) /\ IdleCursor(c) /\ LoopCursor(c)
  BY DEF CursorInv
<1>3. /\ snapshot_last_index'[c] = index /\ last_applied'[c] = last
      /\ snapshot_last_index[c] < index /\ late' = (late \/ index < last_applied[c])
      /\ UNCHANGED <<reached, g_snapshot_applied_index, g_local_applied_count, phase, status>>
  BY Zenon DEF InstallSnapshot, viewVars, applyVars, Advances, CursorInv, Indices
<1>4. /\ {index, last_applied[c], snapshot_last_index[c], reached[c],
          g_snapshot_applied_index[c], g_local_applied_count[c], last_applied[d]} \subseteq Nat
      /\ Len(commands) \in Nat /\ status[c].snapshot_last_index \in Nat /\ status[c].size \in Nat
  BY DEF CursorInv, Indices
<1>5. Bounds(c)'
  BY <1>1, <1>2, <1>3, <1>4 DEF Bounds
<1>6. IdleCursor(c)' /\ LoopCursor(c)'
  <2>1. late' \/ ~(index < last_applied[c])
    BY Zenon, <1>3
  <2>2. last_applied[c] <= last /\ index <= last
    BY SMTT(30), <1>4
  <2> HIDE DEF last
  <2>3. Newer(c)'
    BY SMTT(30), <1>2, <1>3, <1>4 DEF Bounds, Newer
  <2>4. late' \/ reached[c] <= index
    <3>1. ~(index < last_applied[c]) => reached[c] <= index
      BY SMTT(30), <1>2, <1>4 DEF Bounds
    <3> QED BY Zenon, <2>1, <3>1
  <2>5. IdleCursor(c)'
    BY Zenon, <1>3, <2>3, <2>4 DEF IdleCursor
  <2>6. StatusEnd(c)' = StatusEnd(c) /\ StatusEnd(c) \in Nat
    <3>1. status'[c] = status[c]
      BY Zenon, <1>3
    <3> QED BY Zenon, <1>4, <3>1, SumTyped DEF StatusEnd
  <2>7. StatusEnd(c) <= last_applied[c] =>
          StatusEnd(c) <= last_applied'[c] /\ (late' \/ StatusEnd(c) <= index)
    <3>1. StatusEnd(c) <= last_applied[c] => StatusEnd(c) <= last_applied'[c]
      <4>1. last \in Nat
        BY <1>4 DEF last
      <4>2. StatusEnd(c) <= last_applied[c] => StatusEnd(c) <= last
        BY SMTT(30), <1>4, <2>2, <2>6, <4>1
      <4> QED BY Zenon, <1>3, <4>2
    <3>2. StatusEnd(c) <= last_applied[c] /\ ~(index < last_applied[c]) => StatusEnd(c) <= index
      BY SMTT(30), <1>4, <2>6
    <3> QED BY Zenon, <2>1, <3>1, <3>2
  <2>8. LoopCursor(c)'
    BY Zenon, <1>2, <1>3, <2>6, <2>7 DEF LoopCursor
  <2> QED BY Zenon, <2>5, <2>8
<1> QED BY <1>1, <1>3, <1>4, <1>5, <1>6, OneMoves

LEMMA ReadCursor ==
  ASSUME CursorInv, NEW c \in Coordinator, ReadStatus(c)
  PROVE  CursorInv' /\ (~late => \A x \in Coordinator : reached'[x] >= reached[x])
<1> DEFINE snap == snapshot_last_index[c]
           size == last_applied[c] - snap
           count == IF Newer(c) THEN 0 ELSE g_local_applied_count[c]
           now == IF Newer(c) THEN snap ELSE reached[c]
<1>1. Bounds(c) /\ IdleCursor(c) /\ LoopCursor(c) /\ Numbers(c)
  BY AllNumbers DEF CursorInv
<1>2. /\ snap \in Nat /\ size \in Nat /\ count \in Nat /\ now \in Nat
      /\ (~late => now >= reached[c]) /\ now = snap + count /\ now <= last_applied[c]
      /\ (~Newer(c) => g_snapshot_applied_index[c] = snap)
  BY <1>1 DEF ReadStatus, Bounds, IdleCursor, Numbers, Newer
<1>3. /\ UNCHANGED <<commands, last_applied, snapshot_last_index, restarts, late>>
      /\ reached' = [reached EXCEPT ![c] = now]
      /\ g_snapshot_applied_index' = [g_snapshot_applied_index EXCEPT ![c] = snap]
      /\ g_local_applied_count' = [g_local_applied_count EXCEPT ![c] = count]
      /\ status' = [status EXCEPT ![c] = [snapshot_last_index |-> snap, size |-> size]]
      /\ phase' = [phase EXCEPT ![c] = IF size > count THEN "applying" ELSE "idle"]
  BY <1>2 DEF ReadStatus, RaftStatus, apply_raft_snapshot, raftVars, viewVars, CursorInv, Indices
<1> HIDE DEF count, now, size
<1>4. Indices' /\ OthersKept(c)
  BY <1>2, <1>3 DEF CursorInv, Indices, OthersKept
<1>5. /\ reached'[c] = now /\ g_snapshot_applied_index'[c] = snap
      /\ g_local_applied_count'[c] = count
      /\ status'[c].snapshot_last_index = snap /\ status'[c].size = size
      /\ phase'[c] = IF size > count THEN "applying" ELSE "idle"
  BY <1>3 DEF CursorInv, Indices
<1>6. Bounds(c)'
  BY <1>1, <1>2, <1>3, <1>5 DEF Bounds
<1>7. IdleCursor(c)' /\ LoopCursor(c)'
  <2>1. snap + size = last_applied[c] /\ ~Newer(c)'
    BY <1>1, <1>2, <1>3, <1>5 DEF Numbers, Newer, size
  <2>2. size >= count /\ (size > count \/ size = count)
    BY <1>1, <1>2, <2>1 DEF Numbers
  <2>3. IdleCursor(c)'
    BY <1>2, <1>3, <1>5, <2>1 DEF IdleCursor
  <2>4. StatusEnd(c)' = last_applied[c]
    BY <1>5, <2>1 DEF StatusEnd
  <2>5. LoopCursor(c)'
    <3>1. /\ UNCHANGED <<last_applied, snapshot_last_index>> /\ last_applied[c] \in Nat
          /\ phase'[c] \in {"idle", "applying"}
          /\ phase'[c] = "applying" => count < size
      BY <1>1, <1>3, <1>5 DEF Numbers
    <3>2. /\ status'[c].snapshot_last_index = g_snapshot_applied_index'[c]
          /\ reached'[c] = status'[c].snapshot_last_index + g_local_applied_count'[c]
      BY Zenon, <1>2, <1>5
    <3>3. StatusEnd(c)' <= last_applied'[c] /\ g_local_applied_count'[c] <= status'[c].size
      BY SMTT(30), <1>2, <1>5, <2>2, <2>4, <3>1
    <3>4. phase'[c] = "applying" => g_local_applied_count'[c] < status'[c].size
      BY Zenon, <1>5, <3>1
    <3> QED BY Zenon, <2>1, <3>2, <3>3, <3>4 DEF LoopCursor
  <2> QED BY <2>3, <2>5
<1>8. ASSUME ~late, NEW x \in Coordinator PROVE reached'[x] >= reached[x]
  <2>1. x # c => reached'[x] = reached[x]
    BY <1>4 DEF OthersKept
  <2>2. Numbers(x)
    BY AllNumbers
  <2> QED BY <1>2, <1>5, <1>8, <2>1, <2>2 DEF Numbers
<1> QED BY <1>3, <1>4, <1>6, <1>7, <1>8, OneMoves, <1>1 DEF Numbers

LEMMA ApplyCursor ==
  ASSUME CursorInv, NEW c \in Coordinator, ApplyNext(c)
  PROVE  /\ CursorInv'
         /\ CommandIndex(status[c], g_local_applied_count[c]) = reached[c] + 1
         /\ reached' = [reached EXCEPT ![c] = @ + 1]
         /\ reached[c] < Len(commands)
<1> DEFINE i == g_local_applied_count[c]
           next == IF i + 1 < status[c].size THEN "applying"
                   ELSE IF i + 1 >= CompactionThreshold THEN "compacting" ELSE "idle"
<1>1. Bounds(c) /\ IdleCursor(c) /\ LoopCursor(c) /\ Numbers(c)
  BY AllNumbers DEF CursorInv
<1>2. /\ reached[c] = status[c].snapshot_last_index + i /\ i < status[c].size
      /\ reached[c] + 1 <= last_applied[c] /\ reached[c] < Len(commands)
  <2>1. phase[c] = "applying"
    BY Zenon DEF ApplyNext
  <2>2. /\ reached[c] = status[c].snapshot_last_index + i /\ i < status[c].size
        /\ status[c].snapshot_last_index + status[c].size <= last_applied[c]
    BY <1>1, <2>1 DEF LoopCursor, StatusEnd
  <2> QED BY SMTT(30), <1>1, <2>2 DEF Bounds, Numbers
<1>3. /\ UNCHANGED <<commands, last_applied, snapshot_last_index, restarts, status,
                     g_snapshot_applied_index, late>>
      /\ reached' = [reached EXCEPT ![c] = reached[c] + 1]
      /\ g_local_applied_count' = [g_local_applied_count EXCEPT ![c] = i + 1]
      /\ phase' = [phase EXCEPT ![c] = next]
  BY SMTT(30), <1>1, <1>2 DEF ApplyNext, raftVars, Numbers
<1>4. Indices' /\ OthersKept(c)
  <2>1. /\ reached[c] + 1 \in Nat /\ i + 1 \in Nat
        /\ next \in {"idle", "applying", "compacting"}
    BY <1>1 DEF Numbers
  <2> HIDE DEF i, next
  <2>2. Indices'
    BY <1>3, <2>1 DEF CursorInv, Indices
  <2>3. OthersKept(c)
    BY <1>3 DEF CursorInv, Indices, OthersKept
  <2> QED BY Zenon, <2>2, <2>3
<1>5. /\ reached'[c] = reached[c] + 1 /\ g_local_applied_count'[c] = i + 1 /\ phase'[c] = next
  BY <1>3 DEF CursorInv, Indices
<1>6. Bounds(c)'
  BY <1>1, <1>2, <1>3, <1>5 DEF Bounds
<1>7. IdleCursor(c)' /\ LoopCursor(c)'
  <2>1. /\ phase[c] = "applying"
        /\ phase'[c] = "applying" => i + 1 < status[c].size
        /\ phase'[c] = "idle" => i + 1 = status[c].size
    BY <1>1, <1>2, <1>5 DEF ApplyNext, Numbers
  <2> HIDE DEF next
  <2>2. /\ status[c].snapshot_last_index = g_snapshot_applied_index[c]
        /\ StatusEnd(c) <= last_applied[c]
        /\ Newer(c) => late \/ StatusEnd(c) <= snapshot_last_index[c]
        /\ ~Newer(c) => snapshot_last_index[c] = g_snapshot_applied_index[c]
    BY <1>1, <2>1 DEF LoopCursor, Newer, Bounds, Numbers
  <2>3. Newer(c)' <=> Newer(c)
    BY <1>3 DEF Newer
  <2>4. LoopCursor(c)'
    BY <1>1, <1>2, <1>3, <1>5, <2>1, <2>2, <2>3 DEF LoopCursor, StatusEnd, Numbers
  <2>5. IdleCursor(c)'
    BY <1>1, <1>2, <1>3, <1>5, <2>1, <2>2, <2>3 DEF IdleCursor, StatusEnd, Numbers
  <2> QED BY <2>4, <2>5
<1> QED BY <1>1, <1>2, <1>3, <1>4, <1>6, <1>7, OneMoves DEF CommandIndex, Numbers

LEMMA CompactCursor ==
  ASSUME CursorInv, NEW c \in Coordinator, CompactLog(c)
  PROVE  CursorInv' /\ CompactUpTo(c) = reached[c] /\ reached' = reached
<1>1. Bounds(c) /\ IdleCursor(c) /\ LoopCursor(c) /\ Numbers(c)
  BY AllNumbers DEF CursorInv
<1>2. CompactUpTo(c) = reached[c]
  BY <1>1 DEF CompactLog, LoopCursor, CompactUpTo
<1> DEFINE compacts == snapshot_last_index[c] < reached[c]
           snap == IF compacts THEN reached[c] ELSE snapshot_last_index[c]
           count == IF compacts THEN 0 ELSE g_local_applied_count[c]
<1>3. /\ UNCHANGED <<commands, last_applied, reached, restarts, status,
                     g_snapshot_applied_index, late>>
      /\ snapshot_last_index' = [snapshot_last_index EXCEPT ![c] = snap]
      /\ g_local_applied_count' = [g_local_applied_count EXCEPT ![c] = count]
      /\ phase' = [phase EXCEPT ![c] = "idle"]
  BY <1>1, <1>2 DEF CompactLog, viewVars, Bounds, CursorInv, Indices
<1>4. Indices' /\ OthersKept(c)
  BY <1>1, <1>3 DEF CursorInv, Indices, OthersKept, Numbers
<1>5. snapshot_last_index'[c] = snap /\ g_local_applied_count'[c] = count /\ phase'[c] = "idle"
  BY <1>3 DEF CursorInv, Indices
<1>6. Bounds(c)'
  BY <1>1, <1>3, <1>5 DEF Bounds, Numbers
<1>7. IdleCursor(c)' /\ LoopCursor(c)'
  <2>1. phase[c] = "compacting"
    BY Zenon DEF CompactLog
  <2>2. /\ reached[c] = status[c].snapshot_last_index + g_local_applied_count[c]
        /\ status[c].snapshot_last_index = g_snapshot_applied_index[c]
        /\ g_local_applied_count[c] <= status[c].size
    BY Zenon, <1>1, <2>1 DEF LoopCursor
  <2>3. IdleCursor(c)'
    BY SMTT(30), <1>1, <1>3, <1>5, <2>2 DEF IdleCursor, StatusEnd, Newer, Numbers, Bounds
  <2> QED BY Zenon, <1>5, <2>3 DEF LoopCursor
<1> QED BY <1>1, <1>2, <1>3, <1>4, <1>6, <1>7, OneMoves DEF Numbers

----------------------------------------------------------------------------
(* The requests and the commands *)

Asked == [command : Command, waiting : BOOLEAN, committed : Nat]

Typed == commands \in Seq(Command) /\ requests \in [Coordinator -> SUBSET Asked]

LEMMA AskedChange ==
  ASSUME NEW r \in Asked, NEW n \in Nat
  PROVE  [r EXCEPT !.committed = n] \in Asked /\ [r EXCEPT !.waiting = FALSE] \in Asked
BY Zenon DEF Asked

LEMMA TypedInit == Init => Typed
BY DEF Init, Typed

LEMMA TypedStep == Typed /\ Indices /\ [Next]_vars => Typed'
<1> SUFFICES ASSUME Typed, Indices, [Next]_vars PROVE Typed'
  OBVIOUS
<1>1. CASE UNCHANGED <<commands, requests>>
  BY <1>1 DEF Typed
<1>2. ASSUME NEW c \in Coordinator, NEW command \in Requested, Request(c, command) PROVE Typed'
  <2>1. [command |-> command, waiting |-> TRUE, committed |-> 0] \in Asked
    BY ClusterAssumption DEF Asked
  <2> HIDE DEF Asked
  <2> QED BY Zenon, <1>2, <2>1 DEF Request, Typed, raftVars
<1>3. ASSUME NEW c \in Coordinator, NEW r \in requests[c], Commit(c, r) PROVE Typed'
  <2>1. r \in Asked /\ r.command \in Command /\ Len(commands) + 1 \in Nat
    BY <1>3 DEF Typed, Asked, Indices
  <2>2. [r EXCEPT !.committed = Len(commands) + 1] \in Asked
    BY Zenon, <2>1, AskedChange
  <2>3. commands' \in Seq(Command)
    BY <1>3, <2>1 DEF Commit, Typed
  <2>4. requests' \in [Coordinator -> SUBSET Asked]
    <3>1. PICK committed \in SUBSET Asked :
            requests' = [requests EXCEPT ![c] = (@ \ {r}) \cup committed]
      BY Zenon, <1>3, <2>2 DEF Commit
    <3> QED BY Zenon, <3>1 DEF Typed
  <2> QED BY <2>3, <2>4 DEF Typed
<1>4. ASSUME NEW c \in Coordinator, NEW r \in requests[c],
             Refuse(c, r) \/ TimeOut(c, r) \/ Persist(c, r)
      PROVE  Typed'
  <2>1. r \in Asked
    BY <1>4 DEF Typed
  <2>2. [r EXCEPT !.waiting = FALSE] \in Asked
    BY Zenon, <2>1, AskedChange
  <2>3. commands' = commands
    BY <1>4 DEF Refuse, TimeOut, Persist, raftVars
  <2>4. requests' \in [Coordinator -> SUBSET Asked]
    BY Zenon, <1>4, <2>2 DEF Refuse, TimeOut, Persist, Typed
  <2> QED BY <2>3, <2>4 DEF Typed
<1>5. ASSUME NEW c \in Coordinator, Restart(c) PROVE Typed'
  <2>1. \A r \in requests[c] : [r EXCEPT !.waiting = FALSE] \in Asked
    BY Zenon, <1>5, AskedChange DEF Typed
  <2>2. requests' \in [Coordinator -> SUBSET Asked]
    BY <1>5, <2>1 DEF Restart, Typed
  <2> QED BY <1>5, <2>2 DEF Restart, Typed
<1>6. CASE UNCHANGED vars
  BY <1>1, <1>6 DEF vars, raftVars, adminVars
<1>7. ASSUME NEW c \in Coordinator, RaftSteps(c) \/ ApplySteps(c) PROVE Typed'
  BY <1>1, <1>7 DEF RaftSteps, ApplySteps, Learn, InstallSnapshot, ReadStatus, ApplyNext,
                    CompactLog, raftVars, adminVars
<1> QED BY <1>2, <1>3, <1>4, <1>5, <1>6, <1>7 DEF Next, AdminSteps
----------------------------------------------------------------------------
(* The cursor, concluded *)

LEMMA SameCursor ==
  ASSUME CursorInv, Len(commands') = Len(commands),
         UNCHANGED <<last_applied, snapshot_last_index, viewVars, applyVars, restarts, late>>
  PROVE  CursorInv' /\ reached' = reached
<1>1. /\ UNCHANGED <<last_applied, snapshot_last_index, reached, g_snapshot_applied_index,
                     g_local_applied_count, phase, status, restarts, late>>
      /\ Len(commands') = Len(commands)
  BY Zenon DEF viewVars, applyVars
<1>2. Indices'
  BY Zenon, <1>1 DEF CursorInv, Indices
<1>3. ASSUME NEW c \in Coordinator PROVE (Bounds(c) /\ IdleCursor(c) /\ LoopCursor(c))'
  <2>1. Bounds(c) /\ IdleCursor(c) /\ LoopCursor(c)
    BY Zenon DEF CursorInv
  <2>2. Bounds(c)' /\ Newer(c)' = Newer(c) /\ StatusEnd(c)' = StatusEnd(c)
    BY Zenon, <1>1, <2>1 DEF Bounds, Newer, StatusEnd
  <2>3. (late => late') /\ UNCHANGED <<last_applied, snapshot_last_index, reached,
                       g_snapshot_applied_index, g_local_applied_count, phase, status>>
    BY <1>1
  <2>4. IdleCursor(c)'
    BY Zenon, <2>1, <2>2, <2>3 DEF IdleCursor
  <2>5. LoopCursor(c)'
    BY Zenon, <2>1, <2>2, <2>3 DEF LoopCursor
  <2> QED BY Zenon, <2>2, <2>4, <2>5
<1> QED BY Zenon, <1>1, <1>2, <1>3 DEF CursorInv

LEMMA CommitCursor ==
  ASSUME CursorInv, Typed, NEW c \in Coordinator, NEW r \in requests[c], Commit(c, r)
  PROVE  CursorInv' /\ reached' = reached /\ Len(commands') = Len(commands) + 1
<1>1. Len(commands') = Len(commands) + 1
  BY DEF Commit, Typed, Asked
<1>2. Bounds(c) /\ IdleCursor(c) /\ LoopCursor(c) /\ Numbers(c)
  BY AllNumbers DEF CursorInv
<1>3. Len(commands') \in Nat /\ Len(commands) + 1 \in Nat /\ Len(commands) <= Len(commands')
  BY <1>1, <1>2 DEF Numbers
<1>4. /\ last_applied' = [last_applied EXCEPT ![c] = Len(commands) + 1]
      /\ UNCHANGED <<snapshot_last_index, reached, g_snapshot_applied_index,
                     g_local_applied_count, phase, status, restarts, late>>
  BY DEF Commit, viewVars, applyVars
<1>5. Indices' /\ OthersKept(c) /\ last_applied'[c] = Len(commands) + 1
  <2>1. Indices'
    BY <1>3, <1>4 DEF CursorInv, Indices
  <2>2. OthersKept(c) /\ last_applied'[c] = Len(commands) + 1
    BY <1>4 DEF CursorInv, Indices, OthersKept
  <2> QED BY Zenon, <2>1, <2>2
<1>6. Bounds(c)'
  BY <1>1, <1>2, <1>4, <1>5 DEF Bounds, Numbers
<1>7. IdleCursor(c)'
  BY <1>2, <1>4 DEF IdleCursor, Newer
<1>8. LoopCursor(c)'
  <2>1. StatusEnd(c) \in Nat
    BY <1>2 DEF StatusEnd, Numbers
  <2>2. StatusEnd(c)' = StatusEnd(c) /\ (Newer(c)' <=> Newer(c))
    BY <1>4 DEF StatusEnd, Newer
  <2>3. StatusEnd(c) <= last_applied[c] => StatusEnd(c) <= last_applied'[c]
    BY <1>2, <1>5, <2>1 DEF Bounds, Numbers
  <2> QED BY <1>2, <1>4, <2>2, <2>3 DEF LoopCursor
<1> QED BY <1>1, <1>3, <1>4, <1>5, <1>6, <1>7, <1>8, OneMoves

LEMMA RestartCursor ==
  ASSUME CursorInv, NEW c \in Coordinator, Restart(c)
  PROVE  CursorInv' /\ restarts' # restarts
<1>1. Bounds(c) /\ Numbers(c)
  BY AllNumbers DEF CursorInv
<1>2. Indices' /\ OthersKept(c) /\ UNCHANGED <<commands, late>>
  <2>1. /\ UNCHANGED <<commands, snapshot_last_index, status, late>>
        /\ restarts' = restarts + 1
        /\ reached' = [reached EXCEPT ![c] = snapshot_last_index[c]]
        /\ last_applied' = [last_applied EXCEPT ![c] = snapshot_last_index[c]]
        /\ g_snapshot_applied_index' =
             [g_snapshot_applied_index EXCEPT ![c] = snapshot_last_index[c]]
        /\ g_local_applied_count' = [g_local_applied_count EXCEPT ![c] = 0]
        /\ phase' = [phase EXCEPT ![c] = "idle"]
    BY Zenon DEF Restart
  <2>2. Indices'
    BY <2>1 DEF CursorInv, Indices
  <2>3. OthersKept(c)
    BY <2>1 DEF CursorInv, Indices, OthersKept
  <2> QED BY Zenon, <2>1, <2>2, <2>3
<1>3. /\ last_applied'[c] = snapshot_last_index[c] /\ reached'[c] = snapshot_last_index[c]
      /\ g_snapshot_applied_index'[c] = snapshot_last_index[c]
      /\ g_local_applied_count'[c] = 0 /\ phase'[c] = "idle"
      /\ snapshot_last_index' = snapshot_last_index
  BY DEF Restart, CursorInv, Indices
<1>4. Bounds(c)' /\ IdleCursor(c)' /\ LoopCursor(c)'
  BY <1>1, <1>2, <1>3 DEF Bounds, IdleCursor, LoopCursor, Newer, Numbers
<1>5. Len(commands) <= Len(commands')
  BY <1>1, <1>2 DEF Numbers
<1>6. restarts' # restarts
  BY DEF Restart, CursorInv, Indices
<1> QED BY <1>2, <1>4, <1>5, <1>6, OneMoves

LEMMA CursorStep ==
  ASSUME CursorInv, Typed, [Next]_vars
  PROVE  /\ CursorInv'
         /\ restarts' = restarts /\ ~late => \A x \in Coordinator : reached'[x] >= reached[x]
<1>0. reached' = reached => \A x \in Coordinator : reached'[x] >= reached[x]
  BY AllNumbers DEF Numbers
<1>1. ASSUME NEW c \in Coordinator, RaftSteps(c) PROVE CursorInv' /\ reached' = reached
  BY <1>1, LearnCursor, InstallCursor DEF RaftSteps
<1>2. ASSUME NEW c \in Coordinator, ApplySteps(c)
      PROVE  CursorInv' /\ (~late => \A x \in Coordinator : reached'[x] >= reached[x])
  <2>1. CASE ReadStatus(c)
    BY <2>1, ReadCursor
  <2>2. CASE ApplyNext(c)
    <3>1. CursorInv' /\ reached' = [reached EXCEPT ![c] = @ + 1]
      BY <2>2, ApplyCursor
    <3>2. ASSUME NEW x \in Coordinator PROVE reached'[x] >= reached[x]
      <4>1. Numbers(x) /\ Numbers(c)
        BY AllNumbers
      <4>2. reached'[x] = IF x = c THEN reached[c] + 1 ELSE reached[x]
        BY <3>1 DEF CursorInv, Indices
      <4> QED BY <4>1, <4>2 DEF Numbers
    <3> QED BY <3>1, <3>2
  <2>3. CASE CompactLog(c)
    BY <2>3, CompactCursor, <1>0
  <2> QED BY <1>2, <2>1, <2>2, <2>3 DEF ApplySteps
<1>3. ASSUME NEW c \in Coordinator, AdminSteps(c) PROVE CursorInv' /\ reached' = reached
  <2>1. ASSUME NEW command \in Requested, Request(c, command)
        PROVE  CursorInv' /\ reached' = reached
    BY <2>1, SameCursor DEF Request, raftVars
  <2>2. ASSUME NEW r \in requests[c], Refuse(c, r) \/ TimeOut(c, r) \/ Persist(c, r)
        PROVE  CursorInv' /\ reached' = reached
    BY <2>2, SameCursor DEF Refuse, TimeOut, Persist, raftVars
  <2> QED BY <1>3, <2>1, <2>2, CommitCursor DEF AdminSteps
<1>4. CASE UNCHANGED vars
  BY <1>0, <1>4, SameCursor DEF vars, raftVars, viewVars
<1> QED BY <1>0, <1>1, <1>2, <1>3, <1>4, RestartCursor DEF Next

\* apply_pending_raft_commands takes a running coordinator back to an earlier
\* topology only once a snapshot has been installed that ends before what its
\* receiver had applied, however its loop, its compactions and installed snapshots
\* interleave.
THEOREM NeverBack == Spec => ReachedNeverBack
<1>1. Init => CursorInv /\ Typed
  BY CursorInit, TypedInit
<1>2. CursorInv /\ Typed /\ [Next]_vars => (CursorInv /\ Typed)'
  BY CursorStep, TypedStep DEF CursorInv
<1>3. CursorInv /\ Typed /\ [Next]_vars =>
        [restarts' = restarts /\ ~late => \A c \in Coordinator : reached'[c] >= reached[c]]_vars
  BY CursorStep
<1> QED BY <1>1, <1>2, <1>3, PTL DEF Spec, ReachedNeverBack
----------------------------------------------------------------------------
(* What the commands declare *)

Client == [primaries : SUBSET Replica, epoch : Nat]
Topologies == UNION {[S -> Client] : S \in SUBSET Shard}

\* The shard ids that the first n commands of a log have given clients to.
UsedBy(log, n) ==
  InitialShards \cup {log[k].shard_id : k \in {m \in 1..n : log[m].type = "add_shard"}}

\* Each command changes what the ones before it declare, and an add_shard names
\* a shard that none of them has used.
Declares ==
  /\ declared \in Seq(Topologies) /\ Len(declared) = Len(commands) + 1
  /\ \A k \in 1..Len(commands) :
       /\ declared[k + 1] =
            Effect(declared[k], commands[k], k,
                   commands[k].type = "add_shard" /\ commands[k].shard_id \in DOMAIN declared[k])
       /\ commands[k].type = "add_shard" => commands[k].shard_id \notin UsedBy(commands, k - 1)
  /\ \A k \in 0..Len(commands) : DOMAIN declared[k + 1] \subseteq UsedBy(commands, k)

\* Until a coordinator restarts, each has nothing but what the commands declare,
\* and all of it until a late snapshot is installed.
Exact(c) ==
  /\ topology[c] = declared[reached[c] + 1]
  /\ known[c] \subseteq UsedBy(commands, reached[c])
  /\ snapshot_data[c] = declared[snapshot_last_index[c] + 1]

Content(c) ==
  /\ Within(topology[c], declared[reached[c] + 1])
  /\ Within(snapshot_data[c], declared[snapshot_last_index[c] + 1])
  /\ late \/ Exact(c)

Contents ==
  /\ topology = [c \in Coordinator |-> topology[c]]
  /\ known = [c \in Coordinator |-> known[c]]
  /\ snapshot_data = [c \in Coordinator |-> snapshot_data[c]]
  /\ restarts = 0 => \A c \in Coordinator : Content(c)

LEMMA UsedGrows ==
  ASSUME NEW log, NEW m \in Nat, NEW n \in Nat, m <= n
  PROVE  UsedBy(log, m) \subseteq UsedBy(log, n)
BY DEF UsedBy

LEMMA EffectTyped ==
  ASSUME NEW t \in Topologies, NEW command \in Command, NEW n \in Nat, NEW p \in BOOLEAN
  PROVE  Effect(t, command, n, p) \in Topologies
<1>1. PICK S \in SUBSET Shard : t \in [S -> Client]
  BY DEF Topologies
<1>2. ASSUME NEW s \in Shard, NEW client \in Client
      PROVE  With(t, s, client) \in Topologies /\ Without(t, s) \in Topologies
  <2>1. With(t, s, client) \in [S \cup {s} -> Client] /\ Without(t, s) \in [S \ {s} -> Client]
    BY <1>1 DEF With, Without
  <2> QED BY <2>1, <1>1 DEF Topologies
<1>3. CASE command.type = "add_shard"
  <2>1. command.shard_id \in Shard /\ command.primaries \in SUBSET Replica
    BY <1>3, ClusterAssumption DEF Command
  <2>2. [primaries |-> command.primaries, epoch |-> n] \in Client
    BY <2>1 DEF Client
  <2> QED BY <1>2, <1>3, <2>1, <2>2 DEF Effect
<1>4. CASE command.type = "remove_shard"
  <2>1. command.shard_id \in Shard
    BY <1>4 DEF Command
  <2>2. [primaries |-> {}, epoch |-> 0] \in Client
    BY DEF Client
  <2> QED BY <1>2, <1>4, <2>1, <2>2 DEF Effect
<1>5. CASE command.type = "set_primary"
  <2>1. command.shard_id \in Shard /\ command.replica_id \in Replica
    BY <1>5 DEF Command
  <2>2. [primaries |-> {command.replica_id}, epoch |-> n] \in Client
    BY <2>1 DEF Client
  <2> QED BY <1>2, <1>5, <2>1, <2>2 DEF Effect
<1>6. CASE command.type = "other"
  BY <1>6 DEF Effect
<1> QED BY <1>3, <1>4, <1>5, <1>6 DEF Command

LEMMA EffectDomain ==
  ASSUME NEW t, NEW command \in Command, NEW n, NEW p \in BOOLEAN
  PROVE  DOMAIN Effect(t, command, n, p) \subseteq
           DOMAIN t \cup (IF command.type = "add_shard" THEN {command.shard_id} ELSE {})
BY DEF Effect, With, Without, Command

\* What a topology lacks beside another stays all that it lacks, whether or not the
\* first counts the shard of an add_shard as present.
LEMMA EffectWithin ==
  ASSUME NEW t, NEW u, Within(t, u), NEW command \in Command, NEW n,
         NEW p \in BOOLEAN, NEW q \in BOOLEAN,
         command.type = "add_shard" => command.shard_id \notin DOMAIN u /\ ~q
  PROVE  Within(Effect(t, command, n, p), Effect(u, command, n, q))
<1>1. CASE command.type = "add_shard"
  BY <1>1 DEF Within, Effect, With
<1>2. CASE command.type = "remove_shard"
  BY <1>2 DEF Within, Effect, Without
<1>3. CASE command.type = "set_primary"
  BY <1>3 DEF Within, Effect, With
<1>4. CASE command.type = "other"
  BY <1>4 DEF Within, Effect
<1> QED BY <1>1, <1>2, <1>3, <1>4 DEF Command

LEMMA DeclaresInit == Init => Declares /\ Contents
<1> SUFFICES ASSUME Init PROVE Declares /\ Contents
  OBVIOUS
<1> DEFINE first == FromFile([s \in InitialShards |-> {InitialPrimary}])
<1>1. first \in Topologies /\ DOMAIN first = InitialShards
  <2>1. [primaries |-> {InitialPrimary}, epoch |-> 0] \in Client
    BY ClusterAssumption DEF Client
  <2>2. first = [s \in InitialShards |-> [primaries |-> {InitialPrimary}, epoch |-> 0]]
    BY DEF FromFile
  <2>3. first \in [InitialShards -> Client]
    BY Zenon, <2>1, <2>2
  <2>4. InitialShards \in SUBSET Shard
    BY ClusterAssumption
  <2>5. DOMAIN first = InitialShards
    BY <2>2
  <2> HIDE DEF first
  <2> QED BY <2>3, <2>4, <2>5 DEF Topologies
<1>2. declared = <<first>> /\ commands = << >> /\ reached = [c \in Coordinator |-> 0]
      /\ snapshot_last_index = [c \in Coordinator |-> 0]
      /\ topology = [c \in Coordinator |-> first] /\ snapshot_data = topology
      /\ known = [c \in Coordinator |-> InitialShards]
  BY DEF Init
<1> HIDE DEF first
<1>3. Len(commands) = 0 /\ Len(declared) = 1 /\ declared[1] = first /\ declared \in Seq(Topologies)
  <2>1. commands = << >> /\ declared = <<first>> /\ first \in Topologies
    BY Zenon, <1>1, <1>2
  <2> QED BY <2>1
<1>4. InitialShards \subseteq UsedBy(commands, 0)
  BY DEF UsedBy
<1>5. Declares
  BY <1>1, <1>3, <1>4 DEF Declares
<1>6. Contents
  BY <1>2, <1>3, <1>4 DEF Contents, Content, Exact, Within
<1> QED BY <1>5, <1>6

LEMMA DeclaresSame ==
  ASSUME Declares, UNCHANGED <<commands, declared>> PROVE Declares'
BY DEF Declares

LEMMA DeclaresCommit ==
  ASSUME ~ReAdd, Declares, Typed, NEW c \in Coordinator, NEW r \in requests[c], Commit(c, r)
  PROVE  /\ Declares'
         /\ \A k \in 0..Len(commands) : declared'[k + 1] = declared[k + 1] /\ UsedBy(commands', k) = UsedBy(commands, k)
<1> DEFINE n == Len(commands) + 1
           add == r.command.type = "add_shard"
           t == declared[n]
           u == Effect(t, r.command, n, add /\ r.command.shard_id \in DOMAIN t)
<1>1. /\ r.command \in Command /\ Len(commands) \in Nat /\ commands \in Seq(Command)
      /\ declared \in Seq(Topologies) /\ Len(declared) = n /\ n \in Nat
  BY DEF Typed, Asked, Declares
<1>2. t \in Topologies
  BY <1>1
<1>3. u \in Topologies
  BY Zenon, <1>1, <1>2, EffectTyped
<1>4. commands' = Append(commands, r.command) /\ declared' = Append(declared, u)
  BY DEF Commit
<1> HIDE DEF u
<1>5. /\ commands' \in Seq(Command) /\ Len(commands') = n /\ commands'[n] = r.command
      /\ \A k \in 1..Len(commands) : commands'[k] = commands[k]
  BY <1>1, <1>4
<1>6. /\ declared' \in Seq(Topologies) /\ Len(declared') = n + 1 /\ declared'[n + 1] = u
      /\ \A k \in 1..n : declared'[k] = declared[k]
  BY <1>1, <1>3, <1>4
<1>7. ASSUME NEW k \in 0..Len(commands) PROVE UsedBy(commands', k) = UsedBy(commands, k) /\ declared'[k + 1] = declared[k + 1]
  <2>1. \A m \in 1..k : commands'[m] = commands[m]
    BY <1>1, <1>5
  <2>2. declared'[k + 1] = declared[k + 1]
    BY <1>1, <1>6
  <2> QED BY <2>1, <2>2 DEF UsedBy
<1>8. UsedBy(commands', n) = UsedBy(commands, n - 1) \cup (IF add THEN {r.command.shard_id} ELSE {})
  <2>1. 1..n = (1..(n - 1)) \cup {n} /\ n - 1 \in 0..Len(commands)
    BY <1>1
  <2>2. UsedBy(commands', n) = UsedBy(commands', n - 1) \cup (IF add THEN {r.command.shard_id} ELSE {})
    BY <1>5, <2>1 DEF UsedBy
  <2> QED BY <1>7, <2>1, <2>2
<1>9. add => r.command.shard_id \notin UsedBy(commands, n - 1)
  <2>1. DOMAIN commands = 1..(n - 1)
    BY <1>1
  <2> QED BY <2>1 DEF Commit, Used, UsedBy
<1>10. DOMAIN u \subseteq UsedBy(commands', n)
  <2>1. DOMAIN u \subseteq DOMAIN t \cup (IF add THEN {r.command.shard_id} ELSE {})
    BY Zenon, <1>1, EffectDomain DEF u
  <2>2. DOMAIN t \subseteq UsedBy(commands, n - 1)
    BY <1>1 DEF Declares
  <2> QED BY <1>8, <2>1, <2>2
<1>11. ASSUME NEW k \in 1..Len(commands')
       PROVE  /\ declared'[k + 1] =
                   Effect(declared'[k], commands'[k], k,
                     commands'[k].type = "add_shard"
                       /\ commands'[k].shard_id \in DOMAIN declared'[k])
              /\ commands'[k].type = "add_shard" => commands'[k].shard_id \notin UsedBy(commands', k - 1)
  <2>1. CASE k = n
    <3>1. UsedBy(commands', k - 1) = UsedBy(commands, n - 1)
      BY <1>1, <1>7, <2>1
    <3> QED BY <1>1, <1>5, <1>6, <1>9, <2>1, <3>1 DEF u
  <2>2. CASE k # n
    <3>1. k \in 1..Len(commands) /\ k - 1 \in 0..Len(commands)
      BY <1>1, <1>5, <2>2
    <3>2. commands'[k] = commands[k] /\ UsedBy(commands', k - 1) = UsedBy(commands, k - 1)
          /\ declared'[k] = declared[k] /\ declared'[k + 1] = declared[k + 1]
      BY <1>1, <1>5, <1>6, <1>7, <3>1
    <3> QED BY Zenon, <3>1, <3>2 DEF Declares
  <2> QED BY Zenon, <2>1, <2>2
<1>12. ASSUME NEW k \in 0..Len(commands') PROVE DOMAIN declared'[k + 1] \subseteq UsedBy(commands', k)
  <2>1. CASE k = n
    BY <1>6, <1>10, <2>1
  <2>2. CASE k # n
    <3>1. k \in 0..Len(commands)
      BY <1>1, <1>5, <2>2
    <3> QED BY <1>7, <3>1 DEF Declares
  <2> QED BY <2>1, <2>2
<1> QED BY <1>5, <1>6, <1>7, <1>11, <1>12 DEF Declares

LEMMA ContentsSame ==
  ASSUME Contents,
         UNCHANGED <<commands, declared, topology, known, reached, snapshot_data,
                     snapshot_last_index, restarts, late>>
  PROVE  Contents'
BY DEF Contents, Content, Exact

LEMMA ContentsInstall ==
  ASSUME Contents, Indices, NEW c \in Coordinator, NEW d \in Coordinator, InstallSnapshot(c, d)
  PROVE  Contents'
<1>1. UNCHANGED <<commands, declared, topology, known, reached, restarts>> /\ (late => late')
  BY Zenon DEF InstallSnapshot, viewVars
<1>2. /\ snapshot_data' = [x \in Coordinator |-> IF x = c THEN snapshot_data[d] ELSE snapshot_data[x]]
      /\ snapshot_last_index' =
           [x \in Coordinator |-> IF x = c THEN snapshot_last_index[d] ELSE snapshot_last_index[x]]
  BY Zenon DEF InstallSnapshot, Contents, Indices
<1>3. ASSUME restarts = 0, NEW x \in Coordinator PROVE Content(x)'
  <2>1. Content(x) /\ Content(d)
    BY Zenon, <1>3 DEF Contents
  <2>2. CASE x = c
    <3>1. snapshot_data'[x] = snapshot_data[d] /\ snapshot_last_index'[x] = snapshot_last_index[d]
      BY Zenon, <1>2, <2>2
    <3> QED BY Zenon, <1>1, <2>1, <3>1 DEF Content, Exact
  <2>3. CASE x # c
    <3>1. snapshot_data'[x] = snapshot_data[x] /\ snapshot_last_index'[x] = snapshot_last_index[x]
      BY Zenon, <1>2, <2>3
    <3> QED BY Zenon, <1>1, <2>1, <3>1 DEF Content, Exact
  <2> QED BY Zenon, <2>2, <2>3
<1> QED BY <1>1, <1>2, <1>3 DEF Contents

LEMMA ContentsCommit ==
  ASSUME ~ReAdd, Contents, Declares, Typed, CursorInv,
         NEW c \in Coordinator, NEW r \in requests[c], Commit(c, r)
  PROVE  Contents'
<1>1. UNCHANGED <<topology, known, reached, snapshot_data, snapshot_last_index, restarts, late>>
  BY DEF Commit, viewVars
<1>2. ASSUME restarts = 0, NEW x \in Coordinator PROVE Content(x)'
  <2>1. Content(x) /\ Bounds(x) /\ Numbers(x)
    BY <1>2, AllNumbers DEF Contents, CursorInv
  <2>2. reached[x] \in 0..Len(commands) /\ snapshot_last_index[x] \in 0..Len(commands)
    BY <2>1 DEF Bounds, Numbers
  <2>3. /\ declared'[reached[x] + 1] = declared[reached[x] + 1]
        /\ declared'[snapshot_last_index[x] + 1] = declared[snapshot_last_index[x] + 1]
        /\ UsedBy(commands', reached[x]) = UsedBy(commands, reached[x])
    BY <2>2, DeclaresCommit
  <2> QED BY Zenon, <1>1, <2>1, <2>3 DEF Content, Exact
<1> QED BY <1>1, <1>2 DEF Contents

LEMMA ContentsRead ==
  ASSUME Contents, Declares, CursorInv, NEW c \in Coordinator, ReadStatus(c)
  PROVE  Contents'
<1>1. UNCHANGED <<commands, declared, snapshot_data, snapshot_last_index, restarts, late>>
  BY DEF ReadStatus, raftVars
<1>2. CASE Newer(c)
  <2>1. /\ topology' = [x \in Coordinator |-> IF x = c THEN snapshot_data[c] ELSE topology[x]]
        /\ known' = [x \in Coordinator |->
                       IF x = c THEN known[c] \cup DOMAIN snapshot_data[c] ELSE known[x]]
        /\ reached' = [x \in Coordinator |->
                         IF x = c THEN snapshot_last_index[c] ELSE reached[x]]
    <3>1. /\ topology' = [topology EXCEPT ![c] = snapshot_data[c]]
          /\ known' = [known EXCEPT ![c] = @ \cup DOMAIN snapshot_data[c]]
          /\ reached' = [reached EXCEPT ![c] = snapshot_last_index[c]]
      BY Zenon, <1>2 DEF ReadStatus, apply_raft_snapshot
    <3> QED BY Zenon, <3>1 DEF Contents, CursorInv, Indices
  <2>2. ASSUME restarts = 0, NEW x \in Coordinator PROVE Content(x)'
    <3>1. CASE x # c
      <4>1. Content(x)
        BY Zenon, <2>2 DEF Contents
      <4>2. topology'[x] = topology[x] /\ known'[x] = known[x] /\ reached'[x] = reached[x]
        BY Zenon, <2>1, <3>1
      <4> QED BY Zenon, <1>1, <4>1, <4>2 DEF Content, Exact
    <3>2. CASE x = c
      <4>1. Content(c) /\ Bounds(c) /\ Numbers(c) /\ IdleCursor(c)
        BY <2>2, AllNumbers DEF Contents, CursorInv
      <4>2. /\ topology'[c] = snapshot_data[c] /\ reached'[c] = snapshot_last_index[c]
            /\ known'[c] = known[c] \cup DOMAIN snapshot_data[c]
        BY Zenon, <2>1
      <4>3. ASSUME ~late PROVE Exact(c)'
        <5>1. Exact(c)
          BY Zenon, <4>1, <4>3 DEF Content
        <5>2. /\ reached[c] \in Nat /\ reached[c] <= snapshot_last_index[c]
              /\ snapshot_last_index[c] \in 0..Len(commands)
          <6>1. phase[c] = "idle"
            BY Zenon DEF ReadStatus
          <6> QED BY <1>2, <4>1, <4>3, <6>1 DEF IdleCursor, Bounds, Numbers
        <5>3. DOMAIN snapshot_data[c] \subseteq UsedBy(commands, snapshot_last_index[c])
          BY Zenon, <5>1, <5>2 DEF Declares, Exact
        <5>4. known[c] \subseteq UsedBy(commands, snapshot_last_index[c])
          BY <5>1, <5>2, UsedGrows DEF Exact
        <5> QED BY Zenon, <1>1, <4>2, <5>1, <5>3, <5>4 DEF Exact
      <4> QED BY Zenon, <1>1, <3>2, <4>1, <4>2, <4>3 DEF Content
    <3> QED BY <3>1, <3>2
  <2> QED BY <1>1, <2>1, <2>2 DEF Contents
<1>3. CASE ~Newer(c)
  <2>1. UNCHANGED <<topology, known, reached>>
    BY <1>3 DEF ReadStatus, viewVars
  <2> QED BY <1>1, <2>1, ContentsSame
<1> QED BY <1>2, <1>3

LEMMA ContentsApply ==
  ASSUME Contents, Declares, Typed, CursorInv, NEW c \in Coordinator, ApplyNext(c)
  PROVE  Contents'
<1> DEFINE n == reached[c] + 1
           command == commands[n]
           present == command.type = "add_shard" /\ command.shard_id \in known[c]
<1>1. UNCHANGED <<commands, declared, snapshot_data, snapshot_last_index, restarts, late>>
  BY Zenon DEF ApplyNext, raftVars
<1>2. /\ CommandIndex(status[c], g_local_applied_count[c]) = n
      /\ reached' = [reached EXCEPT ![c] = n] /\ reached[c] < Len(commands) /\ Numbers(c)
  <2>1. /\ CommandIndex(status[c], g_local_applied_count[c]) = reached[c] + 1
        /\ reached' = [reached EXCEPT ![c] = @ + 1] /\ reached[c] < Len(commands)
    BY Zenon, ApplyCursor
  <2>2. Numbers(c)
    BY Zenon, AllNumbers
  <2> QED BY Zenon, <2>1, <2>2
<1>3. n \in 1..Len(commands) /\ reached[c] \in 0..Len(commands) /\ n - 1 = reached[c] /\ n \in Nat
  <2>1. reached[c] \in Nat /\ Len(commands) \in Nat /\ reached[c] < Len(commands)
    BY Zenon, <1>2 DEF Numbers
  <2> QED BY <2>1
<1>4. /\ topology' = [x \in Coordinator |->
                        IF x = c THEN Effect(topology[c], command, n, present) ELSE topology[x]]
      /\ known' = [x \in Coordinator |->
                     IF x # c THEN known[x]
                     ELSE IF command.type = "add_shard" THEN known[c] \cup {command.shard_id}
                     ELSE known[c]]
      /\ reached' = [x \in Coordinator |-> IF x = c THEN n ELSE reached[x]]
  <2>1. /\ topology' = [topology EXCEPT ![c] = Effect(@, command, n, present)]
        /\ known' = [known EXCEPT ![c] = IF command.type = "add_shard"
                                         THEN @ \cup {command.shard_id} ELSE @]
    BY Zenon, <1>2 DEF ApplyNext
  <2> HIDE DEF present, command
  <2> QED BY Zenon, <1>2, <2>1 DEF Contents, CursorInv, Indices
<1>5. /\ present = (command.type = "add_shard" /\ command.shard_id \in known[c])
      /\ command = commands[n] /\ n = reached[c] + 1
  OBVIOUS
<1> HIDE DEF present, command, n
<1>6. ASSUME restarts = 0, NEW x \in Coordinator PROVE Content(x)'
  <2>1. CASE x # c
    <3>1. Content(x)
      BY Zenon, <1>6 DEF Contents
    <3>2. topology'[x] = topology[x] /\ known'[x] = known[x] /\ reached'[x] = reached[x]
      BY Zenon, <1>4, <2>1
    <3> QED BY Zenon, <1>1, <3>1, <3>2 DEF Content, Exact
  <2>2. CASE x = c
    <3>1. /\ Within(topology[c], declared[n]) /\ (late \/ Exact(c))
          /\ Within(snapshot_data[c], declared[snapshot_last_index[c] + 1])
      BY Zenon, <1>5, <1>6 DEF Contents, Content
    <3>2. /\ declared[n + 1] =
               Effect(declared[n], command, n,
                      command.type = "add_shard" /\ command.shard_id \in DOMAIN declared[n])
          /\ command.type = "add_shard" => command.shard_id \notin UsedBy(commands, n - 1)
      BY SMTT(30), <1>3, <1>5 DEF Declares
    <3>3. DOMAIN declared[n] \subseteq UsedBy(commands, n - 1)
      BY SMTT(30), <1>3 DEF Declares
    <3>4. /\ topology'[c] = Effect(topology[c], command, n, present) /\ reached'[c] = n
          /\ command.type = "add_shard" => command.shard_id \notin DOMAIN declared[n]
      BY Zenon, <1>4, <3>2, <3>3
    <3>5. Within(topology'[c], declared[n + 1])
      <4>1. command \in Command /\ present \in BOOLEAN
        BY <1>3, <1>5 DEF Typed
      <4>2. (command.type = "add_shard" /\ command.shard_id \in DOMAIN declared[n]) \in BOOLEAN
        OBVIOUS
      <4> DEFINE q == command.type = "add_shard" /\ command.shard_id \in DOMAIN declared[n]
      <4>3. command.type = "add_shard" => command.shard_id \notin DOMAIN declared[n] /\ ~q
        BY Zenon, <3>4
      <4>4. q \in BOOLEAN
        BY Zenon, <4>2
      <4>5. declared[n + 1] = Effect(declared[n], command, n, q)
        BY Zenon, <3>2
      <4> HIDE DEF q
      <4>6. Within(Effect(topology[c], command, n, present), Effect(declared[n], command, n, q))
        BY Zenon, <3>1, <4>1, <4>3, <4>4, EffectWithin
      <4> QED BY Zenon, <3>4, <4>5, <4>6
    <3>6. ASSUME ~late PROVE Exact(c)'
      <4>1. /\ topology[c] = declared[n] /\ known[c] \subseteq UsedBy(commands, n - 1)
            /\ snapshot_data[c] = declared[snapshot_last_index[c] + 1]
        BY Zenon, <1>3, <1>5, <3>1, <3>6 DEF Exact
      <4>2. present = (command.type = "add_shard" /\ command.shard_id \in DOMAIN declared[n])
        <5>1. command.type = "add_shard" =>
                command.shard_id \notin known[c] /\ command.shard_id \notin DOMAIN declared[n]
          BY Zenon, <3>2, <3>4, <4>1
        <5> QED BY Zenon, <1>5, <5>1
      <4>3. topology'[c] = declared[n + 1]
        BY Zenon, <3>2, <3>4, <4>1, <4>2
      <4>4. UsedBy(commands, n - 1) \subseteq UsedBy(commands, n)
        BY <1>3, UsedGrows
      <4>5. command.type = "add_shard" => command.shard_id \in UsedBy(commands, n)
        <5>1. n \in 1..n
          BY SMTT(30), <1>3
        <5> QED BY <1>5, <5>1 DEF UsedBy
      <4>6. known'[c] \subseteq UsedBy(commands, n)
        BY Zenon, <1>4, <4>1, <4>4, <4>5
      <4> QED BY Zenon, <1>1, <3>4, <4>1, <4>3, <4>6 DEF Exact
    <3> QED BY Zenon, <1>1, <2>2, <3>1, <3>4, <3>5, <3>6 DEF Content
  <2> QED BY Zenon, <2>1, <2>2
<1> QED BY Zenon, <1>1, <1>4, <1>6 DEF Contents

LEMMA ContentsCompact ==
  ASSUME Contents, CursorInv, NEW c \in Coordinator, CompactLog(c)
  PROVE  Contents'
<1>1. UNCHANGED <<commands, declared, topology, known, reached, restarts, late>>
  BY DEF CompactLog, viewVars
<1>2. CompactUpTo(c) = reached[c]
  BY CompactCursor
<1>3. CASE UNCHANGED <<snapshot_data, snapshot_last_index>>
  BY <1>1, <1>3, ContentsSame
<1>4. CASE /\ snapshot_last_index' = [snapshot_last_index EXCEPT ![c] = reached[c]]
           /\ snapshot_data' = [snapshot_data EXCEPT ![c] = topology[c]]
  <2>1. /\ snapshot_data' = [x \in Coordinator |-> IF x = c THEN topology[c] ELSE snapshot_data[x]]
        /\ snapshot_last_index' =
             [x \in Coordinator |-> IF x = c THEN reached[c] ELSE snapshot_last_index[x]]
    BY Zenon, <1>4 DEF Contents, CursorInv, Indices
  <2>2. ASSUME restarts = 0, NEW x \in Coordinator PROVE Content(x)'
    <3>1. Content(x) /\ Content(c)
      BY Zenon, <2>2 DEF Contents
    <3>2. CASE x = c
      <4>1. snapshot_data'[x] = topology[c] /\ snapshot_last_index'[x] = reached[c]
        BY Zenon, <2>1, <3>2
      <4> QED BY Zenon, <1>1, <3>1, <3>2, <4>1 DEF Content, Exact
    <3>3. CASE x # c
      <4>1. snapshot_data'[x] = snapshot_data[x] /\ snapshot_last_index'[x] = snapshot_last_index[x]
        BY Zenon, <2>1, <3>3
      <4> QED BY Zenon, <1>1, <3>1, <4>1 DEF Content, Exact
    <3> QED BY Zenon, <3>2, <3>3
  <2> QED BY <1>1, <2>1, <2>2 DEF Contents
<1> QED BY <1>2, <1>3, <1>4 DEF CompactLog, serialize_raft_snapshot

LEMMA ContentsRestart ==
  ASSUME Contents, Indices, NEW c \in Coordinator, Restart(c)
  PROVE  Contents'
<1>1. restarts' # 0
  BY DEF Restart, Indices
<1>2. /\ topology' = [topology EXCEPT ![c] = FromFile(config_file)]
      /\ known' = [known EXCEPT ![c] = DOMAIN config_file]
      /\ snapshot_data' = snapshot_data
  BY DEF Restart
<1> QED BY Zenon, <1>1, <1>2 DEF Contents

----------------------------------------------------------------------------
ClusterInv == CursorInv /\ Typed /\ Declares /\ Contents

LEMMA ClusterInvStep ==
  ASSUME ~ReAdd, ClusterInv, [Next]_vars
  PROVE  ClusterInv'
<1> USE DEF ClusterInv
<1>1. CursorInv' /\ Typed' /\ Indices
  <2>1. CursorInv'
    BY CursorStep
  <2>2. Indices
    BY Zenon DEF CursorInv
  <2>3. Typed'
    BY <2>2, TypedStep
  <2> QED BY Zenon, <2>1, <2>2, <2>3
<1>2. ASSUME NEW c \in Coordinator, RaftSteps(c) PROVE Declares' /\ Contents'
  <2>1. Declares'
    BY <1>2, DeclaresSame DEF RaftSteps, Learn, InstallSnapshot
  <2>2. Learn(c) => Contents'
    BY ContentsSame DEF Learn, viewVars
  <2> QED BY <1>1, <1>2, <2>1, <2>2, ContentsInstall DEF RaftSteps
<1>3. ASSUME NEW c \in Coordinator, ApplySteps(c) PROVE Declares' /\ Contents'
  <2>1. Declares'
    <3>1. ASSUME ReadStatus(c) \/ ApplyNext(c) PROVE UNCHANGED <<commands, declared>>
      BY Zenon, <3>1 DEF ReadStatus, ApplyNext, raftVars
    <3>2. ASSUME CompactLog(c) PROVE UNCHANGED <<commands, declared>>
      BY Zenon, <3>2 DEF CompactLog
    <3> QED BY Zenon, <1>3, <3>1, <3>2, DeclaresSame DEF ApplySteps
  <2>2. ReadStatus(c) => Contents'
    BY ContentsRead
  <2>3. ApplyNext(c) => Contents'
    BY ContentsApply
  <2>4. CompactLog(c) => Contents'
    BY ContentsCompact
  <2> QED BY Zenon, <1>3, <2>1, <2>2, <2>3, <2>4 DEF ApplySteps
<1>4. ASSUME NEW c \in Coordinator, AdminSteps(c) PROVE Declares' /\ Contents'
  <2>1. ASSUME NEW r \in requests[c], Commit(c, r) PROVE Declares' /\ Contents'
    BY <2>1, DeclaresCommit, ContentsCommit
  <2>2. ASSUME UNCHANGED <<raftVars, viewVars, restarts>> PROVE Declares' /\ Contents'
    BY <2>2, DeclaresSame, ContentsSame DEF raftVars, viewVars
  <2> QED BY <1>4, <2>1, <2>2 DEF AdminSteps, Request, Refuse, TimeOut, Persist
<1>5. ASSUME NEW c \in Coordinator, Restart(c) PROVE Declares' /\ Contents'
  <2>1. UNCHANGED <<commands, declared>>
    BY <1>5 DEF Restart
  <2> QED BY <1>1, <1>5, <2>1, DeclaresSame, ContentsRestart
<1>6. CASE UNCHANGED vars
  <2>1. UNCHANGED <<commands, declared, topology, known, reached, snapshot_data,
                    snapshot_last_index, restarts, late>>
    BY <1>6 DEF vars, raftVars, viewVars
  <2>2. Declares' /\ Contents'
    BY <2>1, DeclaresSame, ContentsSame
  <2> QED BY <1>1, <2>2
<1> QED BY <1>1, <1>2, <1>3, <1>4, <1>5, <1>6 DEF Next

\* Until a coordinator restarts, the clients, primaries and epochs of every
\* coordinator are at every moment those that the commands up to the one it has
\* reached declare, for every number of coordinators, shards and commands and
\* every COMPACTION_THRESHOLD: applying a command, applying a snapshot and
\* applying one's own snapshot again all lead there.  After a snapshot that ends
\* before what its receiver had applied, a coordinator may lack shards, and has
\* still none, no primary and no epoch that the commands do not declare.
THEOREM ViewsMatch ==
  ASSUME ~ReAdd
  PROVE  Spec => [](restarts = 0 => ViewMatchesLog)
<1>1. Init => ClusterInv
  BY CursorInit, TypedInit, DeclaresInit DEF ClusterInv
<1>2. ClusterInv /\ [Next]_vars => ClusterInv'
  BY ClusterInvStep
<1>3. ClusterInv => (restarts = 0 => ViewMatchesLog)
  BY DEF ClusterInv, Contents, Content, Exact, ViewMatchesLog, Declared
<1> QED BY <1>1, <1>2, <1>3, PTL DEF Spec

\* Until a coordinator restarts, what serialize_raft_snapshot gave RaftNode::compact,
\* or handle_install_snapshot took over from another node, is the topology that the
\* commands up to the snapshot's index declare, or lacks shards of it after a late
\* snapshot.
THEOREM SnapshotsMatch ==
  ASSUME ~ReAdd
  PROVE  Spec => [](restarts = 0 => SnapshotMatchesLog)
<1>1. Init => ClusterInv
  BY CursorInit, TypedInit, DeclaresInit DEF ClusterInv
<1>2. ClusterInv /\ [Next]_vars => ClusterInv'
  BY ClusterInvStep
<1>3. ClusterInv => (restarts = 0 => SnapshotMatchesLog)
  BY DEF ClusterInv, Contents, Content, Exact, SnapshotMatchesLog, Declared
<1> QED BY <1>1, <1>2, <1>3, PTL DEF Spec
============================================================================
