-------------------------- MODULE ShardReadProofs --------------------------
(***************************************************************************)
(* What GetVector returns, for every number of gRPC threads, keys,         *)
(* requests and crashes: the proof of ReadsBack of ShardNode.              *)
(***************************************************************************)
EXTENDS ShardOutcomeProofs


Alone ==
  \A k \in Key \ contended : \A t, u \in Thread : On(t, k) /\ On(u, k) => t = u

\* No handler is about to write a record that an acknowledged Insert relies on.
Reads(k) ==
  k \notin contended => \A d \in stored[k] :
    /\ \A t \in Thread : On(t, k) => handler[t].pc \notin {"write", "save"}
    /\ \E i \in DOMAIN reverse : reverse[i] = k /\ nodes[i].vector = d.vector

Same(t) ==
  handler[t].pc \in {"same_metadata", "save"} /\ handler[t].request.key \notin contended =>
    nodes[handler[t].id].vector = handler[t].request.data.vector

ReadInv == Alone /\ (\A k \in Key : Reads(k)) /\ \A t \in Thread : Same(t)

LEMMA QuietReads ==
  ASSUME ReadInv, NEW t \in Thread, NEW p \in PC, NEW i \in Nat, Moves(t, p, i),
         handler[t].pc # "idle",
         UNCHANGED <<reverse, nodes, stored, contended>>,
         p \in {"same_metadata", "save"} => nodes[i].vector = handler[t].request.data.vector,
         p \in {"write", "save"} => stored[handler[t].request.key] = {}
  PROVE  ReadInv'
<1>1. /\ handler'[t].pc = p /\ handler'[t].id = i /\ handler'[t].request = handler[t].request
      /\ \A u \in Thread \ {t} : handler'[u] = handler[u]
  BY DEF Moves
<1>2. \A u \in Thread, k \in Key : On(u, k)' => On(u, k)
  BY <1>1 DEF On
<1>3. Alone'
  BY <1>2 DEF Alone, ReadInv
<1>4. ASSUME NEW k \in Key PROVE Reads(k)'
  <2>1. Reads(k)
    BY DEF ReadInv
  <2>2. ASSUME k \notin contended, stored[k] # {}, NEW u \in Thread, On(u, k)'
        PROVE  handler'[u].pc \notin {"write", "save"}
    BY SMTT(30), <1>1, <1>2, <2>1, <2>2 DEF Reads, On
  <2> QED BY <2>1, <2>2 DEF Reads
<1>5. ASSUME NEW u \in Thread PROVE Same(u)'
  <2>1. Same(u)
    BY Zenon DEF ReadInv
  <2> QED BY <1>1, <2>1 DEF Same
<1> QED BY <1>3, <1>4, <1>5 DEF ReadInv

\* A handler answers; an Insert that is acknowledged has compared its vector or
\* written it.
LEMMA ReplyReads ==
  ASSUME ReadInv, NodeInv, NEW t \in Thread, NEW ok \in BOOLEAN, Reply(t, ok),
         handler[t].pc # "idle", UNCHANGED reverse,
         \A i \in DOMAIN reverse : nodes'[i].vector = nodes[i].vector,
         ok /\ handler[t].request.op = "Insert" => handler[t].pc \in {"same_metadata", "save"}
  PROVE  ReadInv'
<1> DEFINE r == handler[t].request
           k0 == r.key
           i0 == handler[t].id
<1>1. /\ Stops(t) /\ r \in Requested /\ k0 \in Key /\ Ids /\ Same(t)
      /\ UNCHANGED contended
  BY Zenon, ReplyStep, RequestFacts DEF NodeInv, Handlers, Working, Outcome, ReadInv, Reply
<1>2. ASSUME NEW u \in Thread, NEW k \in Key, On(u, k)'
      PROVE  u # t /\ On(u, k) /\ handler'[u] = handler[u]
  BY <1>1, <1>2 DEF Stops, On
<1>3. Alone'
  BY Zenon, <1>1, <1>2 DEF Alone, ReadInv
<1>4. ASSUME NEW k \in Key PROVE Reads(k)'
  <2>1. SUFFICES ASSUME k \notin contended, NEW d \in stored'[k]
                 PROVE  /\ \A u \in Thread : On(u, k)' => handler'[u].pc \notin {"write", "save"}
                        /\ \E i \in DOMAIN reverse : reverse[i] = k /\ nodes'[i].vector = d.vector
    BY <1>1 DEF Reads
  <2>2. Reads(k) /\ Alone
    BY DEF ReadInv
  <2>3. CASE k = k0 /\ ok /\ r.op = "Insert" /\ d = r.data
    <3>1. PICK i \in DOMAIN reverse : i = i0 /\ reverse[i] = k
      BY ZenonT(30), <1>1, <2>3 DEF Ids, WithId
    <3>2. nodes'[i].vector = d.vector
      BY SMTT(30), <1>1, <2>1, <2>3, <3>1 DEF Same
    <3>3. \A u \in Thread : ~On(u, k)'
      BY <1>2, <2>1, <2>2, <2>3 DEF Alone, On
    <3> QED BY <3>1, <3>2, <3>3
  <2>4. CASE d \in stored[k]
    <3>1. \A u \in Thread : On(u, k)' => handler'[u].pc \notin {"write", "save"}
      BY <1>2, <2>1, <2>2, <2>4 DEF Reads
    <3>2. PICK i \in DOMAIN reverse : reverse[i] = k /\ nodes[i].vector = d.vector
      BY SMTT(30), <2>1, <2>2, <2>4 DEF Reads
    <3> QED BY ZenonT(30), <3>1, <3>2
  <2>5. /\ stored \in [Key -> SUBSET Data]
        /\ \/ stored' = stored
           \/ ok /\ r.op = "Insert" /\ stored' = [stored EXCEPT ![k0] = {r.data}]
    BY Zenon DEF Reply, NodeInv, Stores
  <2>6. d \in stored[k] \/ (k = k0 /\ ok /\ r.op = "Insert" /\ d = r.data)
    BY <1>1, <2>1, <2>5
  <2> QED BY Zenon, <2>3, <2>4, <2>6
<1>5. ASSUME NEW u \in Thread PROVE Same(u)'
  <2>1. CASE handler'[u].pc \in {"same_metadata", "save"}
    <3>1. handler'[u] = handler[u] /\ Same(u)
      BY <1>1, <2>1 DEF Stops, ReadInv
    <3>2. handler[u].id \in DOMAIN reverse
      BY Zenon, <1>1, <2>1, <3>1 DEF Ids, WithId
    <3> QED BY Zenon, <1>1, <3>1, <3>2 DEF Same
  <2> QED BY <2>1 DEF Same
<1> QED BY Zenon, <1>3, <1>4, <1>5 DEF ReadInv

LEMMA ArriveReads ==
  ASSUME ReadInv, NodeInv, NEW t \in Thread, NEW r \in Requested, Receive(t, r)
  PROVE  ReadInv'
<1>1. Arrives(t, r) /\ r.key \in Key
  BY ReceiveStep, RequestFacts DEF NodeInv
<1>2. /\ UNCHANGED <<reverse, nodes>>
      /\ contended \subseteq contended'
      /\ r.key \notin contended' => \A u \in Thread : ~On(u, r.key)
      /\ \A k \in Key : stored'[k] \subseteq stored[k]
  <2>1. \A k \in Key : stored'[k] \subseteq stored[k]
    BY <1>1 DEF Receive, NodeInv, Stores
  <2> QED BY <2>1 DEF Receive, indexVars, Busy, On
<1>3. /\ handler'[t].pc = "load_epoch" /\ handler'[t].request = r
      /\ \A u \in Thread \ {t} :
           /\ handler'[u].pc = handler[u].pc
           /\ handler[u].pc # "idle" =>
                handler'[u].request = handler[u].request /\ handler'[u].id = handler[u].id
  BY <1>1 DEF Arrives
<1>4. ASSUME NEW u \in Thread, NEW k \in Key, On(u, k)'
      PROVE  (u = t /\ k = r.key) \/ (u # t /\ On(u, k))
  <2>1. CASE u = t
    BY <1>3, <1>4, <2>1 DEF On
  <2>2. CASE u # t
    <3>1. handler'[u].pc # "idle" /\ handler'[u].request.key = k
      BY <1>4 DEF On
    <3>2. handler[u].pc # "idle" /\ handler'[u].request = handler[u].request
      BY <1>3, <2>2, <3>1
    <3> QED BY <2>2, <3>1, <3>2 DEF On
  <2> QED BY <2>1, <2>2
<1>5. Alone'
  BY <1>2, <1>4 DEF Alone, ReadInv
<1>6. ASSUME NEW k \in Key PROVE Reads(k)'
  <2>1. Reads(k)
    BY DEF ReadInv
  <2>2. ASSUME k \notin contended', NEW d \in stored'[k], NEW u \in Thread, On(u, k)'
        PROVE  handler'[u].pc \notin {"write", "save"}
    <3>1. CASE u = t
      BY <1>3, <3>1
    <3>2. CASE u # t
      <4>1. On(u, k) /\ k \notin contended /\ d \in stored[k] /\ handler'[u].pc = handler[u].pc
        BY ZenonT(30), <1>2, <1>3, <1>4, <2>2, <3>2
      <4> QED BY Zenon, <2>1, <4>1 DEF Reads
    <3> QED BY <3>1, <3>2
  <2> QED BY Zenon, <1>2, <2>1, <2>2 DEF Reads
<1>7. ASSUME NEW u \in Thread PROVE Same(u)'
  <2>1. Same(u)
    BY DEF ReadInv
  <2>2. CASE u = t
    BY <1>3, <2>2 DEF Same
  <2>3. CASE u # t /\ handler[u].pc # "idle"
    <3>1. /\ handler'[u].pc = handler[u].pc /\ handler'[u].request = handler[u].request
          /\ handler'[u].id = handler[u].id
      BY <1>3, <2>3
    <3> QED BY <1>2, <2>1, <3>1 DEF Same
  <2>4. CASE u # t /\ handler[u].pc = "idle"
    <3>1. handler'[u].pc = "idle"
      BY <1>3, <2>4
    <3> QED BY <3>1 DEF Same
  <2> QED BY <2>2, <2>3, <2>4
<1> QED BY <1>5, <1>6, <1>7 DEF ReadInv

LEMMA NewIdReads ==
  ASSUME ReadInv, NodeInv, NEW t \in Thread, handler[t].pc = "assign",
         Moves(t, "write", Len(reverse) + 1), IsNew(handler[t].request.key),
         reverse' = Append(reverse, handler[t].request.key),
         UNCHANGED <<nodes, stored, contended>>
  PROVE  ReadInv'
<1>1. /\ handler'[t].pc = "write" /\ handler'[t].request = handler[t].request
      /\ \A u \in Thread \ {t} : handler'[u] = handler[u]
  BY DEF Moves
<1>2. handler[t].request.key \in Key
  BY RequestFacts DEF NodeInv, Handlers, Working
<1>3. \A i \in DOMAIN reverse : i \in DOMAIN reverse' /\ reverse'[i] = reverse[i]
  BY <1>2 DEF NodeInv, Stores
<1>4. stored[handler[t].request.key] = {}
  BY <1>2 DEF IsNew, LocalIds, NodeInv, Outcome, Standing
<1>5. \A u \in Thread, k \in Key : On(u, k)' => On(u, k)
  BY <1>1 DEF On
<1>6. Alone'
  BY ZenonT(30), <1>5 DEF Alone, ReadInv
<1>7. ASSUME NEW k \in Key PROVE Reads(k)'
  <2>1. Reads(k)
    BY DEF ReadInv
  <2>2. ASSUME k \notin contended, NEW d \in stored[k], NEW u \in Thread, On(u, k)'
        PROVE  handler'[u].pc \notin {"write", "save"}
    BY SMTT(30), <1>1, <1>4, <1>5, <2>1, <2>2 DEF Reads, On
  <2> QED BY <1>3, <2>1, <2>2 DEF Reads
<1>8. ASSUME NEW u \in Thread PROVE Same(u)'
  <2>1. Same(u)
    BY DEF ReadInv
  <2> QED BY <1>1, <2>1 DEF Same
<1> QED BY <1>6, <1>7, <1>8 DEF ReadInv

LEMMA WriteReads ==
  ASSUME ReadInv, NodeInv, NEW t \in Thread, WriteNode(t)
  PROVE  ReadInv'
<1> DEFINE i0 == handler[t].id
           k0 == handler[t].request.key
<1>1. Moves(t, "save", i0)
  BY WriteOutcome DEF NodeInv
<1>2. /\ handler'[t].pc = "save" /\ handler'[t].request = handler[t].request /\ handler'[t].id = i0
      /\ \A u \in Thread \ {t} : handler'[u] = handler[u]
  BY <1>1 DEF Moves
<1>3. /\ i0 \in DOMAIN reverse /\ reverse[i0] = k0 /\ k0 \in Key /\ Ids /\ handler[t].pc = "write"
      /\ Stores
  BY RequestFacts DEF WriteNode, NodeInv, Handlers, Working, Outcome, Ids, WithId
<1>4. /\ nodes' = [nodes EXCEPT ![i0] = NewNode(t)]
      /\ UNCHANGED <<reverse, stored, contended>>
  BY Zenon DEF WriteNode, history
<1>5. nodes'[i0] = NewNode(t) /\ \A i \in DOMAIN reverse : i # i0 => nodes'[i] = nodes[i]
  BY Zenon, <1>3, <1>4, RecordStands
<1>6. \A u \in Thread, k \in Key : On(u, k)' => On(u, k)
  BY <1>2, <1>3 DEF On
<1>7. Alone'
  BY <1>4, <1>6 DEF Alone, ReadInv
<1>8. ASSUME NEW k \in Key PROVE Reads(k)'
  <2>1. Reads(k)
    BY DEF ReadInv
  <2>2. k = k0 /\ k \notin contended => stored[k] = {}
    BY Zenon, <1>3, <2>1 DEF Reads, On
  <2>3. ASSUME k \notin contended, NEW d \in stored[k], NEW u \in Thread, On(u, k)'
        PROVE  handler'[u].pc \notin {"write", "save"}
    BY Zenon, <1>2, <1>6, <2>1, <2>2, <2>3 DEF Reads, On
  <2>4. \A i \in DOMAIN reverse : reverse[i] = k /\ k # k0 => nodes'[i] = nodes[i]
    BY Zenon, <1>3, <1>5
  <2> QED BY <1>4, <2>1, <2>2, <2>3, <2>4 DEF Reads
<1>9. ASSUME NEW u \in Thread PROVE Same(u)'
  <2>1. Same(u) /\ Alone
    BY DEF ReadInv
  <2>2. CASE u = t
    BY SMTT(30), <1>2, <1>5, <2>2 DEF Same, NewNode
  <2>3. CASE u # t /\ handler[u].pc \in {"same_metadata", "save"}
                  /\ handler[u].request.key \notin contended
    <3>1. /\ handler[u].id \in DOMAIN reverse /\ reverse[handler[u].id] = handler[u].request.key
      BY <1>3, <2>3 DEF Ids, WithId
    <3>2. handler[u].id # i0
      BY <1>3, <2>1, <2>3, <3>1 DEF Alone, On
    <3> QED BY SMTT(30), <1>2, <1>4, <1>5, <2>1, <2>3, <3>1, <3>2 DEF Same
  <2>4. CASE u # t /\ ~(handler[u].pc \in {"same_metadata", "save"}
                      /\ handler[u].request.key \notin contended)
    BY <1>2, <1>4, <2>4 DEF Same
  <2> QED BY Zenon, <2>2, <2>3, <2>4
<1> QED BY <1>7, <1>8, <1>9 DEF ReadInv

LEMMA CrashReads ==
  ASSUME ReadInv, NodeInv, Crash
  PROVE  ReadInv'
<1>1. \A t \in Thread : handler'[t].pc = "idle"
  BY DEF Crash
<1>2. UNCHANGED <<reverse, nodes, stored, contended>>
  BY DEF Crash, history
<1>4. Alone' /\ \A t \in Thread : Same(t)'
  BY <1>1 DEF Alone, Same, On
<1>5. ASSUME NEW k \in Key PROVE Reads(k)'
  <2>1. Reads(k)
    BY DEF ReadInv
  <2> QED BY <1>1, <1>2, <2>1 DEF Reads, On
<1> QED BY <1>4, <1>5 DEF ReadInv

LEMMA ReadsStep ==
  ASSUME ReadInv, NodeInv, [Next]_vars
  PROVE  ReadInv'
<1>0. Handlers /\ Stores /\ Ids
  BY DEF NodeInv, Outcome
<1>1. ASSUME NEW t \in Thread, handler[t].pc # "idle"
      PROVE  /\ handler[t].id \in Nat /\ handler[t].request \in Requested
             /\ handler[t].request.key \in Key
  BY SMTT(30), <1>0, <1>1, RequestFacts DEF Handlers, Working
<1>2. CASE UNCHANGED vars
  <2>1. UNCHANGED <<reverse, nodes, handler, stored, contended>>
    BY <1>2 DEF vars, indexVars, history
  <2> QED BY <2>1 DEF ReadInv, Alone, Reads, Same, On
<1>3. ASSUME NEW t \in Thread, NEW q \in PC, handler[t].pc # "idle", Goto(t, q),
             UNCHANGED <<reverse, nodes, stored, contended>>,
             q \in {"same_metadata", "save"} =>
               nodes[handler[t].id].vector = handler[t].request.data.vector,
             q \in {"write", "save"} => stored[handler[t].request.key] = {}
      PROVE  ReadInv'
  <2>1. Moves(t, q, handler[t].id) /\ handler[t].id \in Nat
    BY Zenon, <1>0, <1>1, <1>3, GotoStep
  <2> QED BY Zenon, <1>3, <2>1, QuietReads
<1>4. ASSUME NEW t \in Thread, NEW ok \in BOOLEAN, Reply(t, ok), handler[t].pc # "idle",
             UNCHANGED <<reverse, nodes>>,
             ok /\ handler[t].request.op = "Insert" => handler[t].pc \in {"same_metadata", "save"}
      PROVE  ReadInv'
  BY Zenon, <1>4, ReplyReads
<1>5. ASSUME NEW t \in Thread, LoadEpoch(t) PROVE ReadInv'
  <2> DEFINE r == handler[t].request
  <2>1. /\ handler[t].pc = "load_epoch" /\ UNCHANGED <<reverse, nodes>>
        /\ \/ Reply(t, FALSE)
           \/ /\ \E q \in {"store_epoch", AfterEpoch(r)} : Goto(t, q)
              /\ UNCHANGED <<stored, contended>>
    BY Zenon, <1>5, LoadStep
  <2>2. CASE Reply(t, FALSE)
    BY ZenonT(30), <1>4, <2>1, <2>2
  <2>3. ASSUME NEW q \in {"store_epoch", AfterEpoch(r)}, Goto(t, q), UNCHANGED <<stored, contended>>
        PROVE  ReadInv'
    <3>1. q \in PC \ {"same_metadata", "save", "write"}
      BY <2>3 DEF AfterEpoch, PC, Inserting, Deleting
    <3> QED BY <1>3, <2>1, <2>3, <3>1
  <2> QED BY Zenon, <2>1, <2>2, <2>3
<1>6. ASSUME NEW t \in Thread, StoreEpoch(t) PROVE ReadInv'
  <2> DEFINE q == AfterEpoch(handler[t].request)
  <2>1. handler[t].pc = "store_epoch" /\ Goto(t, q) /\ UNCHANGED <<reverse, nodes, stored, contended>>
    BY Zenon, <1>0, <1>6, StoreStep
  <2>2. q \in PC \ {"same_metadata", "save", "write"}
    BY DEF AfterEpoch, PC, Inserting, Deleting
  <2> HIDE DEF q
  <2> QED BY <1>3, <2>1, <2>2
<1>7. ASSUME NEW t \in Thread, Assign(t) PROVE ReadInv'
  <2> DEFINE k == handler[t].request.key
  <2>1. /\ handler[t].pc = "assign"
        /\ UNCHANGED <<nodes, stored, contended>>
    BY <1>7 DEF Assign, indexVars, history
  <2>2. CASE IsNew(k)
    <3>1. Len(reverse) + 1 \in Nat /\ "write" \in PC
      BY <1>0 DEF Stores, PC, Inserting
    <3>2. Moves(t, "write", Len(reverse) + 1)
      BY ZenonT(30), <1>0, <1>7, <2>1, <2>2, <3>1, MoveStep DEF Assign
    <3>3. reverse' = Append(reverse, k)
      BY <1>7, <2>2 DEF Assign
    <3> QED BY <2>1, <2>2, <3>2, <3>3, NewIdReads
  <2>3. CASE ~IsNew(k)
    <3>1. IdOf(k) \in Nat /\ "is_deleted" \in PC
      BY <1>0, <2>3, IdOfKey DEF Stores, PC, Inserting
    <3>2. Moves(t, "is_deleted", IdOf(k)) /\ reverse' = reverse
      BY ZenonT(30), <1>0, <1>7, <2>1, <2>3, <3>1, MoveStep DEF Assign
    <3> QED BY <2>1, <3>1, <3>2, QuietReads
  <2> QED BY <2>2, <2>3
<1>8. ASSUME NEW t \in Thread, IsDeleted(t) PROVE ReadInv'
  <2> DEFINE k == handler[t].request.key
  <2>1. /\ handler[t].pc = "is_deleted" /\ {"write", "same_vector"} \subseteq PC
        /\ UNCHANGED <<reverse, nodes, stored, contended>>
    BY <1>8 DEF IsDeleted, indexVars, history, PC, Inserting
  <2>2. CASE nodes[handler[t].id].is_deleted
    <3>1. handler[t].id \in DOMAIN reverse /\ reverse[handler[t].id] = k /\ k \in Key /\ Standing(k)
      BY Zenon, <1>0, <1>1, <2>1 DEF Ids, WithId, NodeInv, Outcome
    <3>2. stored[k] = {}
      BY Zenon, <1>0, <2>2, <3>1 DEF Standing, Live, Ids
    <3>3. Goto(t, "write")
      BY Zenon, <1>8, <2>2 DEF IsDeleted
    <3> QED BY <1>3, <2>1, <3>2, <3>3
  <2>3. CASE ~nodes[handler[t].id].is_deleted
    <3>1. Goto(t, "same_vector")
      BY <1>8, <2>3 DEF IsDeleted
    <3> QED BY <1>3, <2>1, <3>1
  <2> QED BY <2>2, <2>3
<1>9. ASSUME NEW t \in Thread, SameVector(t) PROVE ReadInv'
  <2>1. handler[t].pc = "same_vector" /\ UNCHANGED <<reverse, nodes>> /\ "same_metadata" \in PC
    BY <1>9 DEF SameVector, indexVars, PC, Inserting
  <2>2. CASE Reply(t, FALSE)
    BY Zenon, <1>4, <2>1, <2>2
  <2>3. CASE /\ nodes[handler[t].id].vector = handler[t].request.data.vector
             /\ Goto(t, "same_metadata") /\ UNCHANGED <<stored, contended>>
    BY <1>3, <2>1, <2>3
  <2> QED BY Zenon, <1>9, <2>2, <2>3 DEF SameVector, history
<1>10. ASSUME NEW t \in Thread, Compare(t) PROVE ReadInv'
  <2>1. /\ handler[t].pc = "same_metadata" /\ UNCHANGED <<reverse, nodes>>
        /\ SameMetadata(t) \in BOOLEAN /\ Reply(t, SameMetadata(t))
    BY <1>10 DEF Compare, SameMetadata, indexVars
  <2> QED BY <1>4, <2>1
<1>11. ASSUME NEW t \in Thread, SaveMetadata(t) PROVE ReadInv'
  <2>1. handler[t].pc = "save" /\ UNCHANGED <<reverse, nodes>> /\ Reply(t, TRUE)
    BY Zenon, <1>11 DEF SaveMetadata
  <2> QED BY <1>4, <2>1
<1>12. ASSUME NEW t \in Thread, Lookup(t) PROVE ReadInv'
  <2> DEFINE k == handler[t].request.key
  <2>1. handler[t].pc = "lookup" /\ UNCHANGED <<reverse, nodes>> /\ "test" \in PC
    BY <1>12 DEF Lookup, indexVars, PC, Deleting
  <2>2. CASE Reply(t, FALSE)
    BY Zenon, <1>4, <2>1, <2>2
  <2>3. CASE /\ ~IsNew(k) /\ handler' = [handler EXCEPT ![t].pc = "test", ![t].id = IdOf(k)]
             /\ UNCHANGED <<stored, contended>>
    <3>1. IdOf(k) \in Nat
      BY <1>0, <2>3, IdOfKey DEF Stores
    <3>2. Moves(t, "test", IdOf(k))
      BY Zenon, <1>0, <2>1, <2>3, <3>1, MoveStep
    <3> QED BY <2>1, <2>3, <3>1, <3>2, QuietReads
  <2> QED BY Zenon, <1>12, <2>2, <2>3 DEF Lookup, IsNew, history
<1>13. ASSUME NEW t \in Thread, TestMark(t) PROVE ReadInv'
  <2>1. /\ handler[t].pc = "test" /\ UNCHANGED <<reverse, nodes>> /\ "mark" \in PC
        /\ handler[t].request.op = "Delete"
    BY <1>0, <1>13 DEF TestMark, indexVars, PC, Deleting, Ids
  <2>2. CASE Reply(t, TRUE)
    BY Zenon, <1>4, <2>1, <2>2
  <2>3. CASE Goto(t, "mark") /\ UNCHANGED <<stored, contended>>
    BY Zenon, <1>3, <2>1, <2>3
  <2> QED BY Zenon, <1>13, <2>2, <2>3 DEF TestMark, history
<1>14. ASSUME NEW t \in Thread, Mark(t) PROVE ReadInv'
  <2>1. /\ handler[t].pc = "mark" /\ UNCHANGED reverse /\ Reply(t, TRUE)
        /\ handler[t].request.op = "Delete"
    BY Zenon, <1>0, <1>14 DEF Mark, Deleting, Ids
  <2>3. \A i \in DOMAIN reverse : nodes'[i].vector = nodes[i].vector
    <3> DEFINE i0 == handler[t].id
               node == [nodes[i0] EXCEPT !.is_deleted = TRUE]
    <3>1. i0 \in DOMAIN reverse /\ nodes[i0] \in Node
      BY <1>0, <2>1 DEF Ids, WithId, Stores
    <3>2. node.vector = nodes[i0].vector
      BY <3>1 DEF Node
    <3>3. nodes' = [nodes EXCEPT ![i0] = node]
      BY <1>14 DEF Mark
    <3> HIDE DEF node
    <3>4. nodes'[i0] = node /\ \A i \in DOMAIN reverse : i # i0 => nodes'[i] = nodes[i]
      BY Zenon, <1>0, <3>1, <3>3, RecordStands
    <3> QED BY ZenonT(30), <3>2, <3>4
  <2> QED BY Zenon, <2>1, <2>3, ReplyReads
<1> QED
  BY SMTT(30), <1>2, <1>5, <1>6, <1>7, <1>8, <1>9, <1>10, <1>11, <1>12, <1>13, <1>14, ArriveReads,
     WriteReads, CrashReads
  DEF Next, Step

----------------------------------------------------------------------------
(* The metadata, until the first crash *)

Places == \A i \in LocalId : offsets[i] <= Len(metadata_file)

\* A key whose requests came one at a time has the metadata of the last Insert that
\* brought any.
Kept(k) ==
  k \notin contended =>
    /\ \A i \in DOMAIN reverse : reverse[i] = k => get_metadata(i) = described[k]
    /\ IsNew(k) => described[k] = Blank

KeptInv ==
  /\ described \in [Key -> Metadata \cup {Blank}]
  /\ Places
  /\ crashes = 0 => /\ \A i \in LocalId \ DOMAIN reverse : offsets[i] = 0
                    /\ \A k \in Key : Kept(k)

LEMMA SavedMetadata ==
  ASSUME Stores, Places, NEW i0 \in LocalId, NEW m \in Metadata, m # Blank, save_metadata(i0, m)
  PROVE  /\ Places' /\ get_metadata(i0)' = m
         /\ \A i \in LocalId \ {i0} : get_metadata(i)' = get_metadata(i)
<1> DEFINE n == Len(metadata_file) + 1
<1>1. metadata_file' = Append(metadata_file, m) /\ offsets' = [offsets EXCEPT ![i0] = n]
  BY DEF save_metadata
<1>2. metadata_file \in Seq(Metadata) /\ Len(metadata_file) \in Nat /\ n \in Nat
  BY DEF Stores
<1>3. /\ Len(metadata_file') = n /\ metadata_file'[n] = m
      /\ \A j \in 1..Len(metadata_file) : metadata_file'[j] = metadata_file[j]
  BY <1>1, <1>2
<1>4. offsets'[i0] = n /\ \A i \in LocalId \ {i0} : offsets'[i] = offsets[i]
  BY <1>1 DEF Stores
<1>5. ASSUME NEW i \in LocalId \ {i0} PROVE get_metadata(i)' = get_metadata(i)
  <2>1. offsets[i] \in Nat /\ offsets[i] <= Len(metadata_file)
    BY DEF Stores, Places
  <2>2. offsets[i] # 0 => metadata_file'[offsets[i]] = metadata_file[offsets[i]]
    BY <1>2, <1>3, <2>1
  <2>3. offsets'[i] = offsets[i]
    BY <1>4
  <2> QED BY <2>2, <2>3 DEF get_metadata
<1>6. get_metadata(i0)' = m
  BY <1>2, <1>3, <1>4 DEF get_metadata
<1>7. Places'
  <2> SUFFICES ASSUME NEW i \in LocalId PROVE offsets'[i] <= Len(metadata_file')
    BY DEF Places
  <2>1. offsets[i] \in Nat /\ offsets[i] <= Len(metadata_file)
    BY DEF Stores, Places
  <2> QED BY <1>2, <1>3, <1>4, <2>1
<1> QED BY <1>5, <1>6, <1>7

LEMMA KeptSame ==
  ASSUME KeptInv, UNCHANGED <<reverse, metadata_file, offsets, described, crashes>>,
         contended \subseteq contended'
  PROVE  KeptInv'
<1>1. \A i : get_metadata(i)' = get_metadata(i)
  BY DEF get_metadata
<1>2. \A k : IsNew(k)' = IsNew(k)
  BY DEF IsNew, LocalIds
<1>3. ASSUME NEW k \in Key, Kept(k) PROVE Kept(k)'
  BY Zenon, <1>1, <1>2, <1>3 DEF Kept
<1> QED BY <1>3 DEF KeptInv, Places

LEMMA KeptCrash ==
  ASSUME KeptInv, NodeInv, Crash PROVE KeptInv'
<1>1. UNCHANGED <<metadata_file, described>> /\ crashes' # 0 /\ offsets' = rebuild_index
  BY DEF Crash, history, NodeInv, Stores
<1>2. Places'
  <2>1. LocalId \subseteq Nat /\ Len(metadata_file) \in Nat
    BY DEF LocalId, NodeInv, Stores
  <2> QED BY <1>1, <2>1 DEF Places, rebuild_index
<1> QED BY <1>1, <1>2 DEF KeptInv

\* An id that IdMapStore has not handed out has no metadata.
LEMMA KeptNewId ==
  ASSUME KeptInv, NodeInv, NEW k0 \in Key, IsNew(k0), reverse' = Append(reverse, k0),
         DOMAIN reverse' \subseteq LocalId,
         UNCHANGED <<metadata_file, offsets, described, contended, crashes>>
  PROVE  KeptInv'
<1> DEFINE n == Len(reverse) + 1
<1>1. /\ DOMAIN reverse = 1..Len(reverse) /\ Len(reverse) \in Nat /\ n \notin DOMAIN reverse
      /\ DOMAIN reverse' = DOMAIN reverse \cup {n} /\ reverse'[n] = k0
      /\ \A i \in DOMAIN reverse : reverse'[i] = reverse[i]
  BY DEF NodeInv, Stores
<1>2. \A i : get_metadata(i)' = get_metadata(i)
  BY DEF get_metadata
<1>3. ASSUME crashes = 0, NEW k \in Key PROVE Kept(k)'
  <2>1. Kept(k) /\ get_metadata(n) = Blank
    BY <1>1, <1>3 DEF KeptInv, get_metadata
  <2>2. IsNew(k)' => IsNew(k)
    BY <1>1 DEF IsNew, LocalIds
  <2>3. k = k0 /\ k \notin contended => described[k] = Blank
    BY Zenon, <2>1 DEF Kept
  <2>4. ASSUME k \notin contended, NEW i \in DOMAIN reverse', reverse'[i] = k
        PROVE  get_metadata(i)' = described[k]
    <3>1. CASE i = n
      BY Zenon, <1>1, <1>2, <2>1, <2>3, <2>4, <3>1
    <3>2. CASE i \in DOMAIN reverse
      BY Zenon, <1>1, <1>2, <2>1, <2>4, <3>2 DEF Kept
    <3> QED BY Zenon, <1>1, <3>1, <3>2
  <2> QED BY Zenon, <2>1, <2>2, <2>4 DEF Kept
<1> QED BY <1>1, <1>3 DEF KeptInv, Places

LEMMA DescribedReply ==
  ASSUME NEW t \in Thread, NEW ok \in BOOLEAN, Reply(t, ok)
  PROVE  /\ UNCHANGED <<contended, crashes>>
         /\ described' = IF /\ ok /\ handler[t].request.op = "Insert"
                            /\ handler[t].request.data.metadata # Blank
                         THEN [described EXCEPT ![handler[t].request.key] =
                                 handler[t].request.data.metadata]
                         ELSE described
BY Zenon DEF Reply

LEMMA KeptCompare ==
  ASSUME KeptInv, NodeInv, NEW t \in Thread, Compare(t) PROVE KeptInv'
<1> DEFINE r == handler[t].request
           m == r.data.metadata
<1>1. /\ handler[t].pc = "same_metadata" /\ SameMetadata(t) \in BOOLEAN /\ Reply(t, SameMetadata(t))
      /\ UNCHANGED <<reverse, metadata_file, offsets>>
  BY DEF Compare, SameMetadata, indexVars
<1>2. r \in Requested /\ r.key \in Key /\ handler[t].id \in DOMAIN reverse
      /\ reverse[handler[t].id] = r.key
  BY <1>1, RequestFacts DEF NodeInv, Handlers, Working, Outcome, Ids, WithId
<1>3. UNCHANGED <<contended, crashes>>
  BY Zenon, <1>1, DescribedReply
<1>4. CASE described' = described
  BY <1>1, <1>3, <1>4, KeptSame
<1>5. CASE /\ SameMetadata(t) /\ r.op = "Insert" /\ m # Blank
           /\ described' = [described EXCEPT ![r.key] = m]
  <2>1. get_metadata(handler[t].id) = m /\ m \in Metadata \cup {Blank}
    BY <1>2, <1>5, RequestFacts DEF SameMetadata, Data
  <2>2. described' \in [Key -> Metadata \cup {Blank}] /\ described'[r.key] = m
        /\ \A k \in Key \ {r.key} : described'[k] = described[k]
    BY <1>2, <1>5, <2>1 DEF KeptInv
  <2>3. ASSUME crashes = 0, NEW k \in Key PROVE Kept(k)'
    <3>1. Kept(k)
      BY <2>3 DEF KeptInv
    <3>2. k \notin contended => described'[k] = described[k]
      BY Zenon, <1>2, <2>1, <2>2, <3>1 DEF Kept
    <3>3. IsNew(k)' = IsNew(k) /\ \A i : get_metadata(i)' = get_metadata(i)
      BY <1>1 DEF IsNew, LocalIds, get_metadata
    <3> QED BY Zenon, <1>1, <1>3, <3>1, <3>2, <3>3 DEF Kept
  <2> QED BY <1>1, <1>3, <2>2, <2>3 DEF KeptInv, Places
<1> QED BY Zenon, <1>1, <1>4, <1>5, DescribedReply

LEMMA KeptSave ==
  ASSUME KeptInv, NodeInv, NEW t \in Thread, SaveMetadata(t) PROVE KeptInv'
<1> DEFINE r == handler[t].request
           m == r.data.metadata
           i0 == handler[t].id
<1>1. /\ handler[t].pc = "save" /\ Reply(t, TRUE) /\ UNCHANGED reverse /\ save_metadata(i0, m)
  BY Zenon DEF SaveMetadata
<1>2. /\ r \in Requested /\ r.key \in Key /\ i0 \in DOMAIN reverse /\ DOMAIN reverse \subseteq LocalId
      /\ reverse[i0] = r.key /\ r.op = "Insert" /\ Stores
      /\ \A i \in DOMAIN reverse : reverse[i] = r.key => i = i0
  BY <1>1, RequestFacts DEF NodeInv, Handlers, Working, Outcome, Ids, WithId, Inserting
<1>3. /\ UNCHANGED <<contended, crashes>>
      /\ described' = IF m # Blank THEN [described EXCEPT ![r.key] = m] ELSE described
  BY Zenon, <1>1, <1>2, DescribedReply
<1>4. CASE m = Blank
  <2>1. UNCHANGED <<metadata_file, offsets>>
    BY <1>1, <1>4 DEF save_metadata
  <2> QED BY <1>1, <1>3, <1>4, <2>1, KeptSame
<1>5. CASE m # Blank
  <2>1. m \in Metadata
    BY <1>2, <1>5, RequestFacts DEF Data
  <2>2. PICK j \in LocalId : j = i0
    BY Zenon, <1>2
  <2>3. PICK n \in Metadata : n = m
    BY Zenon, <2>1
  <2>4. /\ Places' /\ get_metadata(j)' = n
        /\ \A i \in LocalId \ {j} : get_metadata(i)' = get_metadata(i)
    BY Zenon, <1>1, <1>2, <1>5, <2>2, <2>3, SavedMetadata DEF KeptInv
  <2>5. \A i \in LocalId \ {j} : offsets'[i] = offsets[i]
    BY <1>1, <1>2, <1>5, <2>2 DEF save_metadata, Stores
  <2>6. PICK k0 \in Key : k0 = r.key
    BY Zenon, <1>2
  <2>7. /\ described' \in [Key -> Metadata \cup {Blank}] /\ described'[k0] = n
        /\ \A k \in Key \ {k0} : described'[k] = described[k]
    BY <1>2, <1>3, <1>5, <2>3, <2>6 DEF KeptInv
  <2>8. ASSUME crashes = 0, NEW k \in Key PROVE Kept(k)'
    <3>1. Kept(k) /\ (IsNew(k)' = IsNew(k))
      BY <1>1, <2>8 DEF KeptInv, IsNew, LocalIds
    <3>2. ASSUME k \notin contended, NEW i \in DOMAIN reverse, reverse[i] = k
          PROVE  get_metadata(i)' = described'[k]
      <4>1. CASE i = j
        BY Zenon, <1>2, <2>2, <2>4, <2>6, <2>7, <3>2, <4>1
      <4>2. CASE i # j
        <5>1. i \in LocalId \ {j} /\ k # k0
          BY Zenon, <1>2, <2>2, <2>6, <3>2, <4>2
        <5> QED BY Zenon, <2>4, <2>7, <3>1, <3>2, <5>1 DEF Kept
      <4> QED BY <4>1, <4>2
    <3>3. IsNew(k) /\ k \notin contended => described'[k] = Blank
      <4>1. IsNew(k) => k # k0
        BY <1>2, <2>6 DEF IsNew, LocalIds
      <4> QED BY Zenon, <2>7, <3>1, <4>1 DEF Kept
    <3> QED BY Zenon, <1>1, <1>3, <3>1, <3>2, <3>3 DEF Kept
  <2>9. crashes = 0 => \A i \in LocalId \ DOMAIN reverse : offsets'[i] = 0
    BY Zenon, <1>2, <2>2, <2>5 DEF KeptInv
  <2> QED BY <1>1, <1>3, <2>4, <2>7, <2>8, <2>9 DEF KeptInv
<1> QED BY Zenon, <1>4, <1>5

LEMMA KeptStep ==
  ASSUME KeptInv, NodeInv, NodeInv', [Next]_vars PROVE KeptInv'
<1>0. /\ Stores /\ DOMAIN reverse' \subseteq LocalId
      /\ \A t \in Thread : handler[t].pc # "idle" => handler[t].request.key \in Key
      /\ \A t \in Thread : handler[t].pc \in Deleting => handler[t].request.op = "Delete"
  BY Zenon, RequestFacts DEF NodeInv, Handlers, Working, Outcome, Ids
<1>1. CASE UNCHANGED vars
  BY <1>1, KeptSame DEF vars, indexVars, history
<1>2. ASSUME NEW t \in Thread, Reply(t, FALSE), UNCHANGED <<reverse, metadata_file, offsets>>
      PROVE  KeptInv'
  BY <1>2, DescribedReply, KeptSame
<1>3. ASSUME NEW t \in Thread, Reply(t, TRUE), UNCHANGED <<reverse, metadata_file, offsets>>,
             handler[t].pc \in Deleting
      PROVE  KeptInv'
  <2>1. handler[t].request.op # "Insert"
    BY <1>0, <1>3
  <2>2. UNCHANGED <<contended, crashes, described>>
    BY Zenon, <1>3, <2>1, DescribedReply
  <2> QED BY <1>3, <2>2, KeptSame
<1>4. ASSUME NEW t \in Thread, UNCHANGED <<reverse, metadata_file, offsets, contended, described, crashes>>
      PROVE  KeptInv'
  BY <1>4, KeptSame
<1>5. ASSUME NEW t \in Thread, NEW r \in Requested, Receive(t, r) PROVE KeptInv'
  <2>1. /\ UNCHANGED <<reverse, metadata_file, offsets, described, crashes>>
        /\ contended \subseteq contended'
    BY <1>5 DEF Receive, indexVars
  <2> QED BY <2>1, KeptSame
<1>6. ASSUME NEW t \in Thread, LoadEpoch(t) PROVE KeptInv'
  BY ZenonT(30), <1>2, <1>4, <1>6, LoadStep
<1>7. ASSUME NEW t \in Thread, StoreEpoch(t) PROVE KeptInv'
  BY <1>4, <1>7 DEF StoreEpoch, indexVars, history
<1>8. ASSUME NEW t \in Thread, Assign(t) PROVE KeptInv'
  <2> DEFINE k == handler[t].request.key
  <2>1. UNCHANGED <<metadata_file, offsets, described, contended, crashes>> /\ k \in Key
    BY <1>0, <1>8 DEF Assign, indexVars, history
  <2>2. CASE IsNew(k)
    <3>1. reverse' = Append(reverse, k)
      BY <1>8, <2>2 DEF Assign
    <3> QED BY <1>0, <2>1, <2>2, <3>1, KeptNewId
  <2>3. CASE ~IsNew(k)
    <3>1. reverse' = reverse
      BY <1>8, <2>3 DEF Assign
    <3> QED BY <1>4, <2>1, <3>1
  <2> QED BY <2>2, <2>3
<1>9. ASSUME NEW t \in Thread, IsDeleted(t) PROVE KeptInv'
  BY <1>4, <1>9 DEF IsDeleted, indexVars, history
<1>10. ASSUME NEW t \in Thread, SameVector(t) PROVE KeptInv'
  BY Zenon, <1>2, <1>4, <1>10 DEF SameVector, indexVars, history
<1>11. ASSUME NEW t \in Thread, WriteNode(t) PROVE KeptInv'
  BY <1>4, <1>11 DEF WriteNode, history
<1>12. ASSUME NEW t \in Thread, Lookup(t) PROVE KeptInv'
  BY Zenon, <1>2, <1>4, <1>12 DEF Lookup, indexVars, history
<1>13. ASSUME NEW t \in Thread, TestMark(t) PROVE KeptInv'
  <2>1. handler[t].pc \in Deleting
    BY <1>13 DEF TestMark, Deleting
  <2> QED BY Zenon, <1>3, <1>4, <1>13, <2>1 DEF TestMark, indexVars, history
<1>14. ASSUME NEW t \in Thread, Mark(t) PROVE KeptInv'
  <2>1. handler[t].pc \in Deleting
    BY <1>14 DEF Mark, Deleting
  <2> QED BY Zenon, <1>3, <1>14, <2>1 DEF Mark
<1>15. ASSUME NEW t \in Thread, Step(t) PROVE KeptInv'
  BY Zenon, <1>5, <1>6, <1>7, <1>8, <1>9, <1>10, <1>11, <1>12, <1>13, <1>14, <1>15,
     KeptCompare, KeptSave DEF Step
<1> QED BY Zenon, <1>1, <1>15, KeptCrash DEF Next

\* GetVector returns, for a key whose requests came one at a time, the vector that
\* the last acknowledged Insert gave, across crashes and retries, and until the
\* first crash the metadata of the last one that brought any.
THEOREM ReadsBackHolds == Spec => []ReadsBack
<1>1. Init => NodeInv /\ ReadInv /\ KeptInv
  <2> SUFFICES ASSUME Init PROVE NodeInv /\ ReadInv /\ KeptInv
    OBVIOUS
  <2>1. /\ \A t \in Thread : handler[t].pc = "idle"
        /\ \A k \in Key : stored[k] = {}
        /\ \A i \in LocalId : offsets[i] = 0
        /\ Len(metadata_file) = 0 /\ DOMAIN reverse = {}
        /\ described = [k \in Key |-> Blank]
    BY DEF Init
  <2>2. ReadInv
    BY <2>1 DEF ReadInv, Alone, Reads, Same, On
  <2>3. KeptInv
    BY <2>1 DEF KeptInv, Places, Kept
  <2> QED BY <2>2, <2>3, NodeInit
<1>2. NodeInv /\ ReadInv /\ KeptInv /\ [Next]_vars => (NodeInv /\ ReadInv /\ KeptInv)'
  BY NodeStep, ReadsStep, KeptStep
<1>3. NodeInv /\ ReadInv /\ KeptInv => ReadsBack
  <2> SUFFICES ASSUME NodeInv, ReadInv, KeptInv, NEW k \in Key \ contended, NEW d \in stored[k]
               PROVE  \E found \in GetVector(k) :
                        found.vector = d.vector /\ (crashes = 0 => found.metadata = described[k])
    BY DEF ReadsBack
  <2>1. PICK i \in DOMAIN reverse : reverse[i] = k /\ nodes[i].vector = d.vector
    BY DEF ReadInv, Reads
  <2>2. ~nodes[i].is_deleted
    BY ZenonT(30), <2>1 DEF NodeInv, Outcome, Ids, Standing, Live
  <2>3. [vector |-> nodes[i].vector, metadata |-> get_metadata(i)] \in GetVector(k)
    BY <2>1, <2>2 DEF GetVector, LocalIds
  <2>4. crashes = 0 => get_metadata(i) = described[k]
    BY <2>1 DEF KeptInv, Kept
  <2> QED BY <2>1, <2>3, <2>4
<1> QED BY <1>1, <1>2, <1>3, PTL DEF Spec
============================================================================
