-------------------------- MODULE ShardNodeProofs --------------------------
(***************************************************************************)
(* What a shard node acknowledges stands, for every number of gRPC         *)
(* threads, keys, requests and crashes: proofs of the invariants of        *)
(* ShardNode.                                                              *)
(***************************************************************************)
EXTENDS ShardNode, TLAPS

Inserting == {"assign", "is_deleted", "same_vector", "same_metadata", "write", "save"}
Deleting == {"lookup", "test", "mark"}
WithId == {"is_deleted", "same_vector", "same_metadata", "write", "save", "test", "mark"}
PC == {"load_epoch", "store_epoch"} \cup Inserting \cup Deleting

Working == [pc : PC, request : Requested, opposed : BOOLEAN, id : Nat]

\* What the threads do, and the node's state.
Handlers ==
  /\ handler = [t \in Thread |-> handler[t]]
  /\ \A t \in Thread : handler[t].pc = "idle" \/ handler[t] \in Working

Stores ==
  /\ reverse \in Seq(Key)
  /\ nodes \in [LocalId -> Node]
  /\ metadata_file \in Seq(Metadata) /\ offsets \in [LocalId -> Nat]
  /\ stored \in [Key -> SUBSET Data] /\ removed \subseteq Key
  /\ crashes \in Nat

LEMMA RequestFacts ==
  ASSUME NEW r \in Requested
  PROVE  /\ r.key \in Key /\ r.epoch \in Nat /\ r.op \in {"Insert", "Delete"}
         /\ r.op = "Insert" => r.data \in Data
BY ShardAssumption DEF Request

\* The thread t goes on at p, or ends its request.
Moves(t, p, i) ==
  /\ handler' = [u \in Thread |-> handler'[u]]
  /\ handler'[t] \in Working
  /\ handler'[t].pc = p /\ handler'[t].id = i
  /\ handler'[t].request = handler[t].request /\ handler'[t].opposed = handler[t].opposed
  /\ \A u \in Thread \ {t} : handler'[u] = handler[u]

Stops(t) ==
  /\ handler' = [u \in Thread |-> handler'[u]]
  /\ handler'[t].pc = "idle"
  /\ \A u \in Thread \ {t} : handler'[u] = handler[u]

LEMMA MoveStep ==
  ASSUME Handlers, NEW t \in Thread, handler[t].pc # "idle", NEW p \in PC, NEW i \in Nat,
         handler' = [handler EXCEPT ![t].pc = p, ![t].id = i]
  PROVE  Moves(t, p, i)
<1>1. handler[t] \in Working
  BY DEF Handlers
<1> DEFINE h == [[handler[t] EXCEPT !.pc = p] EXCEPT !.id = i]
<1>2. h \in Working /\ h.pc = p /\ h.id = i /\ h.request = handler[t].request
      /\ h.opposed = handler[t].opposed
  BY Zenon, <1>1 DEF Working
<1>3. handler' = [u \in Thread |-> IF u = t THEN h ELSE handler[u]]
  BY DEF Handlers
<1> HIDE DEF h
<1> QED BY Zenon, <1>2, <1>3 DEF Moves

LEMMA GotoStep ==
  ASSUME Handlers, NEW t \in Thread, handler[t].pc # "idle", NEW p \in PC, Goto(t, p)
  PROVE  Moves(t, p, handler[t].id)
<1>1. handler[t] \in Working
  BY DEF Handlers
<1> DEFINE h == [handler[t] EXCEPT !.pc = p]
<1>2. h \in Working /\ h.pc = p /\ h.id = handler[t].id /\ h.request = handler[t].request
      /\ h.opposed = handler[t].opposed
  BY <1>1 DEF Working
<1>3. handler' = [u \in Thread |-> IF u = t THEN h ELSE handler[u]]
  BY DEF Handlers, Goto
<1> HIDE DEF h
<1> QED BY <1>2, <1>3 DEF Moves

LEMMA ReplyStep ==
  ASSUME Handlers, NEW t \in Thread, NEW ok \in BOOLEAN, Reply(t, ok)
  PROVE  Stops(t)
<1>1. handler' = [u \in Thread |-> IF u = t THEN [pc |-> "idle"] ELSE handler[u]]
  BY DEF Handlers, Reply
<1> QED BY <1>1 DEF Stops

LEMMA HandlersKept ==
  ASSUME Handlers, NEW t \in Thread, (\E p, i : Moves(t, p, i)) \/ Stops(t)
  PROVE  Handlers'
BY DEF Handlers, Moves, Stops

\* A request arrives at the thread t.
Opposes(u, r) ==
  handler[u].pc # "idle" /\ handler[u].request.key = r.key /\ handler[u].request.op # r.op

Arrives(t, r) ==
  /\ handler[t].pc = "idle"
  /\ handler' = [u \in Thread |-> handler'[u]]
  /\ handler'[t] \in Working
  /\ handler'[t].pc = "load_epoch" /\ handler'[t].request = r
  /\ handler'[t].opposed = \E u \in Thread : Opposes(u, r)
  /\ \A u \in Thread \ {t} :
       /\ handler'[u].pc = handler[u].pc
       /\ handler[u].pc # "idle" =>
            /\ handler'[u] \in Working
            /\ handler'[u].request = handler[u].request /\ handler'[u].id = handler[u].id
            /\ handler'[u].opposed = (handler[u].opposed \/ Opposes(u, r))

LEMMA ReceiveStep ==
  ASSUME Handlers, NEW t \in Thread, NEW r \in Requested, Receive(t, r)
  PROVE  Arrives(t, r) /\ Handlers'
<1> DEFINE opposed == {u \in Thread : Opposes(u, r)}
           new == [pc |-> "load_epoch", request |-> r, opposed |-> opposed # {}, id |-> 0]
<1>1. {u \in {x \in Busy : handler[x].request.key = r.key} : handler[u].request.op # r.op} = opposed
  BY DEF Busy, Opposes
<1>2. /\ handler[t].pc = "idle"
      /\ handler' = [u \in Thread |-> IF u = t THEN new
                                      ELSE IF u \in opposed THEN [handler[u] EXCEPT !.opposed = TRUE]
                                      ELSE handler[u]]
  BY <1>1 DEF Receive
<1>3. new \in Working /\ new.pc = "load_epoch" /\ new.request = r /\ new.opposed = (opposed # {})
  BY DEF Working, PC
<1>4. (opposed # {}) = \E u \in Thread : Opposes(u, r)
  BY Zenon
<1> HIDE DEF new
<1>5. ASSUME NEW u \in Thread \ {t}
      PROVE  /\ handler'[u].pc = handler[u].pc
             /\ handler[u].pc # "idle" =>
                  /\ handler'[u] \in Working
                  /\ handler'[u].request = handler[u].request /\ handler'[u].id = handler[u].id
                  /\ handler'[u].opposed = (handler[u].opposed \/ Opposes(u, r))
  <2>1. CASE u \in opposed
    <3>1. handler[u] \in Working
      BY <2>1 DEF Handlers, Opposes
    <3>2. handler'[u] = [handler[u] EXCEPT !.opposed = TRUE]
      BY <1>2, <2>1
    <3> QED BY Zenon, <2>1, <3>1, <3>2 DEF Working
  <2>2. CASE u \notin opposed
    <3>1. handler'[u] = handler[u] /\ ~Opposes(u, r)
      BY <1>2, <2>2
    <3>2. handler[u].pc # "idle" => handler[u] \in Working /\ handler[u].opposed \in BOOLEAN
      BY DEF Handlers, Working
    <3> QED BY <3>1, <3>2
  <2> QED BY <2>1, <2>2
<1>6. Arrives(t, r)
  BY Zenon, <1>2, <1>3, <1>4, <1>5 DEF Arrives
<1> QED BY <1>6 DEF Arrives, Handlers

\* check_and_advance_epoch refuses the request, or the handler goes on.
LEMMA LoadStep ==
  ASSUME NEW t \in Thread, LoadEpoch(t)
  PROVE  /\ handler[t].pc = "load_epoch" /\ UNCHANGED <<reverse, nodes, metadata_file, offsets>>
         /\ \/ Reply(t, FALSE)
            \/ /\ \E q \in {"store_epoch", AfterEpoch(handler[t].request)} : Goto(t, q)
               /\ UNCHANGED <<stored, removed, contended, described, crashes>>
<1>1. handler[t].pc = "load_epoch" /\ UNCHANGED <<reverse, nodes, metadata_file, offsets>>
  BY DEF LoadEpoch, indexVars
<1>2. CASE handler[t].request.epoch < current_epoch
  BY Zenon, <1>1, <1>2 DEF LoadEpoch
<1>3. CASE ~(handler[t].request.epoch < current_epoch)
  <2>1. \E q \in {"store_epoch", AfterEpoch(handler[t].request)} : Goto(t, q)
    BY Zenon, <1>3 DEF LoadEpoch
  <2>2. UNCHANGED <<stored, removed, contended, described, crashes>>
    BY Zenon, <1>3 DEF LoadEpoch, history
  <2> QED BY Zenon, <1>1, <2>1, <2>2
<1> QED BY <1>2, <1>3

LEMMA StoreStep ==
  ASSUME Handlers, NEW t \in Thread, StoreEpoch(t)
  PROVE  /\ handler[t].pc = "store_epoch" /\ Goto(t, AfterEpoch(handler[t].request))
         /\ Moves(t, AfterEpoch(handler[t].request), handler[t].id)
         /\ UNCHANGED <<reverse, nodes, metadata_file, offsets, stored, removed, contended,
                        described, crashes>>
<1>1. /\ handler[t].pc = "store_epoch" /\ Goto(t, AfterEpoch(handler[t].request))
      /\ UNCHANGED <<reverse, nodes, metadata_file, offsets, stored, removed, contended,
                     described, crashes>>
  BY DEF StoreEpoch, indexVars, history
<1>2. AfterEpoch(handler[t].request) \in PC
  BY DEF AfterEpoch, PC, Inserting, Deleting
<1> QED BY <1>1, <1>2, GotoStep

----------------------------------------------------------------------------
(* What acknowledged requests leave *)

\* Each key has one local id, and a handler that has looked it up has that one.
Ids ==
  /\ DOMAIN reverse \subseteq LocalId
  /\ \A i, j \in DOMAIN reverse : reverse[i] = reverse[j] => i = j
  /\ \A t \in Thread :
       /\ handler[t].pc \in WithId =>
            handler[t].id \in DOMAIN reverse /\ reverse[handler[t].id] = handler[t].request.key
       /\ handler[t].pc \in Inserting => handler[t].request.op = "Insert"
       /\ handler[t].pc \in Deleting => handler[t].request.op = "Delete"

On(t, k) == handler[t].pc # "idle" /\ handler[t].request.key = k

\* Requests of both kinds for a key know of each other.
Opposed ==
  \A t, u \in Thread : \A k \in Key :
    On(t, k) /\ On(u, k) /\ handler[t].request.op # handler[u].request.op => handler[t].opposed

Live(i) == ~nodes[i].is_deleted /\ nodes[i].vector # Blank

\* No Delete of a key is under way that an acknowledged Insert does not know of,
\* and its record is written; and the other way round.
Standing(k) ==
  /\ stored[k] # {} =>
       /\ \A t \in Thread : On(t, k) => handler[t].request.op = "Insert"
       /\ \E i \in DOMAIN reverse : reverse[i] = k /\ Live(i)
  /\ k \in removed =>
       /\ \A t \in Thread : On(t, k) => handler[t].request.op = "Delete"
       /\ \A i \in DOMAIN reverse : reverse[i] = k => nodes[i].is_deleted

\* An Insert that is about to be acknowledged has a record.
Written(t) ==
  handler[t].pc \in {"same_metadata", "save"} /\ ~handler[t].opposed => Live(handler[t].id)

Outcome == Ids /\ Opposed /\ (\A k \in Key : Standing(k)) /\ \A t \in Thread : Written(t)

LEMMA QuietOutcome ==
  ASSUME Outcome, Handlers, NEW t \in Thread, NEW p \in PC, NEW i \in Nat, Moves(t, p, i),
         handler[t].pc # "idle",
         UNCHANGED <<reverse, nodes, stored, removed>>,
         p \in WithId => i \in DOMAIN reverse /\ reverse[i] = handler[t].request.key,
         p \in Inserting => handler[t].request.op = "Insert",
         p \in Deleting => handler[t].request.op = "Delete",
         p \in {"same_metadata", "save"} /\ ~handler[t].opposed => Live(i)
  PROVE  Outcome'
<1>1. ASSUME NEW u \in Thread, NEW k \in Key
      PROVE  /\ On(u, k)' => On(u, k) /\ handler'[u].request = handler[u].request
                                     /\ handler'[u].opposed = handler[u].opposed
             /\ u # t => handler'[u] = handler[u]
  BY DEF Moves, On
<1>2. Ids'
  BY DEF Ids, Outcome, Moves
<1>3. Opposed'
  BY <1>1 DEF Opposed, Outcome
<1>4. ASSUME NEW k \in Key PROVE Standing(k)'
  <2>1. Standing(k)
    BY DEF Outcome
  <2> QED BY <1>1, <2>1 DEF Standing, Live
<1>5. ASSUME NEW u \in Thread PROVE Written(u)'
  <2>1. Written(u)
    BY DEF Outcome
  <2> QED BY <2>1 DEF Written, Live, Moves
<1> QED BY <1>2, <1>3, <1>4, <1>5 DEF Outcome

\* A handler answers; if the answer is ok and counts, the record is as it says.
LEMMA ReplyOutcome ==
  ASSUME Outcome, Handlers, Stores, NEW t \in Thread, NEW ok \in BOOLEAN, Reply(t, ok),
         handler[t].pc # "idle",
         UNCHANGED <<reverse, nodes>>,
         ok => handler[t].pc \in WithId,
         ok /\ ~handler[t].opposed =>
           IF handler[t].request.op = "Insert" THEN Live(handler[t].id)
           ELSE nodes[handler[t].id].is_deleted
  PROVE  Outcome' /\ Handlers'
<1> DEFINE r == handler[t].request
           k0 == r.key
           i0 == handler[t].id
<1>1. Stops(t) /\ Handlers' /\ handler[t] \in Working /\ r \in Requested /\ k0 \in Key
      /\ r.op \in {"Insert", "Delete"}
  BY ReplyStep, HandlersKept, RequestFacts DEF Handlers, Working
<1>2. ASSUME NEW u \in Thread, NEW k \in Key, On(u, k)'
      PROVE  u # t /\ On(u, k) /\ handler'[u] = handler[u]
  BY <1>1, <1>2 DEF Stops, On
<1>3. Ids'
  <2>1. "idle" \notin WithId \cup Inserting \cup Deleting
    BY DEF WithId, Inserting, Deleting
  <2> QED BY <1>1, <2>1 DEF Ids, Outcome, Stops
<1>4. Opposed'
  BY <1>2 DEF Opposed, Outcome
<1>5. ASSUME NEW u \in Thread PROVE Written(u)'
  <2>1. Written(u)
    BY DEF Outcome
  <2> QED BY <1>1, <2>1 DEF Written, Live, Stops
<1>6. ASSUME NEW k \in Key PROVE Standing(k)'
  <2>1. Standing(k) /\ Opposed /\ Ids
    BY DEF Outcome
  <2>2. CASE ok /\ ~handler[t].opposed /\ k = k0
    <3>1. \A u \in Thread : On(u, k)' => handler'[u].request.op = r.op
      BY <1>1, <1>2, <2>1, <2>2 DEF Opposed, On
    <3>2. i0 \in DOMAIN reverse /\ reverse[i0] = k
      BY <2>1, <2>2 DEF Ids
    <3>3. CASE r.op = "Insert"
      <4>1. k \notin removed /\ removed' = removed /\ Live(i0)
        BY <1>1, <2>1, <2>2, <3>3 DEF Reply, Standing, On
      <4> QED BY <3>1, <3>2, <3>3, <4>1 DEF Standing, Live
    <3>4. CASE r.op = "Delete"
      <4>1. stored[k] = {} /\ stored' = stored /\ nodes[i0].is_deleted
        BY <1>1, <2>1, <2>2, <3>4 DEF Reply, Standing, On
      <4>2. \A i \in DOMAIN reverse : reverse[i] = k => i = i0
        BY <2>1, <3>2 DEF Ids
      <4> QED BY SMTT(30), <3>1, <3>2, <3>4, <4>1, <4>2 DEF Standing, Live
    <3> QED BY <1>1, <3>3, <3>4
  <2>3. CASE ~(ok /\ ~handler[t].opposed /\ k = k0)
    <3>1. stored'[k] = stored[k] /\ (k \in removed' => k \in removed)
      BY <1>1, <2>3 DEF Reply, Stores
    <3> QED BY <1>2, <2>1, <3>1 DEF Standing, Live
  <2> QED BY <2>2, <2>3
<1> QED BY <1>1, <1>3, <1>4, <1>5, <1>6 DEF Outcome

LEMMA ArriveOutcome ==
  ASSUME Outcome, Handlers, Stores, NEW t \in Thread, NEW r \in Requested, Receive(t, r)
  PROVE  Outcome' /\ Handlers'
<1>1. Arrives(t, r) /\ Handlers' /\ r.key \in Key /\ r.op \in {"Insert", "Delete"}
  BY ReceiveStep, RequestFacts
<1>2. UNCHANGED <<reverse, nodes>>
  BY DEF Receive, indexVars
<1>3. ASSUME NEW u \in Thread \ {t}
      PROVE  /\ handler'[u].pc = handler[u].pc
             /\ handler[u].pc # "idle" =>
                  /\ handler'[u].request = handler[u].request /\ handler'[u].id = handler[u].id
                  /\ handler'[u].opposed = (handler[u].opposed \/ Opposes(u, r))
  BY <1>1 DEF Arrives
<1>4. handler'[t].pc = "load_epoch" /\ handler'[t].request = r
      /\ handler'[t].opposed = \E u \in Thread : Opposes(u, r)
  BY <1>1 DEF Arrives
<1>5. {"idle", "load_epoch"} \cap (WithId \cup Inserting \cup Deleting) = {}
  BY DEF WithId, Inserting, Deleting
<1>6. Ids'
  BY <1>2, <1>3, <1>4, <1>5 DEF Ids, Outcome
<1>7. ASSUME NEW u \in Thread, NEW k \in Key, On(u, k)'
      PROVE  \/ u = t /\ k = r.key
             \/ u # t /\ On(u, k) /\ handler'[u].request = handler[u].request
  BY <1>3, <1>4, <1>7 DEF On
<1>8. Opposed'
  <2> SUFFICES ASSUME NEW u \in Thread, NEW v \in Thread, NEW k \in Key, On(u, k)', On(v, k)',
                      handler'[u].request.op # handler'[v].request.op
               PROVE  handler'[u].opposed
    BY DEF Opposed
  <2>1. CASE u = t
    <3>1. v # t /\ k = r.key /\ On(v, k) /\ handler'[v].request = handler[v].request
      BY <1>4, <1>7, <2>1
    <3>2. Opposes(v, r)
      BY <1>4, <2>1, <3>1 DEF Opposes, On
    <3> QED BY Zenon, <1>4, <2>1, <3>2
  <2>2. CASE u # t /\ v = t
    <3>1. k = r.key /\ On(u, k) /\ handler'[u].request = handler[u].request
      BY <1>4, <1>7, <2>2
    <3>2. Opposes(u, r)
      BY <1>4, <2>2, <3>1 DEF Opposes, On
    <3> QED BY Zenon, <1>3, <2>2, <3>1, <3>2 DEF On
  <2>3. CASE u # t /\ v # t
    <3>1. /\ On(u, k) /\ handler'[u].request = handler[u].request
          /\ On(v, k) /\ handler'[v].request = handler[v].request
      BY <1>7, <2>3
    <3>2. handler[u].opposed
      BY <3>1 DEF Opposed, Outcome
    <3> QED BY Zenon, <1>3, <2>3, <3>1, <3>2 DEF On
  <2> QED BY <2>1, <2>2, <2>3
<1>9. ASSUME NEW k \in Key PROVE Standing(k)'
  <2>1. Standing(k)
    BY DEF Outcome
  <2>2. /\ stored'[k] = IF r.op = "Delete" /\ k = r.key THEN {} ELSE stored[k]
        /\ k \in removed' <=> k \in removed /\ ~(r.op = "Insert" /\ k = r.key)
    BY <1>1 DEF Receive, Stores
  <2>3. ASSUME stored'[k] # {}, NEW u \in Thread, On(u, k)' PROVE handler'[u].request.op = "Insert"
    BY <1>1, <1>4, <1>7, <2>1, <2>2, <2>3 DEF Standing
  <2>4. ASSUME k \in removed', NEW u \in Thread, On(u, k)' PROVE handler'[u].request.op = "Delete"
    BY <1>1, <1>4, <1>7, <2>1, <2>2, <2>4 DEF Standing
  <2> QED BY <1>2, <2>1, <2>2, <2>3, <2>4 DEF Standing, Live
<1>10. ASSUME NEW u \in Thread PROVE Written(u)'
  <2>1. Written(u)
    BY DEF Outcome
  <2> QED BY Zenon, <1>2, <1>3, <1>4, <2>1 DEF Written, Live
<1> QED BY <1>1, <1>6, <1>8, <1>9, <1>10 DEF Outcome

\* A list of distinct keys is no longer than LocalId has ids.
IdsFit ==
  \A s \in Seq(Key) : (\A i, j \in DOMAIN s : s[i] = s[j] => i = j) => DOMAIN s \subseteq LocalId

\* IdMapStore::assign of a key that has no id yet.
LEMMA NewIdOutcome ==
  ASSUME IdsFit, Outcome, Handlers, Stores, NEW t \in Thread, handler[t].pc = "assign",
         Moves(t, "write", Len(reverse) + 1), IsNew(handler[t].request.key),
         reverse' = Append(reverse, handler[t].request.key), UNCHANGED <<nodes, stored, removed>>
  PROVE  Outcome'
<1> DEFINE k0 == handler[t].request.key
           n == Len(reverse) + 1
<1>1. /\ k0 \in Key /\ Len(reverse) \in Nat /\ n \in Nat /\ DOMAIN reverse = 1..Len(reverse)
      /\ handler[t].request.op = "Insert"
  BY RequestFacts DEF Handlers, Working, Stores, Ids, Outcome, Inserting
<1>2. /\ reverse' \in Seq(Key) /\ Len(reverse') = n /\ DOMAIN reverse' = 1..n /\ reverse'[n] = k0
      /\ \A i \in DOMAIN reverse : i \in DOMAIN reverse' /\ i # n /\ reverse'[i] = reverse[i]
      /\ \A i \in DOMAIN reverse' : i # n => i \in DOMAIN reverse
  BY <1>1 DEF Stores
<1>3. \A i \in DOMAIN reverse : reverse[i] # k0
  BY DEF IsNew, LocalIds
<1>4. \A i, j \in DOMAIN reverse' : reverse'[i] = reverse'[j] => i = j
  BY <1>2, <1>3 DEF Ids, Outcome
<1>5. DOMAIN reverse' \subseteq LocalId
  BY <1>2, <1>4 DEF IdsFit
<1>6. /\ handler'[t].pc = "write" /\ handler'[t].id = n
      /\ handler'[t].request = handler[t].request /\ handler'[t].opposed = handler[t].opposed
      /\ \A u \in Thread \ {t} : handler'[u] = handler[u]
  BY DEF Moves
<1>7. Ids'
  <2>1. ASSUME NEW u \in Thread
        PROVE  /\ handler'[u].pc \in WithId =>
                    /\ handler'[u].id \in DOMAIN reverse'
                    /\ reverse'[handler'[u].id] = handler'[u].request.key
               /\ handler'[u].pc \in Inserting => handler'[u].request.op = "Insert"
               /\ handler'[u].pc \in Deleting => handler'[u].request.op = "Delete"
    <3>1. CASE u = t
      BY SMTT(30), <1>1, <1>2, <1>6, <3>1 DEF Deleting
    <3>2. CASE u # t
      BY <1>2, <1>6, <3>2 DEF Ids, Outcome
    <3> QED BY <3>1, <3>2
  <2> QED BY SMTT(30), <1>4, <1>5, <2>1 DEF Ids
<1>8. ASSUME NEW u \in Thread, NEW k \in Key
      PROVE  On(u, k)' => On(u, k) /\ handler'[u].request = handler[u].request
                                  /\ handler'[u].opposed = handler[u].opposed
  BY SMTT(30), <1>6 DEF On
<1>9. Opposed'
  BY <1>8 DEF Opposed, Outcome
<1>10. ASSUME NEW k \in Key PROVE Standing(k)'
  <2>1. Standing(k)
    BY DEF Outcome
  <2>2. k = k0 => stored[k] = {} /\ k \notin removed
    BY <1>1, <1>3, <2>1 DEF Standing, On
  <2> QED BY <1>2, <1>8, <2>1, <2>2 DEF Standing, Live
<1>11. ASSUME NEW u \in Thread PROVE Written(u)'
  <2>1. Written(u)
    BY DEF Outcome
  <2> QED BY <1>6, <2>1 DEF Written, Live
<1> QED BY <1>7, <1>9, <1>10, <1>11 DEF Outcome

\* A step that writes a record and leaves the id map alone.
LEMMA RecordStands ==
  ASSUME Ids, NEW i0 \in DOMAIN reverse, NEW node, Stores,
         nodes' = [nodes EXCEPT ![i0] = node]
  PROVE  nodes'[i0] = node /\ \A i \in DOMAIN reverse : i # i0 => nodes'[i] = nodes[i]
BY SMTT(30) DEF Ids, Stores

LEMMA WriteOutcome ==
  ASSUME Outcome, Handlers, Stores, NEW t \in Thread, WriteNode(t)
  PROVE  Outcome' /\ Handlers' /\ Moves(t, "save", handler[t].id)
<1> DEFINE i0 == handler[t].id
           k0 == handler[t].request.key
<1>1. /\ Moves(t, "save", i0) /\ i0 \in Nat /\ handler[t].opposed \in BOOLEAN
      /\ handler[t].request \in Requested
  BY GotoStep DEF WriteNode, Handlers, Working, PC, Inserting
<1>2. Handlers'
  BY SMTT(30), <1>1, HandlersKept
<1>3. /\ i0 \in DOMAIN reverse /\ reverse[i0] = k0 /\ k0 \in Key
      /\ handler[t].request.op = "Insert" /\ Ids
  BY <1>1, RequestFacts DEF WriteNode, Outcome, Ids, WithId, Inserting
<1>4. NewNode(t).vector # Blank /\ ~NewNode(t).is_deleted
  BY <1>1, <1>3, RequestFacts, ShardAssumption DEF NewNode, Data
<1>5. /\ nodes' = [nodes EXCEPT ![i0] = NewNode(t)]
      /\ UNCHANGED <<reverse, stored, removed>>
  BY DEF WriteNode, history
<1>6. Live(i0)' /\ \A i \in DOMAIN reverse : i # i0 => nodes'[i] = nodes[i]
  <2>1. nodes'[i0] = NewNode(t) /\ \A i \in DOMAIN reverse : i # i0 => nodes'[i] = nodes[i]
    BY Zenon, <1>3, <1>5, RecordStands
  <2>2. i0' = i0
    BY <1>1 DEF Moves
  <2> QED BY <1>4, <2>1, <2>2 DEF Live
<1>7. ASSUME NEW u \in Thread, NEW k \in Key
      PROVE  /\ On(u, k)' => On(u, k) /\ handler'[u].request = handler[u].request
                                     /\ handler'[u].opposed = handler[u].opposed
             /\ u # t => handler'[u] = handler[u]
  BY <1>1 DEF Moves, On, WriteNode
<1>8. Ids'
  BY SMTT(30), <1>1, <1>3, <1>5 DEF Ids, Moves, Deleting
<1>9. Opposed'
  BY <1>7 DEF Opposed, Outcome
<1>10. ASSUME NEW k \in Key PROVE Standing(k)'
  <2>1. Standing(k)
    BY DEF Outcome
  <2>2. k = k0 => k \notin removed
    BY <1>3, <2>1 DEF Standing, On, WriteNode
  <2>3. \A i \in DOMAIN reverse : Live(i) => Live(i)'
    BY SMTT(30), <1>4, <1>6, <1>3, <1>5, RecordStands DEF Live
  <2>4. \A i \in DOMAIN reverse : reverse[i] # k0 => nodes'[i] = nodes[i]
    BY <1>3, <1>6
  <2> QED BY <1>5, <1>7, <2>1, <2>2, <2>3, <2>4 DEF Standing
<1>11. ASSUME NEW u \in Thread PROVE Written(u)'
  <2>1. Written(u)
    BY DEF Outcome
  <2>2. CASE u = t
    BY SMTT(30), <1>1, <1>6, <2>2 DEF Written, Moves
  <2>3. CASE u # t
    <3>1. handler'[u] = handler[u]
      BY <1>1, <2>3 DEF Moves
    <3>2. handler[u].pc \in {"same_metadata", "save"} => handler[u].id \in DOMAIN reverse
      BY SMTT(30), <1>3 DEF Ids, WithId
    <3> QED BY <1>4, <1>3, <1>5, <2>1, <3>1, <3>2, RecordStands DEF Written, Live
  <2> QED BY <2>2, <2>3
<1> QED BY SMTT(30), <1>1, <1>2, <1>8, <1>9, <1>10, <1>11 DEF Outcome

LEMMA MarkOutcome ==
  ASSUME Outcome, Handlers, Stores, NEW t \in Thread, Mark(t)
  PROVE  Outcome' /\ Handlers'
<1> DEFINE i0 == handler[t].id
           k0 == handler[t].request.key
           node == [nodes[i0] EXCEPT !.is_deleted = TRUE]
<1>1. /\ Stops(t) /\ Handlers' /\ handler[t] \in Working /\ handler[t].request \in Requested
      /\ Reply(t, TRUE) /\ handler[t].pc = "mark"
  BY ZenonT(30), ReplyStep, HandlersKept DEF Mark, Handlers, Working
<1>2. /\ i0 \in DOMAIN reverse /\ reverse[i0] = k0 /\ k0 \in Key
      /\ handler[t].request.op = "Delete" /\ Ids
  BY <1>1, RequestFacts DEF Outcome, Ids, WithId, Deleting
<1>3. reverse' = reverse /\ nodes' = [nodes EXCEPT ![i0] = node] /\ node.is_deleted
  <2>1. nodes[i0] \in Node
    BY <1>2 DEF Ids, Stores
  <2> QED BY SMTT(30), <2>1 DEF Mark, Node
<1> HIDE DEF node
<1>4. nodes'[i0] = node /\ \A i \in DOMAIN reverse : i # i0 => nodes'[i] = nodes[i]
  BY Zenon, <1>2, <1>3, RecordStands
<1>5. ASSUME NEW u \in Thread, NEW k \in Key, On(u, k)'
      PROVE  u # t /\ On(u, k) /\ handler'[u] = handler[u]
  BY SMTT(30), <1>1, <1>5 DEF Stops, On
<1>6. Ids'
  <2>1. "idle" \notin WithId \cup Inserting \cup Deleting
    BY SMTT(30) DEF WithId, Inserting, Deleting
  <2> QED BY <1>1, <1>2, <1>3, <2>1 DEF Ids, Stops
<1>7. Opposed'
  BY <1>5 DEF Opposed, Outcome
<1>8. ASSUME NEW u \in Thread PROVE Written(u)'
  <2>1. CASE handler'[u].pc \in {"same_metadata", "save"} /\ ~handler'[u].opposed
    <3>1. u # t /\ handler'[u] = handler[u]
      BY SMTT(30), <1>1, <2>1 DEF Stops
    <3>2. /\ Written(u) /\ Opposed /\ handler[u].request \in Requested
          /\ handler[u].id \in DOMAIN reverse /\ reverse[handler[u].id] = handler[u].request.key
          /\ handler[u].request.op = "Insert"
      BY SMTT(30), <1>2, <2>1, <3>1 DEF Outcome, Handlers, Working, Ids, WithId, Inserting
    <3>3. handler[u].request.key # k0
      BY SMTT(30), <1>1, <1>2, <2>1, <3>1, <3>2 DEF Opposed, On
    <3>4. handler[u].id # i0
      BY <1>2, <3>2, <3>3
    <3> QED BY <1>4, <2>1, <3>1, <3>2, <3>4 DEF Written, Live
  <2> QED BY SMTT(30), <2>1 DEF Written
<1>9. ASSUME NEW k \in Key PROVE Standing(k)'
  <2>1. Standing(k) /\ Opposed
    BY DEF Outcome
  <2>2. CASE k = k0
    <3>1. stored[k] = {} /\ stored' = stored
      BY SMTT(30), <1>1, <1>2, <2>1, <2>2 DEF Reply, Standing, On
    <3>2. \A i \in DOMAIN reverse : reverse[i] = k => i = i0
      BY <1>2, <2>2 DEF Ids
    <3>3. ASSUME k \in removed', NEW u \in Thread, On(u, k)'
          PROVE  handler'[u].request.op = "Delete"
      <4>1. On(u, k) /\ handler'[u] = handler[u]
        BY SMTT(30), <1>5, <3>3
      <4>2. CASE k \in removed
        BY SMTT(30), <2>1, <4>1, <4>2 DEF Standing
      <4>3. CASE k \notin removed
        <5>1. ~handler[t].opposed
          BY SMTT(30), <1>1, <3>3, <4>3 DEF Reply
        <5> QED BY SMTT(30), <1>1, <1>2, <2>1, <2>2, <4>1, <5>1 DEF Opposed, On
      <4> QED BY <4>2, <4>3
    <3> QED BY SMTT(30), <1>3, <1>4, <3>1, <3>2, <3>3 DEF Standing
  <2>3. CASE k # k0
    <3>1. stored'[k] = stored[k] /\ (k \in removed' => k \in removed)
      BY SMTT(30), <1>1, <1>2, <2>3 DEF Reply
    <3>2. \A i \in DOMAIN reverse : reverse[i] = k => nodes'[i] = nodes[i]
      BY <1>2, <1>4, <2>3
    <3> QED BY SMTT(30), <1>3, <1>5, <2>1, <3>1, <3>2 DEF Standing, Live
  <2> QED BY <2>2, <2>3
<1> QED BY <1>1, <1>6, <1>7, <1>8, <1>9 DEF Outcome

LEMMA IdOfKey ==
  ASSUME NEW k, ~IsNew(k) PROVE IdOf(k) \in DOMAIN reverse /\ reverse[IdOf(k)] = k
<1>1. \E i : i \in LocalIds(k)
  BY DEF IsNew
<1>2. IdOf(k) \in LocalIds(k)
  BY <1>1 DEF IdOf
<1> QED BY <1>2 DEF LocalIds

LEMMA StoresReply ==
  ASSUME Stores, Handlers, NEW t \in Thread, NEW ok \in BOOLEAN, Reply(t, ok), handler[t].pc # "idle"
  PROVE  stored' \in [Key -> SUBSET Data] /\ removed' \subseteq Key /\ crashes' = crashes
<1>1. handler[t].request \in Requested
  BY DEF Handlers, Working
<1> QED BY <1>1, RequestFacts DEF Reply, Stores

LEMMA StoresStep ==
  ASSUME Handlers, Stores, Outcome, [Next]_vars
  PROVE  Stores'
<1>1. CASE UNCHANGED vars
  BY <1>1 DEF vars, indexVars, history, Stores
<1>2. ASSUME NEW t \in Thread, NEW r \in Requested, Receive(t, r) PROVE Stores'
  BY <1>2, RequestFacts DEF Receive, Stores, indexVars
<1>3. ASSUME NEW t \in Thread, LoadEpoch(t) PROVE Stores'
  <2>1. /\ handler[t].pc = "load_epoch" /\ UNCHANGED <<reverse, nodes, metadata_file, offsets>>
        /\ Reply(t, FALSE) \/ UNCHANGED <<stored, removed, crashes>>
    BY Zenon, <1>3, LoadStep
  <2> QED BY ZenonT(30), <2>1, StoresReply DEF Stores
<1>4. ASSUME NEW t \in Thread, StoreEpoch(t) \/ IsDeleted(t) PROVE Stores'
  BY <1>4 DEF StoreEpoch, IsDeleted, Stores, indexVars, history
<1>5. ASSUME NEW t \in Thread, Assign(t) PROVE Stores'
  <2>1. handler[t].request.key \in Key
    BY <1>5, RequestFacts DEF Assign, Handlers, Working
  <2>2. UNCHANGED <<indexVars, stored, removed, crashes>> /\ reverse' \in Seq(Key)
    BY SMTT(30), <1>5, <2>1 DEF Assign, history, Stores
  <2> QED BY <2>2 DEF Stores, indexVars
<1>6. ASSUME NEW t \in Thread, SameVector(t) \/ Compare(t) \/ Lookup(t) \/ TestMark(t) PROVE Stores'
  <2>1. UNCHANGED <<reverse, indexVars>> /\ handler[t].pc # "idle"
    BY Zenon, <1>6 DEF SameVector, Compare, Lookup, TestMark
  <2>2. (\E ok \in BOOLEAN : Reply(t, ok)) \/ UNCHANGED <<stored, removed, crashes>>
    <3>1. SameMetadata(t) \in BOOLEAN
      BY SMTT(30) DEF SameMetadata
    <3> QED BY Zenon, <1>6, <3>1 DEF SameVector, Compare, Lookup, TestMark, history
  <2> QED BY <2>1, <2>2, StoresReply DEF Stores, indexVars
<1>7. ASSUME NEW t \in Thread, WriteNode(t) PROVE Stores'
  <2>1. handler[t].request \in Requested /\ handler[t].request.op = "Insert"
    BY SMTT(30), <1>7 DEF WriteNode, Handlers, Working, Outcome, Ids, Inserting
  <2>2. NewNode(t) \in Node
    BY <2>1, RequestFacts DEF NewNode, Node, Data
  <2>3. nodes' \in [LocalId -> Node]
    BY ZenonT(30), <1>7, <2>2 DEF WriteNode, Stores
  <2> QED BY SMTT(30), <1>7, <2>3 DEF WriteNode, Stores, history
<1>8. ASSUME NEW t \in Thread, SaveMetadata(t) PROVE Stores'
  <2>1. handler[t].request \in Requested /\ handler[t].request.op = "Insert"
    BY <1>8 DEF SaveMetadata, Handlers, Working, Outcome, Ids, Inserting
  <2>2. handler[t].request.data.metadata \in Metadata \cup {Blank}
    BY <2>1, RequestFacts DEF Data
  <2>3. metadata_file' \in Seq(Metadata) /\ offsets' \in [LocalId -> Nat]
    <3>1. CASE handler[t].request.data.metadata = Blank
      BY <1>8, <3>1 DEF SaveMetadata, save_metadata, Stores
    <3>2. CASE handler[t].request.data.metadata \in Metadata \ {Blank}
      <4>1. Len(metadata_file) + 1 \in Nat
        BY DEF Stores
      <4>2. /\ metadata_file' = Append(metadata_file, handler[t].request.data.metadata)
            /\ offsets' = [offsets EXCEPT ![handler[t].id] = Len(metadata_file) + 1]
        BY <1>8, <3>2 DEF SaveMetadata, save_metadata
      <4>3. metadata_file' \in Seq(Metadata)
        BY <3>2, <4>2 DEF Stores
      <4> QED BY ZenonT(30), <4>1, <4>2, <4>3 DEF Stores
    <3> QED BY SMTT(30), <2>2, <3>1, <3>2
  <2>4. stored' \in [Key -> SUBSET Data] /\ removed' \subseteq Key /\ crashes' = crashes
    BY ZenonT(30), <1>8, StoresReply DEF SaveMetadata
  <2> QED BY SMTT(30), <1>8, <2>3, <2>4 DEF SaveMetadata, Stores
<1>9. ASSUME NEW t \in Thread, Mark(t) PROVE Stores'
  <2>1. nodes' \in [LocalId -> Node]
    <3> DEFINE i == handler[t].id
               node == [nodes[i] EXCEPT !.is_deleted = TRUE]
    <3>1. nodes[i] \in Node => node \in Node
      BY Zenon DEF Node
    <3>2. nodes' = [nodes EXCEPT ![i] = node]
      BY <1>9 DEF Mark
    <3> HIDE DEF node
    <3> QED BY Zenon, <3>1, <3>2 DEF Stores
  <2>2. stored' \in [Key -> SUBSET Data] /\ removed' \subseteq Key /\ crashes' = crashes
    BY Zenon, <1>9, StoresReply DEF Mark
  <2> QED BY <1>9, <2>1, <2>2 DEF Mark, Stores
<1>10. CASE Crash
  <2>1. LocalId \subseteq Nat
    BY DEF LocalId
  <2>2. offsets' \in [LocalId -> Nat]
    BY <1>10, <2>1 DEF Crash, rebuild_index
  <2> QED BY <1>10, <2>2 DEF Crash, Stores, history
<1> QED BY SMTT(30), <1>1, <1>2, <1>3, <1>4, <1>5, <1>6, <1>7, <1>8, <1>9, <1>10 DEF Next, Step

LEMMA CrashOutcome ==
  ASSUME Outcome, Crash
  PROVE  Outcome' /\ Handlers'
<1>1. handler' = [t \in Thread |-> [pc |-> "idle"]] /\ \A t \in Thread : handler'[t].pc = "idle"
  BY DEF Crash
<1>2. "idle" \notin WithId \cup Inserting \cup Deleting
  BY DEF WithId, Inserting, Deleting
<1>3. UNCHANGED <<reverse, nodes, stored, removed>>
  BY DEF Crash, history
<1>4. Handlers'
  BY SMTT(30), <1>1, <1>3 DEF Handlers
<1>5. Ids' /\ Opposed' /\ \A t \in Thread : Written(t)'
  BY SMTT(30), <1>1, <1>2, <1>3 DEF Ids, Opposed, Written, On, Outcome
<1>6. ASSUME NEW k \in Key PROVE Standing(k)'
  <2>1. Standing(k)
    BY DEF Outcome
  <2>2. \A t \in Thread : ~On(t, k)'
    BY <1>1 DEF On
  <2> QED BY Zenon, <1>3, <2>1, <2>2 DEF Standing, Live
<1> QED BY <1>4, <1>5, <1>6 DEF Outcome

NodeInv == Handlers /\ Stores /\ Outcome

LEMMA NodeInit == Init => NodeInv
<1> SUFFICES ASSUME Init PROVE NodeInv
  OBVIOUS
<1>1. \A t \in Thread : handler[t].pc = "idle"
  BY DEF Init
<1>2. "idle" \notin WithId \cup Inserting \cup Deleting
  BY DEF WithId, Inserting, Deleting
<1>3. Handlers
  <2>1. handler = [t \in Thread |-> [pc |-> "idle"]]
    BY DEF Init
  <2> QED BY <1>1, <2>1 DEF Handlers
<1>4. Stores
  <2>1. [vector |-> Blank, is_deleted |-> FALSE] \in Node
    BY DEF Node
  <2>2. nodes \in [LocalId -> Node]
    BY <2>1 DEF Init
  <2>3. offsets \in [LocalId -> Nat] /\ stored \in [Key -> SUBSET Data] /\ removed \subseteq Key
    BY DEF Init
  <2>4. reverse \in Seq(Key) /\ metadata_file \in Seq(Metadata) /\ crashes \in Nat
    BY DEF Init
  <2> QED BY SMTT(30), <2>2, <2>3, <2>4 DEF Stores
<1>5. Outcome
  <2>1. DOMAIN reverse = {} /\ removed = {} /\ \A k \in Key : stored[k] = {}
    BY SMTT(30) DEF Init
  <2>2. Ids /\ Opposed /\ \A t \in Thread : Written(t)
    BY SMTT(30), <1>1, <1>2, <2>1 DEF Ids, Opposed, Written, On
  <2>3. \A k \in Key : Standing(k)
    BY SMTT(30), <2>1 DEF Standing
  <2> QED BY <2>2, <2>3 DEF Outcome
<1> QED BY <1>3, <1>4, <1>5 DEF NodeInv
=============================================================================
