------------------------- MODULE ShardOutcomeProofs ------------------------
(***************************************************************************)
(* Every step of a shard node keeps the invariant of ShardNodeProofs, and  *)
(* so the acknowledged outcomes stand.                                     *)
(***************************************************************************)
EXTENDS ShardNodeProofs, FiniteSetTheorems

\* IdMapStore hands out ids in order, so distinct keys get no more ids than
\* there are keys.
LEMMA IdsFitHolds == IdsFit
<1> SUFFICES ASSUME NEW s \in Seq(Key), \A i, j \in DOMAIN s : s[i] = s[j] => i = j
             PROVE  DOMAIN s \subseteq LocalId
  BY DEF IdsFit
<1>1. Len(s) \in Nat /\ DOMAIN s = 1..Len(s) /\ s \in [1..Len(s) -> Key]
  OBVIOUS
<1>2. s \in Injection(1..Len(s), Key)
  BY <1>1 DEF IsInjective, Injection
<1>3. Cardinality(1..Len(s)) <= Cardinality(Key) /\ Cardinality(Key) \in Nat
  BY <1>2, FS_Injection, FS_CardinalityType, ShardAssumption
<1>4. Cardinality(1..Len(s)) = Len(s)
  BY <1>1, FS_Interval
<1> QED BY <1>1, <1>3, <1>4 DEF LocalId

LEMMA NodeStep == NodeInv /\ [Next]_vars => NodeInv'
<1> SUFFICES ASSUME NodeInv, [Next]_vars PROVE NodeInv'
  OBVIOUS
<1> USE DEF NodeInv
<1> DEFINE Goal == Handlers' /\ Outcome'
<1>1. Stores'
  BY StoresStep
<1>2. CASE UNCHANGED vars
  <2>1. UNCHANGED <<reverse, nodes, handler, stored, removed>>
    BY <1>2 DEF vars, indexVars, history
  <2>2. Handlers'
    BY SMTT(30), <2>1 DEF Handlers
  <2>3. Outcome'
    BY SMTT(30), <2>1 DEF Outcome, Ids, Opposed, Standing, Written, On, Live
  <2> QED BY <1>1, <2>2, <2>3
<1>3. ASSUME NEW t \in Thread, NEW r \in Requested, Receive(t, r) PROVE Goal
  BY <1>3, ArriveOutcome
<1>4. ASSUME NEW t \in Thread, handler[t].pc # "idle"
      PROVE  /\ handler[t] \in Working /\ handler[t].id \in Nat /\ handler[t].request \in Requested
             /\ handler[t].request.op \in {"Insert", "Delete"} /\ Ids /\ Written(t)
  BY <1>4, RequestFacts DEF Handlers, Working, Outcome
<1>5. ASSUME NEW t \in Thread, LoadEpoch(t) PROVE Goal
  <2> DEFINE r == handler[t].request
             p == handler[t].id
  <2>1. /\ handler[t].pc = "load_epoch" /\ UNCHANGED <<reverse, nodes>>
        /\ \/ Reply(t, FALSE)
           \/ /\ \E q \in {"store_epoch", AfterEpoch(r)} : Goto(t, q)
              /\ UNCHANGED <<stored, removed>>
    BY Zenon, <1>5, LoadStep
  <2>2. CASE Reply(t, FALSE)
    BY ZenonT(30), <2>1, <2>2, ReplyOutcome
  <2>3. ASSUME NEW q \in {"store_epoch", AfterEpoch(r)}, Goto(t, q), UNCHANGED <<stored, removed>>
        PROVE  Goal
    <3>1. /\ q \in PC /\ q \notin WithId
          /\ q \in Inserting => r.op = "Insert"
          /\ q \in Deleting => r.op = "Delete"
      BY SMTT(30), <1>4, <2>1, <2>3 DEF AfterEpoch, PC, WithId, Inserting, Deleting
    <3>2. Moves(t, q, handler[t].id) /\ q \notin {"same_metadata", "save"}
      BY SMTT(30), <2>1, <2>3, <3>1, GotoStep DEF WithId
    <3>3. Outcome'
      BY SMTT(30), <1>4, <2>1, <2>3, <3>1, <3>2, QuietOutcome
    <3> QED BY ZenonT(30), <3>2, <3>3, HandlersKept
  <2> QED BY Zenon, <2>1, <2>2, <2>3
<1>6. ASSUME NEW t \in Thread, StoreEpoch(t) PROVE Goal
  <2> DEFINE r == handler[t].request
             q == AfterEpoch(r)
  <2>1. /\ handler[t].pc = "store_epoch" /\ Moves(t, q, handler[t].id)
        /\ UNCHANGED <<reverse, nodes, stored, removed>>
    BY Zenon, <1>6, StoreStep
  <2>2. /\ q \in PC /\ q \notin WithId /\ q \notin {"same_metadata", "save"}
        /\ q \in Inserting => r.op = "Insert"
        /\ q \in Deleting => r.op = "Delete"
    BY <1>4, <2>1 DEF AfterEpoch, PC, WithId, Inserting, Deleting
  <2>3. Outcome'
    BY SMTT(30), <1>4, <2>1, <2>2, QuietOutcome
  <2> QED BY ZenonT(30), <2>1, <2>3, HandlersKept
<1>7. ASSUME NEW t \in Thread, Assign(t) PROVE Goal
  <2> DEFINE k == handler[t].request.key
  <2>1. /\ handler[t].pc = "assign" /\ handler[t].request.op = "Insert"
        /\ UNCHANGED <<nodes, stored, removed>>
    BY SMTT(30), <1>4, <1>7 DEF Assign, indexVars, history, Ids, Inserting
  <2>2. CASE IsNew(k)
    <3>1. Len(reverse) + 1 \in Nat /\ "write" \in PC
      BY DEF Stores, PC, Inserting
    <3>2. Moves(t, "write", Len(reverse) + 1)
      BY ZenonT(30), <1>7, <2>1, <2>2, <3>1, MoveStep DEF Assign
    <3>3. reverse' = Append(reverse, k)
      BY SMTT(30), <1>7, <2>2 DEF Assign
    <3>4. Outcome'
      BY SMTT(30), <2>1, <2>2, <3>2, <3>3, NewIdOutcome, IdsFitHolds
    <3> QED BY SMTT(30), <2>1, <3>1, <3>2, <3>4, HandlersKept
  <2>3. CASE ~IsNew(k)
    <3>1. /\ IdOf(k) \in DOMAIN reverse /\ reverse[IdOf(k)] = k /\ IdOf(k) \in Nat
          /\ "is_deleted" \in PC /\ "is_deleted" \notin Deleting
      BY <2>3, IdOfKey DEF Stores, PC, Inserting, Deleting
    <3>2. Moves(t, "is_deleted", IdOf(k)) /\ reverse' = reverse
      BY ZenonT(30), <1>7, <2>1, <2>3, <3>1, MoveStep DEF Assign
    <3>3. Outcome'
      BY <2>1, <3>1, <3>2, QuietOutcome
    <3> QED BY SMTT(30), <2>1, <3>1, <3>2, <3>3, HandlersKept
  <2> QED BY <2>2, <2>3
<1>8. ASSUME NEW t \in Thread, NEW q \in WithId, handler[t].pc \in WithId, Goto(t, q),
             q \in Inserting <=> handler[t].pc \in Inserting,
             UNCHANGED <<reverse, nodes, stored, removed>>,
             q \in {"same_metadata", "save"} /\ ~handler[t].opposed => Live(handler[t].id)
      PROVE  Goal
  <2>1. /\ q \in PC /\ handler[t].pc # "idle"
        /\ q \in Deleting <=> handler[t].pc \in Deleting
    BY SMTT(30), <1>8 DEF WithId, PC, Inserting, Deleting
  <2>2. Moves(t, q, handler[t].id)
    BY SMTT(30), <1>8, <2>1, GotoStep
  <2>3. Outcome'
    BY SMTT(30), <1>4, <1>8, <2>1, <2>2, QuietOutcome DEF Ids
  <2> QED BY ZenonT(30), <1>4, <1>8, <2>1, <2>2, <2>3, HandlersKept
<1>9. ASSUME NEW t \in Thread, NEW ok \in BOOLEAN, Reply(t, ok), handler[t].pc # "idle",
             UNCHANGED <<reverse, nodes>>,
             ok => handler[t].pc \in WithId,
             ok /\ ~handler[t].opposed =>
               IF handler[t].request.op = "Insert" THEN Live(handler[t].id)
               ELSE nodes[handler[t].id].is_deleted
      PROVE  Goal
  BY ZenonT(30), <1>9, ReplyOutcome
<1>10. ASSUME NEW t \in Thread, IsDeleted(t) PROVE Goal
  <2>1. /\ handler[t].pc = "is_deleted"
        /\ UNCHANGED <<reverse, nodes, stored, removed>>
    BY SMTT(30), <1>10 DEF IsDeleted, indexVars, history
  <2>2. PICK q \in {"write", "same_vector"} : Goto(t, q)
    BY SMTT(30), <1>10 DEF IsDeleted
  <2>3. {"is_deleted", "write", "same_vector"} \subseteq WithId \cap Inserting
    BY SMTT(30) DEF WithId, Inserting
  <2>4. /\ handler[t].pc \in WithId /\ handler[t].pc \in Inserting
        /\ q \in WithId /\ q \in Inserting /\ q \notin {"same_metadata", "save"}
    BY SMTT(30), <2>1, <2>3
  <2> QED BY ZenonT(30), <1>8, <2>1, <2>2, <2>4
<1>11. ASSUME NEW t \in Thread, SameVector(t) PROVE Goal
  <2>1. /\ handler[t].pc = "same_vector" /\ UNCHANGED <<reverse, nodes>>
        /\ "same_vector" \in WithId \cap Inserting /\ "same_metadata" \in WithId \cap Inserting
    BY <1>11 DEF SameVector, indexVars, WithId, Inserting
  <2>2. CASE /\ ~nodes[handler[t].id].is_deleted
             /\ nodes[handler[t].id].vector = handler[t].request.data.vector
    <3>1. Live(handler[t].id)
      <4>1. handler[t].request \in Requested /\ handler[t].request.op = "Insert"
        BY <1>4, <2>1 DEF Ids, Inserting
      <4>2. handler[t].request.data \in Data
        BY <4>1, RequestFacts
      <4>3. handler[t].request.data.vector \in Vector /\ Blank \notin Vector
        BY <4>2, ShardAssumption DEF Data
      <4> QED BY <2>2, <4>3 DEF Live
    <3>2. Goto(t, "same_metadata") /\ UNCHANGED <<stored, removed>>
      BY ZenonT(30), <1>11, <2>2 DEF SameVector, history
    <3> QED BY ZenonT(30), <1>8, <2>1, <3>1, <3>2
  <2>3. CASE Reply(t, FALSE)
    BY Zenon, <1>9, <2>1, <2>3
  <2> QED BY ZenonT(30), <1>11, <2>2, <2>3 DEF SameVector
<1>12. ASSUME NEW t \in Thread, Compare(t) PROVE Goal
  <2>1. /\ handler[t].pc = "same_metadata" /\ UNCHANGED <<reverse, nodes>>
        /\ Reply(t, SameMetadata(t)) /\ SameMetadata(t) \in BOOLEAN
        /\ "same_metadata" \in WithId \cap Inserting
    BY SMTT(30), <1>12 DEF Compare, indexVars, SameMetadata, WithId, Inserting
  <2>2. handler[t].request.op = "Insert" /\ (~handler[t].opposed => Live(handler[t].id))
    BY <1>4, <2>1 DEF Ids, Written
  <2> QED BY SMTT(30), <1>9, <2>1, <2>2
<1>13. ASSUME NEW t \in Thread, WriteNode(t) PROVE Goal
  BY <1>13, WriteOutcome
<1>14. ASSUME NEW t \in Thread, SaveMetadata(t) PROVE Goal
  <2>1. /\ handler[t].pc = "save" /\ UNCHANGED <<reverse, nodes>>
        /\ Reply(t, TRUE) /\ "save" \in WithId \cap Inserting
    BY ZenonT(30), <1>14 DEF SaveMetadata, WithId, Inserting
  <2>2. handler[t].request.op = "Insert" /\ (~handler[t].opposed => Live(handler[t].id))
    BY SMTT(30), <1>4, <2>1 DEF Ids, Written
  <2> QED BY Zenon, <1>9, <2>1, <2>2
<1>15. ASSUME NEW t \in Thread, Lookup(t) PROVE Goal
  <2> DEFINE k == handler[t].request.key
  <2>1. /\ handler[t].pc = "lookup" /\ handler[t].request.op = "Delete"
        /\ UNCHANGED <<reverse, nodes>>
    BY <1>4, <1>15 DEF Lookup, indexVars, Ids, Deleting
  <2>2. CASE IsNew(k)
    BY Zenon, <1>9, <1>15, <2>1, <2>2 DEF Lookup, IsNew
  <2>3. CASE ~IsNew(k)
    <3>1. /\ IdOf(k) \in DOMAIN reverse /\ reverse[IdOf(k)] = k /\ IdOf(k) \in Nat
          /\ "test" \in PC /\ "test" \notin Inserting
      BY SMTT(30), <2>3, IdOfKey DEF Stores, PC, Inserting, Deleting
    <3>2. Moves(t, "test", IdOf(k)) /\ UNCHANGED <<stored, removed>>
      BY SMTT(30), <1>15, <2>1, <2>3, <3>1, MoveStep DEF Lookup, IsNew, history
    <3>3. Outcome'
      BY SMTT(30), <2>1, <3>1, <3>2, QuietOutcome
    <3> QED BY ZenonT(30), <2>1, <3>1, <3>2, <3>3, HandlersKept
  <2> QED BY <2>2, <2>3
<1>16. ASSUME NEW t \in Thread, TestMark(t) PROVE Goal
  <2>1. /\ handler[t].pc = "test" /\ UNCHANGED <<reverse, nodes>>
        /\ {"test", "mark"} \subseteq WithId \cap Deleting /\ {"test", "mark"} \cap Inserting = {}
    BY SMTT(30), <1>16 DEF TestMark, indexVars, WithId, Inserting, Deleting
  <2>2. handler[t].request.op = "Delete"
    BY SMTT(30), <1>4, <2>1 DEF Ids
  <2>3. CASE nodes[handler[t].id].is_deleted
    BY Zenon, <1>9, <1>16, <2>1, <2>2, <2>3 DEF TestMark
  <2>4. CASE ~nodes[handler[t].id].is_deleted
    <3>1. Goto(t, "mark") /\ UNCHANGED <<stored, removed>>
      BY SMTT(30), <1>16, <2>4 DEF TestMark, history
    <3> QED BY ZenonT(30), <1>8, <2>1, <3>1
  <2> QED BY SMTT(30), <2>3, <2>4
<1>17. ASSUME NEW t \in Thread, Mark(t) PROVE Goal
  BY <1>17, MarkOutcome
<1>18. CASE Crash
  BY <1>1, <1>18, CrashOutcome
<1> QED
  BY SMTT(30), <1>1, <1>2, <1>3, <1>5, <1>6, <1>7, <1>10, <1>11, <1>12, <1>13, <1>14, <1>15, <1>16,
     <1>17, <1>18
  DEF Next, Step

\* What acknowledged Inserts and Deletes of a key left stands, however many
\* handlers interleave and wherever the process crashes.
THEOREM OutcomesStand == Spec => []OutcomeStands
<1>1. NodeInv => OutcomeStands
  <2> SUFFICES ASSUME NodeInv PROVE OutcomeStands
    OBVIOUS
  <2>1. Ids /\ \A k \in Key : Standing(k)
    BY DEF NodeInv, Outcome
  <2>2. ASSUME NEW k \in Key, stored[k] # {} PROVE k \in ListLocalIds /\ nodes[IdOf(k)].vector # Blank
    <3>1. PICK i \in DOMAIN reverse : reverse[i] = k /\ Live(i)
      BY <2>1, <2>2 DEF Standing
    <3>2. IdOf(k) \in DOMAIN reverse /\ reverse[IdOf(k)] = k
      BY SMTT(30), <3>1, IdOfKey DEF IsNew, LocalIds
    <3>3. IdOf(k) = i
      BY SMTT(30), <2>1, <3>1, <3>2 DEF Ids
    <3> QED BY SMTT(30), <3>1, <3>3 DEF ListLocalIds, LocalIds, Live
  <2>3. ASSUME NEW k \in removed PROVE k \notin ListLocalIds
    <3>1. k \in Key
      BY DEF NodeInv, Stores
    <3> QED BY <2>1, <3>1 DEF Standing, ListLocalIds, LocalIds
  <2> QED BY <2>2, <2>3 DEF OutcomeStands
<1> QED BY <1>1, NodeInit, NodeStep, PTL DEF Spec
=============================================================================
