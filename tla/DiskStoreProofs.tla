-------------------------- MODULE DiskStoreProofs --------------------------
(***************************************************************************)
(* Proofs about DiskStore, for every set of keys, owners and versions and  *)
(* every bound: the store is well typed, no generation is leaked, and each *)
(* call keeps the index rows exact.  In a generation that is published or  *)
(* being listed, the ready index, the quarantine rows, the relation index  *)
(* and all counters say exactly what the work rows and the resources say.  *)
(* DiskStoreTheorems draws the conclusions.                                *)
(*                                                                         *)
(* The batches keep the index rows by difference: forgetWork and put       *)
(* compute the rows to delete from the rows they read.  So each lemma says *)
(* first which fields of the rows a batch changes, then that the rows are  *)
(* exact after it if they were before.                                     *)
(***************************************************************************)
EXTENDS DiskStore, TLAPS, FiniteSetTheorems

\* The rows a batch would write, before write has checked its counters.
DeltaType ==
    [d : [Keys -> Item \cup {NoItem}], w : [Keys -> Nat], s : [Keys -> Schedule],
     q : SUBSET ReadyRows, p : SUBSET Keys, i : [Owners -> SUBSET Keys],
     ic : [Owners -> Int], r : [Owners -> Nat], pending : Int, poison : Int]

-----------------------------------------------------------------------------
(* What the batches return.                                                *)

\* A counter that write accepts is a natural.
LEMMA WritableType ==
    ASSUME NEW R \in DeltaType, Writable(R)
    PROVE  R \in RowsType
  BY DEF DeltaType, RowsType, Writable

\* Rows of the store are rows a batch may write.
LEMMA RowsAreDelta ==
    ASSUME NEW R \in RowsType
    PROVE  R \in DeltaType
  BY DEF DeltaType, RowsType

\* The schedule a work row has, stored or by default, is a schedule.
LEMMA ScheduleType ==
    ASSUME NEW R \in DeltaType, NEW k \in Keys
    PROVE  ScheduleOf(R, k) \in Schedule
  BY Zenon DEF DeltaType, ScheduleOf, NoSchedule, Schedule

\* forgetWork keeps the types.
LEMMA ForgetWorkType ==
    ASSUME NEW R \in DeltaType, NEW k \in Keys
    PROVE  ForgetWork(R, k) \in DeltaType
  <1> DEFINE state == ScheduleOf(R, k)
  <1>1. state \in Schedule  BY Zenon, ScheduleType
  <1>2. NoSchedule \in Schedule  BY Zenon DEF NoSchedule, Schedule
  <1>3. CASE R.w[k] = 0  BY Zenon, <1>3 DEF ForgetWork
  <1>4. CASE R.w[k] # 0
    <2>1. [R.w EXCEPT ![k] = 0] \in [Keys -> Nat]  BY Zenon DEF DeltaType
    <2>2. [R.s EXCEPT ![k] = NoSchedule] \in [Keys -> Schedule]  BY Zenon, <1>2 DEF DeltaType
    <2>3. R.pending - 1 \in Int  BY DEF DeltaType
    <2>4. (IF state.quarantined THEN R.poison - 1 ELSE R.poison) \in Int  BY DEF DeltaType
    <2>5. R.q \ {ReadyRow(k, state)} \in SUBSET ReadyRows  BY Zenon DEF DeltaType
    <2>6. R.p \ {k} \in SUBSET Keys  BY Zenon DEF DeltaType
    <2>7. ForgetWork(R, k) = [R EXCEPT !.q = R.q \ {ReadyRow(k, state)},
                   !.w = [R.w EXCEPT ![k] = 0],
                   !.s = [R.s EXCEPT ![k] = NoSchedule],
                   !.p = R.p \ {k},
                   !.pending = R.pending - 1,
                   !.poison = IF state.quarantined THEN R.poison - 1 ELSE R.poison]
      BY Zenon, <1>4 DEF ForgetWork, DeltaType
    <2> QED  BY ZenonT(60), <2>1, <2>2, <2>3, <2>4, <2>5, <2>6, <2>7 DEF DeltaType
  <1> QED  BY Zenon, <1>3, <1>4

\* What a caller of queueWork may ask for.
LEMMA QueueWorkType ==
    ASSUME NEW R \in DeltaType, NEW k \in Keys, NEW requested \in Schedule, now \in Nat
    PROVE  QueueWork(R, k, requested) \in DeltaType
  <1> DEFINE state == IF requested.priority = 0 /\ requested.due = 0
                      THEN [requested EXCEPT !.due = now] ELSE requested
             explicit == state.priority # 1 \/ state.due # 0 \/ state.quarantined
             F == ForgetWork(R, k)
  <1>1. F \in DeltaType  BY Zenon, ForgetWorkType
  <1>2. state \in Schedule  BY Zenon DEF Schedule
  <1>3. ReadyRow(k, state) \in ReadyRows  BY Zenon, <1>2 DEF ReadyRow, ReadyRows, Schedule
  <1> HIDE DEF F, state
  <1> DEFINE w2 == [F.w EXCEPT ![k] = state.token]
             s2 == [F.s EXCEPT ![k] = IF explicit THEN state ELSE F.s[k]]
             q2 == IF state.quarantined THEN F.q ELSE F.q \cup {ReadyRow(k, state)}
             p2 == IF state.quarantined THEN F.p \cup {k} ELSE F.p
             poison2 == IF state.quarantined THEN F.poison + 1 ELSE F.poison
  <1>4. w2 \in [Keys -> Nat]  BY Zenon, <1>1, <1>2 DEF DeltaType, Schedule
  <1>5. s2 \in [Keys -> Schedule]  BY Zenon, <1>1, <1>2 DEF DeltaType
  <1>6. q2 \in SUBSET ReadyRows  BY Zenon, <1>1, <1>3 DEF DeltaType
  <1>7. p2 \in SUBSET Keys  BY Zenon, <1>1 DEF DeltaType
  <1>8. poison2 \in Int /\ F.pending + 1 \in Int  BY <1>1 DEF DeltaType
  <1>9. QueueWork(R, k, requested) =
          [F EXCEPT !.w = w2, !.pending = F.pending + 1, !.s = s2, !.q = q2, !.p = p2,
                    !.poison = poison2]
    BY Zenon, <1>1 DEF QueueWork, F, state, DeltaType
  <1> HIDE DEF w2, s2, q2, p2, poison2
  <1> QED  BY ZenonT(60), <1>1, <1>4, <1>5, <1>6, <1>7, <1>8, <1>9 DEF DeltaType

\* diskRelated keeps the types and touches nothing but related work.
LEMMA NotifyType ==
    ASSUME NEW R \in DeltaType, NEW os, NEW token \in Nat
    PROVE  /\ NotifyRelated(R, os, token) \in DeltaType
           /\ NotifyRelated(R, os, token).w = R.w
  <1> DEFINE r2 == [o \in Owners |-> IF o \in os THEN token ELSE R.r[o]]
  <1>1. r2 \in [Owners -> Nat]  BY Zenon DEF DeltaType
  <1>2. NotifyRelated(R, os, token) = [R EXCEPT !.r = r2]  BY Zenon DEF NotifyRelated
  <1> HIDE DEF r2
  <1> QED  BY Zenon, <1>1, <1>2 DEF DeltaType

\* put keeps the types.
LEMMA PutType ==
    ASSUME NEW R \in DeltaType, NEW k \in Keys, NEW item \in Item \cup {NoItem},
           NEW token \in Nat, NEW enqueue \in BOOLEAN, NEW priority \in {0, 1}, now \in Nat
    PROVE  Put(R, k, item, token, enqueue, priority) \in DeltaType
  <1> DEFINE old == R.d[k]
             moved == item = NoItem \/ old = NoItem \/ old.own # item.own
             X == Reindex(R, k, old, item)
             D == [X EXCEPT !.d[k] = item]
             N == IF moved THEN NotifyRelated(D, {old.own, item.own}, token) ELSE D
  <1>1. X \in DeltaType
    <2> DEFINE i2 == [o \in Owners |-> (R.i[o] \ (IF o = old.own THEN {k} ELSE {}))
                                         \cup (IF o = item.own THEN {k} ELSE {})]
               ic2 == [o \in Owners |-> R.ic[o] - (IF o = old.own THEN 1 ELSE 0)
                                          + (IF o = item.own THEN 1 ELSE 0)]
    <2>1. i2 \in [Owners -> SUBSET Keys]  BY Zenon DEF DeltaType
    <2>2. ic2 \in [Owners -> Int]  BY DEF DeltaType
    <2>3. X = [R EXCEPT !.i = i2, !.ic = ic2]  BY Zenon DEF Reindex
    <2> HIDE DEF i2, ic2
    <2> QED  BY Zenon, <2>1, <2>2, <2>3 DEF DeltaType
  <1> HIDE DEF X
  <1>2. D \in DeltaType
    <2> DEFINE d2 == [X.d EXCEPT ![k] = item]
    <2>1. d2 \in [Keys -> Item \cup {NoItem}]  BY Zenon, <1>1 DEF DeltaType
    <2>2. D = [X EXCEPT !.d = d2]  BY Zenon, <1>1 DEF DeltaType
    <2> HIDE DEF d2, D
    <2> QED  BY Zenon, <1>1, <2>1, <2>2 DEF DeltaType
  <1> HIDE DEF D
  <1>3. N \in DeltaType  BY Zenon, <1>2, NotifyType
  <1> DEFINE requested == [token |-> token, due |-> 0, priority |-> priority,
                           quarantined |-> FALSE]
  <1>4. requested \in Schedule  BY Zenon DEF Schedule
  <1>5. Put(R, k, item, token, enqueue, priority)
          = IF enqueue THEN QueueWork(N, k, requested) ELSE N
    BY Zenon DEF Put, D, X
  <1> HIDE DEF N, requested
  <1> QED  BY Zenon, <1>3, <1>4, <1>5, QueueWorkType

\* An accepted batch leaves well-typed rows.
LEMMA WriteType ==
    ASSUME TypeOK, NEW g \in Generations, NEW R \in DeltaType, Write(g, R)
    PROVE  rows' \in [Generations -> RowsType]
  BY Zenon, WritableType DEF TypeOK, Write

-----------------------------------------------------------------------------
(* Type correctness.                                                       *)

\* A generation without rows has the type of rows.
LEMMA EmptyRowsType == EmptyRows \in RowsType
  BY Zenon DEF EmptyRows, RowsType, NoSchedule, Schedule

\* No multi-batch call is in progress: a state of op.
LEMMA IdleType == Idle \in OpType
  BY DEF Idle, OpType

\* An empty database has the types of TypeOK.
LEMMA TypeInit == Init => TypeOK
  <1> SUFFICES ASSUME Init PROVE TypeOK  OBVIOUS
  <1>1. rows \in [Generations -> RowsType]  BY Zenon, EmptyRowsType DEF Init
  <1>2. 0 \in Generations  BY ConstantsAssumption DEF Generations
  <1>3. fanout \in [Tasks -> TaskType]  BY Zenon DEF Init, NoTask, TaskType
  <1> QED  BY <1>1, <1>2, <1>3, IdleType, ConstantsAssumption DEF Init, TypeOK

\* The facts about the current state that every write uses.
LEMMA StateFacts ==
    ASSUME TypeOK
    PROVE  /\ \A g \in Generations : rows[g] \in RowsType /\ rows[g] \in DeltaType
           /\ Old \in DeltaType /\ New \in DeltaType
           /\ active \in Generations /\ staging \in Generations
           /\ now \in Nat
           /\ Token \in Nat \ {0}
           /\ Live(Token) \in Schedule /\ Replay(Token) \in Schedule
           /\ NextToken => sequence' \in 0..MaxSequence
  <1> USE ConstantsAssumption
  <1>1. \A g \in Generations : rows[g] \in RowsType /\ rows[g] \in DeltaType
    BY Zenon, RowsAreDelta DEF TypeOK
  <1>2. Old \in DeltaType /\ New \in DeltaType  BY Zenon, <1>1 DEF Old, New, TypeOK
  <1>3. Token \in Nat \ {0}  BY DEF TypeOK, Token
  <1>4. Live(Token) \in Schedule /\ Replay(Token) \in Schedule
    BY Zenon, <1>3 DEF Live, Replay, Schedule
  <1>5. NextToken => sequence' \in 0..MaxSequence  BY DEF NextToken, Token, TypeOK
  <1> QED  BY Zenon, <1>1, <1>2, <1>3, <1>4, <1>5 DEF TypeOK

\* Merging a resource of the old generation (the d pages of FinishSnapshot)
\* writes rows of the right type and a token within its bound.
LEMMA MergeDataType ==
    ASSUME TypeOK, NEW k \in Keys, MergeData(k)
    PROVE  rows' \in [Generations -> RowsType] /\ sequence' \in 0..MaxSequence
  <1> DEFINE prior == Old.d[k]
             current == New.d[k]
             Q == QueueWork(New, k, Replay(Token))
             A == NotifyRelated(Q, {prior.own}, Token)
             B == NotifyRelated(New, {prior.own, current.own}, Token)
             C == IF Old.w[k] = 0 THEN ForgetWork(New, k) ELSE New
  <1>1. Q \in DeltaType  BY Zenon, StateFacts, QueueWorkType
  <1>2. A \in DeltaType /\ B \in DeltaType  BY Zenon, <1>1, StateFacts, NotifyType
  <1>3. C \in DeltaType  BY Zenon, StateFacts, ForgetWorkType
  <1>4. \/ NextToken /\ Write(staging, A)
        \/ NextToken /\ Write(staging, B)
        \/ Write(staging, C) /\ UNCHANGED sequence
        \/ UNCHANGED <<rows, sequence>>
    BY Zenon DEF MergeData
  <1> HIDE DEF A, B, C
  <1> QED  BY Zenon, <1>2, <1>3, <1>4, StateFacts, WriteType DEF TypeOK

\* Merging unfinished work (the w pages) keeps the types.
LEMMA MergeWorkType ==
    ASSUME TypeOK, NEW k \in Keys, MergeWork(k)
    PROVE  rows' \in [Generations -> RowsType] /\ sequence' \in 0..MaxSequence
  <1> DEFINE state == IF Old.d[k] = New.d[k] THEN ScheduleOf(Old, k) ELSE Replay(0)
             fresh == [state EXCEPT !.token = Token]
  <1>1. state \in Schedule  BY Zenon, StateFacts, ScheduleType DEF Replay, Schedule
  <1> HIDE DEF state
  <1>2. fresh \in Schedule  BY Zenon, <1>1, StateFacts DEF Schedule
  <1> HIDE DEF fresh
  <1>3. QueueWork(New, k, fresh) \in DeltaType  BY Zenon, <1>2, StateFacts, QueueWorkType
  <1>4. NextToken /\ Write(staging, QueueWork(New, k, fresh))
    BY Zenon DEF MergeWork, fresh, state
  <1> QED  BY Zenon, <1>3, <1>4, StateFacts, WriteType

\* Merging related work (the r pages) keeps the types.
LEMMA MergeRelatedType ==
    ASSUME TypeOK, NEW o \in Owners, MergeRelated(o)
    PROVE  rows' \in [Generations -> RowsType] /\ sequence' \in 0..MaxSequence
  <1> DEFINE r2 == [New.r EXCEPT ![o] = Token]
  <1>1. r2 \in [Owners -> Nat]  BY Zenon, StateFacts DEF DeltaType
  <1>2. [New EXCEPT !.r[o] = Token] = [New EXCEPT !.r = r2]  BY Zenon, StateFacts DEF DeltaType
  <1> HIDE DEF r2
  <1>3. [New EXCEPT !.r = r2] \in DeltaType  BY Zenon, <1>1, StateFacts DEF DeltaType
  <1> QED  BY Zenon, <1>2, <1>3, StateFacts, WriteType DEF MergeRelated

\* A step of the store keeps the types: one case per action.
LEMMA TypeStep == TypeOK /\ [Next]_vars => TypeOK'
  <1> SUFFICES ASSUME TypeOK, [Next]_vars PROVE TypeOK'  OBVIOUS
  <1> USE ConstantsAssumption
  <1>a. \A g \in Generations : rows[g] \in RowsType /\ rows[g] \in DeltaType
    BY Zenon, StateFacts
  <1>o. Old \in DeltaType /\ New \in DeltaType  BY Zenon, StateFacts
  <1>i. 0 \in Generations /\ Idle \in OpType  BY IdleType DEF Generations
  <1>t. Token \in Nat \ {0}  BY Zenon, StateFacts
  <1>n. NextToken => sequence' \in 0..MaxSequence  BY Zenon, StateFacts
  <1>r. now \in Nat  BY Zenon, StateFacts
  <1>p. Live(Token) \in Schedule /\ Replay(Token) \in Schedule  BY Zenon, StateFacts
  <1>1. CASE BeginSnapshot
    <2>1. Retired \in Seq(Generations)  BY DEF Retired, TypeOK
    <2> QED  BY SMTT(60), <1>1, <1>i, <2>1 DEF BeginSnapshot, TypeOK, metaVars, OpType, Idle
  <1>2. CASE BeginSnapshotCommit
    BY <1>2, <1>i DEF BeginSnapshotCommit, TypeOK, Generations
  <1>3. CASE DeletePage
    <2> DEFINE g == Head(op.todo)
               noData == [EmptyRows EXCEPT !.w = rows[g].w, !.s = rows[g].s,
                            !.q = rows[g].q, !.p = rows[g].p, !.r = rows[g].r,
                            !.pending = rows[g].pending, !.poison = rows[g].poison]
    <2>1. g \in Generations /\ Tail(op.todo) \in Seq(Generations)
      BY SMTT(60), <1>3 DEF DeletePage, TypeOK, OpType
    <2>2. noData \in RowsType  BY Zenon, <2>1, <1>a, EmptyRowsType DEF RowsType
    <2>3. rows' \in [Generations -> RowsType]
      BY SMTT(60), <1>3, <2>1, <2>2, EmptyRowsType DEF DeletePage, TypeOK
    <2>4. op' \in OpType  BY ZenonT(60), <1>3, <2>1 DEF DeletePage, TypeOK, OpType
    <2> QED  BY Zenon, <1>3, <2>3, <2>4 DEF DeletePage, TypeOK, metaVars
  <1>4. CASE CollectGarbage
    <2>1. <<garbage>> \in Seq(Generations)  BY DEF TypeOK
    <2> QED  BY Zenon, <1>4, <1>i, <2>1 DEF CollectGarbage, TypeOK, metaVars, OpType, Idle
  <1>5. CASE CollectGarbageCommit
    BY Zenon, <1>5, <1>i DEF CollectGarbageCommit, TypeOK
  <1>6. CASE DiscardStaging
    <2>1. <<staging>> \in Seq(Generations)  BY DEF TypeOK
    <2> QED  BY Zenon, <1>6, <1>i, <2>1 DEF DiscardStaging, TypeOK, metaVars, OpType, Idle
  <1>7. CASE DiscardStagingCommit
    BY Zenon, <1>7, <1>i DEF DiscardStagingCommit, TypeOK
  <1>8. CASE Interrupt
    BY Zenon, <1>8, <1>i DEF Interrupt, TypeOK, metaVars
  <1>9. ASSUME NEW k \in Keys, NEW item \in Item, PutSnapshotPage(k, item)
        PROVE  TypeOK'
    <2>1. Put(rows[handle], k, item, Token, TRUE, 1) \in DeltaType
      BY Zenon, <1>a, <1>t, <1>r, PutType DEF TypeOK
    <2>2. rows' \in [Generations -> RowsType]
      BY Zenon, <1>9, <2>1, WriteType DEF PutSnapshotPage, TypeOK
    <2> QED  BY <1>9, <2>2, <1>n DEF PutSnapshotPage, TypeOK, metaVars
  <1>10. ASSUME NEW c \in Nat, FinishSnapshot(c)  PROVE  TypeOK'
    BY Zenon, <1>10, <1>i DEF FinishSnapshot, TypeOK, metaVars, OpType, Idle
  <1>11. CASE FinishPage
    <2> PICK k \in Keys \cup Owners :
          /\ \/ op.family = "d" /\ IsNext(k, DataKeys(Old), op.after) /\ MergeData(k)
             \/ op.family = "w" /\ IsNext(k, WorkKeys(Old), op.after) /\ MergeWork(k)
             \/ op.family = "r" /\ IsNext(k, RelatedKeys(Old), op.after) /\ MergeRelated(k)
          /\ op' = [op EXCEPT !.after = k]
      BY <1>11 DEF FinishPage
    <2>2. op' \in OpType  BY Zenon DEF TypeOK, OpType
    <2>4. rows' \in [Generations -> RowsType] /\ sequence' \in 0..MaxSequence
      <3>1. CASE k \in Keys /\ MergeData(k)  BY Zenon, <3>1, MergeDataType
      <3>2. CASE k \in Keys /\ MergeWork(k)  BY Zenon, <3>2, MergeWorkType
      <3>3. CASE k \in Owners /\ MergeRelated(k)  BY <3>3, MergeRelatedType
      <3> QED  BY Zenon, <3>1, <3>2, <3>3 DEF IsNext, DataKeys, WorkKeys, RelatedKeys
    <2> QED  BY <1>11, <2>2, <2>4 DEF FinishPage, TypeOK, metaVars
  <1>12. CASE FinishFamily
    BY Zenon, <1>12 DEF FinishFamily, TypeOK, metaVars, OpType
  <1>13. CASE Publish
    BY Zenon, <1>13, <1>i DEF Publish, TypeOK, OpType
  <1>14. ASSUME NEW k \in Keys, NEW item \in Item \cup {NoItem}, NEW e \in BOOLEAN,
                NEW c \in Nat, Apply(k, item, e, c)
         PROVE  TypeOK'
    <2>1. Put(Old, k, item, Token, e, 0) \in DeltaType
      BY Zenon, <1>o, <1>t, <1>r, PutType
    <2>2. rows' \in [Generations -> RowsType]
      BY <1>14, <2>1, WriteType DEF Apply, TypeOK
    <2> QED  BY Zenon, <1>14, <2>2, <1>n DEF Apply, TypeOK
  <1>15. ASSUME NEW c \in Nat, AdvanceCursor(c)  PROVE  TypeOK'
    BY <1>15 DEF AdvanceCursor, TypeOK
  <1>16. ASSUME NEW k \in Keys, NEW t, Acknowledge(k, t)  PROVE  TypeOK'
    <2>1. ForgetWork(Old, k) \in DeltaType  BY Zenon, <1>o, ForgetWorkType
    <2>2. rows' \in [Generations -> RowsType]
      BY <1>16, <2>1, WriteType DEF Acknowledge, TypeOK
    <2> QED  BY <1>16, <2>2 DEF Acknowledge, TypeOK, metaVars
  <1>17. ASSUME NEW k \in Keys, Enqueue(k)  PROVE  TypeOK'
    <2>1. QueueWork(Old, k, Live(Token)) \in DeltaType  BY Zenon, <1>o, <1>p, <1>r, QueueWorkType
    <2>2. rows' \in [Generations -> RowsType]
      BY Zenon, <1>17, <2>1, WriteType DEF Enqueue, TypeOK
    <2> QED  BY <1>17, <2>2, <1>n DEF Enqueue, TypeOK, metaVars
  <1>18. ASSUME NEW k \in Keys, NEW delay \in Nat, NEW failed \in BOOLEAN,
                DeferWork(k, Old.w[k], delay, failed)
         PROVE  TypeOK'
    <2> DEFINE state == [token |-> Old.w[k], due |-> now + delay, priority |-> 0,
                         quarantined |-> failed]
    <2>0. Old.w[k] \in Nat /\ now + delay \in Nat  BY <1>o, <1>r DEF DeltaType
    <2>1. state \in Schedule  BY <2>0, ZenonT(60) DEF Schedule
    <2> HIDE DEF state
    <2>2. QueueWork(Old, k, state) \in DeltaType  BY Zenon, <1>o, <2>1, <1>r, QueueWorkType
    <2>3. rows' \in [Generations -> RowsType]
      BY <1>18, <2>2, WriteType DEF DeferWork, TypeOK, state
    <2> QED  BY <1>18, <2>3 DEF DeferWork, TypeOK, metaVars
  <1>19. ASSUME NEW o \in Owners, NEW t, AcknowledgeRelated(o, t)  PROVE  TypeOK'
    <2> DEFINE r2 == [Old.r EXCEPT ![o] = 0]
    <2>1. r2 \in [Owners -> Nat]  BY <1>o DEF DeltaType
    <2>2. [Old EXCEPT !.r[o] = 0] = [Old EXCEPT !.r = r2]  BY Zenon, <1>o DEF DeltaType
    <2> HIDE DEF r2
    <2>3. [Old EXCEPT !.r = r2] \in DeltaType  BY Zenon, <1>o, <2>1 DEF DeltaType
    <2>4. rows' \in [Generations -> RowsType]
      BY Zenon, <1>19, <2>2, <2>3, WriteType DEF AcknowledgeRelated, TypeOK
    <2> QED  BY Zenon, <1>19, <2>4 DEF AcknowledgeRelated, TypeOK, metaVars
  <1>20. ASSUME NEW t \in Tasks, RequestFanout(t)  PROVE  TypeOK'
    BY <1>20, <1>i DEF RequestFanout, TypeOK, metaVars, TaskType, FreshTask
  <1>21. CASE FanoutPage
    <2> PICK t \in Tasks, k \in Keys :
          /\ fanout' = [fanout EXCEPT ![t] = [gen |-> active, after |-> k]]
          /\ \/ UNCHANGED <<rows, sequence>>
             \/ NextToken /\ Write(active, QueueWork(Old, k, Replay(Token)))
             \/ NextToken /\ Write(active, QueueWork(Old, k, Live(Token)))
      BY Zenon, <1>21 DEF FanoutPage
    <2>1. /\ QueueWork(Old, k, Replay(Token)) \in DeltaType
          /\ QueueWork(Old, k, Live(Token)) \in DeltaType
      BY <1>o, <1>p, <1>r, QueueWorkType
    <2>2. rows' \in [Generations -> RowsType] /\ sequence' \in 0..MaxSequence
      BY <2>1, <1>n, WriteType DEF TypeOK
    <2>3. fanout' \in [Tasks -> TaskType]  BY Zenon DEF TypeOK, TaskType
    <2> QED  BY <1>21, <2>2, <2>3 DEF FanoutPage, TypeOK, metaVars
  <1>22. CASE FanoutDone
    BY <1>22 DEF FanoutDone, TypeOK, metaVars, TaskType, NoTask
  <1>23. CASE Tick
    BY <1>23 DEF Tick, TypeOK, metaVars
  <1>24. CASE UNCHANGED vars
    BY Zenon, <1>24 DEF vars, TypeOK
  <1>25. CASE SnapshotCalls
    <2>1. CASE \E c \in cursor..MaxCursor : c > 0 /\ FinishSnapshot(c)
      <3> PICK c \in cursor..MaxCursor : FinishSnapshot(c)  BY Zenon, <2>1
      <3>1. c \in Nat  BY DEF TypeOK
      <3> QED  BY <3>1, <1>10
    <2> QED
      BY <1>25, <2>1, <1>1, <1>2, <1>3, <1>4, <1>5, <1>6, <1>7, <1>8, <1>9, <1>11, <1>12,
         <1>13 DEF SnapshotCalls
  <1>26. CASE WatchCalls
    <2>1. cursor + 1 \in Nat  BY DEF TypeOK
    <2>2. \/ \E k \in Keys, item \in Item, e \in BOOLEAN : Apply(k, item, e, cursor + 1)
          \/ \E k \in Keys : Apply(k, NoItem, TRUE, cursor + 1)
          \/ AdvanceCursor(cursor + 1)
      BY Zenon, <1>26 DEF WatchCalls
    <2> QED  BY Zenon, <2>1, <2>2, <1>14, <1>15
  <1>27. CASE WorkCalls
    <2>1. 0..1 \subseteq Nat /\ Requests \subseteq Tasks
      BY DEF Tasks, Star
    <2>2. \/ \E k \in Keys : Enqueue(k)
          \/ \E k \in Keys, t \in {Old.w[j] : j \in Keys} : Acknowledge(k, t)
          \/ \E k \in Keys, delay \in Nat, failed \in BOOLEAN :
               DeferWork(k, Old.w[k], delay, failed)
          \/ \E o \in Owners, t \in {Old.r[j] : j \in Owners} : AcknowledgeRelated(o, t)
          \/ \E t \in Tasks : RequestFanout(t)
          \/ FanoutPage \/ FanoutDone
      BY <1>27, <2>1, ZenonT(60) DEF WorkCalls, OtherWorkCalls
    <2> QED  BY Zenon, <2>2, <1>16, <1>17, <1>18, <1>19, <1>20, <1>21, <1>22
  <1> QED  BY Zenon, <1>23, <1>24, <1>25, <1>26, <1>27 DEF Next

\* Every reachable state of the store is well typed: no sequence of calls and
\* crashes takes a counter of the store below zero or past its width.
THEOREM TypeCorrect == Spec => []TypeOK
  BY TypeInit, TypeStep, PTL DEF Spec

-----------------------------------------------------------------------------
(* No generation is leaked.                                                *)

\* Why NoLeakedGeneration holds: what the calls that are under way have already
\* reclaimed.  A generation number above the counter has never had rows, and a
\* listing only ever runs when there is no garbage left to forget.
Reclaimed(g) == g = 0 \/ rows[g] = EmptyRows

MetaInv ==
    /\ active <= generation /\ staging <= generation /\ garbage <= generation
    /\ NoLeakedGeneration
    /\ handle # 0 => /\ handle = staging /\ garbage = 0
                     /\ op.name \in {"idle", "finish"}
    /\ op.name = "finish" => handle # 0
    /\ op.name \in {"idle", "finish"} => op.todo = <<>>
    /\ op.name = "begin" =>
         \/ op.todo = <<staging, garbage>> /\ staging # 0 /\ garbage # 0
         \/ op.todo = <<staging>> /\ staging # 0 /\ garbage = 0
         \/ op.todo = <<garbage>> /\ garbage # 0 /\ Reclaimed(staging)
         \/ op.todo = <<>> /\ Reclaimed(staging) /\ Reclaimed(garbage)
    /\ op.name = "collect" =>
         /\ active # 0
         /\ \/ op.todo = <<garbage>>
            \/ op.todo = <<>> /\ Reclaimed(garbage)
    /\ op.name = "discard" =>
         /\ staging # 0
         /\ \/ op.todo = <<staging>>
            \/ op.todo = <<>> /\ Reclaimed(staging)

\* An empty database names no generation.
LEMMA MetaInit == Init => MetaInv
  <1> SUFFICES ASSUME Init PROVE MetaInv  OBVIOUS
  <1>1. \A g \in Generations : rows[g] = EmptyRows  BY DEF Init
  <1> QED  BY <1>1 DEF Init, MetaInv, NoLeakedGeneration, Idle

\* A step that writes rows of the published or of the staged generation, and
\* at most the cursor besides, cannot leak a generation.
LEMMA MetaWrite ==
    ASSUME TypeOK, MetaInv, op.name \in {"idle", "finish"},
           UNCHANGED <<active, generation, staging, garbage, handle>>,
           op'.name = op.name, op'.todo = op.todo,
           NEW g \in {active, staging}, NEW R, rows' = [rows EXCEPT ![g] = R]
    PROVE  MetaInv'
  <1>1. \A h \in Generations : h # g => rows'[h] = rows[h]  BY Zenon DEF TypeOK
  <1>2. NoLeakedGeneration'  BY <1>1 DEF MetaInv, NoLeakedGeneration
  <1> QED  BY <1>2 DEF MetaInv, Reclaimed

\* A step that touches no rows and no metadata.
LEMMA MetaSkip ==
    ASSUME MetaInv, UNCHANGED <<rows, active, generation, staging, garbage, handle>>,
           op'.name = op.name, op'.todo = op.todo
    PROVE  MetaInv'
  BY DEF MetaInv, NoLeakedGeneration, Reclaimed

\* Every call and every crash of DiskStore preserves the generation invariant.
LEMMA MetaStep == TypeOK /\ MetaInv /\ [Next]_vars => MetaInv'
  <1> SUFFICES ASSUME TypeOK, MetaInv, [Next]_vars PROVE MetaInv'  OBVIOUS
  <1> USE ConstantsAssumption
  <1>i. Free => op.name = "idle" /\ op.todo = <<>>  BY DEF Free, Idle
  <1>g. /\ active \in Nat /\ generation \in Nat /\ staging \in Nat /\ garbage \in Nat
        /\ 0 \in Generations
    BY DEF TypeOK, Generations
  <1>1. CASE BeginSnapshot
    <2>1. /\ UNCHANGED <<rows, active, generation, staging, garbage>>
          /\ handle' = 0 /\ op'.name = "begin" /\ op'.todo = Retired
      BY <1>1 DEF BeginSnapshot, metaVars, Idle
    <2>2. \/ Retired = <<staging, garbage>> /\ staging # 0 /\ garbage # 0
          \/ Retired = <<staging>> /\ staging # 0 /\ garbage = 0
          \/ Retired = <<garbage>> /\ garbage # 0 /\ staging = 0
          \/ Retired = <<>> /\ staging = 0 /\ garbage = 0
      BY Zenon DEF Retired
    <2> QED  BY <2>1, <2>2 DEF MetaInv, NoLeakedGeneration, Reclaimed
  <1>2. CASE BeginSnapshotCommit
    <2>1. /\ UNCHANGED <<rows, active>> /\ generation' = generation + 1
          /\ staging' = generation + 1 /\ garbage' = 0 /\ handle' = generation + 1
          /\ op'.name = "idle" /\ op'.todo = <<>>
          /\ op.name = "begin" /\ op.todo = <<>>
      BY <1>2 DEF BeginSnapshotCommit, Idle
    <2>2. Reclaimed(staging) /\ Reclaimed(garbage)  BY SMTT(60), <2>1 DEF MetaInv
    <2>3. NoLeakedGeneration'  BY SMTT(60), <2>1, <2>2, <1>g DEF MetaInv, NoLeakedGeneration, Reclaimed
    <2> QED  BY SMTT(60), <2>1, <2>3, <1>g DEF MetaInv
  <1>3. CASE DeletePage
    <2>g. PICK g : g = Head(op.todo)  OBVIOUS
    <2>0. /\ UNCHANGED <<active, generation, staging, garbage, handle>>
          /\ op'.name = op.name
          /\ op.todo # <<>>
      BY <1>3 DEF DeletePage, metaVars, TypeOK, OpType
    <2>1. PICK R : /\ rows' = [rows EXCEPT ![g] = R]
                   /\ \/ op' = op
                      \/ R = EmptyRows /\ op'.todo = Tail(op.todo)
      BY Zenon, <1>3, <2>g DEF DeletePage, TypeOK, OpType
    <2>2. op.name \in {"begin", "collect", "discard"}  BY <2>0 DEF MetaInv, TypeOK, OpType
    <2>3. g \in {staging, garbage} /\ g \in Generations
      BY SMTT(60), <2>0, <2>2, <2>g, <1>g DEF MetaInv, TypeOK
    <2>4. \A h \in Generations : rows'[h] = IF h = g THEN R ELSE rows[h]
      BY Zenon, <2>1, <2>3 DEF TypeOK
    <2>5. NoLeakedGeneration'  BY Zenon, <2>0, <2>3, <2>4 DEF MetaInv, NoLeakedGeneration
    <2>6. CASE op' = op
      <3>1. \A h \in {staging, garbage} \ {g} : Reclaimed(h) => Reclaimed(h)'
        BY Zenon, <2>4 DEF Reclaimed, TypeOK
      <3>2. CASE op.name = "begin"
        <4>1. op.todo = <<garbage>> /\ garbage # 0 /\ Reclaimed(staging) => Reclaimed(staging)'
          <5> SUFFICES ASSUME op.todo = <<garbage>>, garbage # 0, Reclaimed(staging)
                       PROVE  Reclaimed(staging)'
            OBVIOUS
          <5>1. g = garbage  BY <2>g
          <5>2. CASE staging = 0  BY Zenon, <5>2, <2>0 DEF Reclaimed
          <5>3. CASE staging # 0
            <6>1. staging # g  BY Zenon, <5>1, <5>3 DEF MetaInv, NoLeakedGeneration
            <6> QED  BY Zenon, <6>1, <3>1, <2>0 DEF Reclaimed
          <5> QED  BY Zenon, <5>2, <5>3
        <4> QED  BY Zenon, <2>0, <2>5, <2>6, <3>2, <4>1 DEF MetaInv
      <3>3. CASE op.name \in {"collect", "discard"}
        BY Zenon, <2>0, <2>5, <2>6, <3>3 DEF MetaInv
      <3> QED  BY Zenon, <2>2, <3>2, <3>3
    <2>7. CASE R = EmptyRows /\ op'.todo = Tail(op.todo)
      <3>1. Reclaimed(g)'  BY Zenon, <2>3, <2>4, <2>7 DEF Reclaimed
      <3>2. \A h \in {staging, garbage} : Reclaimed(h) => Reclaimed(h)'
        BY Zenon, <2>4, <2>7 DEF Reclaimed, TypeOK
      <3>3. CASE op.name = "begin"
        <4>1. CASE op.todo = <<staging, garbage>> /\ staging # 0 /\ garbage # 0
          <5>1. g = staging /\ op'.todo = <<garbage>>  BY SMTT(60), <4>1, <2>7, <2>g
          <5> QED  BY Zenon, <2>0, <2>5, <3>3, <4>1, <5>1, <3>1 DEF MetaInv, Reclaimed
        <4>2. CASE op.todo = <<staging>> /\ staging # 0 /\ garbage = 0
          <5>1. g = staging /\ op'.todo = <<>>  BY SMTT(60), <4>2, <2>7, <2>g
          <5> QED  BY Zenon, <2>0, <2>5, <3>3, <4>2, <5>1, <3>1 DEF MetaInv, Reclaimed
        <4>3. CASE op.todo = <<garbage>> /\ garbage # 0 /\ Reclaimed(staging)
          <5>1. g = garbage /\ op'.todo = <<>>  BY SMTT(60), <4>3, <2>7, <2>g
          <5> QED  BY Zenon, <2>0, <2>5, <3>2, <3>3, <4>3, <5>1, <3>1 DEF MetaInv, Reclaimed
        <4> QED  BY Zenon, <4>1, <4>2, <4>3, <3>3, <2>0 DEF MetaInv
      <3>4. CASE op.name = "collect"
        <4>0. op.todo = <<garbage>>  BY Zenon, <3>4, <2>0 DEF MetaInv
        <4>1. g = garbage /\ op'.todo = <<>>  BY <4>0, <2>7, <2>g
        <4> QED  BY Zenon, <2>0, <2>5, <3>4, <4>1, <3>1 DEF MetaInv, Reclaimed
      <3>5. CASE op.name = "discard"
        <4>0. op.todo = <<staging>>  BY Zenon, <3>5, <2>0 DEF MetaInv
        <4>1. g = staging /\ op'.todo = <<>>  BY <4>0, <2>7, <2>g
        <4> QED  BY Zenon, <2>0, <2>5, <3>5, <4>1, <3>1 DEF MetaInv, Reclaimed
      <3> QED  BY Zenon, <2>2, <3>3, <3>4, <3>5
    <2> QED  BY <2>1, <2>6, <2>7
  <1>4. CASE CollectGarbage
    <2>1. /\ UNCHANGED <<rows, active, generation, staging, garbage, handle>>
          /\ handle = 0 /\ op'.name = "collect" /\ op'.todo = <<garbage>> /\ active # 0
      BY Zenon, <1>4 DEF CollectGarbage, metaVars, Idle
    <2> QED  BY Zenon, <2>1 DEF MetaInv, NoLeakedGeneration, Reclaimed
  <1>5. CASE CollectGarbageCommit
    <2>1. /\ UNCHANGED <<rows, active, generation, staging, handle>> /\ garbage' = 0
          /\ op'.name = "idle" /\ op'.todo = <<>> /\ op.name = "collect" /\ op.todo = <<>>
      BY Zenon, <1>5 DEF CollectGarbageCommit, Idle
    <2>2. Reclaimed(garbage)  BY SMTT(60), <2>1 DEF MetaInv
    <2> QED  BY SMTT(60), <2>1, <2>2, <1>g DEF MetaInv, NoLeakedGeneration, Reclaimed
  <1>6. CASE DiscardStaging
    <2>1. /\ UNCHANGED <<rows, active, generation, staging, garbage, handle>>
          /\ handle = 0 /\ op'.name = "discard" /\ op'.todo = <<staging>> /\ staging # 0
      BY Zenon, <1>6 DEF DiscardStaging, metaVars, Idle
    <2> QED  BY Zenon, <2>1 DEF MetaInv, NoLeakedGeneration, Reclaimed
  <1>7. CASE DiscardStagingCommit
    <2>1. /\ UNCHANGED <<rows, active, generation, garbage, handle>> /\ staging' = 0
          /\ op'.name = "idle" /\ op'.todo = <<>> /\ op.name = "discard" /\ op.todo = <<>>
      BY Zenon, <1>7 DEF DiscardStagingCommit, Idle
    <2>2. Reclaimed(staging) /\ handle = 0  BY SMTT(60), <2>1 DEF MetaInv
    <2> QED  BY SMTT(60), <2>1, <2>2, <1>g DEF MetaInv, NoLeakedGeneration, Reclaimed
  <1>8. CASE Interrupt
    <2>1. /\ UNCHANGED <<rows, active, generation, staging, garbage>>
          /\ handle' = 0 /\ op'.name = "idle" /\ op'.todo = <<>>
      BY Zenon, <1>8 DEF Interrupt, metaVars, Idle
    <2> QED  BY Zenon, <2>1 DEF MetaInv, NoLeakedGeneration
  <1>9. CASE \E k \in Keys, item \in Item : PutSnapshotPage(k, item)
    <2> PICK k \in Keys, item \in Item : PutSnapshotPage(k, item)  BY Zenon, <1>9
    <2> QED  BY Zenon, <1>i, MetaWrite DEF PutSnapshotPage, Write, metaVars
  <1>10. CASE (\E c \in cursor..MaxCursor : c > 0 /\ FinishSnapshot(c)) \/ FinishFamily
    <2>1. /\ UNCHANGED <<rows, active, generation, staging, garbage, handle>>
          /\ op.name \in {"idle", "finish"} /\ op.todo = <<>>
          /\ op'.name = "finish" /\ op'.todo = <<>> /\ handle # 0
      BY ZenonT(60), <1>10, <1>i DEF FinishSnapshot, FinishFamily, metaVars, Idle, MetaInv, TypeOK, OpType
    <2> QED  BY Zenon, <2>1 DEF MetaInv, NoLeakedGeneration
  <1>11. CASE FinishPage
    <2>1. /\ UNCHANGED <<active, generation, staging, garbage, handle>>
          /\ op.name = "finish" /\ op'.name = op.name /\ op'.todo = op.todo
      BY Zenon, <1>11 DEF FinishPage, metaVars, TypeOK, OpType
    <2>2. \/ \E R : rows' = [rows EXCEPT ![staging] = R]
          \/ UNCHANGED rows
      BY Zenon, <1>11 DEF FinishPage, MergeData, MergeWork, MergeRelated, Write
    <2> QED  BY Zenon, <2>1, <2>2, MetaWrite, MetaSkip
  <1>12. CASE Publish
    <2>1. /\ UNCHANGED <<rows, generation>>
          /\ active' = staging /\ garbage' = active /\ staging' = 0 /\ handle' = 0
          /\ op'.name = "idle" /\ op'.todo = <<>> /\ op.name = "finish"
      BY Zenon, <1>12 DEF Publish, Idle
    <2>2. handle = staging /\ handle # 0 /\ garbage = 0  BY Zenon, <2>1 DEF MetaInv
    <2> QED  BY Zenon, <2>1, <2>2, <1>g DEF MetaInv, NoLeakedGeneration
  <1>13. CASE WatchCalls
    <2>1. /\ UNCHANGED <<active, generation, staging, garbage, handle, op>>
          /\ op.name = "idle"
          /\ (\E R : rows' = [rows EXCEPT ![active] = R]) \/ UNCHANGED rows
      BY Zenon, <1>13, <1>i DEF WatchCalls, Apply, AdvanceCursor, Write
    <2> QED  BY Zenon, <2>1, MetaWrite, MetaSkip
  <1>14. CASE WorkCalls
    <2>1. /\ UNCHANGED <<active, generation, staging, garbage, handle, op>>
          /\ op.name = "idle"
          /\ (\E R : rows' = [rows EXCEPT ![active] = R]) \/ UNCHANGED rows
      BY Zenon, <1>14, <1>i DEF WorkCalls, OtherWorkCalls, Acknowledge, Enqueue, DeferWork,
         AcknowledgeRelated, RequestFanout, FanoutPage, FanoutDone, Write, metaVars
    <2> QED  BY Zenon, <2>1, MetaWrite, MetaSkip
  <1>15. CASE Tick \/ UNCHANGED vars
    <2>1. UNCHANGED <<rows, active, generation, staging, garbage, handle, op>>
      BY Zenon, <1>15 DEF Tick, vars, metaVars
    <2> QED  BY Zenon, <2>1, MetaSkip
  <1>16. CASE SnapshotCalls
    BY Zenon, <1>16, <1>1, <1>2, <1>3, <1>4, <1>5, <1>6, <1>7, <1>8, <1>9, <1>10, <1>11, <1>12
       DEF SnapshotCalls
  <1> QED  BY Zenon, <1>13, <1>14, <1>15, <1>16 DEF Next

\* Whatever is interrupted, wherever: the rows of a generation that is neither
\* published nor staged nor retired are gone, and the published generation is
\* never the one a reclaiming call deletes.
THEOREM NothingLeaks == Spec => []NoLeakedGeneration
  <1>1. MetaInv => NoLeakedGeneration  BY Zenon DEF MetaInv
  <1> QED  BY <1>1, TypeInit, TypeStep, MetaInit, MetaStep, PTL DEF Spec

-----------------------------------------------------------------------------
(* The index rows of one generation.                                       *)

\* WorkIndexExact, of the rows R of one generation
WorkExact(R) ==
    /\ \A k \in Keys : R.s[k] # NoSchedule => R.w[k] # 0 /\ R.s[k].token = R.w[k]
    /\ R.q = {ReadyRow(k, ScheduleOf(R, k)) :
                k \in {j \in WorkKeys(R) : ~ ScheduleOf(R, j).quarantined}}
    /\ R.p = {k \in WorkKeys(R) : ScheduleOf(R, k).quarantined}
    /\ R.pending = Cardinality(WorkKeys(R))
    /\ R.poison = Cardinality(R.p)

\* RelationIndexExact, of the rows R of one generation
RelationExact(R) ==
    \A o \in Owners : /\ R.i[o] = {k \in Keys : R.d[k].own = o}
                      /\ R.ic[o] = Cardinality(R.i[o])

Exact(R) == WorkExact(R) /\ RelationExact(R)

\* The indexes of every complete generation are exact.
IndexInv == \A g \in Whole : Exact(rows[g])

-----------------------------------------------------------------------------
(* What the batches change.                                                *)

\* Rows S have the resources, or the work, of the rows R.
SameData(R, S) == S.d = R.d /\ S.i = R.i /\ S.ic = R.ic

SameWork(R, S) ==
    S.w = R.w /\ S.s = R.s /\ S.q = R.q /\ S.p = R.p /\ S.pending = R.pending /\ S.poison = R.poison

\* WorkExact reads only the fields of SameWork.
LEMMA SameWorkExact ==
    ASSUME NEW R \in DeltaType, NEW S \in DeltaType, SameWork(R, S), WorkExact(R)
    PROVE  WorkExact(S)
  BY DEF SameWork, WorkExact, WorkKeys, ScheduleOf

\* RelationExact reads only the fields of SameData.
LEMMA SameDataExact ==
    ASSUME NEW R \in DeltaType, NEW S \in DeltaType, SameData(R, S), RelationExact(R)
    PROVE  RelationExact(S)
  BY DEF SameData, RelationExact

\* forgetWork, for a key with work
LEMMA ForgetWorkRows ==
    ASSUME NEW R \in DeltaType, NEW k \in Keys, R.w[k] # 0, NEW F, F = ForgetWork(R, k)
    PROVE  /\ F \in DeltaType /\ SameData(R, F) /\ F.r = R.r
           /\ F.w = [R.w EXCEPT ![k] = 0] /\ F.s = [R.s EXCEPT ![k] = NoSchedule]
           /\ F.q = R.q \ {ReadyRow(k, ScheduleOf(R, k))} /\ F.p = R.p \ {k}
           /\ F.pending = R.pending - 1
           /\ F.poison = IF ScheduleOf(R, k).quarantined THEN R.poison - 1 ELSE R.poison
<1>1. F \in DeltaType
  BY Zenon, ForgetWorkType
<1>2. F = [R EXCEPT !.q = R.q \ {ReadyRow(k, ScheduleOf(R, k))},
                    !.w = [R.w EXCEPT ![k] = 0],
                    !.s = [R.s EXCEPT ![k] = NoSchedule],
                    !.p = R.p \ {k},
                    !.pending = R.pending - 1,
                    !.poison = IF ScheduleOf(R, k).quarantined THEN R.poison - 1 ELSE R.poison]
  BY Zenon DEF ForgetWork, DeltaType
<1> QED
  BY <1>1, <1>2 DEF DeltaType, SameData

\* The counters follow the sets they count.
LEMMA KeysCount ==
    ASSUME NEW S \in SUBSET Keys, NEW k
    PROVE  /\ Cardinality(S) \in Nat
           /\ Cardinality(S \ {k}) = IF k \in S THEN Cardinality(S) - 1 ELSE Cardinality(S)
           /\ Cardinality(S \cup {k}) = IF k \in S THEN Cardinality(S) ELSE Cardinality(S) + 1
<1>1. IsFiniteSet(S)
  BY Zenon, FS_Subset, ConstantsAssumption
<1> QED
  BY Zenon, <1>1, FS_CardinalityType, FS_AddElement, FS_RemoveElement

\* After forgetWork the key has no work, and the rows are exact.
LEMMA ForgetExact ==
    ASSUME NEW R \in DeltaType, NEW k \in Keys, WorkExact(R), NEW F, F = ForgetWork(R, k)
    PROVE  /\ F \in DeltaType /\ SameData(R, F) /\ F.r = R.r /\ WorkExact(F)
           /\ F.w[k] = 0 /\ F.s[k] = NoSchedule
           /\ \A j \in Keys \ {k} : F.w[j] = R.w[j] /\ F.s[j] = R.s[j]
           /\ \A j \in Keys \ {k} : ScheduleOf(F, j) = ScheduleOf(R, j)
<1>1. CASE R.w[k] = 0
  <2>1. F = R /\ R.s[k] = NoSchedule
    BY Zenon, <1>1 DEF ForgetWork, WorkExact
  <2> QED
    BY Zenon, <1>1, <2>1 DEF SameData
<1>2. CASE R.w[k] # 0
  <2>1. /\ F \in DeltaType /\ SameData(R, F) /\ F.r = R.r
        /\ F.w = [R.w EXCEPT ![k] = 0] /\ F.s = [R.s EXCEPT ![k] = NoSchedule]
        /\ F.q = R.q \ {ReadyRow(k, ScheduleOf(R, k))} /\ F.p = R.p \ {k}
        /\ F.pending = R.pending - 1
        /\ F.poison = IF ScheduleOf(R, k).quarantined THEN R.poison - 1 ELSE R.poison
    BY <1>2, ForgetWorkRows
  <2>2. /\ F.w[k] = 0 /\ F.s[k] = NoSchedule
        /\ \A j \in Keys \ {k} : F.w[j] = R.w[j] /\ F.s[j] = R.s[j]
    BY <2>1 DEF DeltaType
  <2>3. /\ WorkKeys(F) = WorkKeys(R) \ {k} /\ k \in WorkKeys(R) /\ WorkKeys(R) \subseteq Keys
        /\ \A j \in Keys \ {k} : ScheduleOf(F, j) = ScheduleOf(R, j)
    <3>1. WorkKeys(F) = WorkKeys(R) \ {k} /\ k \in WorkKeys(R) /\ WorkKeys(R) \subseteq Keys
      BY Zenon, <1>2, <2>2 DEF WorkKeys
    <3> QED
      BY Zenon, <2>2, <3>1 DEF ScheduleOf
  <2>4. /\ R.q = {ReadyRow(j, ScheduleOf(R, j)) :
                    j \in {j \in WorkKeys(R) : ~ ScheduleOf(R, j).quarantined}}
        /\ R.p = {j \in WorkKeys(R) : ScheduleOf(R, j).quarantined}
        /\ R.pending = Cardinality(WorkKeys(R)) /\ R.poison = Cardinality(R.p)
    BY Zenon DEF WorkExact
  <2>5. F.q = {ReadyRow(j, ScheduleOf(F, j)) :
                 j \in {j \in WorkKeys(F) : ~ ScheduleOf(F, j).quarantined}}
    <3>1. \A j : ReadyRow(j, ScheduleOf(R, j)).key = j
      BY Zenon DEF ReadyRow
    <3>2. ASSUME NEW x \in F.q
          PROVE  \E j \in WorkKeys(F) : /\ ~ ScheduleOf(F, j).quarantined
                                        /\ x = ReadyRow(j, ScheduleOf(F, j))
      <4>1. PICK j \in WorkKeys(R) : /\ ~ ScheduleOf(R, j).quarantined
                                     /\ x = ReadyRow(j, ScheduleOf(R, j))
        BY Zenon, <2>1, <2>4, <3>2
      <4>2. j # k
        BY Zenon, <2>1, <3>2, <4>1
      <4> QED
        BY Zenon, <2>3, <4>1, <4>2
    <3>3. ASSUME NEW j \in WorkKeys(F), ~ ScheduleOf(F, j).quarantined
          PROVE  ReadyRow(j, ScheduleOf(F, j)) \in F.q
      <4>1. j \in WorkKeys(R) /\ j # k /\ ScheduleOf(F, j) = ScheduleOf(R, j)
        BY Zenon, <2>3, <3>3
      <4>2. ReadyRow(j, ScheduleOf(R, j)) # ReadyRow(k, ScheduleOf(R, k))
        BY Zenon, <4>1 DEF ReadyRow
      <4> QED
        BY Zenon, <2>1, <2>4, <3>3, <4>1, <4>2
    <3> QED
      BY Zenon, <3>2, <3>3
  <2>6. F.p = {j \in WorkKeys(F) : ScheduleOf(F, j).quarantined}
    BY Zenon, <2>1, <2>3, <2>4
  <2>7. F.pending = Cardinality(WorkKeys(F)) /\ F.poison = Cardinality(F.p)
    <3>1. R.p \in SUBSET Keys /\ (k \in R.p <=> ScheduleOf(R, k).quarantined)
      BY Zenon, <2>3, <2>4
    <3>2. Cardinality(WorkKeys(F)) = Cardinality(WorkKeys(R)) - 1
      <4>1. Cardinality(WorkKeys(R) \ {k}) = Cardinality(WorkKeys(R)) - 1
        BY Zenon, <2>3, KeysCount
      <4> QED
        BY Zenon, <2>3, <4>1
    <3>3. Cardinality(F.p) = IF k \in R.p THEN Cardinality(R.p) - 1 ELSE Cardinality(R.p)
      <4>1. Cardinality(R.p \ {k}) = IF k \in R.p THEN Cardinality(R.p) - 1 ELSE Cardinality(R.p)
        BY Zenon, <3>1, KeysCount
      <4> QED
        BY Zenon, <2>1, <4>1
    <3> QED
      BY Zenon, <2>1, <2>4, <3>1, <3>2, <3>3
  <2>8. WorkExact(F)
    <3>1. \A j \in Keys : F.s[j] # NoSchedule => F.w[j] # 0 /\ F.s[j].token = F.w[j]
      BY Zenon, <2>2 DEF WorkExact
    <3> QED
      BY Zenon, <2>5, <2>6, <2>7, <3>1 DEF WorkExact
  <2> QED
    BY Zenon, <2>1, <2>2, <2>3, <2>8
<1> QED
  BY Zenon, <1>1, <1>2

\* The schedule that queueWork stores, and whether it is stored in a row of its own
Stored(requested) ==
    IF requested.priority = 0 /\ requested.due = 0 THEN [requested EXCEPT !.due = now]
    ELSE requested

Explicit(state) == state.priority # 1 \/ state.due # 0 \/ state.quarantined

\* After queueWork the key has the work that was asked for, and the rows are exact.
LEMMA QueueExact ==
    ASSUME NEW R \in DeltaType, NEW k \in Keys, WorkExact(R), NEW requested \in Schedule,
           requested.token # 0, now \in Nat, NEW Q, Q = QueueWork(R, k, requested)
    PROVE  /\ Q \in DeltaType /\ SameData(R, Q) /\ Q.r = R.r /\ WorkExact(Q)
           /\ Q.w[k] = requested.token
           /\ ScheduleOf(Q, k).quarantined = requested.quarantined
           /\ \A j \in Keys \ {k} : Q.w[j] = R.w[j] /\ ScheduleOf(Q, j) = ScheduleOf(R, j)
<1>0. PICK F, state : F = ForgetWork(R, k) /\ state = Stored(requested)
  BY Zenon
<1>1. /\ F \in DeltaType /\ SameData(R, F) /\ F.r = R.r /\ WorkExact(F)
      /\ F.w[k] = 0 /\ F.s[k] = NoSchedule
      /\ \A j \in Keys \ {k} : F.w[j] = R.w[j] /\ F.s[j] = R.s[j]
      /\ \A j \in Keys \ {k} : ScheduleOf(F, j) = ScheduleOf(R, j)
  BY <1>0, ForgetExact
<1>2. /\ Q \in DeltaType /\ SameData(F, Q) /\ Q.r = F.r
      /\ state \in Schedule /\ state.token = requested.token
      /\ state.quarantined = requested.quarantined
      /\ Q.w = [F.w EXCEPT ![k] = state.token]
      /\ Q.s = [F.s EXCEPT ![k] = IF Explicit(state) THEN state ELSE F.s[k]]
      /\ Q.q = IF state.quarantined THEN F.q ELSE F.q \cup {ReadyRow(k, state)}
      /\ Q.p = IF state.quarantined THEN F.p \cup {k} ELSE F.p
      /\ Q.pending = F.pending + 1
      /\ Q.poison = IF state.quarantined THEN F.poison + 1 ELSE F.poison
  <2>1. Q \in DeltaType
    BY Zenon, QueueWorkType
  <2>2. /\ state \in Schedule /\ state.token = requested.token
        /\ state.quarantined = requested.quarantined
    BY Zenon, <1>0 DEF Stored, Schedule
  <2>3. Q = [F EXCEPT !.w = [F.w EXCEPT ![k] = state.token],
                      !.pending = F.pending + 1,
                      !.s = [F.s EXCEPT ![k] = IF Explicit(state) THEN state ELSE F.s[k]],
                      !.q = IF state.quarantined THEN F.q ELSE F.q \cup {ReadyRow(k, state)},
                      !.p = IF state.quarantined THEN F.p \cup {k} ELSE F.p,
                      !.poison = IF state.quarantined THEN F.poison + 1 ELSE F.poison]
    BY Zenon, <1>0, <1>1 DEF QueueWork, Stored, Explicit, DeltaType
  <2> QED
    BY <1>1, <2>1, <2>2, <2>3 DEF DeltaType, SameData
<1>3. /\ Q.w[k] = state.token /\ state.token # 0
      /\ Q.s[k] = IF Explicit(state) THEN state ELSE NoSchedule
      /\ \A j \in Keys \ {k} : Q.w[j] = F.w[j] /\ Q.s[j] = F.s[j]
  BY <1>1, <1>2 DEF DeltaType
<1>4. /\ ReadyRow(k, ScheduleOf(Q, k)) = ReadyRow(k, state)
      /\ ScheduleOf(Q, k).quarantined = state.quarantined
      /\ Q.s[k] # NoSchedule => Q.s[k].token = Q.w[k]
  <2>1. CASE Explicit(state)
    BY Zenon, <1>2, <1>3, <2>1 DEF ScheduleOf, NoSchedule, Schedule
  <2>2. CASE ~ Explicit(state)
    <3>1. state.priority = 1 /\ state.due = 0 /\ state.quarantined = FALSE
      BY Zenon, <1>2, <2>2 DEF Schedule, Explicit
    <3>2. Q.s[k] = NoSchedule /\ ScheduleOf(Q, k) = [NoSchedule EXCEPT !.token = state.token]
      BY Zenon, <1>3, <2>2 DEF ScheduleOf
    <3>3. PICK x : x = ScheduleOf(Q, k)
      BY Zenon
    <3>4. x.priority = 1 /\ x.due = 0 /\ x.quarantined = FALSE /\ x.token = state.token
      BY Zenon, <3>2, <3>3 DEF NoSchedule
    <3>5. ReadyRow(k, x) = ReadyRow(k, state)
      BY Zenon, <3>1, <3>4 DEF ReadyRow
    <3> QED
      BY Zenon, <3>1, <3>2, <3>3, <3>4, <3>5
  <2> QED
    BY Zenon, <2>1, <2>2
<1>5. /\ WorkKeys(Q) = WorkKeys(F) \cup {k} /\ k \notin WorkKeys(F) /\ WorkKeys(F) \subseteq Keys
      /\ \A j \in Keys \ {k} : ScheduleOf(Q, j) = ScheduleOf(F, j)
  <2>1. WorkKeys(Q) = WorkKeys(F) \cup {k} /\ k \notin WorkKeys(F) /\ WorkKeys(F) \subseteq Keys
    BY Zenon, <1>1, <1>3 DEF WorkKeys
  <2> QED
    BY Zenon, <1>3, <2>1 DEF ScheduleOf
<1>6. /\ F.q = {ReadyRow(j, ScheduleOf(F, j)) :
                  j \in {j \in WorkKeys(F) : ~ ScheduleOf(F, j).quarantined}}
      /\ F.p = {j \in WorkKeys(F) : ScheduleOf(F, j).quarantined}
      /\ F.pending = Cardinality(WorkKeys(F)) /\ F.poison = Cardinality(F.p)
  BY Zenon, <1>1 DEF WorkExact
<1>7. Q.q = {ReadyRow(j, ScheduleOf(Q, j)) :
               j \in {j \in WorkKeys(Q) : ~ ScheduleOf(Q, j).quarantined}}
  <2>1. ASSUME NEW x \in Q.q
        PROVE  \E j \in WorkKeys(Q) : /\ ~ ScheduleOf(Q, j).quarantined
                                      /\ x = ReadyRow(j, ScheduleOf(Q, j))
    <3>1. CASE x \in F.q
      <4>1. PICK j \in WorkKeys(F) : /\ ~ ScheduleOf(F, j).quarantined
                                     /\ x = ReadyRow(j, ScheduleOf(F, j))
        BY Zenon, <1>6, <3>1
      <4>2. j \in WorkKeys(Q) /\ ScheduleOf(Q, j) = ScheduleOf(F, j)
        BY Zenon, <1>5, <4>1
      <4> QED
        BY Zenon, <4>1, <4>2
    <3>2. CASE x \notin F.q
      <4>1. ~ state.quarantined /\ x = ReadyRow(k, state)
        BY Zenon, <1>2, <2>1, <3>2
      <4> QED
        BY Zenon, <1>4, <1>5, <4>1
    <3> QED
      BY Zenon, <3>1, <3>2
  <2>2. ASSUME NEW j \in WorkKeys(Q), ~ ScheduleOf(Q, j).quarantined
        PROVE  ReadyRow(j, ScheduleOf(Q, j)) \in Q.q
    <3>1. CASE j = k
      BY Zenon, <1>2, <1>4, <2>2, <3>1
    <3>2. CASE j # k
      <4>1. j \in WorkKeys(F) /\ ScheduleOf(Q, j) = ScheduleOf(F, j)
        BY Zenon, <1>5, <2>2, <3>2
      <4>2. ReadyRow(j, ScheduleOf(F, j)) \in F.q
        BY Zenon, <1>6, <2>2, <4>1
      <4> QED
        BY Zenon, <1>2, <4>1, <4>2
    <3> QED
      BY Zenon, <3>1, <3>2
  <2> QED
    BY Zenon, <2>1, <2>2
<1>8. Q.p = {j \in WorkKeys(Q) : ScheduleOf(Q, j).quarantined}
  BY Zenon, <1>2, <1>4, <1>5, <1>6
<1>9. Q.pending = Cardinality(WorkKeys(Q)) /\ Q.poison = Cardinality(Q.p)
  <2>1. Cardinality(WorkKeys(F) \cup {k}) = Cardinality(WorkKeys(F)) + 1
    BY Zenon, <1>5, KeysCount
  <2>2. F.p \in SUBSET Keys /\ k \notin F.p
    BY Zenon, <1>5, <1>6
  <2>3. Cardinality(F.p \cup {k}) = Cardinality(F.p) + 1
    BY Zenon, <2>2, KeysCount
  <2> QED
    BY Zenon, <1>2, <1>5, <1>6, <2>1, <2>3
<1>10. WorkExact(Q)
  <2>1. \A j \in Keys : Q.s[j] # NoSchedule => Q.w[j] # 0 /\ Q.s[j].token = Q.w[j]
    <3>1. \A j \in Keys : F.s[j] # NoSchedule => F.w[j] # 0 /\ F.s[j].token = F.w[j]
      BY Zenon, <1>1 DEF WorkExact
    <3> QED
      BY Zenon, <1>3, <1>4, <3>1
  <2> QED
    BY Zenon, <1>7, <1>8, <1>9, <2>1 DEF WorkExact
<1>11. SameData(R, Q) /\ Q.r = R.r
  BY Zenon, <1>1, <1>2 DEF SameData
<1> QED
  BY ZenonT(30), <1>1, <1>2, <1>3, <1>4, <1>5, <1>10, <1>11

\* diskRelated changes related work tokens and nothing else.
LEMMA NotifyRows ==
    ASSUME NEW R \in DeltaType, NEW os, NEW token \in Nat, NEW N, N = NotifyRelated(R, os, token)
    PROVE  /\ N \in DeltaType /\ SameData(R, N) /\ SameWork(R, N)
           /\ \A o \in Owners : N.r[o] = IF o \in os THEN token ELSE R.r[o]
<1> DEFINE r2 == [o \in Owners |-> IF o \in os THEN token ELSE R.r[o]]
<1>1. N = [R EXCEPT !.r = r2]
  BY Zenon DEF NotifyRelated
<1>2. N \in DeltaType
  BY Zenon, NotifyType
<1>3. N.r = r2
  BY Zenon, <1>1 DEF DeltaType
<1> QED
  BY Zenon, <1>1, <1>2, <1>3 DEF DeltaType, SameData, SameWork

\* The resource row of put and the index rows it moves
Placed(R, k, item) == [Reindex(R, k, R.d[k], item) EXCEPT !.d[k] = item]

\* put moves a key between relations by difference and the relation index stays exact.
LEMMA ReindexExact ==
    ASSUME NEW R \in DeltaType, NEW k \in Keys, RelationExact(R),
           NEW item \in Item \cup {NoItem},
           NEW D, D = Placed(R, k, item)
    PROVE  /\ D \in DeltaType /\ RelationExact(D) /\ SameWork(R, D) /\ D.r = R.r
           /\ D.d = [R.d EXCEPT ![k] = item]
<1> DEFINE old == R.d[k]
           i2 == [o \in Owners |-> (R.i[o] \ (IF o = old.own THEN {k} ELSE {}))
                                     \cup (IF o = item.own THEN {k} ELSE {})]
           ic2 == [o \in Owners |-> R.ic[o] - (IF o = old.own THEN 1 ELSE 0)
                                      + (IF o = item.own THEN 1 ELSE 0)]
           d2 == [R.d EXCEPT ![k] = item]
<1>1. i2 \in [Owners -> SUBSET Keys] /\ ic2 \in [Owners -> Int]
  BY DEF DeltaType
<1>2. d2 \in [Keys -> Item \cup {NoItem}]
  BY Zenon DEF DeltaType
<1>3. D = [R EXCEPT !.i = i2, !.ic = ic2, !.d = d2]
  BY Zenon DEF Placed, Reindex, DeltaType
<1> HIDE DEF i2, ic2, d2
<1>4. /\ D.i = i2 /\ D.ic = ic2 /\ D.d = d2 /\ SameWork(R, D) /\ D.r = R.r
  BY Zenon, <1>3 DEF DeltaType, SameWork
<1>5. D \in DeltaType
  BY Zenon, <1>1, <1>2, <1>3 DEF DeltaType
<1>6. ASSUME NEW o \in Owners
      PROVE  /\ i2[o] = {j \in Keys : d2[j].own = o}
             /\ ic2[o] = Cardinality(i2[o])
  <2>1. /\ R.i[o] = {j \in Keys : R.d[j].own = o} /\ R.ic[o] = Cardinality(R.i[o])
        /\ R.i[o] \in SUBSET Keys /\ (k \in R.i[o] <=> o = old.own)
    BY Zenon, <1>6 DEF RelationExact
  <2>2. d2[k] = item /\ \A j \in Keys \ {k} : d2[j] = R.d[j]
    BY Zenon DEF d2, DeltaType
  <2>3. i2[o] = (R.i[o] \ (IF o = old.own THEN {k} ELSE {})) \cup (IF o = item.own THEN {k} ELSE {})
    BY Zenon, <1>6 DEF i2
  <2>4. ic2[o] = R.ic[o] - (IF o = old.own THEN 1 ELSE 0) + (IF o = item.own THEN 1 ELSE 0)
    BY Zenon, <1>6 DEF ic2
  <2>5. i2[o] = (R.i[o] \ {k}) \cup (IF o = item.own THEN {k} ELSE {})
    BY Zenon, <2>1, <2>3
  <2>6. i2[o] = {j \in Keys : d2[j].own = o}
    BY Zenon, <2>1, <2>2, <2>5
  <2>7. /\ R.i[o] \ {k} \in SUBSET Keys /\ k \notin R.i[o] \ {k} /\ Cardinality(R.i[o]) \in Nat
        /\ Cardinality(R.i[o] \ {k}) = IF o = old.own THEN Cardinality(R.i[o]) - 1
                                       ELSE Cardinality(R.i[o])
    BY Zenon, <2>1, KeysCount
  <2>8. Cardinality((R.i[o] \ {k}) \cup {k}) = Cardinality(R.i[o] \ {k}) + 1
    <3>1. PICK S \in SUBSET Keys : S = R.i[o] \ {k} /\ k \notin S
      BY Zenon, <2>7
    <3>2. Cardinality(S \cup {k}) = Cardinality(S) + 1
      BY Zenon, <3>1, KeysCount
    <3> QED
      BY Zenon, <3>1, <3>2
  <2>9. CASE o = item.own
    <3>1. Cardinality(i2[o]) = Cardinality(R.i[o] \ {k}) + 1
      BY Zenon, <2>5, <2>8, <2>9
    <3>2. ic2[o] = Cardinality(R.i[o]) - (IF o = old.own THEN 1 ELSE 0) + 1
      BY Zenon, <2>1, <2>4, <2>9
    <3> QED
      BY <2>6, <2>7, <3>1, <3>2
  <2>10. CASE o # item.own
    <3>1. Cardinality(i2[o]) = Cardinality(R.i[o] \ {k})
      BY Zenon, <2>5, <2>10
    <3>2. ic2[o] = Cardinality(R.i[o]) - (IF o = old.own THEN 1 ELSE 0) + 0
      BY Zenon, <2>1, <2>4, <2>10
    <3> QED
      BY <2>6, <2>7, <3>1, <3>2
  <2> QED
    BY Zenon, <2>9, <2>10
<1>7. RelationExact(D)
  BY Zenon, <1>4, <1>6 DEF RelationExact
<1> QED
  BY Zenon, <1>4, <1>5, <1>7 DEF d2

\* put notifies the relations of a resource that is new, is deleted or changes its relation.
Moved(R, k, item) == item = NoItem \/ R.d[k] = NoItem \/ R.d[k].own # item.own

\* What the batch P of put leaves of the rows R
PutRows(R, k, item, token, enqueue, P) ==
    /\ P \in DeltaType /\ Exact(P) /\ P.d = [R.d EXCEPT ![k] = item]
    /\ enqueue => P.w[k] = token
    /\ \A j \in Keys \ {k} : P.w[j] = R.w[j]
    /\ \A o \in Owners :
         P.r[o] = IF Moved(R, k, item) /\ o \in {R.d[k].own, item.own} THEN token ELSE R.r[o]

\* put as a whole, with the notifications and the work it adds
LEMMA PutExact ==
    ASSUME NEW R \in DeltaType, NEW k \in Keys, Exact(R), NEW item \in Item \cup {NoItem},
           NEW token \in Nat \ {0}, NEW enqueue \in BOOLEAN, NEW priority \in {0, 1},
           now \in Nat, NEW P, P = Put(R, k, item, token, enqueue, priority)
    PROVE  PutRows(R, k, item, token, enqueue, P)
<1> USE DEF PutRows
<1>0. PICK D : D = Placed(R, k, item)
  BY Zenon
<1>1. /\ D \in DeltaType /\ RelationExact(D) /\ SameWork(R, D) /\ D.r = R.r
      /\ D.d = [R.d EXCEPT ![k] = item]
  <2>1. RelationExact(R)
    BY Zenon DEF Exact
  <2> QED
    BY <1>0, <2>1, ReindexExact
<1>2. PICK N : N = IF Moved(R, k, item)
                   THEN NotifyRelated(D, {R.d[k].own, item.own}, token) ELSE D
  BY Zenon
<1>3. /\ N \in DeltaType /\ SameData(D, N) /\ SameWork(D, N)
      /\ \A o \in Owners :
           N.r[o] = IF Moved(R, k, item) /\ o \in {R.d[k].own, item.own} THEN token ELSE R.r[o]
  <2>1. CASE Moved(R, k, item)
    <3>1. N = NotifyRelated(D, {R.d[k].own, item.own}, token)
      BY Zenon, <1>2, <2>1
    <3>2. /\ N \in DeltaType /\ SameData(D, N) /\ SameWork(D, N)
          /\ \A o \in Owners : N.r[o] = IF o \in {R.d[k].own, item.own} THEN token ELSE D.r[o]
      BY <1>1, <3>1, NotifyRows
    <3> QED
      BY Zenon, <1>1, <2>1, <3>2
  <2>2. CASE ~ Moved(R, k, item)
    BY Zenon, <1>1, <1>2, <2>2 DEF SameData, SameWork
  <2> QED
    BY Zenon, <2>1, <2>2
<1>4. Exact(N) /\ N.d = [R.d EXCEPT ![k] = item] /\ N.w = R.w
  BY Zenon, <1>1, <1>3, SameWorkExact, SameDataExact DEF Exact, SameData, SameWork
<1>5. PICK requested : requested = [token |-> token, due |-> 0, priority |-> priority,
                                    quarantined |-> FALSE]
  BY Zenon
<1>6. requested \in Schedule /\ requested.token # 0
  BY Zenon, <1>5 DEF Schedule
<1>7. P = IF enqueue THEN QueueWork(N, k, requested) ELSE N
  BY Zenon, <1>0, <1>2, <1>5 DEF Put, Placed, Moved
<1>8. CASE enqueue
  <2>1. /\ P \in DeltaType /\ SameData(N, P) /\ P.r = N.r /\ WorkExact(P)
        /\ P.w[k] = requested.token /\ \A j \in Keys \ {k} : P.w[j] = N.w[j]
    <3>1. N \in DeltaType /\ WorkExact(N) /\ P = QueueWork(N, k, requested)
      BY Zenon, <1>3, <1>4, <1>7, <1>8 DEF Exact
    <3> QED
      BY <1>6, <3>1, QueueExact
  <2>2. RelationExact(P)
    BY Zenon, <1>3, <1>4, <2>1, SameDataExact DEF Exact
  <2>3. requested.token = token
    BY Zenon, <1>5
  <2> QED
    BY Zenon, <1>3, <1>4, <2>1, <2>2, <2>3 DEF Exact, SameData
<1>9. CASE ~ enqueue
  BY Zenon, <1>3, <1>4, <1>7, <1>9
<1> QED
  BY Zenon, <1>8, <1>9

-----------------------------------------------------------------------------
(* The indexes, and what a listing has merged.                             *)

\* How far FinishSnapshot has come with the rows of the old generation
PassedData(k) == op.family \in {"w", "r"} \/ k <= op.after
PassedWork(k) == op.family = "r" \/ (op.family = "w" /\ k <= op.after)
PassedRelated(o) == op.family = "r" /\ o <= op.after

\* A listed resource has work until FinishSnapshot finds it unchanged, and its relation is
\* notified.
Listed ==
    handle # 0 => \A k \in Keys : New.d[k] # NoItem =>
        /\ New.r[New.d[k].own] # 0
        /\ op.name # "finish" \/ Old.d[k] = NoItem \/ ~ PassedData(k) => New.w[k] # 0

\* What FinishSnapshot has merged is as PublishExact wants it.
Merged ==
    op.name = "finish" =>
        /\ \A k \in Keys : Old.d[k] # NoItem /\ PassedData(k) =>
             /\ Old.d[k] # New.d[k] => New.w[k] # 0
             /\ Old.d[k] = New.d[k] /\ Old.w[k] = 0 => New.w[k] = 0
             /\ Old.d[k].own # New.d[k].own => New.r[Old.d[k].own] # 0
        /\ \A k \in Keys : Old.w[k] # 0 /\ PassedWork(k) =>
             /\ New.w[k] # 0
             /\ Old.d[k] = New.d[k] =>
                  ScheduleOf(New, k).quarantined = ScheduleOf(Old, k).quarantined
        /\ \A o \in Owners : Old.r[o] # 0 /\ PassedRelated(o) => New.r[o] # 0

\* Generation 0 has work, from callers that do not wait for the first listing, but no resources.
Unlisted == active = 0 => \A k \in Keys : Old.d[k] = NoItem

\* The inductive invariant: MetaInv says which generations there are, the rest which rows.
StoreInv ==
    /\ TypeOK /\ MetaInv /\ IndexInv /\ Listed /\ Merged /\ Unlisted
    /\ op.name = "finish" => op.family \in {"d", "w", "r"}

\* A generation without rows has exact indexes.
LEMMA EmptyExact == Exact(EmptyRows)
<1>1. WorkKeys(EmptyRows) = {} /\ \A k \in Keys : EmptyRows.s[k] = NoSchedule
  BY Zenon DEF WorkKeys, EmptyRows
<1>2. WorkExact(EmptyRows)
  <2>1. /\ EmptyRows.q = {} /\ EmptyRows.p = {} /\ EmptyRows.pending = 0 /\ EmptyRows.poison = 0
    BY Zenon DEF EmptyRows
  <2>2. Cardinality({}) = 0
    BY Zenon, FS_EmptySet
  <2> QED
    BY Zenon, <1>1, <2>1, <2>2 DEF WorkExact
<1>3. ASSUME NEW o \in Owners
      PROVE  /\ EmptyRows.i[o] = {k \in Keys : EmptyRows.d[k].own = o}
             /\ EmptyRows.ic[o] = Cardinality(EmptyRows.i[o])
  <2>1. /\ EmptyRows.i[o] = {} /\ EmptyRows.ic[o] = 0
        /\ \A k \in Keys : EmptyRows.d[k].own = 0
    BY Zenon, <1>3 DEF EmptyRows, NoItem
  <2>2. o # 0
    BY Zenon, <1>3, ConstantsAssumption
  <2>3. Cardinality({}) = 0
    BY Zenon, FS_EmptySet
  <2> QED
    BY Zenon, <2>1, <2>2, <2>3
<1> QED
  BY Zenon, <1>2, <1>3 DEF Exact, RelationExact

\* The generations a step may meet.
LEMMA StoreFacts ==
    ASSUME StoreInv
    PROVE  /\ rows \in [Generations -> RowsType] /\ \A g \in Generations : rows[g] \in DeltaType
           /\ active \in Generations /\ staging \in Generations /\ handle \in Generations
           /\ Exact(Old) /\ Old = rows[active] /\ Old \in DeltaType
           /\ handle # 0 => /\ handle = staging /\ handle # active
                            /\ Exact(New) /\ New = rows[staging]
           /\ New \in DeltaType
           /\ now \in Nat /\ Token \in Nat \ {0}
           /\ op.name = "finish" => handle # 0
<1>1. /\ rows \in [Generations -> RowsType] /\ \A g \in Generations : rows[g] \in DeltaType
      /\ active \in Generations /\ staging \in Generations /\ handle \in Generations
      /\ Old \in DeltaType /\ New \in DeltaType /\ now \in Nat /\ Token \in Nat \ {0}
  BY Zenon, StateFacts DEF StoreInv, TypeOK
<1>2. /\ handle # 0 => handle = staging /\ handle # active
      /\ op.name = "finish" => handle # 0
  BY Zenon DEF StoreInv, MetaInv, NoLeakedGeneration
<1>3. Exact(rows[active]) /\ (handle # 0 => Exact(rows[handle]))
  BY Zenon DEF StoreInv, IndexInv, Whole
<1> QED
  BY Zenon, <1>1, <1>2, <1>3 DEF Old, New

\* Steps that touch no rows: they stutter, or give up the listing.
LEMMA QuietStep ==
    ASSUME StoreInv, UNCHANGED <<rows, active>>,
           \/ UNCHANGED <<op, handle, staging>>
           \/ handle' = 0 /\ op'.name # "finish"
    PROVE  IndexInv' /\ Listed' /\ Merged' /\ Unlisted'
<1>1. IndexInv'
  BY Zenon DEF StoreInv, IndexInv, Whole
<1>2. Unlisted'
  BY Zenon DEF StoreInv, Unlisted, Old
<1>3. CASE UNCHANGED <<op, handle, staging>>
  <2>1. Old' = Old /\ New' = New /\ op' = op /\ handle' = handle
    BY Zenon, <1>3 DEF Old, New
  <2>2. Listed'
    BY Zenon, <2>1 DEF StoreInv, Listed, PassedData
  <2>3. Merged'
    BY Zenon, <2>1 DEF StoreInv, Merged, PassedData, PassedWork, PassedRelated
  <2> QED
    BY Zenon, <1>1, <1>2, <2>2, <2>3
<1>4. CASE handle' = 0 /\ op'.name # "finish"
  BY Zenon, <1>1, <1>2, <1>4 DEF Listed, Merged
<1> QED
  BY Zenon, <1>3, <1>4

\* A write to the published generation, between the calls of a listing
LEMMA ActiveWrite ==
    ASSUME StoreInv, Free, UNCHANGED <<active, op, handle, staging>>,
           NEW R \in DeltaType, Exact(R), rows' = [rows EXCEPT ![active] = R],
           active # 0 \/ R.d = Old.d
    PROVE  IndexInv' /\ Listed' /\ Merged' /\ Unlisted'
<1>1. op.name # "finish"
  BY Zenon DEF Free, Idle
<1>2. rows'[active] = R /\ \A g \in Generations \ {active} : rows'[g] = rows[g]
  BY Zenon, StoreFacts
<1>3. IndexInv'
  BY Zenon, <1>2, StoreFacts DEF IndexInv, Whole, StoreInv
<1>4. handle # 0 => New' = New
  BY Zenon, <1>2, StoreFacts DEF New
<1>5. Listed'
  BY Zenon, <1>1, <1>4 DEF StoreInv, Listed
<1>6. Merged'
  BY Zenon, <1>1 DEF Merged
<1>7. Unlisted'
  BY ZenonT(30), <1>2 DEF StoreInv, Unlisted, Old
<1> QED
  BY Zenon, <1>3, <1>5, <1>6, <1>7

\* A listing begins in a generation without rows.
LEMMA BeginKeeps ==
    ASSUME StoreInv, BeginSnapshotCommit
    PROVE  IndexInv' /\ Listed' /\ Merged' /\ Unlisted'
<1>1. /\ UNCHANGED <<rows, active>> /\ staging' = generation + 1 /\ handle' = generation + 1
      /\ op'.name = "idle" /\ generation < MaxGeneration
  BY Zenon DEF BeginSnapshotCommit, Idle
<1>2. generation + 1 \in Generations \ {0} /\ generation + 1 \notin {active, staging, garbage}
  BY <1>1, ConstantsAssumption DEF StoreInv, TypeOK, Generations, MetaInv
<1>3. rows[generation + 1] = EmptyRows
  BY Zenon, <1>2 DEF StoreInv, MetaInv, NoLeakedGeneration
<1>4. IndexInv'
  BY Zenon, <1>1, <1>3, EmptyExact DEF StoreInv, IndexInv, Whole
<1>5. Listed'
  <2>1. New' = EmptyRows
    BY Zenon, <1>1, <1>3 DEF New
  <2>2. \A k \in Keys : EmptyRows.d[k] = NoItem
    BY Zenon DEF EmptyRows
  <2> QED
    BY Zenon, <2>1, <2>2 DEF Listed
<1>6. Merged' /\ Unlisted'
  BY Zenon, <1>1 DEF StoreInv, Merged, Unlisted, Old
<1> QED
  BY Zenon, <1>4, <1>5, <1>6

\* Pages are deleted from generations that are not complete.
LEMMA DeletePageKeeps ==
    ASSUME StoreInv, DeletePage
    PROVE  IndexInv' /\ Listed' /\ Merged' /\ Unlisted' /\ handle' = 0 /\ Old' = Old
<1>1. PICK g : g = Head(op.todo)
  BY Zenon
<1>2. /\ UNCHANGED <<active, handle>> /\ op'.name = op.name /\ op.todo # <<>>
      /\ \E R : rows' = [rows EXCEPT ![g] = R]
  BY Zenon, <1>1 DEF DeletePage, metaVars, StoreInv, TypeOK, OpType
<1>3. op.name \in {"begin", "collect", "discard"} /\ handle = 0
  BY Zenon, <1>2 DEF StoreInv, MetaInv, TypeOK, OpType
<1>4. g # active
  <2>1. CASE op.name = "begin"
    <3>1. \/ op.todo = <<staging, garbage>> /\ staging # 0
          \/ op.todo = <<staging>> /\ staging # 0
          \/ op.todo = <<garbage>> /\ garbage # 0
      BY Zenon, <1>2, <2>1 DEF StoreInv, MetaInv
    <3>2. g \in {staging, garbage} /\ g # 0
      <4>1. CASE op.todo = <<staging, garbage>> /\ staging # 0
        BY <1>1, <4>1
      <4>2. CASE op.todo = <<staging>> /\ staging # 0
        BY <1>1, <4>2
      <4>3. CASE op.todo = <<garbage>> /\ garbage # 0
        BY <1>1, <4>3
      <4> QED
        BY Zenon, <3>1, <4>1, <4>2, <4>3
    <3> QED
      BY Zenon, <3>2 DEF StoreInv, MetaInv, NoLeakedGeneration
  <2>2. CASE op.name = "collect"
    <3>1. g = garbage /\ active # 0
      BY <1>1, <1>2, <2>2 DEF StoreInv, MetaInv
    <3> QED
      BY Zenon, <3>1 DEF StoreInv, MetaInv, NoLeakedGeneration
  <2>3. CASE op.name = "discard"
    <3>1. g = staging /\ staging # 0
      BY <1>1, <1>2, <2>3 DEF StoreInv, MetaInv
    <3> QED
      BY Zenon, <3>1 DEF StoreInv, MetaInv, NoLeakedGeneration
  <2> QED
    BY Zenon, <1>3, <2>1, <2>2, <2>3
<1>5. rows'[active] = rows[active]
  BY Zenon, <1>2, <1>4, StoreFacts
<1>6. IndexInv'
  BY Zenon, <1>2, <1>3, <1>5 DEF StoreInv, IndexInv, Whole
<1>7. Unlisted'
  BY Zenon, <1>2, <1>5 DEF StoreInv, Unlisted, Old
<1> QED
  BY Zenon, <1>2, <1>3, <1>5, <1>6, <1>7 DEF Listed, Merged, Old

\* A write to the generation that is being listed
LEMMA ListingWrite ==
    ASSUME StoreInv, handle # 0, UNCHANGED <<active, handle, staging>>,
           NEW R \in DeltaType, Exact(R), rows' = [rows EXCEPT ![staging] = R]
    PROVE  IndexInv' /\ Unlisted' /\ New' = R /\ Old' = Old
<1>1. rows'[staging] = R /\ \A g \in Generations \ {staging} : rows'[g] = rows[g]
  BY Zenon, StoreFacts
<1>2. IndexInv'
  BY Zenon, <1>1, StoreFacts DEF IndexInv, Whole, StoreInv
<1>3. New' = R /\ Old' = Old
  BY Zenon, <1>1, StoreFacts DEF New, Old
<1> QED
  BY Zenon, <1>2, <1>3 DEF StoreInv, Unlisted

\* A resource is listed: it becomes work, and its relation is notified.
LEMMA PutSnapshotPageKeeps ==
    ASSUME StoreInv, NEW k \in Keys, NEW item \in Item, PutSnapshotPage(k, item)
    PROVE  IndexInv' /\ Listed' /\ Merged' /\ Unlisted'
<1>1. PICK R : R = Put(New, k, item, Token, TRUE, 1)
  BY Zenon
<1>2. /\ UNCHANGED <<active, handle, staging, op>> /\ handle # 0 /\ staging = handle
      /\ op.name # "finish" /\ rows' = [rows EXCEPT ![staging] = R]
  BY Zenon, <1>1 DEF PutSnapshotPage, metaVars, Free, Idle, Write, New
<1>3. /\ R \in DeltaType /\ Exact(R) /\ R.d = [New.d EXCEPT ![k] = item]
      /\ R.w[k] = Token
      /\ \A j \in Keys \ {k} : R.w[j] = New.w[j]
      /\ \A o \in Owners : New.r[o] # 0 => R.r[o] # 0
      /\ New.d[k] = NoItem \/ New.d[k].own # item.own => R.r[item.own] # 0
  <2>1. item.own \in Owners
    BY Zenon DEF Item
  <2>5. item \in Item \cup {NoItem}
    BY Zenon
  <2>2. New \in DeltaType /\ Exact(New) /\ Token \in Nat \ {0} /\ now \in Nat
    BY Zenon, <1>2, StoreFacts
  <2>0. PICK e \in BOOLEAN, p \in {0, 1} : e = TRUE /\ p = 1
    BY Zenon
  <2>4. R = Put(New, k, item, Token, e, p)
    BY Zenon, <1>1, <2>0
  <2>3. PutRows(New, k, item, Token, e, R)
    BY Zenon, <2>2, <2>4, <2>5, PutExact
  <2>6. Token # 0
    BY Zenon, <2>2
  <2> QED
    BY Zenon, <2>0, <2>1, <2>3, <2>6 DEF PutRows, Moved
<1>4. R.d[k] = item /\ \A j \in Keys \ {k} : R.d[j] = New.d[j]
  BY <1>3, StoreFacts DEF DeltaType
<1>5. IndexInv' /\ Unlisted' /\ New' = R
  BY Zenon, <1>2, <1>3, ListingWrite
<1>6. \A j \in Keys : New.d[j] # NoItem => New.d[j].own \in Owners /\ New.r[New.d[j].own] # 0
                                           /\ New.w[j] # 0
  <2>1. \A j \in Keys : New.d[j] # NoItem => New.d[j].own \in Owners
    BY StoreFacts DEF DeltaType, Item
  <2> QED
    BY Zenon, <1>2, <2>1 DEF StoreInv, Listed
<1>7. R.r[item.own] # 0 /\ R.w[k] # 0
  <2>1. item.own \in Owners
    BY Zenon DEF Item
  <2>2. Token # 0
    BY Zenon, StoreFacts
  <2> QED
    BY Zenon, <1>3, <1>6, <2>1, <2>2
<1>8. \A j \in Keys : R.d[j] # NoItem => R.r[R.d[j].own] # 0 /\ R.w[j] # 0
  BY Zenon, <1>3, <1>4, <1>6, <1>7
<1>9. Listed' /\ Merged'
  BY Zenon, <1>2, <1>5, <1>8 DEF Listed, Merged
<1> QED
  BY Zenon, <1>5, <1>9

\* FinishSnapshot has merged nothing when it begins, and skips only what is not there.
LEMMA FinishSnapshotKeeps ==
    ASSUME StoreInv, NEW c, FinishSnapshot(c)
    PROVE  IndexInv' /\ Listed' /\ Merged' /\ Unlisted'
<1>1. /\ UNCHANGED <<rows, active, handle, staging>> /\ op.name # "finish"
      /\ op'.name = "finish" /\ op'.after = 0
      /\ op'.family = IF active = 0 THEN "w" ELSE "d"
  BY Zenon DEF FinishSnapshot, metaVars, Free, Idle
<1>2. \A k \in Keys \cup Owners : ~ (k <= 0)
  BY ConstantsAssumption
<1>3. Old' = Old /\ New' = New
  BY Zenon, <1>1 DEF Old, New
<1>4. \A k \in Keys : Old.d[k] # NoItem => ~ PassedData(k)'
  BY Zenon, <1>1, <1>2 DEF PassedData, StoreInv, Unlisted
<1>5. /\ \A k \in Keys : ~ PassedWork(k)'
      /\ \A o \in Owners : ~ PassedRelated(o)'
  BY Zenon, <1>1, <1>2 DEF PassedWork, PassedRelated
<1>6. Listed'
  BY Zenon, <1>1, <1>3 DEF StoreInv, Listed
<1>7. Merged'
  BY Zenon, <1>3, <1>4, <1>5 DEF Merged
<1> QED
  BY Zenon, <1>1, <1>3, <1>6, <1>7 DEF StoreInv, IndexInv, Whole, Unlisted

\* The end of a family: all its rows are merged.
LEMMA FinishFamilyKeeps ==
    ASSUME StoreInv, FinishFamily
    PROVE  IndexInv' /\ Listed' /\ Merged' /\ Unlisted'
<1>1. /\ UNCHANGED <<rows, active, handle, staging>> /\ op.name = "finish"
      /\ op'.name = "finish" /\ op'.after = 0
      /\ \/ op.family = "d" /\ op'.family = "w"
         \/ op.family = "w" /\ op'.family = "r"
      /\ \A k \in FamilyKeys(op.family) : k <= op.after
  <2>1. op.family = "d" \/ op.family = "w"
    BY Zenon DEF FinishFamily, StoreInv
  <2>2. op \in OpType
    BY Zenon DEF StoreInv, TypeOK
  <2>3. /\ op'.name = op.name /\ op'.after = 0
        /\ op'.family = IF op.family = "d" THEN "w" ELSE "r"
    BY Zenon, <2>2 DEF FinishFamily, OpType
  <2> QED
    BY Zenon, <2>1, <2>3 DEF FinishFamily, metaVars, FamilyDone
<1>2. \A k \in Keys \cup Owners : ~ (k <= 0)
  BY ConstantsAssumption
<1>3. Old' = Old /\ New' = New
  BY Zenon, <1>1 DEF Old, New
<1>4. /\ op.family = "d" => FamilyKeys(op.family) = DataKeys(Old)
      /\ op.family = "w" => FamilyKeys(op.family) = WorkKeys(Old)
  BY Zenon DEF FamilyKeys
<1>5. \A k \in Keys : Old.d[k] # NoItem => PassedData(k)
  BY Zenon, <1>1, <1>4 DEF PassedData, DataKeys
<1>6. \A k \in Keys : Old.w[k] # 0 /\ PassedWork(k)' => PassedWork(k)
  BY Zenon, <1>1, <1>2, <1>4 DEF PassedWork, WorkKeys
<1>7. \A o \in Owners : ~ PassedRelated(o)'
  BY Zenon, <1>1, <1>2 DEF PassedRelated
<1>8. \A k \in Keys : PassedData(k)'
  BY Zenon, <1>1 DEF PassedData
<1>9. Listed'
  BY Zenon, <1>1, <1>3, <1>8 DEF StoreInv, Listed
<1>10. Merged'
  BY Zenon, <1>1, <1>3, <1>5, <1>6, <1>7 DEF StoreInv, Merged
<1> QED
  BY Zenon, <1>1, <1>3, <1>9, <1>10 DEF StoreInv, IndexInv, Whole, Unlisted

\* The listing is published.
LEMMA PublishKeeps ==
    ASSUME StoreInv, Publish
    PROVE  IndexInv' /\ Listed' /\ Merged' /\ Unlisted'
<1>1. /\ UNCHANGED rows /\ active' = staging /\ handle' = 0 /\ op'.name = "idle"
      /\ op.name = "finish"
  BY Zenon DEF Publish, Idle
<1>2. handle # 0 /\ staging = handle /\ Exact(rows[staging])
  BY Zenon, <1>1, StoreFacts
<1>3. IndexInv'
  BY Zenon, <1>1, <1>2 DEF IndexInv, Whole
<1> QED
  BY Zenon, <1>1, <1>2, <1>3 DEF Listed, Merged, Unlisted

\* One resource of the old generation is merged: R are the rows that are written.
LEMMA DataMerged ==
    ASSUME StoreInv, op.name = "finish", op.family = "d", NEW k \in Keys,
           IsNext(k, DataKeys(Old), op.after), op' = [op EXCEPT !.after = k],
           NEW R \in DeltaType, Old' = Old, New' = R, handle' = handle, R.d = New.d,
           \A j \in Keys \ {k} : R.w[j] = New.w[j],
           \A o \in Owners : New.r[o] # 0 => R.r[o] # 0,
           Old.d[k] # New.d[k] => R.w[k] # 0,
           Old.d[k] = New.d[k] /\ Old.w[k] = 0 => R.w[k] = 0,
           Old.d[k].own # New.d[k].own => R.r[Old.d[k].own] # 0
    PROVE  Listed' /\ Merged'
<1>1. op'.name = "finish" /\ op'.family = "d" /\ op'.after = k /\ op.after \in Nat
  BY Zenon DEF StoreInv, TypeOK, OpType
<1>2. /\ \A j \in Keys : ~ PassedWork(j)'
      /\ \A o \in Owners : ~ PassedRelated(o)'
  BY Zenon, <1>1 DEF PassedWork, PassedRelated
<1>3. /\ \A j \in Keys : Old.d[j] # NoItem /\ PassedData(j)' => j = k \/ PassedData(j)
      /\ \A j \in Keys : ~ PassedData(j)' => ~ PassedData(j) /\ j # k
      /\ PassedData(k)' /\ Old.d[k] # NoItem
  <2>1. /\ \A j \in Keys : PassedData(j)' <=> j <= k
        /\ \A j \in Keys : PassedData(j) <=> j <= op.after
    BY Zenon, <1>1 DEF PassedData
  <2>2. /\ k \in Nat /\ Keys \subseteq Nat /\ k > op.after
        /\ \A j \in Keys : Old.d[j] # NoItem /\ j > op.after => k <= j
        /\ Old.d[k] # NoItem
    BY Zenon, ConstantsAssumption DEF IsNext, DataKeys
  <2> QED
    BY <1>1, <2>1, <2>2
<1>4. \A j \in Keys : /\ New.d[j] # NoItem => New.d[j].own \in Owners
                      /\ Old.d[j] # NoItem => Old.d[j].own \in Owners
  BY StoreFacts DEF DeltaType, Item
<1>5. Listed'
  <2>0. handle # 0
    BY Zenon, StoreFacts
  <2>1. \A j \in Keys : New.d[j] # NoItem =>
          /\ New.r[New.d[j].own] # 0
          /\ Old.d[j] = NoItem \/ ~ PassedData(j) => New.w[j] # 0
    BY Zenon, <2>0 DEF StoreInv, Listed
  <2>2. \A j \in Keys : R.d[j] # NoItem =>
          /\ R.r[R.d[j].own] # 0
          /\ Old.d[j] = NoItem \/ ~ PassedData(j)' => R.w[j] # 0
    BY Zenon, <1>3, <1>4, <2>1
  <2> QED
    BY Zenon, <1>1, <2>2 DEF Listed
<1>6. Merged'
  <2>1. \A j \in Keys : Old.d[j] # NoItem /\ PassedData(j) =>
          /\ Old.d[j] # New.d[j] => New.w[j] # 0
          /\ Old.d[j] = New.d[j] /\ Old.w[j] = 0 => New.w[j] = 0
          /\ Old.d[j].own # New.d[j].own => New.r[Old.d[j].own] # 0
    BY Zenon DEF StoreInv, Merged
  <2>2. ASSUME NEW j \in Keys, Old.d[j] # NoItem, PassedData(j)'
        PROVE  /\ Old.d[j] # R.d[j] => R.w[j] # 0
               /\ Old.d[j] = R.d[j] /\ Old.w[j] = 0 => R.w[j] = 0
               /\ Old.d[j].own # R.d[j].own => R.r[Old.d[j].own] # 0
    <3>1. CASE j = k
      BY Zenon, <3>1
    <3>2. CASE j # k
      BY Zenon, <1>3, <1>4, <2>1, <2>2, <3>2
    <3> QED
      BY Zenon, <3>1, <3>2
  <2> QED
    BY Zenon, <1>2, <2>2 DEF Merged
<1> QED
  BY Zenon, <1>5, <1>6

\* MergeData, for each of its four cases.
LEMMA MergeDataKeeps ==
    ASSUME StoreInv, op.name = "finish", op.family = "d", NEW k \in Keys,
           IsNext(k, DataKeys(Old), op.after), MergeData(k),
           op' = [op EXCEPT !.after = k], UNCHANGED <<active, handle, staging>>
    PROVE  IndexInv' /\ Listed' /\ Merged' /\ Unlisted'
<1>1. /\ handle # 0 /\ New \in DeltaType /\ Exact(New) /\ Old \in DeltaType
      /\ Token \in Nat \ {0} /\ now \in Nat
  BY Zenon, StoreFacts
<1>2. WorkExact(New) /\ RelationExact(New)
  BY Zenon, <1>1 DEF Exact
<1>3. Old.d[k] # NoItem /\ Old.d[k].own \in Owners
  <2>1. Old.d[k] # NoItem
    BY Zenon DEF IsNext, DataKeys
  <2> QED
    BY Zenon, <1>1, <2>1 DEF DeltaType, Item
<1>4. New.d[k] # NoItem => New.w[k] # 0
  <2>1. ~ PassedData(k)
    BY ConstantsAssumption DEF StoreInv, TypeOK, OpType, PassedData, IsNext
  <2> QED
    BY Zenon, <1>1, <2>1 DEF StoreInv, Listed
<1>5. SUFFICES \E R \in DeltaType :
                 /\ Exact(R) /\ rows' = [rows EXCEPT ![staging] = R] /\ R.d = New.d
                 /\ \A j \in Keys \ {k} : R.w[j] = New.w[j]
                 /\ \A o \in Owners : New.r[o] # 0 => R.r[o] # 0
                 /\ Old.d[k] # New.d[k] => R.w[k] # 0
                 /\ Old.d[k] = New.d[k] /\ Old.w[k] = 0 => R.w[k] = 0
                 /\ Old.d[k].own # New.d[k].own => R.r[Old.d[k].own] # 0
  <2>1. PICK R \in DeltaType :
          /\ Exact(R) /\ rows' = [rows EXCEPT ![staging] = R] /\ R.d = New.d
          /\ \A j \in Keys \ {k} : R.w[j] = New.w[j]
          /\ \A o \in Owners : New.r[o] # 0 => R.r[o] # 0
          /\ Old.d[k] # New.d[k] => R.w[k] # 0
          /\ Old.d[k] = New.d[k] /\ Old.w[k] = 0 => R.w[k] = 0
          /\ Old.d[k].own # New.d[k].own => R.r[Old.d[k].own] # 0
    BY Zenon, <1>5
  <2>2. IndexInv' /\ Unlisted' /\ New' = R /\ Old' = Old
    BY Zenon, <1>1, <2>1, ListingWrite
  <2>3. Listed' /\ Merged'
    BY <2>1, <2>2, DataMerged
  <2> QED
    BY Zenon, <2>2, <2>3
<1>6. CASE New.d[k] = NoItem
  <2>1. PICK z, Q : z = Replay(Token) /\ Q = QueueWork(New, k, z)
    BY Zenon
  <2>2. z \in Schedule /\ z.token = Token /\ z.token # 0
    BY Zenon, <1>1, <2>1 DEF Replay, Schedule
  <2>3. /\ Q \in DeltaType /\ SameData(New, Q) /\ Q.r = New.r /\ WorkExact(Q)
        /\ Q.w[k] = z.token
        /\ ScheduleOf(Q, k).quarantined = z.quarantined
        /\ \A j \in Keys \ {k} : Q.w[j] = New.w[j] /\ ScheduleOf(Q, j) = ScheduleOf(New, j)
    BY <1>1, <1>2, <2>1, <2>2, QueueExact
  <2>4. PICK R : R = NotifyRelated(Q, {Old.d[k].own}, Token)
    BY Zenon
  <2>5. /\ R \in DeltaType /\ SameData(Q, R) /\ SameWork(Q, R)
        /\ \A o \in Owners : R.r[o] = IF o \in {Old.d[k].own} THEN Token ELSE Q.r[o]
    BY <1>1, <2>3, <2>4, NotifyRows
  <2>6. Exact(R)
    BY Zenon, <1>2, <2>3, <2>5, SameWorkExact, SameDataExact, <1>1 DEF Exact
  <2>7. rows' = [rows EXCEPT ![staging] = R]
    BY Zenon, <1>3, <1>6, <2>1, <2>4 DEF MergeData, Write
  <2>8. /\ R.d = New.d /\ R.w[k] # 0 /\ \A j \in Keys \ {k} : R.w[j] = New.w[j]
        /\ \A o \in Owners : New.r[o] # 0 => R.r[o] # 0
        /\ R.r[Old.d[k].own] # 0
    BY Zenon, <1>1, <1>3, <2>2, <2>3, <2>5 DEF SameData, SameWork
  <2> QED
    BY Zenon, <1>3, <1>6, <2>5, <2>6, <2>7, <2>8
<1>7. CASE New.d[k] # NoItem /\ New.d[k].own # Old.d[k].own
  <2>4. PICK R : R = NotifyRelated(New, {Old.d[k].own, New.d[k].own}, Token)
    BY Zenon
  <2>5. /\ R \in DeltaType /\ SameData(New, R) /\ SameWork(New, R)
        /\ \A o \in Owners :
             R.r[o] = IF o \in {Old.d[k].own, New.d[k].own} THEN Token ELSE New.r[o]
    BY <1>1, <2>4, NotifyRows
  <2>6. Exact(R)
    BY Zenon, <1>1, <1>2, <2>5, SameWorkExact, SameDataExact DEF Exact
  <2>7. rows' = [rows EXCEPT ![staging] = R]
    BY Zenon, <1>3, <1>7, <2>4 DEF MergeData, Write
  <2>8. /\ R.d = New.d /\ \A j \in Keys : R.w[j] = New.w[j]
        /\ \A o \in Owners : New.r[o] # 0 => R.r[o] # 0
        /\ R.r[Old.d[k].own] # 0
    BY Zenon, <1>1, <1>3, <2>5 DEF SameData, SameWork
  <2> QED
    BY Zenon, <1>4, <1>7, <2>5, <2>6, <2>7, <2>8
<1>8. CASE New.d[k] = Old.d[k]
  <2>1. PICK R : R = IF Old.w[k] = 0 THEN ForgetWork(New, k) ELSE New
    BY Zenon
  <2>7. rows' = [rows EXCEPT ![staging] = R]
    BY Zenon, <1>3, <1>8, <2>1 DEF MergeData, Write
  <2>2. CASE Old.w[k] # 0
    BY Zenon, <1>1, <1>8, <2>1, <2>2, <2>7
  <2>3. CASE Old.w[k] = 0
    <3>1. R = ForgetWork(New, k)
      BY Zenon, <2>1, <2>3
    <3>2. /\ R \in DeltaType /\ SameData(New, R) /\ R.r = New.r /\ WorkExact(R)
          /\ R.w[k] = 0 /\ R.s[k] = NoSchedule
          /\ \A j \in Keys \ {k} : R.w[j] = New.w[j] /\ R.s[j] = New.s[j]
          /\ \A j \in Keys \ {k} : ScheduleOf(R, j) = ScheduleOf(New, j)
      BY <1>1, <1>2, <3>1, ForgetExact
    <3>3. Exact(R)
      BY Zenon, <1>1, <1>2, <3>2, SameDataExact DEF Exact
    <3>4. R.d = New.d
      BY Zenon, <3>2 DEF SameData
    <3> QED
      BY Zenon, <1>8, <2>7, <3>2, <3>3, <3>4
  <2> QED
    BY Zenon, <2>2, <2>3
<1>9. CASE New.d[k] # NoItem /\ New.d[k] # Old.d[k] /\ New.d[k].own = Old.d[k].own
  <2>1. UNCHANGED rows
    BY Zenon, <1>9 DEF MergeData
  <2>2. rows' = [rows EXCEPT ![staging] = New]
    BY Zenon, <2>1, StoreFacts DEF New
  <2> QED
    BY Zenon, <1>1, <1>4, <1>9, <2>2
<1> QED
  BY Zenon, <1>6, <1>7, <1>8, <1>9

\* Unfinished work of the old generation is queued in the new one.
LEMMA MergeWorkKeeps ==
    ASSUME StoreInv, op.name = "finish", op.family = "w", NEW k \in Keys,
           IsNext(k, WorkKeys(Old), op.after), MergeWork(k),
           op' = [op EXCEPT !.after = k], UNCHANGED <<active, handle, staging>>
    PROVE  IndexInv' /\ Listed' /\ Merged' /\ Unlisted'
<1>1. /\ handle # 0 /\ New \in DeltaType /\ Exact(New) /\ Old \in DeltaType
      /\ Token \in Nat \ {0} /\ now \in Nat
  BY Zenon, StoreFacts
<1>2. WorkExact(New) /\ RelationExact(New)
  BY Zenon, <1>1 DEF Exact
<1>3. op'.name = "finish" /\ op'.family = "w" /\ op'.after = k /\ op.after \in Nat
  BY Zenon DEF StoreInv, TypeOK, OpType
<1>4. PICK state : state = IF Old.d[k] = New.d[k] THEN ScheduleOf(Old, k) ELSE Replay(0)
  BY Zenon
<1>5. PICK z, R : z = [state EXCEPT !.token = Token] /\ R = QueueWork(New, k, z)
  BY Zenon
<1>6. /\ z \in Schedule /\ z.token = Token /\ z.token # 0
      /\ Old.d[k] = New.d[k] => z.quarantined = ScheduleOf(Old, k).quarantined
  <2>1. state \in Schedule
    <3>1. ScheduleOf(Old, k) \in Schedule
      BY Zenon, <1>1, ScheduleType
    <3>2. Replay(0) \in Schedule
      BY Zenon DEF Replay, Schedule
    <3> QED
      BY Zenon, <1>4, <3>1, <3>2
  <2>2. z \in Schedule /\ z.token = Token /\ z.quarantined = state.quarantined
    BY Zenon, <1>1, <1>5, <2>1 DEF Schedule
  <2> QED
    BY Zenon, <1>1, <1>4, <2>2
<1>7. /\ R \in DeltaType /\ SameData(New, R) /\ R.r = New.r /\ WorkExact(R)
      /\ R.w[k] = z.token
      /\ ScheduleOf(R, k).quarantined = z.quarantined
      /\ \A j \in Keys \ {k} : R.w[j] = New.w[j] /\ ScheduleOf(R, j) = ScheduleOf(New, j)
  <2>1. New \in DeltaType /\ WorkExact(New) /\ z \in Schedule /\ z.token # 0 /\ now \in Nat
    BY Zenon, <1>1, <1>2, <1>6
  <2>2. R = QueueWork(New, k, z)
    BY Zenon, <1>5
  <2> QED
    BY <2>1, <2>2, QueueExact
<1>8. Exact(R) /\ R.d = New.d
  BY Zenon, <1>1, <1>2, <1>7, SameDataExact DEF Exact, SameData
<1>9. rows' = [rows EXCEPT ![staging] = R]
  BY Zenon, <1>4, <1>5 DEF MergeWork, Write
<1>10. IndexInv' /\ Unlisted' /\ New' = R /\ Old' = Old
  BY Zenon, <1>1, <1>7, <1>8, <1>9, ListingWrite
<1>11. /\ \A j \in Keys : Old.w[j] # 0 /\ PassedWork(j)' => j = k \/ PassedWork(j)
       /\ \A j \in Keys : PassedData(j) /\ PassedData(j)'
       /\ \A o \in Owners : ~ PassedRelated(o)'
       /\ Old.w[k] # 0
  <2>1. /\ \A j \in Keys : PassedWork(j)' <=> j <= k
        /\ \A j \in Keys : PassedWork(j) <=> j <= op.after
    BY Zenon, <1>3 DEF PassedWork
  <2>2. /\ k \in Nat /\ Keys \subseteq Nat /\ k > op.after
        /\ \A j \in Keys : Old.w[j] # 0 /\ j > op.after => k <= j
        /\ Old.w[k] # 0
    BY Zenon, ConstantsAssumption DEF IsNext, WorkKeys
  <2>3. \A j \in Keys : Old.w[j] # 0 /\ PassedWork(j)' => j = k \/ PassedWork(j)
    BY <1>3, <2>1, <2>2
  <2> QED
    BY Zenon, <1>3, <2>2, <2>3 DEF PassedData, PassedRelated
<1>12. Listed'
  <2>1. \A j \in Keys : New.d[j] # NoItem =>
          /\ New.r[New.d[j].own] # 0
          /\ Old.d[j] = NoItem => New.w[j] # 0
    BY Zenon, <1>1 DEF StoreInv, Listed
  <2>2. \A j \in Keys : R.d[j] # NoItem =>
          /\ R.r[R.d[j].own] # 0
          /\ Old.d[j] = NoItem => R.w[j] # 0
    BY Zenon, <1>6, <1>7, <1>8, <2>1
  <2> QED
    BY Zenon, <1>3, <1>10, <1>11, <2>2 DEF Listed
<1>13. Merged'
  <2>1. \A j \in Keys : Old.d[j] # NoItem =>
          /\ Old.d[j] # New.d[j] => New.w[j] # 0
          /\ Old.d[j] = New.d[j] /\ Old.w[j] = 0 => New.w[j] = 0
          /\ Old.d[j].own # New.d[j].own => New.r[Old.d[j].own] # 0
    BY Zenon, <1>11 DEF StoreInv, Merged
  <2>2. \A j \in Keys : Old.w[j] # 0 /\ PassedWork(j) =>
          /\ New.w[j] # 0
          /\ Old.d[j] = New.d[j] =>
               ScheduleOf(New, j).quarantined = ScheduleOf(Old, j).quarantined
    BY Zenon DEF StoreInv, Merged
  <2>3. \A j \in Keys : Old.d[j] # NoItem =>
          /\ Old.d[j] # R.d[j] => R.w[j] # 0
          /\ Old.d[j] = R.d[j] /\ Old.w[j] = 0 => R.w[j] = 0
          /\ Old.d[j].own # R.d[j].own => R.r[Old.d[j].own] # 0
    BY Zenon, <1>6, <1>7, <1>8, <1>11, <2>1
  <2>4. \A j \in Keys : Old.w[j] # 0 /\ PassedWork(j)' =>
          /\ R.w[j] # 0
          /\ Old.d[j] = R.d[j] =>
               ScheduleOf(R, j).quarantined = ScheduleOf(Old, j).quarantined
    BY Zenon, <1>6, <1>7, <1>8, <1>11, <2>2
  <2>5. \A j \in Keys : ScheduleOf(Old, j)' = ScheduleOf(Old, j)
                        /\ ScheduleOf(New, j)' = ScheduleOf(R, j)
    BY Zenon, <1>10 DEF ScheduleOf
  <2> QED
    BY Zenon, <1>10, <1>11, <2>3, <2>4, <2>5 DEF Merged
<1> QED
  BY Zenon, <1>10, <1>12, <1>13

\* A notification of the old generation is repeated in the new one.
LEMMA MergeRelatedKeeps ==
    ASSUME StoreInv, op.name = "finish", op.family = "r", NEW k \in Owners,
           IsNext(k, RelatedKeys(Old), op.after), MergeRelated(k),
           op' = [op EXCEPT !.after = k], UNCHANGED <<active, handle, staging>>
    PROVE  IndexInv' /\ Listed' /\ Merged' /\ Unlisted'
<1>1. /\ handle # 0 /\ New \in DeltaType /\ Exact(New)
      /\ Token \in Nat \ {0} /\ Token # 0
  BY Zenon, StoreFacts
<1>2. WorkExact(New) /\ RelationExact(New)
  BY Zenon, <1>1 DEF Exact
<1>3. op'.name = "finish" /\ op'.family = "r" /\ op'.after = k /\ op.after \in Nat
  BY Zenon DEF StoreInv, TypeOK, OpType
<1>5. PICK R : R = [New EXCEPT !.r[k] = Token]
  BY Zenon
<1>6. /\ R \in DeltaType /\ SameData(New, R) /\ SameWork(New, R)
      /\ R.r[k] = Token /\ \A o \in Owners \ {k} : R.r[o] = New.r[o]
  BY Zenon, <1>1, <1>5 DEF DeltaType, SameData, SameWork
<1>8. Exact(R) /\ R.d = New.d /\ R.w = New.w
  BY Zenon, <1>1, <1>2, <1>6, SameDataExact, SameWorkExact DEF Exact, SameData, SameWork
<1>9. rows' = [rows EXCEPT ![staging] = R]
  BY Zenon, <1>5 DEF MergeRelated, Write
<1>10. IndexInv' /\ Unlisted' /\ New' = R /\ Old' = Old
  BY Zenon, <1>1, <1>6, <1>8, <1>9, ListingWrite
<1>11. /\ \A o \in Owners : Old.r[o] # 0 /\ PassedRelated(o)' => o = k \/ PassedRelated(o)
       /\ \A j \in Keys : PassedData(j) /\ PassedData(j)' /\ PassedWork(j)
  <2>1. /\ \A o \in Owners : PassedRelated(o)' <=> o <= k
        /\ \A o \in Owners : PassedRelated(o) <=> o <= op.after
    BY Zenon, <1>3 DEF PassedRelated
  <2>2. /\ k \in Nat /\ Owners \subseteq Nat /\ k > op.after
        /\ \A o \in Owners : Old.r[o] # 0 /\ o > op.after => k <= o
    BY Zenon, ConstantsAssumption DEF IsNext, RelatedKeys
  <2>3. \A o \in Owners : Old.r[o] # 0 /\ PassedRelated(o)' => o = k \/ PassedRelated(o)
    BY <1>3, <2>1, <2>2
  <2> QED
    BY Zenon, <1>3, <2>3 DEF PassedData, PassedWork
<1>a. \A o : o \in Owners /\ New.r[o] # 0 => R.r[o] # 0
  BY Zenon, <1>1, <1>6
<1>b. \A j \in Keys : /\ New.d[j] # NoItem => New.d[j].own \in Owners
                      /\ Old.d[j] # NoItem => Old.d[j].own \in Owners
  BY StoreFacts DEF DeltaType, Item
<1>12. Listed'
  <2>1. \A j \in Keys : New.d[j] # NoItem =>
          /\ New.r[New.d[j].own] # 0
          /\ Old.d[j] = NoItem => New.w[j] # 0
    BY Zenon, <1>1 DEF StoreInv, Listed
  <2> QED
    BY Zenon, <1>3, <1>8, <1>10, <1>11, <1>a, <1>b, <2>1 DEF Listed
<1>13. Merged'
  <2>1. \A j \in Keys : Old.d[j] # NoItem =>
          /\ Old.d[j] # New.d[j] => New.w[j] # 0
          /\ Old.d[j] = New.d[j] /\ Old.w[j] = 0 => New.w[j] = 0
          /\ Old.d[j].own # New.d[j].own => New.r[Old.d[j].own] # 0
    BY Zenon, <1>11 DEF StoreInv, Merged
  <2>2. \A j \in Keys : Old.w[j] # 0 =>
          /\ New.w[j] # 0
          /\ Old.d[j] = New.d[j] =>
               ScheduleOf(New, j).quarantined = ScheduleOf(Old, j).quarantined
    BY Zenon, <1>11 DEF StoreInv, Merged
  <2>3. \A o \in Owners : Old.r[o] # 0 /\ PassedRelated(o) => New.r[o] # 0
    BY Zenon DEF StoreInv, Merged
  <2>4. \A o \in Owners : Old.r[o] # 0 /\ PassedRelated(o)' => R.r[o] # 0
    BY Zenon, <1>1, <1>6, <1>11, <1>a, <2>3
  <2>5. \A j \in Keys : ScheduleOf(Old, j)' = ScheduleOf(Old, j)
                        /\ ScheduleOf(New, j)' = ScheduleOf(New, j)
    BY Zenon, <1>6, <1>10 DEF ScheduleOf, SameWork
  <2> QED
    BY Zenon, <1>8, <1>10, <1>a, <1>b, <2>1, <2>2, <2>4, <2>5 DEF Merged
<1> QED
  BY Zenon, <1>10, <1>12, <1>13

\* FinishSnapshot, one row
LEMMA FinishPageKeeps ==
    ASSUME StoreInv, FinishPage
    PROVE  IndexInv' /\ Listed' /\ Merged' /\ Unlisted'
<1>1. op.name = "finish" /\ UNCHANGED <<active, handle, staging>>
  BY Zenon DEF FinishPage, metaVars
<1>2. PICK k \in Keys \cup Owners :
        /\ \/ op.family = "d" /\ IsNext(k, DataKeys(Old), op.after) /\ MergeData(k)
           \/ op.family = "w" /\ IsNext(k, WorkKeys(Old), op.after) /\ MergeWork(k)
           \/ op.family = "r" /\ IsNext(k, RelatedKeys(Old), op.after) /\ MergeRelated(k)
        /\ op' = [op EXCEPT !.after = k]
  BY Zenon DEF FinishPage
<1>3. CASE op.family = "d" /\ IsNext(k, DataKeys(Old), op.after) /\ MergeData(k)
  <2>1. k \in Keys
    BY Zenon, <1>3 DEF IsNext, DataKeys
  <2> QED
    BY Zenon, <1>1, <1>2, <1>3, <2>1, MergeDataKeeps
<1>4. CASE op.family = "w" /\ IsNext(k, WorkKeys(Old), op.after) /\ MergeWork(k)
  <2>1. k \in Keys
    BY Zenon, <1>4 DEF IsNext, WorkKeys
  <2> QED
    BY Zenon, <1>1, <1>2, <1>4, <2>1, MergeWorkKeeps
<1>5. CASE op.family = "r" /\ IsNext(k, RelatedKeys(Old), op.after) /\ MergeRelated(k)
  <2>1. k \in Owners
    BY Zenon, <1>5 DEF IsNext, RelatedKeys
  <2> QED
    BY Zenon, <1>1, <1>2, <1>5, <2>1, MergeRelatedKeeps
<1> QED
  BY Zenon, <1>2, <1>3, <1>4, <1>5

\* A watch event
LEMMA ApplyKeeps ==
    ASSUME StoreInv, NEW k \in Keys, NEW item \in Item \cup {NoItem}, NEW enqueue \in BOOLEAN,
           NEW c, Apply(k, item, enqueue, c)
    PROVE  IndexInv' /\ Listed' /\ Merged' /\ Unlisted'
<1>0. PICK p \in {0, 1} : p = 0
  BY Zenon
<1>1. PICK R : p = 0 /\ R = Put(Old, k, item, Token, enqueue, p)
  BY Zenon, <1>0
<1>2. /\ Free /\ UNCHANGED <<active, op, handle, staging>> /\ active # 0
      /\ rows' = [rows EXCEPT ![active] = R]
  BY Zenon, <1>1 DEF Apply, Write
<1>3. Old \in DeltaType /\ Exact(Old) /\ Token \in Nat \ {0} /\ now \in Nat
  BY Zenon, StoreFacts
<1>4. R = Put(Old, k, item, Token, enqueue, p)
  BY Zenon, <1>1
<1>5. PutRows(Old, k, item, Token, enqueue, R)
  BY Zenon, <1>3, <1>4, PutExact
<1>6. R \in DeltaType /\ Exact(R)
  BY Zenon, <1>5 DEF PutRows
<1> QED
  BY Zenon, <1>2, <1>6, ActiveWrite

\* The calls that queue work of the published generation
LEMMA QueueKeeps ==
    ASSUME StoreInv, Free, UNCHANGED <<active, op, handle, staging>>, NEW k \in Keys,
           NEW requested \in Schedule, requested.token # 0,
           Write(active, QueueWork(Old, k, requested))
    PROVE  IndexInv' /\ Listed' /\ Merged' /\ Unlisted'
<1>1. PICK R : R = QueueWork(Old, k, requested)
  BY Zenon
<1>2. Old \in DeltaType /\ Exact(Old) /\ now \in Nat
  BY Zenon, StoreFacts
<1>3. WorkExact(Old) /\ RelationExact(Old)
  BY Zenon, <1>2 DEF Exact
<1>4. /\ R \in DeltaType /\ SameData(Old, R) /\ R.r = Old.r /\ WorkExact(R)
      /\ R.w[k] = requested.token
      /\ ScheduleOf(R, k).quarantined = requested.quarantined
      /\ \A j \in Keys \ {k} : R.w[j] = Old.w[j] /\ ScheduleOf(R, j) = ScheduleOf(Old, j)
  BY <1>1, <1>2, <1>3, QueueExact
<1>5. Exact(R) /\ R.d = Old.d
  BY Zenon, <1>2, <1>3, <1>4, SameDataExact DEF Exact, SameData
<1>6. rows' = [rows EXCEPT ![active] = R]
  BY Zenon, <1>1 DEF Write
<1> QED
  BY Zenon, <1>4, <1>5, <1>6, ActiveWrite

\* Work is completed.
LEMMA AcknowledgeKeeps ==
    ASSUME StoreInv, NEW k \in Keys, NEW token, Acknowledge(k, token)
    PROVE  IndexInv' /\ Listed' /\ Merged' /\ Unlisted'
<1>1. PICK R : R = ForgetWork(Old, k)
  BY Zenon
<1>2. Old \in DeltaType /\ Exact(Old)
  BY Zenon, StoreFacts
<1>3. WorkExact(Old) /\ RelationExact(Old)
  BY Zenon, <1>2 DEF Exact
<1>4. /\ R \in DeltaType /\ SameData(Old, R) /\ R.r = Old.r /\ WorkExact(R)
      /\ R.w[k] = 0 /\ R.s[k] = NoSchedule
      /\ \A j \in Keys \ {k} : R.w[j] = Old.w[j] /\ R.s[j] = Old.s[j]
      /\ \A j \in Keys \ {k} : ScheduleOf(R, j) = ScheduleOf(Old, j)
  BY <1>1, <1>2, <1>3, ForgetExact
<1>5. Exact(R) /\ R.d = Old.d
  BY Zenon, <1>2, <1>3, <1>4, SameDataExact DEF Exact, SameData
<1>6. /\ rows' = [rows EXCEPT ![active] = R]
      /\ Free /\ UNCHANGED <<active, op, handle, staging>>
  BY Zenon, <1>1 DEF Acknowledge, Write, metaVars
<1> QED
  BY Zenon, <1>4, <1>5, <1>6, ActiveWrite

\* Related work is completed.
LEMMA AcknowledgeRelatedKeeps ==
    ASSUME StoreInv, NEW o \in Owners, NEW token, AcknowledgeRelated(o, token)
    PROVE  IndexInv' /\ Listed' /\ Merged' /\ Unlisted'
<1>1. PICK R : R = [Old EXCEPT !.r[o] = 0]
  BY Zenon
<1>2. Old \in DeltaType /\ Exact(Old)
  BY Zenon, StoreFacts
<1>3. WorkExact(Old) /\ RelationExact(Old)
  BY Zenon, <1>2 DEF Exact
<1>4. R \in DeltaType /\ SameData(Old, R) /\ SameWork(Old, R)
  BY Zenon, <1>1, <1>2 DEF DeltaType, SameData, SameWork
<1>5. Exact(R) /\ R.d = Old.d
  BY Zenon, <1>2, <1>3, <1>4, SameDataExact, SameWorkExact DEF Exact, SameData
<1>6. /\ rows' = [rows EXCEPT ![active] = R]
      /\ Free /\ UNCHANGED <<active, op, handle, staging>>
  BY Zenon, <1>1 DEF AcknowledgeRelated, Write, metaVars
<1> QED
  BY Zenon, <1>4, <1>5, <1>6, ActiveWrite

=============================================================================
