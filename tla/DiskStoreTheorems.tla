------------------------- MODULE DiskStoreTheorems -------------------------
(***************************************************************************)
(* What DiskStore promises to those who depend on it, for every set of     *)
(* keys, owners and versions and every bound: its indexes are exact, the   *)
(* publication of a listing loses no work and adds none, a fanout enqueues *)
(* all of its range, and no change of a relation stays without a           *)
(* notification.                                                           *)
(*                                                                         *)
(* All rest on StoreInv, which each call keeps (DiskStoreProofs).  The     *)
(* last two add what the actors beside the store know: the positions of    *)
(* the fanout tasks, and the page of related work that maintainDiskPage    *)
(* holds while the store goes on.                                          *)
(***************************************************************************)
EXTENDS MCDiskStore, DiskStoreProofs

-----------------------------------------------------------------------------
(* The invariant and what follows from it.                                 *)

\* The calls of a listing
LEMMA SnapshotCallsKeep ==
    ASSUME StoreInv, SnapshotCalls
    PROVE  IndexInv' /\ Listed' /\ Merged' /\ Unlisted'
<1>1. CASE BeginSnapshot
  <2>1. UNCHANGED <<rows, active>> /\ handle' = 0 /\ op'.name # "finish"
    BY Zenon, <1>1 DEF BeginSnapshot, metaVars, Idle
  <2> QED
    BY Zenon, <2>1, QuietStep
<1>2. CASE BeginSnapshotCommit
  BY Zenon, <1>2, BeginKeeps
<1>3. CASE DeletePage
  BY Zenon, <1>3, DeletePageKeeps
<1>4. CASE \E k \in Keys, item \in Item : PutSnapshotPage(k, item)
  BY Zenon, <1>4, PutSnapshotPageKeeps
<1>5. CASE \E c \in cursor..MaxCursor : c > 0 /\ FinishSnapshot(c)
  BY Zenon, <1>5, FinishSnapshotKeeps
<1>6. CASE FinishPage
  BY Zenon, <1>6, FinishPageKeeps
<1>7. CASE FinishFamily
  BY Zenon, <1>7, FinishFamilyKeeps
<1>8. CASE Publish
  BY Zenon, <1>8, PublishKeeps
<1>9. CASE CollectGarbage \/ DiscardStaging
  <2>1. UNCHANGED <<rows, active>> /\ handle' = 0 /\ op'.name # "finish"
    BY Zenon, <1>9 DEF CollectGarbage, DiscardStaging, metaVars, Idle
  <2> QED
    BY Zenon, <2>1, QuietStep
<1>10. CASE CollectGarbageCommit \/ DiscardStagingCommit
  <2>1. UNCHANGED <<rows, active>> /\ op'.name # "finish" /\ handle' = handle
    BY <1>10 DEF CollectGarbageCommit, DiscardStagingCommit, Idle
  <2>2. handle = 0
    BY Zenon, <1>10 DEF StoreInv, MetaInv, CollectGarbageCommit, DiscardStagingCommit
  <2> QED
    BY Zenon, <2>1, <2>2, QuietStep
<1>11. CASE Interrupt
  <2>1. UNCHANGED <<rows, active>> /\ handle' = 0 /\ op'.name # "finish"
    BY Zenon, <1>11 DEF Interrupt, metaVars, Idle
  <2> QED
    BY Zenon, <2>1, QuietStep
<1> QED
  BY Zenon, <1>1, <1>2, <1>3, <1>4, <1>5, <1>6, <1>7, <1>8, <1>9, <1>10, <1>11
     DEF SnapshotCalls

\* The calls of a watch
LEMMA WatchCallsKeep ==
    ASSUME StoreInv, WatchCalls
    PROVE  IndexInv' /\ Listed' /\ Merged' /\ Unlisted'
<1>1. CASE \E k \in Keys, item \in Item, enqueue \in BOOLEAN : Apply(k, item, enqueue, cursor + 1)
  <2>1. PICK k \in Keys, item \in Item, enqueue \in BOOLEAN : Apply(k, item, enqueue, cursor + 1)
    BY Zenon, <1>1
  <2>2. item \in Item \cup {NoItem}
    BY Zenon
  <2> QED
    BY Zenon, <2>1, <2>2, ApplyKeeps
<1>2. CASE \E k \in Keys : Apply(k, NoItem, TRUE, cursor + 1)
  <2>1. PICK k \in Keys, item \in Item \cup {NoItem}, enqueue \in BOOLEAN :
          Apply(k, item, enqueue, cursor + 1)
    BY Zenon, <1>2
  <2> QED
    BY Zenon, <2>1, ApplyKeeps
<1>3. CASE AdvanceCursor(cursor + 1)
  <2>1. UNCHANGED <<rows, active>> /\ UNCHANGED <<op, handle, staging>>
    BY Zenon, <1>3 DEF AdvanceCursor
  <2> QED
    BY Zenon, <2>1, QuietStep
<1> QED
  BY Zenon, <1>1, <1>2, <1>3 DEF WatchCalls

\* The calls of the dispatcher and of the reconcilers
LEMMA WorkCallsKeep ==
    ASSUME StoreInv, WorkCalls
    PROVE  IndexInv' /\ Listed' /\ Merged' /\ Unlisted'
<1>a. Token \in Nat \ {0} /\ now \in Nat /\ Old \in DeltaType
  BY Zenon, StoreFacts
<1>b. PICK live, replay : live = Live(Token) /\ replay = Replay(Token)
  BY Zenon
<1>c. /\ live \in Schedule /\ live.token # 0
      /\ replay \in Schedule /\ replay.token # 0
  BY Zenon, <1>a, <1>b DEF Live, Replay, Schedule
<1>1. CASE \E k \in Keys : Enqueue(k)
  <2>1. PICK k \in Keys : Enqueue(k)
    BY Zenon, <1>1
  <2>2. /\ Free /\ UNCHANGED <<active, op, handle, staging>>
        /\ Write(active, QueueWork(Old, k, live))
    BY Zenon, <1>b, <2>1 DEF Enqueue, metaVars
  <2> QED
    BY Zenon, <1>c, <2>2, QueueKeeps
<1>2. CASE \E k \in Keys : Acknowledge(k, Old.w[k])
  BY Zenon, <1>2, AcknowledgeKeeps
<1>3. CASE \E k \in Keys, delay \in 0..1, failed \in BOOLEAN : DeferWork(k, Old.w[k], delay, failed)
  <2>1. PICK k \in Keys, delay \in 0..1, failed \in BOOLEAN : DeferWork(k, Old.w[k], delay, failed)
    BY Zenon, <1>3
  <2>2. PICK z : z = [token |-> Old.w[k], due |-> now + delay, priority |-> 0,
                      quarantined |-> failed]
    BY Zenon
  <2>3. /\ Free /\ UNCHANGED <<active, op, handle, staging>> /\ Old.w[k] # 0
        /\ Write(active, QueueWork(Old, k, z))
    BY Zenon, <2>1, <2>2 DEF DeferWork, metaVars
  <2>4. z \in Schedule /\ z.token # 0
    BY <1>a, <2>2, <2>3 DEF Schedule, DeltaType
  <2> QED
    BY Zenon, <2>3, <2>4, QueueKeeps
<1>4. CASE \E o \in Owners : AcknowledgeRelated(o, Old.r[o])
  BY Zenon, <1>4, AcknowledgeRelatedKeeps
<1>5. CASE FanoutPage
  <2>1. Free /\ UNCHANGED <<active, op, handle, staging>>
    BY Zenon, <1>5 DEF FanoutPage, metaVars
  <2>2. PICK k \in Keys : \/ UNCHANGED rows
                          \/ Write(active, QueueWork(Old, k, Replay(Token)))
                          \/ Write(active, QueueWork(Old, k, Live(Token)))
    BY Zenon, <1>5 DEF FanoutPage
  <2>3. CASE UNCHANGED rows
    BY Zenon, <2>1, <2>3, QuietStep
  <2>4. CASE Write(active, QueueWork(Old, k, replay))
    BY Zenon, <1>c, <2>1, <2>4, QueueKeeps
  <2>5. CASE Write(active, QueueWork(Old, k, live))
    BY Zenon, <1>c, <2>1, <2>5, QueueKeeps
  <2> QED
    BY Zenon, <1>b, <2>2, <2>3, <2>4, <2>5
<1>6. CASE FanoutDone \/ \E t \in Requests : RequestFanout(t)
  <2>1. UNCHANGED <<rows, active>> /\ UNCHANGED <<op, handle, staging>>
    BY Zenon, <1>6 DEF FanoutDone, RequestFanout, metaVars
  <2> QED
    BY Zenon, <2>1, QuietStep
<1>7. 0 \in 0..1
  OBVIOUS
<1>8. (\E k \in Keys : DeferWork(k, Old.w[k], 0, TRUE)) =>
         \E k \in Keys, delay \in 0..1, failed \in BOOLEAN : DeferWork(k, Old.w[k], delay, failed)
  BY Zenon, <1>7
<1>9. (\E k \in Keys, delay \in 0..1 : DeferWork(k, Old.w[k], delay, FALSE)) =>
         \E k \in Keys, delay \in 0..1, failed \in BOOLEAN : DeferWork(k, Old.w[k], delay, failed)
  BY Zenon
<1> QED
  BY Zenon, <1>1, <1>2, <1>3, <1>4, <1>5, <1>6, <1>8, <1>9 DEF WorkCalls, OtherWorkCalls

\* An empty database
LEMMA StoreInit == Init => StoreInv
<1> SUFFICES ASSUME Init PROVE StoreInv
  OBVIOUS
<1>1. TypeOK /\ MetaInv
  BY Zenon, TypeInit, MetaInit
<1>2. active = 0 /\ handle = 0 /\ op.name # "finish" /\ 0 \in Generations
  BY ConstantsAssumption DEF Init, Idle, Generations
<1>3. Old = EmptyRows /\ Whole = {0} /\ rows[0] = EmptyRows
  BY Zenon, <1>2 DEF Init, Old, Whole
<1>4. IndexInv
  BY Zenon, <1>3, EmptyExact DEF IndexInv
<1>5. Unlisted
  BY Zenon, <1>3 DEF Unlisted, EmptyRows
<1> QED
  BY Zenon, <1>1, <1>2, <1>4, <1>5 DEF StoreInv, Listed, Merged

\* The families of FinishSnapshot
LEMMA FamilyStep ==
    ASSUME StoreInv, [Next]_vars, op'.name = "finish"
    PROVE  op'.family \in {"d", "w", "r"}
<1>1. CASE op' = op
  BY Zenon, <1>1 DEF StoreInv
<1>2. CASE \E c \in cursor..MaxCursor : c > 0 /\ FinishSnapshot(c)
  BY Zenon, <1>2 DEF FinishSnapshot, Idle
<1>3. CASE FinishPage \/ FinishFamily \/ DeletePage
  BY Zenon, <1>3 DEF FinishPage, FinishFamily, DeletePage, StoreInv, TypeOK, OpType
<1>4. CASE op' # op /\ op'.name = "finish" /\ SnapshotCalls
  <2>1. op' # Idle /\ ~ BeginSnapshot /\ ~ CollectGarbage /\ ~ DiscardStaging
    <3>1. op' # Idle
      BY <1>4 DEF Idle
    <3>2. BeginSnapshot => op'.name = "begin"
      BY Zenon DEF Idle, BeginSnapshot
    <3>3. CollectGarbage => op'.name = "collect"
      BY Zenon DEF Idle, CollectGarbage
    <3>4. DiscardStaging => op'.name = "discard"
      BY Zenon DEF Idle, DiscardStaging
    <3> QED
      BY Zenon, <1>4, <3>1, <3>2, <3>3, <3>4
  <2>2. ~ BeginSnapshotCommit /\ ~ Publish /\ ~ CollectGarbageCommit /\ ~ DiscardStagingCommit
        /\ ~ Interrupt
    BY Zenon, <2>1 DEF BeginSnapshotCommit, Publish, CollectGarbageCommit, DiscardStagingCommit,
       Interrupt
  <2>3. \A k \in Keys, item \in Item : ~ PutSnapshotPage(k, item)
    BY Zenon, <1>4 DEF PutSnapshotPage
  <2> QED
    BY Zenon, <1>2, <1>3, <1>4, <2>1, <2>2, <2>3 DEF SnapshotCalls
<1>5. CASE WatchCalls \/ WorkCalls \/ Tick \/ UNCHANGED vars
  <2>1. op' = op
    BY Zenon, <1>5 DEF WatchCalls, WorkCalls, OtherWorkCalls, Tick, vars, Apply, AdvanceCursor,
       Enqueue, Acknowledge, DeferWork, AcknowledgeRelated, FanoutPage, FanoutDone, RequestFanout
  <2> QED
    BY Zenon, <1>1, <2>1
<1> QED
  BY Zenon, <1>1, <1>4, <1>5 DEF Next

\* Every call keeps the invariant.
LEMMA StoreStep == StoreInv /\ [Next]_vars => StoreInv'
<1> SUFFICES ASSUME StoreInv, [Next]_vars PROVE StoreInv'
  OBVIOUS
<1>1. TypeOK' /\ MetaInv'
  BY Zenon, TypeStep, MetaStep DEF StoreInv
<1>2. IndexInv' /\ Listed' /\ Merged' /\ Unlisted'
  <2>1. CASE SnapshotCalls
    BY Zenon, <2>1, SnapshotCallsKeep
  <2>2. CASE WatchCalls
    BY Zenon, <2>2, WatchCallsKeep
  <2>3. CASE WorkCalls
    BY Zenon, <2>3, WorkCallsKeep
  <2>4. CASE Tick \/ UNCHANGED vars
    <3>1. UNCHANGED <<rows, active>> /\ UNCHANGED <<op, handle, staging>>
      BY Zenon, <2>4 DEF Tick, vars, metaVars
    <3> QED
      BY Zenon, <3>1, QuietStep
  <2> QED
    BY Zenon, <2>1, <2>2, <2>3, <2>4 DEF Next
<1>3. op'.name = "finish" => op'.family \in {"d", "w", "r"}
  BY Zenon, FamilyStep
<1> QED
  BY Zenon, <1>1, <1>2, <1>3 DEF StoreInv

\* The inductive invariant of the store holds in every state.
THEOREM StoreInvariant == Spec => []StoreInv
  BY StoreInit, StoreStep, PTL DEF Spec

\* WorkIndexExact: whatever calls were made and wherever they were interrupted, the ready index,
\* the quarantine rows, the schedules and the counters that forgetWork and queueWork maintain by
\* difference agree with the work rows.
THEOREM WorkIndexesExact == Spec => []WorkIndexExact
<1>1. StoreInv => WorkIndexExact
  BY Zenon DEF StoreInv, IndexInv, Exact, WorkExact, WorkIndexExact
<1> QED
  BY <1>1, StoreInvariant, PTL

\* RelationIndexExact: the relation index and the counters put maintains agree with the resources.
THEOREM RelationIndexesExact == Spec => []RelationIndexExact
<1>1. StoreInv => RelationIndexExact
  BY Zenon DEF StoreInv, IndexInv, Exact, RelationExact, RelationIndexExact
<1> QED
  BY <1>1, StoreInvariant, PTL

-----------------------------------------------------------------------------
(* Publication.                                                            *)

\* Only Publish changes the published generation.
LEMMA OnlyPublish ==
    ASSUME [Next]_vars, active' # active
    PROVE  Publish
<1>1. CASE SnapshotCalls
  BY Zenon, <1>1 DEF SnapshotCalls, metaVars, BeginSnapshot, BeginSnapshotCommit, DeletePage,
     PutSnapshotPage, FinishSnapshot, FinishPage, FinishFamily, CollectGarbage,
     CollectGarbageCommit, DiscardStaging, DiscardStagingCommit, Interrupt
<1>2. CASE WatchCalls \/ WorkCalls \/ Tick \/ UNCHANGED vars
  BY Zenon, <1>2 DEF WatchCalls, WorkCalls, OtherWorkCalls, Tick, vars, metaVars, Apply,
     AdvanceCursor, Enqueue, Acknowledge, DeferWork, AcknowledgeRelated, FanoutPage, FanoutDone,
     RequestFanout
<1> QED
  BY Zenon, <1>1, <1>2 DEF Next

\* What the generation that Publish publishes has, compared with the old one
LEMMA PublishedRows ==
    ASSUME StoreInv, [Next]_vars, active' # active, NEW N, N = rows'[active']
    PROVE  /\ \A k \in Keys : Old.w[k] # 0 \/ Old.d[k] # N.d[k] => N.w[k] # 0
           /\ \A k \in Keys :
                Old.d[k] # NoItem /\ Old.d[k] = N.d[k] /\ Old.w[k] = 0 => N.w[k] = 0
           /\ \A k \in Old.p : Old.d[k] = N.d[k] => k \in N.p
           /\ \A o \in Owners : Old.r[o] # 0 \/ Old.i[o] # N.i[o] => N.r[o] # 0
<1>1. Publish
  BY Zenon, OnlyPublish
<1>2. N = New /\ op.name = "finish" /\ op.family = "r"
  BY Zenon, <1>1 DEF Publish, New
<1>3. \A o \in Owners : Old.r[o] # 0 => PassedRelated(o)
  <2>1. FamilyKeys("r") = RelatedKeys(Old)
    BY Zenon DEF FamilyKeys
  <2> QED
    BY Zenon, <1>1, <1>2, <2>1 DEF Publish, FamilyDone, RelatedKeys, PassedRelated
<1>4. \A k \in Keys : PassedData(k) /\ PassedWork(k)
  BY Zenon, <1>2 DEF PassedData, PassedWork
<1>5. /\ \A k \in Keys : Old.d[k] # NoItem =>
           /\ Old.d[k] # New.d[k] => New.w[k] # 0
           /\ Old.d[k] = New.d[k] /\ Old.w[k] = 0 => New.w[k] = 0
           /\ Old.d[k].own # New.d[k].own => New.r[Old.d[k].own] # 0
      /\ \A k \in Keys : Old.w[k] # 0 =>
           /\ New.w[k] # 0
           /\ Old.d[k] = New.d[k] =>
                ScheduleOf(New, k).quarantined = ScheduleOf(Old, k).quarantined
      /\ \A o \in Owners : Old.r[o] # 0 => New.r[o] # 0
  BY Zenon, <1>2, <1>3, <1>4 DEF StoreInv, Merged
<1>6. handle # 0 /\ Exact(Old) /\ Exact(New) /\ Old \in DeltaType /\ New \in DeltaType
  BY Zenon, <1>2, StoreFacts
<1>7. \A k \in Keys : New.d[k] # NoItem =>
        New.r[New.d[k].own] # 0 /\ (Old.d[k] = NoItem => New.w[k] # 0)
  BY Zenon, <1>6 DEF StoreInv, Listed
<1>8. \A k \in Old.p : Old.d[k] = New.d[k] => k \in New.p
  BY Zenon, <1>5, <1>6 DEF Exact, WorkExact, WorkKeys
<1>9. ASSUME NEW o \in Owners, Old.i[o] # New.i[o]
      PROVE  New.r[o] # 0
  <2>1. PICK k \in Keys : (Old.d[k].own = o) # (New.d[k].own = o)
    <3>1. /\ Old.i[o] = {k \in Keys : Old.d[k].own = o}
          /\ New.i[o] = {k \in Keys : New.d[k].own = o}
      BY Zenon, <1>6 DEF Exact, RelationExact
    <3> QED
      BY Zenon, <1>9, <3>1
  <2>2. NoItem.own # o
    BY Zenon, ConstantsAssumption DEF NoItem
  <2>3. CASE New.d[k].own = o
    BY Zenon, <1>7, <2>2, <2>3
  <2>4. CASE New.d[k].own # o
    <3>1. Old.d[k].own = o
      BY Zenon, <2>1, <2>4
    <3> QED
      BY Zenon, <1>5, <2>2, <2>4, <3>1
  <2> QED
    BY Zenon, <2>3, <2>4
<1> QED
  BY Zenon, <1>2, <1>5, <1>7, <1>8, <1>9

\* PublishExact: the generation FinishSnapshot publishes carries over all unfinished work, all
\* quarantines of unchanged resources and all notifications, turns every difference between the
\* two listings into work, and nothing else.
THEOREM PublicationExact == Spec => PublishExact
<1>1. StoreInv /\ [Next]_vars =>
        [active' # active =>
           LET N == rows'[active'] IN
           /\ \A k \in Keys : Old.w[k] # 0 \/ Old.d[k] # N.d[k] => N.w[k] # 0
           /\ \A k \in Keys :
                Old.d[k] # NoItem /\ Old.d[k] = N.d[k] /\ Old.w[k] = 0 => N.w[k] = 0
           /\ \A k \in Old.p : Old.d[k] = N.d[k] => k \in N.p
           /\ \A o \in Owners : Old.r[o] # 0 \/ Old.i[o] # N.i[o] => N.r[o] # 0]_vars
  BY Zenon, PublishedRows
<1> QED
  BY <1>1, StoreInvariant, PTL DEF Spec, PublishExact

-----------------------------------------------------------------------------
(* Fanout tasks.                                                           *)

\* What task t owes is in its range, and ahead of it unless the task has to restart; a task was
\* last moved in a generation that is or was published.
Covered(t) ==
    /\ fanout[t] = NoTask => owed[t] = {}
    /\ fanout[t] # NoTask /\ fanout[t].gen = active => \A k \in owed[t] : k > fanout[t].after
    /\ owed[t] \subseteq InRange(t, Old)
    /\ fanout[t].gen <= active

\* The inductive invariant: with it the generations of listings are new.
FanoutInv ==
    /\ StoreInv
    /\ owed \in [Tasks -> SUBSET Keys]
    /\ staging # 0 => active < staging
    /\ \A t \in Tasks : Covered(t)

\* Nothing is owed in an empty database.
LEMMA FanoutInit == InitOwed => FanoutInv
<1> SUFFICES ASSUME InitOwed PROVE FanoutInv
  OBVIOUS
<1>1. StoreInv
  BY Zenon, StoreInit DEF InitOwed
<1>2. \A t \in Tasks : owed[t] = {} /\ fanout[t] = NoTask
  BY Zenon DEF InitOwed, Init
<1>3. active = 0 /\ staging = 0 /\ owed \in [Tasks -> SUBSET Keys]
  BY Zenon DEF InitOwed, Init
<1>4. \A t \in Tasks : Covered(t)
  BY <1>2, <1>3 DEF Covered, NoTask
<1> QED
  BY Zenon, <1>1, <1>3, <1>4 DEF FanoutInv

\* The number of a listing is new: BeginSnapshot takes it from the counter.
LEMMA StagingIsNew ==
    ASSUME FanoutInv, [Next]_vars, staging' # 0
    PROVE  active' < staging'
<1>1. CASE UNCHANGED <<active, staging>>
  BY Zenon, <1>1 DEF FanoutInv
<1>2. CASE BeginSnapshotCommit
  <2>1. active' = active /\ staging' = generation + 1 /\ active <= generation
    BY Zenon, <1>2 DEF BeginSnapshotCommit, FanoutInv, StoreInv, MetaInv
  <2>2. active \in Int /\ generation \in Int
    BY DEF FanoutInv, StoreInv, TypeOK, Generations
  <2> QED
    BY <2>1, <2>2
<1>3. CASE Publish \/ DiscardStagingCommit
  BY Zenon, <1>3 DEF Publish, DiscardStagingCommit
<1>4. CASE SnapshotCalls
  <2>1. BeginSnapshotCommit \/ Publish \/ DiscardStagingCommit \/ UNCHANGED <<active, staging>>
    BY Zenon, <1>4 DEF SnapshotCalls, metaVars, BeginSnapshot, DeletePage,
     PutSnapshotPage, FinishSnapshot, FinishPage, FinishFamily, CollectGarbage,
     CollectGarbageCommit, DiscardStaging, Interrupt
  <2> QED
    BY Zenon, <2>1, <1>1, <1>2, <1>3
<1>5. CASE WatchCalls \/ WorkCalls \/ Tick \/ UNCHANGED vars
  <2>1. UNCHANGED <<active, staging>>
    BY Zenon, <1>5 DEF WatchCalls, WorkCalls, OtherWorkCalls, Tick, vars, metaVars, Apply,
     AdvanceCursor, Enqueue, Acknowledge, DeferWork, AcknowledgeRelated, FanoutPage, FanoutDone,
     RequestFanout
  <2> QED
    BY Zenon, <2>1, <1>1
<1> QED
  BY Zenon, <1>4, <1>5 DEF Next

\* The types a fanout step uses.
LEMMA FanoutFacts ==
    ASSUME FanoutInv
    PROVE  /\ active \in Nat /\ staging \in Nat /\ Keys \subseteq Nat \ {0}
           /\ \A t \in Tasks : /\ fanout[t].gen \in Int /\ fanout[t].after \in Nat
                               /\ InRange(t, Old) \subseteq Keys /\ owed[t] \subseteq Keys
                               /\ InRange(t, Old) = Members(t)
           /\ fanout \in [Tasks -> TaskType]
<1>1. /\ active \in Nat /\ staging \in Nat /\ Keys \subseteq Nat \ {0}
      /\ fanout \in [Tasks -> TaskType]
  BY ConstantsAssumption DEF FanoutInv, StoreInv, TypeOK, Generations
<1>2. \A t \in Tasks : fanout[t].gen \in Int /\ fanout[t].after \in Nat
  BY <1>1 DEF TaskType, Generations
<1>3. \A o \in Owners : Old.i[o] \subseteq Keys
  BY StoreFacts DEF FanoutInv, DeltaType
<1>4. \A t \in Tasks : InRange(t, Old) \subseteq Keys /\ InRange(t, Old) = Members(t)
  BY Zenon, <1>3 DEF InRange, Members, Tasks, DataKeys
<1>5. \A t \in Tasks : owed[t] \subseteq Keys
  BY Zenon DEF FanoutInv
<1> QED
  BY Zenon, <1>1, <1>2, <1>4, <1>5

\* What Discharge leaves of what was owed
LEMMA Discharged ==
    ASSUME FanoutInv, Discharge
    PROVE  /\ owed' \in [Tasks -> SUBSET Keys]
           /\ \A t \in Tasks : /\ owed'[t] \subseteq owed[t]
                               /\ owed'[t] \subseteq InRange(t, Old)'
                               /\ \A k \in owed'[t] : ~ Enqueued(k) /\ ~ Swept(t, k)
<1>1. \A t \in Tasks : owed'[t] = {k \in owed[t] : /\ k \in InRange(t, rows'[active'])
                                                   /\ ~ Enqueued(k)
                                                   /\ ~ Swept(t, k)}
  BY Zenon DEF Discharge
<1>2. \A t \in Tasks : InRange(t, Old)' = InRange(t, rows'[active'])
  BY Zenon DEF InRange, Old, DataKeys
<1>3. owed' \in [Tasks -> SUBSET Keys]
  BY Zenon DEF FanoutInv, Discharge
<1> QED
  BY Zenon, <1>1, <1>2, <1>3

\* A step that moves no task: the rows may change, and the generation may be published.
LEMMA CoveredStill ==
    ASSUME FanoutInv, Discharge, UNCHANGED fanout,
           \/ UNCHANGED active
           \/ active' = staging /\ staging # 0
    PROVE  \A t \in Tasks : Covered(t)'
<1> SUFFICES ASSUME NEW t \in Tasks PROVE Covered(t)'
  OBVIOUS
<1>1. owed'[t] \subseteq owed[t] /\ owed'[t] \subseteq InRange(t, Old)'
  BY Zenon, Discharged
<1>2. /\ fanout[t] = NoTask => owed[t] = {}
      /\ fanout[t] # NoTask /\ fanout[t].gen = active => \A k \in owed[t] : k > fanout[t].after
      /\ fanout[t].gen <= active
  BY Zenon DEF FanoutInv, Covered
<1>3. CASE UNCHANGED active
  BY Zenon, <1>1, <1>2, <1>3 DEF Covered
<1>4. CASE active' = staging /\ staging # 0
  <2>1. fanout[t].gen < active'
    BY <1>2, <1>4, FanoutFacts DEF FanoutInv
  <2>2. fanout[t].gen # active' /\ fanout[t].gen <= active'
    BY <2>1, <1>4, FanoutFacts
  <2> QED
    BY Zenon, <1>1, <1>2, <2>2 DEF Covered
<1> QED
  BY Zenon, <1>3, <1>4

\* A new request owes its whole range and starts in front of it.
LEMMA RequestCovers ==
    ASSUME FanoutInv, NEW t \in Tasks, RequestFanout(t),
           owed' = [owed EXCEPT ![t] = InRange(t, rows[active])]
    PROVE  owed' \in [Tasks -> SUBSET Keys] /\ \A u \in Tasks : Covered(u)'
<1>1. /\ UNCHANGED <<rows, active>> /\ fanout' = [fanout EXCEPT ![t] = FreshTask]
  BY Zenon DEF RequestFanout, metaVars
<1>2. Old' = Old /\ InRange(t, rows[active]) = InRange(t, Old)
  BY Zenon, <1>1 DEF Old
<1>3. owed'[t] = InRange(t, Old) /\ owed' \in [Tasks -> SUBSET Keys]
  BY Zenon, <1>2, FanoutFacts DEF FanoutInv
<1>4. fanout'[t] = FreshTask /\ FreshTask.gen = 0 /\ FreshTask.after = 0 /\ FreshTask # NoTask
  BY <1>1, FanoutFacts DEF FreshTask, NoTask
<1>5. \A u \in Tasks : InRange(u, Old)' = InRange(u, Old)
  BY Zenon, <1>2 DEF InRange, DataKeys
<1>6. Covered(t)'
  <2>1. 0 <= active /\ \A k \in InRange(t, Old) : k > 0
    BY FanoutFacts
  <2> QED
    BY Zenon, <1>1, <1>3, <1>4, <1>5, <2>1 DEF Covered
<1>7. ASSUME NEW u \in Tasks, u # t PROVE Covered(u)'
  <2>1. fanout'[u] = fanout[u] /\ owed'[u] = owed[u]
    BY <1>1, <1>7, FanoutFacts DEF FanoutInv
  <2> QED
    BY Zenon, <1>1, <1>5, <2>1 DEF FanoutInv, Covered
<1> QED
  BY Zenon, <1>3, <1>6, <1>7

\* forgetWork notifies nobody.
LEMMA ForgetTokens ==
    ASSUME NEW R \in DeltaType, NEW k \in Keys, NEW F, F = ForgetWork(R, k)
    PROVE  F \in DeltaType /\ F.r = R.r
<1>1. F \in DeltaType
  BY Zenon, ForgetWorkType
<1>2. CASE R.w[k] = 0
  BY Zenon, <1>1, <1>2 DEF ForgetWork
<1>3. CASE R.w[k] # 0
  <2>1. /\ F \in DeltaType /\ SameData(R, F) /\ F.r = R.r
        /\ F.w = [R.w EXCEPT ![k] = 0] /\ F.s = [R.s EXCEPT ![k] = NoSchedule]
        /\ F.q = R.q \ {ReadyRow(k, ScheduleOf(R, k))} /\ F.p = R.p \ {k}
        /\ F.pending = R.pending - 1
        /\ F.poison = IF ScheduleOf(R, k).quarantined THEN R.poison - 1 ELSE R.poison
    BY <1>3, ForgetWorkRows
  <2> QED
    BY Zenon, <2>1
<1> QED
  BY Zenon, <1>1, <1>2, <1>3

\* queueWork gives the key the requested token and notifies nobody.
LEMMA QueueTokens ==
    ASSUME NEW R \in DeltaType, NEW k \in Keys, NEW requested \in Schedule, now \in Nat,
           NEW Q, Q = QueueWork(R, k, requested)
    PROVE  Q \in DeltaType /\ Q.w[k] = requested.token /\ Q.r = R.r
<1>1. PICK F : F = ForgetWork(R, k)
  BY Zenon
<1>2. F \in DeltaType /\ F.r = R.r
  BY Zenon, <1>1, ForgetTokens
<1>4. Q \in DeltaType
  BY Zenon, QueueWorkType
<1>5. PICK state : state = IF requested.priority = 0 /\ requested.due = 0
                           THEN [requested EXCEPT !.due = now] ELSE requested
  BY Zenon
<1>6. state.token = requested.token
  BY Zenon, <1>5 DEF Schedule
<1>7. Q.w = [F.w EXCEPT ![k] = state.token] /\ Q.r = F.r
  BY Zenon, <1>1, <1>2, <1>5 DEF QueueWork, DeltaType
<1> QED
  BY <1>2, <1>4, <1>6, <1>7 DEF DeltaType

\* A page of ProcessFanout passes one resource, which it enqueues or finds to have work.
LEMMA PageCovers ==
    ASSUME FanoutInv, FanoutPage, Discharge
    PROVE  \A u \in Tasks : Covered(u)'
<1>1. PICK t \in Tasks, k \in Keys :
         /\ FirstTask(t)
         /\ IsNext(k, Members(t), Resumed(t).after)
         /\ fanout' = [fanout EXCEPT ![t] = [gen |-> active, after |-> k]]
         /\ \/ /\ t = Star /\ Old.w[k] # 0
               /\ UNCHANGED <<rows, sequence>>
            \/ /\ t = Star /\ Old.w[k] = 0
               /\ NextToken
               /\ Write(active, QueueWork(Old, k, Replay(Token)))
            \/ /\ t # Star
               /\ NextToken
               /\ Write(active, QueueWork(Old, k, Live(Token)))
  BY Zenon DEF FanoutPage
<1>2. UNCHANGED active
  BY Zenon DEF FanoutPage, metaVars
<1>3. /\ fanout'[t].gen = active /\ fanout'[t].after = k /\ fanout'[t] # NoTask
      /\ \A u \in Tasks \ {t} : fanout'[u] = fanout[u]
  BY <1>1, FanoutFacts DEF NoTask
<1>4. \A u \in Tasks : /\ owed'[u] \subseteq owed[u] /\ owed'[u] \subseteq InRange(u, Old)'
                       /\ \A j \in owed'[u] : ~ Enqueued(j) /\ ~ Swept(u, j)
  BY Zenon, Discharged
<1>5. k \notin owed'[t]
  <2>1. CASE t = Star /\ Old.w[k] # 0
    BY Zenon, <1>3, <1>4, <2>1 DEF Swept, Old
  <2>2. ASSUME NEW z \in Schedule, z.token = Token, Write(active, QueueWork(Old, k, z))
        PROVE  Enqueued(k)
    <3>1. PICK Q : Q = QueueWork(Old, k, z)
      BY Zenon
    <3>2. Old \in DeltaType /\ now \in Nat /\ sequence \in Nat
      <4>1. sequence \in Nat
        BY ConstantsAssumption DEF FanoutInv, StoreInv, TypeOK
      <4> QED
        BY Zenon, <4>1, StoreFacts DEF FanoutInv
    <3>3. Q.w[k] = Token
      BY <2>2, <3>1, <3>2, QueueTokens
    <3>4. rows'[active] = Q
      BY <2>2, <3>1, StoreFacts DEF FanoutInv, Write
    <3>5. Token > sequence
      BY <3>2 DEF Token
    <3> QED
      BY Zenon, <1>2, <3>3, <3>4, <3>5 DEF Enqueued
  <2>3. /\ Live(Token) \in Schedule /\ Live(Token).token = Token
        /\ Replay(Token) \in Schedule /\ Replay(Token).token = Token
    <3>1. Token \in Nat
      BY StoreFacts DEF FanoutInv
    <3> QED
      BY <3>1 DEF Live, Replay, Schedule
  <2>4. CASE Write(active, QueueWork(Old, k, Live(Token)))
    BY Zenon, <1>4, <2>2, <2>3, <2>4
  <2>5. CASE Write(active, QueueWork(Old, k, Replay(Token)))
    BY Zenon, <1>4, <2>2, <2>3, <2>5
  <2> QED
    BY Zenon, <1>1, <2>1, <2>4, <2>5
<1>6. ASSUME NEW j \in owed'[t] PROVE j > k
  <2>1. j \in Members(t) /\ j \in Keys /\ j # k
    BY Zenon, <1>4, <1>5, <1>6, FanoutFacts DEF FanoutInv, Covered
  <2>2. j > Resumed(t).after
    <3>1. CASE fanout[t].gen = active
      BY Zenon, <1>1, <1>4, <1>6, <3>1 DEF FanoutInv, Covered, Resumed, FirstTask
    <3>2. CASE fanout[t].gen # active
      <4>1. Resumed(t).after = 0
        BY Zenon, <3>2 DEF Resumed
      <4> QED
        BY <2>1, <4>1, FanoutFacts
    <3> QED
      BY Zenon, <3>1, <3>2
  <2>3. k <= j
    BY Zenon, <1>1, <2>1, <2>2 DEF IsNext
  <2> QED
    BY <2>1, <2>3, FanoutFacts
<1>7. Covered(t)'
  <2>1. active <= active
    BY FanoutFacts
  <2> QED
    BY Zenon, <1>2, <1>3, <1>4, <1>6, <2>1 DEF Covered
<1>8. ASSUME NEW u \in Tasks, u # t PROVE Covered(u)'
  BY Zenon, <1>2, <1>3, <1>4, <1>8 DEF FanoutInv, Covered
<1> QED
  BY Zenon, <1>7, <1>8

\* An empty page of ProcessFanout: everything in the range is behind the task.
LEMMA DoneCovers ==
    ASSUME FanoutInv, FanoutDone, Discharge
    PROVE  \A u \in Tasks : Covered(u)'
<1>1. PICK t \in Tasks : /\ FirstTask(t)
                         /\ \A k \in Members(t) : k <= Resumed(t).after
                         /\ fanout' = [fanout EXCEPT ![t] = NoTask]
  BY Zenon DEF FanoutDone
<1>2. UNCHANGED active
  BY Zenon DEF FanoutDone, metaVars
<1>3. fanout'[t] = NoTask /\ \A u \in Tasks \ {t} : fanout'[u] = fanout[u]
  BY <1>1, FanoutFacts
<1>4. \A u \in Tasks : owed'[u] \subseteq owed[u] /\ owed'[u] \subseteq InRange(u, Old)'
  BY Zenon, Discharged
<1>5. owed[t] = {}
  <2> SUFFICES ASSUME NEW j \in owed[t] PROVE FALSE
    OBVIOUS
  <2>1. j \in Members(t) /\ j \in Keys
    BY Zenon, FanoutFacts DEF FanoutInv, Covered
  <2>2. j <= Resumed(t).after
    BY Zenon, <1>1, <2>1
  <2>3. CASE fanout[t].gen = active
    <3>1. j > fanout[t].after /\ Resumed(t).after = fanout[t].after
      BY Zenon, <1>1, <2>3 DEF FanoutInv, Covered, Resumed, FirstTask
    <3> QED
      BY <2>1, <2>2, <3>1, FanoutFacts
  <2>4. CASE fanout[t].gen # active
    <3>1. Resumed(t).after = 0
      BY <2>4 DEF Resumed
    <3> QED
      BY <2>1, <2>2, <3>1, FanoutFacts
  <2> QED
    BY Zenon, <2>3, <2>4
<1>6. Covered(t)'
  <2>1. NoTask.gen <= active
    BY FanoutFacts DEF NoTask
  <2> QED
    BY Zenon, <1>2, <1>3, <1>4, <1>5, <2>1 DEF Covered
<1>7. ASSUME NEW u \in Tasks, u # t PROVE Covered(u)'
  BY Zenon, <1>2, <1>3, <1>4, <1>7 DEF FanoutInv, Covered
<1> QED
  BY Zenon, <1>6, <1>7

\* Every step keeps the invariant of the fanout tasks.
LEMMA FanoutStep == FanoutInv /\ [NextOwed]_historyVars => FanoutInv'
<1> SUFFICES ASSUME FanoutInv, [NextOwed]_historyVars PROVE FanoutInv'
  OBVIOUS
<1>1. [Next]_vars
  BY Zenon DEF NextOwed, Next, WorkCalls, historyVars
<1>2. StoreInv' /\ (staging' # 0 => active' < staging')
  BY Zenon, <1>1, StoreStep, StagingIsNew DEF FanoutInv
<1>3. SUFFICES owed' \in [Tasks -> SUBSET Keys] /\ \A t \in Tasks : Covered(t)'
  BY Zenon, <1>2 DEF FanoutInv
<1>4. CASE \E t \in Requests : RequestFanout(t) /\ owed' = [owed EXCEPT ![t] = InRange(t, rows[active])]
  <2>1. Requests \subseteq Tasks
    BY Zenon, ConstantsAssumption DEF Tasks, Star
  <2> QED
    BY Zenon, <1>4, <2>1, RequestCovers
<1>5. CASE (SnapshotCalls \/ WatchCalls \/ OtherWorkCalls \/ Tick) /\ Discharge
  <2>0. owed' \in [Tasks -> SUBSET Keys]
    BY Zenon, <1>5, Discharged
  <2>1. CASE FanoutPage \/ FanoutDone
    BY Zenon, <1>5, <2>0, <2>1, PageCovers, DoneCovers
  <2>2. CASE SnapshotCalls
    <3>1. UNCHANGED fanout
      BY Zenon, <2>2 DEF SnapshotCalls, metaVars, BeginSnapshot, BeginSnapshotCommit, DeletePage,
         PutSnapshotPage, FinishSnapshot, FinishPage, FinishFamily, Publish, CollectGarbage,
         CollectGarbageCommit, DiscardStaging, DiscardStagingCommit, Interrupt
    <3>2. CASE UNCHANGED active
      BY Zenon, <1>5, <2>0, <3>1, <3>2, CoveredStill
    <3>3. CASE active' # active
      <4>1. Publish
        BY Zenon, <1>1, <3>3, OnlyPublish
      <4>2. active' = staging /\ op.name = "finish"
        BY Zenon, <4>1 DEF Publish
      <4>3. staging # 0
        BY Zenon, <4>2 DEF FanoutInv, StoreInv, MetaInv
      <4> QED
        BY Zenon, <1>5, <2>0, <3>1, <4>2, <4>3, CoveredStill
    <3> QED
      BY Zenon, <3>2, <3>3
  <2>3. CASE (WatchCalls \/ OtherWorkCalls \/ Tick) /\ ~ FanoutPage /\ ~ FanoutDone
    <3>1. UNCHANGED <<fanout, active>>
      BY Zenon, <2>3 DEF WatchCalls, OtherWorkCalls, Tick, metaVars, Apply,
         AdvanceCursor, Enqueue, Acknowledge, DeferWork, AcknowledgeRelated
    <3> QED
      BY Zenon, <1>5, <2>0, <3>1, CoveredStill
  <2> QED
    BY Zenon, <1>5, <2>1, <2>2, <2>3
<1>6. CASE UNCHANGED historyVars
  <2>1. UNCHANGED <<fanout, active, owed, rows>>
    BY Zenon, <1>6 DEF historyVars, vars
  <2>2. \A t \in Tasks : InRange(t, Old)' = InRange(t, Old)
    BY Zenon, <2>1 DEF InRange, Old, DataKeys
  <2> QED
    BY Zenon, <2>1, <2>2 DEF FanoutInv, Covered
<1> QED
  BY Zenon, <1>4, <1>5, <1>6 DEF NextOwed

\* FanoutCovers: ProcessFanout deletes a task only when every resource that was in its range at the
\* latest request was enqueued, left the range or, in the resync sweep, had work: over page
\* boundaries, restarts of the scan, new generations and crashes, and for any number of resources,
\* relations and requests.
THEOREM FanoutsCover == SpecOwed => []FanoutCovers
<1>1. FanoutInv => FanoutCovers
  BY Zenon DEF FanoutInv, Covered, FanoutCovers
<1> QED
  BY <1>1, FanoutInit, FanoutStep, PTL DEF SpecOwed

-----------------------------------------------------------------------------
(* Related work.                                                           *)

\* The page of maintainDiskPage: tokens that were handed out, one row per relation.  A batch has
\* a new token, so a listing never holds the token of a row that waits for its acknowledgement;
\* and what the acknowledgement of the row would complete was seen by RelatedEnqueue.
PageInv ==
    /\ mpc \in {"read", "enqueue", "ack"}
    /\ work \subseteq [own : Owners, token : 1..sequence]
    /\ \A x, y \in work : x.own = y.own => x = y
    /\ handle # 0 => \A x \in work : New.r[x.own] # x.token
    /\ mpc = "ack" =>
         \A x \in work : First(x) /\ Old.r[x.own] = x.token => told[x.own] = Old.i[x.own]

TokenInv ==
    /\ \A g \in Generations, o \in Owners : rows[g].r[o] <= sequence
    /\ handle # 0 => \A o \in Owners : New.r[o] = 0 \/ New.r[o] # Old.r[o]

\* The inductive invariant of the delivery
RelatedInv ==
    /\ StoreInv /\ TokenInv /\ PageInv /\ RelatedNotified
    /\ told \in [Owners -> SUBSET Keys]

\* The related work of the rows S is that of R, or new in this step.
Renewed(R, S) == \A o \in Owners : S.r[o] = R.r[o] \/ (S.r[o] = Token /\ sequence' = Token)

\* What the calls of a listing and of the watch do to related work: they may retire rows, write
\* new tokens, write the published generation, or publish another one.
StillPublished ==
    /\ active' = active /\ Old'.r = Old.r /\ Old'.i = Old.i
    /\ handle' # 0 => \/ \A o \in Owners : New'.r[o] = 0
                      \/ handle # 0 /\ Renewed(New, New')

Rewritten ==
    /\ active' = active /\ handle' = 0
    /\ sequence' = Token
    /\ \A o \in Owners : \/ Old'.r[o] = Token
                         \/ Old'.r[o] = Old.r[o] /\ Old'.i[o] = Old.i[o]

Republished ==
    /\ handle' = 0 /\ handle # 0
    /\ Old' = New
    /\ \A o \in Owners : Old.r[o] # 0 \/ Old.i[o] # New.i[o] => New.r[o] # 0

CallRows ==
    /\ sequence' \in {sequence, Token}
    /\ \A g \in Generations, o \in Owners :
         rows'[g].r[o] \in {rows[g].r[o], 0} \/ (rows'[g].r[o] = Token /\ sequence' = Token)
    /\ StillPublished \/ Rewritten \/ Republished

\* The numbers a token may be.
LEMMA TokenFacts ==
    ASSUME RelatedInv
    PROVE  /\ sequence \in Nat /\ Token = sequence + 1
           /\ \A g \in Generations, o \in Owners : rows[g].r[o] \in Nat /\ rows[g].r[o] <= sequence
           /\ \A o \in Owners : /\ Old.r[o] \in Nat /\ Old.r[o] <= sequence
                                /\ New.r[o] \in Nat /\ New.r[o] <= sequence
           /\ \A x \in work : x.own \in Owners /\ x.token \in Nat /\ 1 <= x.token /\ x.token <= sequence
<1>1. sequence \in Nat /\ Token = sequence + 1
  BY ConstantsAssumption DEF RelatedInv, StoreInv, TypeOK, Token
<1>2. \A g \in Generations : rows[g].r \in [Owners -> Nat]
  BY Zenon, StoreFacts DEF RelatedInv, DeltaType
<1>3. \A g \in Generations, o \in Owners : rows[g].r[o] \in Nat /\ rows[g].r[o] <= sequence
  BY Zenon, <1>2 DEF RelatedInv, TokenInv
<1>4. active \in Generations /\ staging \in Generations
  BY Zenon, StoreFacts DEF RelatedInv
<1>5. \A x \in work : x.own \in Owners /\ x.token \in Nat /\ 1 <= x.token /\ x.token <= sequence
  BY <1>1 DEF RelatedInv, PageInv
<1> QED
  BY Zenon, <1>1, <1>3, <1>4, <1>5 DEF Old, New

\* Whatever these calls do, no notification is lost.
LEMMA CallsKeepRelated ==
    ASSUME RelatedInv, StoreInv', CallRows, UNCHANGED <<mpc, work, told>>
    PROVE  RelatedInv'
<1>1. sequence \in Nat /\ Token = sequence + 1 /\ sequence' \in Nat /\ sequence <= sequence'
  BY TokenFacts DEF CallRows
<1>2. \A g \in Generations, o \in Owners : rows'[g].r[o] <= sequence'
  <2> SUFFICES ASSUME NEW g \in Generations, NEW o \in Owners PROVE rows'[g].r[o] <= sequence'
    BY Zenon
  <2>1. rows[g].r[o] \in Nat /\ rows[g].r[o] <= sequence
    BY Zenon, TokenFacts
  <2>2. rows'[g].r[o] \in {rows[g].r[o], 0} \/ (rows'[g].r[o] = Token /\ sequence' = Token)
    BY Zenon DEF CallRows
  <2> QED
    BY <1>1, <2>1, <2>2
<1>3. /\ mpc' \in {"read", "enqueue", "ack"}
      /\ \A x, y \in work' : x.own = y.own => x = y
      /\ told' \in [Owners -> SUBSET Keys]
  BY Zenon DEF RelatedInv, PageInv
<1>4. work' \subseteq [own : Owners, token : 1..sequence']
  <2>1. 1..sequence \subseteq 1..sequence'
    BY <1>1
  <2>2. work \subseteq [own : Owners, token : 1..sequence]
    BY Zenon DEF RelatedInv, PageInv
  <2>3. [own : Owners, token : 1..sequence] \subseteq [own : Owners, token : 1..sequence']
    BY Zenon, <2>1
  <2> QED
    BY Zenon, <2>2, <2>3
<1>5. \A x \in work : x.own \in Owners /\ x.token # 0 /\ x.token # Token
  BY <1>1, TokenFacts
<1>6. \A o \in Owners : Old.r[o] # Token /\ Token # 0
  BY <1>1, TokenFacts
<1>7. \A x : First(x)' <=> First(x)
  BY Zenon DEF First
<1>8. SUFFICES /\ handle' # 0 => /\ \A x \in work : New'.r[x.own] # x.token
                                 /\ \A o \in Owners : New'.r[o] = 0 \/ New'.r[o] # Old'.r[o]
               /\ mpc = "ack" => \A x \in work : First(x) /\ Old'.r[x.own] = x.token
                                                   => told[x.own] = Old'.i[x.own]
               /\ \A o \in Owners : Old'.r[o] = 0 => told[o] = Old'.i[o]
  <2>1. TokenInv'
    BY Zenon, <1>2, <1>8 DEF TokenInv
  <2>2. PageInv'
    BY Zenon, <1>3, <1>4, <1>7, <1>8 DEF PageInv
  <2>3. RelatedNotified'
    BY Zenon, <1>8 DEF RelatedNotified
  <2> QED
    BY Zenon, <1>3, <2>1, <2>2, <2>3 DEF RelatedInv
<1>9. /\ handle # 0 => /\ \A x \in work : New.r[x.own] # x.token
                       /\ \A o \in Owners : New.r[o] = 0 \/ New.r[o] # Old.r[o]
      /\ mpc = "ack" => \A x \in work : First(x) /\ Old.r[x.own] = x.token
                                          => told[x.own] = Old.i[x.own]
      /\ \A o \in Owners : Old.r[o] = 0 => told[o] = Old.i[o]
  BY Zenon DEF RelatedInv, TokenInv, PageInv, RelatedNotified
<1>10. CASE StillPublished
  <2>1. /\ \A o \in Owners : Old'.r[o] = Old.r[o] /\ Old'.i[o] = Old.i[o]
        /\ handle' # 0 => \/ \A o \in Owners : New'.r[o] = 0
                          \/ handle # 0 /\ \A o \in Owners : New'.r[o] = New.r[o] \/ New'.r[o] = Token
    BY Zenon, <1>10 DEF StillPublished, Renewed
  <2>2. handle' # 0 => /\ \A x \in work : New'.r[x.own] # x.token
                       /\ \A o \in Owners : New'.r[o] = 0 \/ New'.r[o] # Old'.r[o]
    <3>1. CASE \A o \in Owners : New'.r[o] = 0
      BY Zenon, <1>5, <3>1
    <3>2. CASE handle # 0 /\ \A o \in Owners : New'.r[o] = New.r[o] \/ New'.r[o] = Token
      BY Zenon, <1>5, <1>6, <1>9, <2>1, <3>2
    <3> QED
      BY Zenon, <2>1, <3>1, <3>2
  <2> QED
    BY Zenon, <1>5, <1>9, <2>1, <2>2
<1>11. CASE Rewritten
  BY Zenon, <1>5, <1>6, <1>9, <1>11 DEF Rewritten
<1>12. CASE Republished
  BY Zenon, <1>5, <1>9, <1>12 DEF Republished
<1> QED
  BY Zenon, <1>10, <1>11, <1>12 DEF CallRows

\* Calls that touch no rows: they keep the listing or give it up.
LEMMA QuietRows ==
    ASSUME RelatedInv, UNCHANGED <<rows, active, sequence>>,
           UNCHANGED <<handle, staging>> \/ handle' = 0
    PROVE  CallRows
<1>1. Old' = Old
  BY Zenon DEF Old
<1>2. UNCHANGED <<handle, staging>> => New' = New /\ handle' = handle
  BY Zenon DEF New
<1>3. StillPublished
  BY Zenon, <1>1, <1>2 DEF StillPublished, Renewed
<1> QED
  BY Zenon, <1>3 DEF CallRows

\* A listing begins in a generation without rows.
LEMMA BeginRows ==
    ASSUME RelatedInv, BeginSnapshotCommit
    PROVE  CallRows
<1>1. /\ UNCHANGED <<rows, active, sequence>> /\ staging' = generation + 1
      /\ generation < MaxGeneration
  BY Zenon DEF BeginSnapshotCommit
<1>2. generation + 1 \in Generations \ {0} /\ generation + 1 \notin {active, staging, garbage}
  BY <1>1, ConstantsAssumption DEF RelatedInv, StoreInv, TypeOK, Generations, MetaInv
<1>3. rows[generation + 1] = EmptyRows
  BY Zenon, <1>2 DEF RelatedInv, StoreInv, MetaInv, NoLeakedGeneration
<1>4. New' = EmptyRows /\ Old' = Old
  BY Zenon, <1>1, <1>3 DEF New, Old
<1>5. \A o \in Owners : EmptyRows.r[o] = 0
  BY Zenon DEF EmptyRows
<1>6. StillPublished
  BY Zenon, <1>1, <1>4, <1>5 DEF StillPublished
<1> QED
  BY Zenon, <1>1, <1>6 DEF CallRows

\* A page that is deleted is not of the published generation.
LEMMA DeleteRows ==
    ASSUME RelatedInv, DeletePage
    PROVE  CallRows
<1>1. handle' = 0 /\ Old' = Old /\ UNCHANGED <<active, sequence>>
  BY Zenon, DeletePageKeeps DEF RelatedInv, DeletePage, metaVars
<1>2. PICK g, noData : /\ g = Head(op.todo)
                       /\ noData = [EmptyRows EXCEPT !.w = rows[g].w, !.s = rows[g].s,
                                     !.q = rows[g].q, !.p = rows[g].p, !.r = rows[g].r,
                                     !.pending = rows[g].pending, !.poison = rows[g].poison]
  BY Zenon
<1>3. rows' = [rows EXCEPT ![g] = noData] \/ rows' = [rows EXCEPT ![g] = EmptyRows]
  BY Zenon, <1>2 DEF DeletePage
<1>4. noData.r = rows[g].r /\ \A o \in Owners : EmptyRows.r[o] = 0
  BY Zenon, <1>2 DEF EmptyRows
<1>5. rows \in [Generations -> RowsType]
  BY Zenon, StoreFacts DEF RelatedInv
<1>6. \A h \in Generations, o \in Owners : rows'[h].r[o] \in {rows[h].r[o], 0}
  <2>1. \A h \in Generations : rows'[h] = rows[h] \/ (h = g /\ rows'[h] \in {noData, EmptyRows})
    BY Zenon, <1>3, <1>5
  <2> QED
    BY Zenon, <1>4, <2>1
<1> QED
  BY Zenon, <1>1, <1>6 DEF CallRows, StillPublished

\* A batch of a listing writes new tokens only.
LEMMA ListingRows ==
    ASSUME RelatedInv, handle # 0, UNCHANGED <<active, handle, staging>>,
           sequence' \in {sequence, Token},
           NEW R \in DeltaType, rows' = [rows EXCEPT ![staging] = R], Renewed(New, R)
    PROVE  CallRows
<1>1. /\ rows \in [Generations -> RowsType] /\ staging \in Generations /\ active \in Generations
      /\ staging # active
  BY Zenon, StoreFacts DEF RelatedInv
<1>2. rows'[staging] = R /\ \A g \in Generations \ {staging} : rows'[g] = rows[g]
  BY Zenon, <1>1
<1>3. New' = R /\ Old' = Old
  BY Zenon, <1>1, <1>2 DEF New, Old
<1>4. StillPublished
  BY Zenon, <1>3 DEF StillPublished
<1>5. \A g \in Generations, o \in Owners :
         rows'[g].r[o] = rows[g].r[o] \/ (rows'[g].r[o] = Token /\ sequence' = Token)
  BY Zenon, <1>2 DEF Renewed, New
<1> QED
  BY Zenon, <1>4, <1>5 DEF CallRows

\* PutSnapshotPage
LEMMA PutPageRows ==
    ASSUME RelatedInv, NEW k \in Keys, NEW item \in Item, PutSnapshotPage(k, item)
    PROVE  CallRows
<1>1. PICK R : R = Put(New, k, item, Token, TRUE, 1)
  BY Zenon
<1>2. /\ UNCHANGED <<active, handle, staging>> /\ handle # 0 /\ staging = handle
      /\ rows' = [rows EXCEPT ![staging] = R] /\ sequence' = Token
  BY Zenon, <1>1 DEF PutSnapshotPage, metaVars, Write, New, NextToken
<1>3. New \in DeltaType /\ Exact(New) /\ Token \in Nat \ {0} /\ now \in Nat
  BY Zenon, <1>2, StoreFacts DEF RelatedInv
<1>4. PICK e \in BOOLEAN, p \in {0, 1}, i \in Item \cup {NoItem} : e = TRUE /\ p = 1 /\ i = item
  BY Zenon
<1>5. R = Put(New, k, i, Token, e, p)
  BY Zenon, <1>1, <1>4
<1>6. PutRows(New, k, i, Token, e, R)
  BY Zenon, <1>3, <1>5, PutExact
<1>7. R \in DeltaType /\ Renewed(New, R)
  BY Zenon, <1>2, <1>6 DEF PutRows, Renewed
<1> QED
  BY Zenon, <1>2, <1>7, ListingRows

\* FinishSnapshot, one row
LEMMA FinishPageRows ==
    ASSUME RelatedInv, FinishPage
    PROVE  CallRows
<1>1. op.name = "finish" /\ UNCHANGED <<active, handle, staging>>
  BY Zenon DEF FinishPage, metaVars
<1>2. /\ handle # 0 /\ New \in DeltaType /\ Old \in DeltaType /\ Token \in Nat \ {0} /\ now \in Nat
      /\ rows \in [Generations -> RowsType] /\ staging \in Generations
  BY Zenon, <1>1, StoreFacts DEF RelatedInv
<1>3. SUFFICES /\ sequence' \in {sequence, Token}
               /\ \E R \in DeltaType : rows' = [rows EXCEPT ![staging] = R] /\ Renewed(New, R)
  BY Zenon, <1>1, <1>2, <1>3, ListingRows
<1>4. ASSUME NEW k \in Keys, MergeData(k)
      PROVE  /\ sequence' \in {sequence, Token}
             /\ \E R \in DeltaType : rows' = [rows EXCEPT ![staging] = R] /\ Renewed(New, R)
  <2>1. PICK z, Q, A, B, F : /\ z = Replay(Token) /\ Q = QueueWork(New, k, z)
                             /\ A = NotifyRelated(Q, {Old.d[k].own}, Token)
                             /\ B = NotifyRelated(New, {Old.d[k].own, New.d[k].own}, Token)
                             /\ F = IF Old.w[k] = 0 THEN ForgetWork(New, k) ELSE New
    BY Zenon
  <2>2. z \in Schedule
    BY Zenon, <1>2, <2>1 DEF Replay, Schedule
  <2>3. Q \in DeltaType /\ Q.r = New.r
    BY <1>2, <2>1, <2>2, QueueTokens
  <2>4. A \in DeltaType /\ \A o \in Owners : A.r[o] = New.r[o] \/ A.r[o] = Token
    <3>1. /\ A \in DeltaType
          /\ \A o \in Owners : A.r[o] = IF o \in {Old.d[k].own} THEN Token ELSE Q.r[o]
      BY <1>2, <2>1, <2>3, NotifyRows
    <3> QED
      BY Zenon, <2>3, <3>1
  <2>5. B \in DeltaType /\ \A o \in Owners : B.r[o] = New.r[o] \/ B.r[o] = Token
    <3>1. /\ B \in DeltaType
          /\ \A o \in Owners :
               B.r[o] = IF o \in {Old.d[k].own, New.d[k].own} THEN Token ELSE New.r[o]
      BY <1>2, <2>1, NotifyRows
    <3> QED
      BY Zenon, <3>1
  <2>6. F \in DeltaType /\ F.r = New.r
    BY Zenon, <1>2, <2>1, ForgetTokens
  <2>7. \/ sequence' = Token /\ rows' = [rows EXCEPT ![staging] = A]
        \/ sequence' = Token /\ rows' = [rows EXCEPT ![staging] = B]
        \/ sequence' = sequence /\ rows' = [rows EXCEPT ![staging] = F]
        \/ UNCHANGED <<rows, sequence>>
    BY Zenon, <1>4, <2>1 DEF MergeData, Write, NextToken
  <2>8. UNCHANGED rows => rows' = [rows EXCEPT ![staging] = New]
    BY Zenon, <1>2 DEF New
  <2> QED
    BY Zenon, <1>2, <2>4, <2>5, <2>6, <2>7, <2>8 DEF Renewed
<1>5. ASSUME NEW k \in Keys, MergeWork(k)
      PROVE  /\ sequence' \in {sequence, Token}
             /\ \E R \in DeltaType : rows' = [rows EXCEPT ![staging] = R] /\ Renewed(New, R)
  <2>1. PICK state : state = IF Old.d[k] = New.d[k] THEN ScheduleOf(Old, k) ELSE Replay(0)
    BY Zenon
  <2>2. PICK z, R : z = [state EXCEPT !.token = Token] /\ R = QueueWork(New, k, z)
    BY Zenon
  <2>3. z \in Schedule
    <3>1. ScheduleOf(Old, k) \in Schedule
      BY Zenon, <1>2, ScheduleType
    <3>2. Replay(0) \in Schedule
      BY Zenon DEF Replay, Schedule
    <3>3. state \in Schedule
      BY Zenon, <2>1, <3>1, <3>2
    <3> QED
      BY Zenon, <1>2, <2>2, <3>3 DEF Schedule
  <2>4. R \in DeltaType /\ R.r = New.r
    BY <1>2, <2>2, <2>3, QueueTokens
  <2>5. sequence' = Token /\ rows' = [rows EXCEPT ![staging] = R]
    BY Zenon, <1>5, <2>1, <2>2 DEF MergeWork, Write, NextToken
  <2> QED
    BY Zenon, <2>4, <2>5 DEF Renewed
<1>6. ASSUME NEW k \in Owners, MergeRelated(k)
      PROVE  /\ sequence' \in {sequence, Token}
             /\ \E R \in DeltaType : rows' = [rows EXCEPT ![staging] = R] /\ Renewed(New, R)
  <2>1. PICK R : R = [New EXCEPT !.r[k] = Token]
    BY Zenon
  <2>2. R \in DeltaType /\ R.r[k] = Token /\ \A o \in Owners \ {k} : R.r[o] = New.r[o]
    BY Zenon, <1>2, <2>1 DEF DeltaType
  <2>3. sequence' = Token /\ rows' = [rows EXCEPT ![staging] = R]
    BY Zenon, <1>6, <2>1 DEF MergeRelated, Write, NextToken
  <2> QED
    BY Zenon, <2>2, <2>3 DEF Renewed
<1> QED
  BY Zenon, <1>4, <1>5, <1>6 DEF FinishPage, IsNext, DataKeys, WorkKeys, RelatedKeys

\* A watch event notifies the relations whose members it changes.
LEMMA ApplyRows ==
    ASSUME RelatedInv, NEW k \in Keys, NEW item \in Item \cup {NoItem}, NEW enqueue \in BOOLEAN,
           NEW c, Apply(k, item, enqueue, c)
    PROVE  CallRows
<1>0. PICK p \in {0, 1} : p = 0
  BY Zenon
<1>1. PICK R : R = Put(Old, k, item, Token, enqueue, p)
  BY Zenon
<1>2. /\ UNCHANGED <<active, handle, staging>> /\ staging = 0
      /\ rows' = [rows EXCEPT ![active] = R] /\ sequence' = Token
  BY Zenon, <1>0, <1>1 DEF Apply, Write, NextToken
<1>3. Old \in DeltaType /\ Exact(Old) /\ Token \in Nat \ {0} /\ now \in Nat
  BY Zenon, StoreFacts DEF RelatedInv
<1>4. PutRows(Old, k, item, Token, enqueue, R)
  BY Zenon, <1>1, <1>3, PutExact
<1>5. /\ rows'[active] = R /\ \A g \in Generations \ {active} : rows'[g] = rows[g]
  BY Zenon, <1>2, StoreFacts DEF RelatedInv
<1>6. Old' = R
  BY Zenon, <1>2, <1>5 DEF Old
<1>7. handle' = 0
  BY Zenon, <1>2, StoreFacts DEF RelatedInv
<1>8. ASSUME NEW o \in Owners, R.r[o] # Token
      PROVE  R.r[o] = Old.r[o] /\ R.i[o] = Old.i[o]
  <2>1. R.r[o] = Old.r[o] /\ ~ (Moved(Old, k, item) /\ o \in {Old.d[k].own, item.own})
    BY Zenon, <1>4, <1>8 DEF PutRows
  <2>2. Old.d[k].own = o <=> item.own = o
    BY Zenon, <2>1 DEF Moved
  <2>3. R.d[k] = item /\ \A j \in Keys \ {k} : R.d[j] = Old.d[j]
    BY Zenon, <1>3, <1>4 DEF PutRows, DeltaType
  <2>4. /\ Old.i[o] = {j \in Keys : Old.d[j].own = o}
        /\ R.i[o] = {j \in Keys : R.d[j].own = o}
    BY Zenon, <1>3, <1>4 DEF PutRows, Exact, RelationExact
  <2>5. \A j \in Keys : R.d[j].own = o <=> Old.d[j].own = o
    BY Zenon, <2>2, <2>3
  <2> QED
    BY Zenon, <2>1, <2>4, <2>5
<1>9. Rewritten
  BY Zenon, <1>2, <1>6, <1>7, <1>8 DEF Rewritten
<1>10. \A g \in Generations, o \in Owners :
         rows'[g].r[o] = rows[g].r[o] \/ (rows'[g].r[o] = Token /\ sequence' = Token)
  BY Zenon, <1>2, <1>5, <1>8 DEF Old
<1> QED
  BY Zenon, <1>2, <1>9, <1>10 DEF CallRows

\* A listing is published: Merged says that it repeats what was waiting and adds what changed.
LEMMA PublishRows ==
    ASSUME RelatedInv, Publish
    PROVE  CallRows
<1>1. /\ UNCHANGED <<rows, sequence>> /\ active' = staging /\ handle' = 0 /\ op.name = "finish"
  BY Zenon DEF Publish
<1>2. handle # 0 /\ staging # active
  BY Zenon, <1>1, StoreFacts DEF RelatedInv
<1>3. rows'[active'] = New /\ Old' = New
  BY Zenon, <1>1 DEF New, Old
<1>4. [Next]_vars
  BY Zenon DEF Next, SnapshotCalls
<1>5. \A o \in Owners : Old.r[o] # 0 \/ Old.i[o] # New.i[o] => New.r[o] # 0
  BY Zenon, <1>1, <1>2, <1>3, <1>4, PublishedRows DEF RelatedInv
<1> QED
  BY Zenon, <1>1, <1>2, <1>3, <1>5 DEF CallRows, Republished

\* All calls of a listing and of the watch
LEMMA CallsRows ==
    ASSUME RelatedInv, SnapshotCalls \/ WatchCalls
    PROVE  CallRows
<1>1. CASE BeginSnapshot \/ FinishFamily \/ CollectGarbage \/ CollectGarbageCommit \/ DiscardStaging
           \/ Interrupt \/ \E c \in cursor..MaxCursor : c > 0 /\ FinishSnapshot(c)
  <2>1. UNCHANGED <<rows, active, sequence>> /\ (UNCHANGED <<handle, staging>> \/ handle' = 0)
    BY Zenon, <1>1 DEF BeginSnapshot, FinishFamily, CollectGarbage, CollectGarbageCommit,
       DiscardStaging, Interrupt, FinishSnapshot, metaVars
  <2> QED
    BY Zenon, <2>1, QuietRows
<1>2. CASE DiscardStagingCommit
  <2>1. UNCHANGED <<rows, active, sequence, handle>> /\ op.name = "discard"
    BY Zenon, <1>2 DEF DiscardStagingCommit
  <2>2. handle = 0
    BY Zenon, <2>1 DEF RelatedInv, StoreInv, MetaInv
  <2> QED
    BY Zenon, <2>1, <2>2, QuietRows
<1>3. CASE BeginSnapshotCommit \/ DeletePage \/ FinishPage \/ Publish
  BY Zenon, <1>3, BeginRows, DeleteRows, FinishPageRows, PublishRows
<1>4. CASE \E k \in Keys, item \in Item : PutSnapshotPage(k, item)
  BY Zenon, <1>4, PutPageRows
<1>5. CASE WatchCalls
  <2>1. CASE \E k \in Keys, item \in Item, enqueue \in BOOLEAN : Apply(k, item, enqueue, cursor + 1)
    <3>1. PICK k \in Keys, item \in Item, enqueue \in BOOLEAN : Apply(k, item, enqueue, cursor + 1)
      BY Zenon, <2>1
    <3>2. item \in Item \cup {NoItem}
      BY Zenon
    <3> QED
      BY Zenon, <3>1, <3>2, ApplyRows
  <2>2. CASE \E k \in Keys : Apply(k, NoItem, TRUE, cursor + 1)
    <3>1. PICK k \in Keys, item \in Item \cup {NoItem}, enqueue \in BOOLEAN :
            Apply(k, item, enqueue, cursor + 1)
      BY Zenon, <2>2
    <3> QED
      BY Zenon, <3>1, ApplyRows
  <2>3. CASE AdvanceCursor(cursor + 1)
    <3>1. UNCHANGED <<rows, active, sequence>> /\ UNCHANGED <<handle, staging>>
      BY Zenon, <2>3 DEF AdvanceCursor
    <3> QED
      BY Zenon, <3>1, QuietRows
  <2> QED
    BY Zenon, <1>5, <2>1, <2>2, <2>3 DEF WatchCalls
<1> QED
  BY Zenon, <1>1, <1>2, <1>3, <1>4, <1>5 DEF SnapshotCalls

\* A new page: its tokens are those of the published generation, and no listing has them.
LEMMA ReadKeeps ==
    ASSUME RelatedInv, ReadRelated, StoreInv'
    PROVE  RelatedInv'
<1>1. UNCHANGED <<rows, active, staging, handle, sequence, told>> /\ mpc' = "enqueue"
      /\ work' = {[own |-> o, token |-> Old.r[o]] : o \in RelatedKeys(Old)}
  BY Zenon DEF ReadRelated, vars
<1>2. Old' = Old /\ New' = New
  BY Zenon, <1>1 DEF Old, New
<1>3. \A x \in work' : x.own \in Owners /\ x.token = Old.r[x.own] /\ Old.r[x.own] # 0
                       /\ x = [own |-> x.own, token |-> Old.r[x.own]]
  BY <1>1 DEF RelatedKeys
<1>4. \A x, y \in work' : x.own = y.own => x = y
  BY Zenon, <1>3
<1>5. work' \subseteq [own : Owners, token : 1..sequence]
  <2> SUFFICES ASSUME NEW x \in work' PROVE x \in [own : Owners, token : 1..sequence]
    BY Zenon
  <2>1. PICK o \in Owners : x = [own |-> o, token |-> Old.r[o]] /\ Old.r[o] # 0
    BY Zenon, <1>3
  <2>2. Old.r[o] \in 1..sequence
    BY <2>1, TokenFacts
  <2> QED
    BY Zenon, <2>1, <2>2
<1>6. handle' # 0 => \A x \in work' : New'.r[x.own] # x.token
  BY Zenon, <1>1, <1>2, <1>3 DEF RelatedInv, TokenInv
<1>7. PageInv'
  BY Zenon, <1>1, <1>4, <1>5, <1>6 DEF PageInv
<1>8. TokenInv' /\ RelatedNotified'
  BY Zenon, <1>1, <1>2 DEF RelatedInv, TokenInv, RelatedNotified
<1> QED
  BY Zenon, <1>1, <1>7, <1>8 DEF RelatedInv

\* RelatedEnqueue shows the first relation of the page the members it has.
LEMMA EnqueueKeeps ==
    ASSUME RelatedInv, EnqueueRelated, StoreInv'
    PROVE  RelatedInv'
<1>1. UNCHANGED <<rows, active, staging, handle, sequence, work>> /\ mpc' = "ack"
  BY Zenon DEF EnqueueRelated, vars
<1>2. PICK x \in work : First(x) /\ told' = [told EXCEPT ![x.own] = Old.i[x.own]]
  BY Zenon DEF EnqueueRelated
<1>3. Old' = Old /\ New' = New
  BY Zenon, <1>1 DEF Old, New
<1>4. x.own \in Owners /\ told \in [Owners -> SUBSET Keys] /\ Old.i[x.own] \in SUBSET Keys
  <2>1. x.own \in Owners /\ told \in [Owners -> SUBSET Keys]
    BY Zenon, TokenFacts DEF RelatedInv
  <2> QED
    BY Zenon, <2>1, StoreFacts DEF RelatedInv, DeltaType
<1>5. /\ told' \in [Owners -> SUBSET Keys] /\ told'[x.own] = Old.i[x.own]
      /\ \A o \in Owners \ {x.own} : told'[o] = told[o]
  BY Zenon, <1>2, <1>4
<1>6. \A y \in work : First(y) => y = x
  <2>1. \A y \in work : First(y) => y.own <= x.own /\ x.own <= y.own
    BY Zenon, <1>2 DEF First
  <2>2. \A y \in work : y.own \in Owners
    BY Zenon, TokenFacts
  <2>3. Owners \subseteq Nat
    BY Zenon, ConstantsAssumption
  <2>4. ASSUME NEW y \in work, First(y) PROVE y.own = x.own
    <3>1. y.own <= x.own /\ x.own <= y.own /\ y.own \in Nat /\ x.own \in Nat
      BY Zenon, <2>1, <2>2, <2>3, <2>4, <1>4
    <3> QED
      BY <3>1
  <2> QED
    BY Zenon, <2>4 DEF RelatedInv, PageInv
<1>7. \A y : First(y)' <=> First(y)
  BY Zenon, <1>1 DEF First
<1>8. PageInv'
  BY Zenon, <1>1, <1>3, <1>5, <1>6, <1>7 DEF RelatedInv, PageInv
<1>9. TokenInv' /\ RelatedNotified'
  BY Zenon, <1>1, <1>3, <1>5 DEF RelatedInv, TokenInv, RelatedNotified
<1> QED
  BY Zenon, <1>5, <1>8, <1>9 DEF RelatedInv

\* AcknowledgeRelated completes a row only if its relation was told of the members it has.
LEMMA AckKeeps ==
    ASSUME RelatedInv, AckRelated, StoreInv'
    PROVE  RelatedInv'
<1>1. PICK x \in work : /\ First(x)
                        /\ \/ AcknowledgeRelated(x.own, x.token)
                           \/ Free /\ Old.r[x.own] # x.token /\ UNCHANGED vars
                        /\ work' = work \ {x}
  BY Zenon DEF AckRelated
<1>2. mpc = "ack" /\ mpc' = "enqueue" /\ UNCHANGED told
  BY Zenon DEF AckRelated
<1>3. UNCHANGED <<active, staging, handle, sequence>>
  BY Zenon, <1>1 DEF AcknowledgeRelated, vars, metaVars
<1>4. x.own \in Owners /\ x.token # 0
  BY TokenFacts
<1>5. CASE UNCHANGED rows
  <2>1. Old' = Old /\ New' = New
    BY Zenon, <1>3, <1>5 DEF Old, New
  <2>2. PageInv'
    BY Zenon, <1>1, <1>2, <1>3, <2>1 DEF RelatedInv, PageInv
  <2> QED
    BY Zenon, <1>2, <1>3, <1>5, <2>1, <2>2 DEF RelatedInv, TokenInv, RelatedNotified
<1>6. CASE AcknowledgeRelated(x.own, x.token)
  <2>1. PICK R : R = [Old EXCEPT !.r[x.own] = 0]
    BY Zenon
  <2>2. rows' = [rows EXCEPT ![active] = R] /\ Old.r[x.own] = x.token
    BY Zenon, <1>6, <2>1 DEF AcknowledgeRelated, Write
  <2>3. /\ R.r[x.own] = 0 /\ R.i = Old.i
        /\ \A o \in Owners \ {x.own} : R.r[o] = Old.r[o]
    <3>1. Old \in DeltaType
      BY Zenon, StoreFacts DEF RelatedInv
    <3> QED
      BY Zenon, <1>4, <2>1, <3>1 DEF DeltaType
  <2>4. rows'[active] = R /\ \A g \in Generations \ {active} : rows'[g] = rows[g]
    BY Zenon, <2>2, StoreFacts DEF RelatedInv
  <2>5. Old' = R /\ (handle # 0 => New' = New)
    BY Zenon, <1>3, <2>4, StoreFacts DEF RelatedInv, Old, New
  <2>6. told[x.own] = Old.i[x.own]
    BY Zenon, <1>1, <1>2, <2>2 DEF RelatedInv, PageInv
  <2>7. RelatedNotified'
    BY Zenon, <1>2, <2>3, <2>5, <2>6 DEF RelatedInv, RelatedNotified
  <2>8. TokenInv'
    <3>1. \A g \in Generations, o \in Owners : rows'[g].r[o] <= sequence
      <4>1. \A g \in Generations, o \in Owners : rows'[g].r[o] \in {rows[g].r[o], 0}
        BY Zenon, <2>3, <2>4 DEF Old
      <4> QED
        BY <4>1, TokenFacts
    <3>2. handle # 0 => \A o \in Owners : New.r[o] = 0 \/ New.r[o] # R.r[o]
      BY Zenon, <2>3 DEF RelatedInv, TokenInv
    <3> QED
      BY Zenon, <1>3, <2>5, <3>1, <3>2 DEF TokenInv
  <2>9. PageInv'
    BY Zenon, <1>1, <1>2, <1>3, <2>5 DEF RelatedInv, PageInv
  <2> QED
    BY Zenon, <1>2, <2>7, <2>8, <2>9 DEF RelatedInv
<1> QED
  BY Zenon, <1>1, <1>5, <1>6 DEF vars

\* Nothing was delivered in an empty database, and there is nothing to deliver.
LEMMA RelatedInit == InitRelated => RelatedInv
<1> SUFFICES ASSUME InitRelated PROVE RelatedInv
  OBVIOUS
<1>1. StoreInv
  BY Zenon, StoreInit DEF InitRelated
<1>2. /\ handle = 0 /\ mpc = "read" /\ work = {} /\ told = [o \in Owners |-> {}] /\ sequence = 0
      /\ \A g \in Generations : rows[g] = EmptyRows
  BY Zenon DEF InitRelated, Init
<1>3. \A o \in Owners : EmptyRows.r[o] = 0 /\ EmptyRows.i[o] = {} /\ told[o] = {}
  BY Zenon, <1>2 DEF EmptyRows
<1>4. Old = EmptyRows
  BY Zenon, <1>1, <1>2, StoreFacts
<1>5. TokenInv
  BY <1>2, <1>3 DEF TokenInv
<1>6. PageInv
  BY Zenon, <1>2 DEF PageInv
<1>7. told \in [Owners -> SUBSET Keys]
  BY Zenon, <1>2
<1> QED
  BY Zenon, <1>1, <1>3, <1>4, <1>5, <1>6, <1>7 DEF RelatedInv, RelatedNotified

\* Every step keeps the invariant of the delivery.
LEMMA RelatedStep == RelatedInv /\ [NextRelated]_rVars => RelatedInv'
<1> SUFFICES ASSUME RelatedInv, [NextRelated]_rVars PROVE RelatedInv'
  OBVIOUS
<1>1. CASE (SnapshotCalls \/ WatchCalls) /\ UNCHANGED <<mpc, work, told>>
  <2>1. StoreInv'
    BY Zenon, <1>1, StoreStep DEF RelatedInv, Next
  <2> QED
    BY Zenon, <1>1, <2>1, CallsRows, CallsKeepRelated
<1>2. CASE ReadRelated
  <2>1. StoreInv'
    BY Zenon, <1>2, StoreStep DEF RelatedInv, ReadRelated
  <2> QED
    BY Zenon, <1>2, <2>1, ReadKeeps
<1>3. CASE EnqueueRelated
  <2>1. StoreInv'
    BY Zenon, <1>3, StoreStep DEF RelatedInv, EnqueueRelated
  <2> QED
    BY Zenon, <1>3, <2>1, EnqueueKeeps
<1>4. CASE AckRelated
  <2>1. PICK x \in work : AcknowledgeRelated(x.own, x.token) \/ UNCHANGED vars
    BY Zenon, <1>4 DEF AckRelated
  <2>2. AcknowledgeRelated(x.own, x.token) => AcknowledgeRelated(x.own, Old.r[x.own])
    BY Zenon DEF AcknowledgeRelated
  <2>3. [Next]_vars
    BY Zenon, <2>1, <2>2, TokenFacts DEF Next, WorkCalls, OtherWorkCalls
  <2>4. StoreInv'
    BY Zenon, <2>3, StoreStep DEF RelatedInv
  <2> QED
    BY Zenon, <1>4, <2>4, AckKeeps
<1>5. CASE LeavePage \/ UNCHANGED rVars
  <2>1. UNCHANGED vars /\ UNCHANGED told
    BY Zenon, <1>5 DEF LeavePage, rVars
  <2>2. UNCHANGED <<rows, active, staging, handle, sequence>>
    BY Zenon, <2>1 DEF vars
  <2>3. Old' = Old /\ New' = New
    BY Zenon, <2>2 DEF Old, New
  <2>4. StoreInv'
    BY Zenon, <2>1, StoreStep DEF RelatedInv
  <2>5. TokenInv' /\ RelatedNotified'
    BY Zenon, <2>1, <2>2, <2>3 DEF RelatedInv, TokenInv, RelatedNotified
  <2>6. CASE LeavePage
    <3>1. mpc' = "read" /\ work' = {}
      BY Zenon, <2>6 DEF LeavePage
    <3>2. PageInv'
      BY Zenon, <3>1 DEF PageInv
    <3> QED
      BY Zenon, <2>1, <2>4, <2>5, <3>2 DEF RelatedInv
  <2>7. CASE UNCHANGED rVars
    <3>1. UNCHANGED <<mpc, work, told>>
      BY Zenon, <2>7 DEF rVars
    <3>2. PageInv'
      BY Zenon, <2>2, <2>3, <3>1 DEF RelatedInv, PageInv, First
    <3> QED
      BY Zenon, <2>1, <2>4, <2>5, <3>2 DEF RelatedInv
  <2> QED
    BY Zenon, <1>5, <2>6, <2>7
<1> QED
  BY Zenon, <1>1, <1>2, <1>3, <1>4, <1>5 DEF NextRelated

\* A relation without a pending row was told of exactly the members it has, whatever happens
\* between the page read, RelatedEnqueue and AcknowledgeRelated, and for any number of relations.
THEOREM RelatedWorkNotified == SpecRelated => []RelatedNotified
<1>1. RelatedInv => RelatedNotified
  BY Zenon DEF RelatedInv
<1> QED
  BY <1>1, RelatedInit, RelatedStep, PTL DEF SpecRelated

\* RelatedDelivered: the same, of the composed loads.
THEOREM RelatedWorkDelivered == AllSpec => []RelatedDelivered
<1>1. AllInit => RelatedInv
  BY Zenon, RelatedInit DEF AllInit
<1>2. ASSUME load = "related" => RelatedInv, [AllNext]_allVars
      PROVE  (load = "related" => RelatedInv)'
  <2>1. UNCHANGED load
    BY Zenon, <1>2 DEF AllNext, allVars
  <2>2. load = "related" => [NextRelated]_rVars
    <3>1. "work" # "related"
      OBVIOUS
    <3> QED
      BY Zenon, <1>2, <3>1 DEF AllNext, allVars, rVars, historyVars
  <2> QED
    BY Zenon, <1>2, <2>1, <2>2, RelatedStep
<1>3. (load = "related" => RelatedInv) => RelatedDelivered
  BY Zenon DEF RelatedDelivered, RelatedInv
<1> QED
  BY <1>1, <1>2, <1>3, PTL DEF AllSpec

=============================================================================
