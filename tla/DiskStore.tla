----------------------------- MODULE DiskStore -----------------------------
(***************************************************************************)
(* The durable projection and work store of one controller kind            *)
(* (gitstore-controller-manager/internal/checkpoint/filesystem.go).        *)
(*                                                                         *)
(* The store is one LevelDB database.  Every write is one atomic, synced   *)
(* batch; a crash loses nothing that a batch has written and leaves only   *)
(* the in-memory state (the mutex and the call it protects) behind.  The   *)
(* rows of one snapshot generation are a record, one field per row family: *)
(*                                                                         *)
(*   d   projected resources       "d/"      w  work tokens         "w/"   *)
(*   s   work schedules            "s/"      q  ready index         "q/"   *)
(*   p   quarantined keys          "p/"      i  relation index      "i/"   *)
(*   ic  relation counters         "ic/"     r  related work tokens "r/"   *)
(*   pending, poison               "pending-count", "poison-count"         *)
(*                                                                         *)
(* Keys are naturals because scans run in key order; 0 stands for the      *)
(* empty scan position, the missing number and the missing token, as in    *)
(* the code.  A resource is abstracted to its version and to its owner:    *)
(* the one index it is listed under and the one related key it notifies.   *)
(*                                                                         *)
(* A page of n rows is modelled as n consecutive pages of one row: the     *)
(* rows of a page are independent of each other, so this only adds crash   *)
(* points (a page already ends after any row, by count or by bytes).       *)
(***************************************************************************)
EXTENDS Integers, Sequences, FiniteSets

CONSTANTS
    Keys,         \* logical keys of the kind, a finite set of positive naturals
    Owners,       \* relation groups, a finite set of positive naturals
    Versions,     \* resource versions, a set of positive naturals
    Requests,     \* the fanouts that are requested: owners, and 0 for the resync
    MaxGeneration,\* bound on the generation counter
    MaxSequence,  \* bound on the work token counter
    MaxCursor,    \* bound on the watch cursor
    MaxNow        \* bound on the clock

ASSUME ConstantsAssumption ==
    /\ Keys \subseteq Nat \ {0}
    /\ Owners \subseteq Nat \ {0}
    /\ Versions \subseteq Nat \ {0}
    /\ Requests \subseteq Owners \cup {0}
    /\ IsFiniteSet(Keys)
    /\ IsFiniteSet(Owners)
    /\ MaxGeneration \in Nat
    /\ MaxSequence \in Nat
    /\ MaxCursor \in Nat
    /\ MaxNow \in Nat \ {0}

Item == [ver : Versions, own : Owners]

NoItem == [ver |-> 0, own |-> 0]

Star == 0                          \* the "*" fanout over every resource

Tasks == Owners \cup {Star}

Generations == 0..MaxGeneration

(***************************************************************************)
(* DiskSchedule.  The attempt counter and the error text are not modelled: *)
(* they are reported, never read back by the store.                        *)
(***************************************************************************)
Schedule == [token : Nat, due : Nat, priority : {0, 1}, quarantined : BOOLEAN]

NoSchedule == [token |-> 0, due |-> 0, priority |-> 1, quarantined |-> FALSE]

VARIABLES
    rows,        \* [Generations -> rows of that generation]
    active,      \* "active": the published generation, 0 before the first
    generation,  \* "generation": the last generation number handed out
    staging,     \* "staging": the generation being built, 0 when none
    garbage,     \* "garbage": the retired generation not yet reclaimed
    sequence,    \* "sequence": the last work token handed out
    cursor,      \* "cursor": the watch position of the published generation
    fanout,      \* "fanout/": the durable range tasks
    now,         \* the wall clock, in milliseconds
    op,          \* the multi-batch call that holds mu, if any
    handle       \* the generation listToDisk got from BeginSnapshot, or 0

metaVars == <<active, generation, staging, garbage, cursor>>
vars == <<rows, active, generation, staging, garbage, sequence, cursor,
          fanout, now, op, handle>>

EmptyRows ==
    [d |-> [k \in Keys |-> NoItem],     w |-> [k \in Keys |-> 0],
     s |-> [k \in Keys |-> NoSchedule], q |-> {},
     p |-> {},                          i |-> [o \in Owners |-> {}],
     ic |-> [o \in Owners |-> 0],       r |-> [o \in Owners |-> 0],
     pending |-> 0,                     poison |-> 0]

NoTask == [gen |-> -1, after |-> 0]
FreshTask == [gen |-> 0, after |-> 0]

Idle == [name |-> "idle", todo |-> <<>>, family |-> "none", after |-> 0, cursor |-> 0]

Init ==
    /\ rows = [g \in Generations |-> EmptyRows]
    /\ active = 0 /\ generation = 0 /\ staging = 0 /\ garbage = 0
    /\ sequence = 0 /\ cursor = 0
    /\ fanout = [t \in Tasks |-> NoTask]
    /\ now = 1
    /\ op = Idle
    /\ handle = 0

-----------------------------------------------------------------------------
(* Batches.  Each operator maps the rows of one generation to the rows     *)
(* after the batch; the code reads the database and never its own batch,   *)
(* which is the same thing because a batch touches a key once.             *)

\* Mutant: the stored schedule is not read.
ScheduleOf_Default(R, k) == [NoSchedule EXCEPT !.token = R.w[k]]

\* schedule: a work row without a schedule row has the default schedule.
ScheduleOf(R, k) ==
    IF R.s[k] = NoSchedule THEN [NoSchedule EXCEPT !.token = R.w[k]] ELSE R.s[k]

\* diskReadyKey
ReadyRow(k, state) ==
    [priority |-> state.priority, due |-> state.due, token |-> state.token, key |-> k]

\* forgetWork
ForgetWork(R, k) ==
    IF R.w[k] = 0 THEN R
    ELSE LET state == ScheduleOf(R, k) IN
         [R EXCEPT !.q = @ \ {ReadyRow(k, state)},
                   !.w[k] = 0,
                   !.s[k] = NoSchedule,
                   !.p = @ \ {k},
                   !.pending = @ - 1,
                   !.poison = IF state.quarantined THEN @ - 1 ELSE @]

\* queueWork: a live (priority 0) obligation without a due time is due now.
QueueWork(R, k, requested) ==
    LET state == IF requested.priority = 0 /\ requested.due = 0
                 THEN [requested EXCEPT !.due = now] ELSE requested
        explicit == state.priority # 1 \/ state.due # 0 \/ state.quarantined
        F == ForgetWork(R, k)
    IN  [F EXCEPT !.w[k] = state.token,
                  !.pending = @ + 1,
                  !.s[k] = IF explicit THEN state ELSE @,
                  !.q = IF state.quarantined THEN @ ELSE @ \cup {ReadyRow(k, state)},
                  !.p = IF state.quarantined THEN @ \cup {k} ELSE @,
                  !.poison = IF state.quarantined THEN @ + 1 ELSE @]

Live(token) == [token |-> token, due |-> 0, priority |-> 0, quarantined |-> FALSE]
Replay(token) == [token |-> token, due |-> 0, priority |-> 1, quarantined |-> FALSE]

\* diskRelated, for the owners in os
NotifyRelated(R, os, token) ==
    [R EXCEPT !.r = [o \in Owners |-> IF o \in os THEN token ELSE @[o]]]

\* Mutant: the rows of the old relation stay.
Reindex_KeepOld(R, k, old, new) ==
    [R EXCEPT !.i = [o \in Owners |-> @[o] \cup (IF o = new.own THEN {k} ELSE {})],
              !.ic = [o \in Owners |-> @[o] + (IF o = new.own THEN 1 ELSE 0)]]

\* The relation index and counter rows of put when k moves from old to new.
Reindex(R, k, old, new) ==
    [R EXCEPT !.i = [o \in Owners |->
                       (@[o] \ (IF o = old.own THEN {k} ELSE {}))
                         \cup (IF o = new.own THEN {k} ELSE {})],
              !.ic = [o \in Owners |->
                       @[o] - (IF o = old.own THEN 1 ELSE 0)
                            + (IF o = new.own THEN 1 ELSE 0)]]

\* put.  item is NoItem for a deletion; a deletion of a missing row writes
\* nothing but its work, and relations are notified when they may differ.
Put(R, k, item, token, enqueue, priority) ==
    LET old == R.d[k]
        moved == item = NoItem \/ old = NoItem \/ old.own # item.own
        D == [Reindex(R, k, old, item) EXCEPT !.d[k] = item]
        N == IF moved THEN NotifyRelated(D, {old.own, item.own}, token) ELSE D
    IN  IF enqueue
        THEN QueueWork(N, k, [token |-> token, due |-> 0, priority |-> priority,
                              quarantined |-> FALSE])
        ELSE N

\* write refuses a batch that would take a counter below zero.
Writable(R) ==
    /\ R.pending >= 0 /\ R.poison >= 0
    /\ \A o \in Owners : R.ic[o] >= 0

Write(g, R) ==
    /\ Writable(R)
    /\ rows' = [rows EXCEPT ![g] = R]

Token == sequence + 1

\* Mutant: no overflow check.
NextToken_Unchecked == sequence' = Token

NextToken ==
    /\ sequence < MaxSequence
    /\ sequence' = Token

Free == op = Idle                  \* nobody holds mu

-----------------------------------------------------------------------------
(* Reclaiming a generation: deleteGeneration removes rows in key order, a  *)
(* batch per page.  The families up to the relation counters go first, the *)
(* work rows and the counters after them; a page may end in between.       *)

DeletePage ==
    /\ op.todo # <<>>
    /\ LET g == Head(op.todo)
           R == rows[g]
           noData == [EmptyRows EXCEPT !.w = R.w, !.s = R.s, !.q = R.q, !.p = R.p,
                                       !.r = R.r, !.pending = R.pending,
                                       !.poison = R.poison]
       IN  IF R # noData
           THEN /\ rows' = [rows EXCEPT ![g] = noData]
                /\ UNCHANGED op
           ELSE /\ rows' = [rows EXCEPT ![g] = EmptyRows]
                /\ op' = [op EXCEPT !.todo = Tail(@)]
    /\ UNCHANGED <<metaVars, sequence, fanout, now, handle>>

\* retired: what an interrupted listing and the last publication left behind
Retired ==
    CASE staging = 0 /\ garbage = 0 -> <<>>
      [] staging = 0 /\ garbage # 0 -> <<garbage>>
      [] staging # 0 /\ garbage = 0 -> <<staging>>
      [] staging # 0 /\ garbage # 0 -> <<staging, garbage>>

\* Mutant: an interrupted staging generation is not reclaimed.
BeginSnapshot_KeepStaging ==
    /\ Free
    /\ op' = [Idle EXCEPT !.name = "begin", !.todo = IF garbage = 0 THEN <<>> ELSE <<garbage>>]
    /\ handle' = 0
    /\ UNCHANGED <<rows, metaVars, sequence, fanout, now>>

\* BeginSnapshot, up to the first page it deletes.  Its metadata check is a
\* guard: the error leaves everything as it is.
BeginSnapshot ==
    /\ Free
    /\ ~ (staging # 0 /\ staging = active) /\ ~ (garbage # 0 /\ garbage = active)
    /\ staging <= generation /\ garbage <= generation /\ active <= generation
    /\ op' = [Idle EXCEPT !.name = "begin",
                          !.todo = Retired]
    /\ handle' = 0
    /\ UNCHANGED <<rows, metaVars, sequence, fanout, now>>

\* BeginSnapshot, its last batch; at the bound it fails and is interrupted.
BeginSnapshotCommit ==
    /\ op.name = "begin" /\ op.todo = <<>>
    /\ generation < MaxGeneration
    /\ generation' = generation + 1
    /\ staging' = generation + 1
    /\ garbage' = 0
    /\ op' = Idle
    /\ handle' = generation + 1
    /\ UNCHANGED <<rows, active, cursor, sequence, fanout, now>>

\* CollectGarbage, called when the runner holds no snapshot.  Before the second
\* publication garbage is 0, and what it reclaims are the rows of generation 0.
CollectGarbage ==
    /\ Free
    /\ handle = 0
    /\ active # 0
    /\ garbage # active
    /\ op' = [Idle EXCEPT !.name = "collect", !.todo = <<garbage>>]
    /\ UNCHANGED <<rows, metaVars, sequence, fanout, now, handle>>

CollectGarbageCommit ==
    /\ op.name = "collect" /\ op.todo = <<>>
    /\ garbage' = 0
    /\ op' = Idle
    /\ UNCHANGED <<rows, active, generation, staging, cursor, sequence, fanout, now, handle>>

\* DiscardStaging, called once when a runner starts on a published generation.
DiscardStaging ==
    /\ Free
    /\ handle = 0 /\ active # 0
    /\ staging # 0
    /\ staging # active
    /\ op' = [Idle EXCEPT !.name = "discard", !.todo = <<staging>>]
    /\ UNCHANGED <<rows, metaVars, sequence, fanout, now, handle>>

DiscardStagingCommit ==
    /\ op.name = "discard" /\ op.todo = <<>>
    /\ staging' = 0
    /\ op' = Idle
    /\ UNCHANGED <<rows, active, generation, garbage, cursor, sequence, fanout, now, handle>>

\* A multi-batch call fails or is cancelled between two batches, or the
\* process crashes: mu is free again and the database stays as it is.  The
\* runner restarts the whole listing, so the generation it held is lost.
Interrupt ==
    /\ op # Idle \/ handle # 0
    /\ op' = Idle
    /\ handle' = 0
    /\ UNCHANGED <<rows, metaVars, sequence, fanout, now>>

-----------------------------------------------------------------------------
(* Building and publishing a snapshot.                                     *)

\* PutSnapshotPage
PutSnapshotPage(k, item) ==
    /\ Free
    /\ handle # 0
    /\ staging = handle
    /\ NextToken
    /\ Write(handle, Put(rows[handle], k, item, Token, TRUE, 1))
    /\ UNCHANGED <<metaVars, fanout, now, op, handle>>

\* FinishSnapshot takes mu and merges the families d, w and r in turn; the
\* d rows of generation 0 are skipped, there are none.
FinishSnapshot(c) ==
    /\ Free
    /\ handle # 0
    /\ staging = handle
    /\ op' = [Idle EXCEPT !.name = "finish", !.cursor = c,
                          !.family = IF active = 0 THEN "w" ELSE "d"]
    /\ UNCHANGED <<rows, metaVars, sequence, fanout, now, handle>>

Old == rows[active]
New == rows[staging]

\* scan: the first row of the set S behind position after
IsNext(k, S, after) ==
    /\ k \in S
    /\ k > after
    /\ \A j \in S : j > after => k <= j

DataKeys(R) == {k \in Keys : R.d[k] # NoItem}
WorkKeys(R) == {k \in Keys : R.w[k] # 0}
RelatedKeys(R) == {o \in Owners : R.r[o] # 0}

FamilyKeys(family) ==
    CASE family = "d" -> DataKeys(Old)
      [] family = "w" -> WorkKeys(Old)
      [] family = "r" -> RelatedKeys(Old)

\* Mutant: a resource the listing no longer contains is not enqueued.
MergeData_SkipDeleted(k) ==
    /\ IF New.d[k] = Old.d[k] /\ Old.w[k] = 0
       THEN Write(staging, ForgetWork(New, k))
       ELSE UNCHANGED rows
    /\ UNCHANGED sequence

\* A resource of the old generation: deleted resources and changed relations
\* become work, unchanged resources without work need none.
MergeData(k) ==
    LET prior == Old.d[k]
        current == New.d[k]
    IN  \/ /\ current = NoItem
           /\ NextToken
           /\ Write(staging, NotifyRelated(QueueWork(New, k, Replay(Token)),
                                           {prior.own}, Token))
        \/ /\ current # NoItem
           /\ current.own # prior.own
           /\ NextToken
           /\ Write(staging, NotifyRelated(New, {prior.own, current.own}, Token))
        \/ /\ current = prior
           /\ Write(staging, IF Old.w[k] = 0 THEN ForgetWork(New, k) ELSE New)
           /\ UNCHANGED sequence
        \/ /\ current # NoItem /\ current # prior
           /\ current.own = prior.own
           /\ UNCHANGED <<rows, sequence>>

\* Unfinished work keeps its schedule unless its resource changed.
MergeWork(k) ==
    LET state == IF Old.d[k] = New.d[k] THEN ScheduleOf(Old, k) ELSE Replay(0)
    IN  /\ NextToken
        /\ Write(staging, QueueWork(New, k, [state EXCEPT !.token = Token]))

MergeRelated(o) ==
    /\ NextToken
    /\ Write(staging, [New EXCEPT !.r[o] = Token])

FinishPage ==
    /\ op.name = "finish"
    /\ \E k \in Keys \cup Owners :
         /\ \/ op.family = "d" /\ IsNext(k, DataKeys(Old), op.after) /\ MergeData(k)
            \/ op.family = "w" /\ IsNext(k, WorkKeys(Old), op.after) /\ MergeWork(k)
            \/ op.family = "r" /\ IsNext(k, RelatedKeys(Old), op.after) /\ MergeRelated(k)
         /\ op' = [op EXCEPT !.after = k]
    /\ UNCHANGED <<metaVars, fanout, now, handle>>

FamilyDone == \A k \in FamilyKeys(op.family) : k <= op.after

FinishFamily ==
    /\ op.name = "finish" /\ op.family # "r"
    /\ FamilyDone
    /\ op' = [op EXCEPT !.family = IF op.family = "d" THEN "w" ELSE "r", !.after = 0]
    /\ UNCHANGED <<rows, metaVars, sequence, fanout, now, handle>>

\* The last batch of FinishSnapshot publishes the generation and its cursor.
Publish ==
    /\ op.name = "finish" /\ op.family = "r"
    /\ FamilyDone
    /\ active' = staging
    /\ cursor' = op.cursor
    /\ garbage' = active
    /\ staging' = 0
    /\ op' = Idle
    /\ handle' = 0
    /\ UNCHANGED <<rows, generation, sequence, fanout, now>>

-----------------------------------------------------------------------------
(* Watch writes, work and related work.                                    *)

\* Apply (item = NoItem: deleted); its projection and its cursor are one batch.
Apply(k, item, enqueue, c) ==
    /\ Free
    /\ staging = 0
    /\ active # 0
    /\ NextToken
    /\ Write(active, Put(Old, k, item, Token, enqueue, 0))
    /\ cursor' = c
    /\ UNCHANGED <<active, generation, staging, garbage, fanout, now, op, handle>>

\* AdvanceCursor
AdvanceCursor(c) ==
    /\ Free
    /\ staging = 0
    /\ active # 0
    /\ cursor' = c
    /\ UNCHANGED <<rows, active, generation, staging, garbage, sequence, fanout, now,
                   op, handle>>

\* Mutant: the captured token is not compared.
Acknowledge_AnyToken(k, token) ==
    /\ Free
    /\ token # 0
    /\ Old.w[k] # 0
    /\ Write(active, ForgetWork(Old, k))
    /\ UNCHANGED <<metaVars, sequence, fanout, now, op, handle>>

\* Acknowledge: only the captured token completes the work.
Acknowledge(k, token) ==
    /\ Free
    /\ token # 0
    /\ Old.w[k] = token
    /\ Write(active, ForgetWork(Old, k))
    /\ UNCHANGED <<metaVars, sequence, fanout, now, op, handle>>

\* Enqueue
Enqueue(k) ==
    /\ Free
    /\ NextToken
    /\ Write(active, QueueWork(Old, k, Live(Token)))
    /\ UNCHANGED <<metaVars, fanout, now, op, handle>>

\* DeferWork: the obligation keeps its token, a failure quarantines it.
DeferWork(k, token, delay, failed) ==
    /\ Free
    /\ token # 0
    /\ Old.w[k] = token
    /\ Write(active, QueueWork(Old, k, [token |-> token, due |-> now + delay,
                                        priority |-> 0, quarantined |-> failed]))
    /\ UNCHANGED <<metaVars, sequence, fanout, now, op, handle>>

\* Mutant: the captured token is not compared.
AcknowledgeRelated_AnyToken(o, token) ==
    /\ Free
    /\ Old.r[o] # 0
    /\ Write(active, [Old EXCEPT !.r[o] = 0])
    /\ UNCHANGED <<metaVars, sequence, fanout, now, op, handle>>

\* AcknowledgeRelated
AcknowledgeRelated(o, token) ==
    /\ Free
    /\ token # 0
    /\ Old.r[o] = token
    /\ Write(active, [Old EXCEPT !.r[o] = 0])
    /\ UNCHANGED <<metaVars, sequence, fanout, now, op, handle>>

-----------------------------------------------------------------------------
(* Fanout: durable range tasks that enqueue the members of a relation, or  *)
(* every resource, a page at a time.                                       *)

\* RequestFanout: a dependency request restarts its scan, a resync request
\* leaves a running sweep alone.
RequestFanout(t) ==
    /\ Free
    /\ t = Star => fanout[Star] = NoTask
    /\ fanout' = [fanout EXCEPT ![t] = FreshTask]
    /\ UNCHANGED <<rows, metaVars, sequence, now, op, handle>>

FirstTask(t) ==
    /\ fanout[t] # NoTask
    /\ \A u \in Tasks : fanout[u] # NoTask => t <= u

\* The task as ProcessFanout resumes it: a changed generation restarts it.
Resumed(t) ==
    IF fanout[t].gen = active THEN fanout[t] ELSE [gen |-> active, after |-> 0]

\* Mutant: the resync sweep scans the work rows.
Members_Work(t) == IF t = Star THEN WorkKeys(Old) ELSE Old.i[t]

Members(t) == IF t = Star THEN DataKeys(Old) ELSE Old.i[t]

\* ProcessFanout, a page with a row
FanoutPage ==
    /\ Free
    /\ staging = 0
    /\ active # 0
    /\ \E t \in Tasks, k \in Keys :
         /\ FirstTask(t)
         /\ IsNext(k, Members(t), Resumed(t).after)
         /\ fanout' = [fanout EXCEPT ![t] = [gen |-> active, after |-> k]]
         /\ \/ /\ t = Star /\ Old.w[k] # 0
               /\ UNCHANGED <<rows, sequence>>
            \/ /\ t = Star /\ Old.w[k] = 0
               /\ NextToken
               /\ Write(active, QueueWork(Old, k, Replay(Token)))
            \/ /\ t # Star
               /\ NextToken
               /\ Write(active, QueueWork(Old, k, Live(Token)))
    /\ UNCHANGED <<metaVars, now, op, handle>>

\* ProcessFanout, an empty page: the task is complete
FanoutDone ==
    /\ Free
    /\ staging = 0
    /\ active # 0
    /\ \E t \in Tasks :
         /\ FirstTask(t)
         /\ \A k \in Members(t) : k <= Resumed(t).after
         /\ fanout' = [fanout EXCEPT ![t] = NoTask]
    /\ UNCHANGED <<rows, metaVars, sequence, now, op, handle>>

-----------------------------------------------------------------------------
Tick ==
    /\ now < MaxNow
    /\ now' = now + 1
    /\ UNCHANGED <<rows, metaVars, sequence, fanout, op, handle>>

\* What the callers pass.  A listing and the watch deliver items of Item; an
\* event that changes no resource version only advances the cursor.
SnapshotCalls ==
    \/ BeginSnapshot \/ BeginSnapshotCommit \/ DeletePage
    \/ \E k \in Keys, item \in Item : PutSnapshotPage(k, item)
    \/ \E c \in cursor..MaxCursor : c > 0 /\ FinishSnapshot(c)
    \/ FinishPage \/ FinishFamily \/ Publish
    \/ CollectGarbage \/ CollectGarbageCommit
    \/ DiscardStaging \/ DiscardStagingCommit
    \/ Interrupt

WatchCalls ==
    /\ cursor < MaxCursor
    /\ \/ \E k \in Keys, item \in Item, enqueue \in BOOLEAN :
            /\ Old.d[k].ver # item.ver
            /\ Old.d[k] = NoItem => enqueue
            /\ Apply(k, item, enqueue, cursor + 1)
       \/ \E k \in Keys : Apply(k, NoItem, TRUE, cursor + 1)
       \/ AdvanceCursor(cursor + 1)

OtherWorkCalls ==
    \/ \E k \in Keys : Enqueue(k)
    \/ \E k \in Keys : Acknowledge(k, Old.w[k])
    \/ \E k \in Keys, delay \in 0..1 : DeferWork(k, Old.w[k], delay, FALSE)
    \/ \E k \in Keys : DeferWork(k, Old.w[k], 0, TRUE)
    \/ \E o \in Owners : AcknowledgeRelated(o, Old.r[o])
    \/ FanoutPage \/ FanoutDone

WorkCalls == OtherWorkCalls \/ \E t \in Requests : RequestFanout(t)

Next == SnapshotCalls \/ WatchCalls \/ WorkCalls \/ Tick

Spec == Init /\ [][Next]_vars

-----------------------------------------------------------------------------
(* Properties.                                                             *)

ReadyRows == [priority : {0, 1}, due : Nat, token : Nat, key : Keys]

RowsType ==
    [d : [Keys -> Item \cup {NoItem}], w : [Keys -> Nat], s : [Keys -> Schedule],
     q : SUBSET ReadyRows, p : SUBSET Keys, i : [Owners -> SUBSET Keys],
     ic : [Owners -> Nat], r : [Owners -> Nat], pending : Nat, poison : Nat]

OpType ==
    [name : {"idle", "begin", "collect", "discard", "finish"},
     todo : Seq(Generations), family : {"none", "d", "w", "r"},
     after : Nat, cursor : Nat]

TaskType == [gen : Generations \cup {-1}, after : Nat]

\* The type of every row and of the store's metadata; counters never go
\* below zero (write would refuse the batch), and token and generation stay
\* within what their counters can hold.
TypeOK ==
    /\ rows \in [Generations -> RowsType]
    /\ active \in Generations /\ generation \in Generations
    /\ staging \in Generations /\ garbage \in Generations
    /\ handle \in Generations
    /\ sequence \in 0..MaxSequence
    /\ cursor \in Nat
    /\ fanout \in [Tasks -> TaskType]
    /\ now \in Nat \ {0}
    /\ op \in OpType

\* The generations whose rows are complete: the published one and the one a
\* listing is writing.
Whole == {active} \cup ({handle} \ {0})

\* The ready index, the quarantine rows, the schedules and the two counters of
\* a complete generation say the same as its work rows: forgetWork and
\* queueWork find the ready row of a key from its schedule alone, so one row
\* left behind by any sequence of calls is work that is dispatched for ever or
\* never.
WorkIndexExact ==
    \A g \in Whole :
      LET R == rows[g] IN
      /\ \A k \in Keys : R.s[k] # NoSchedule => R.w[k] # 0 /\ R.s[k].token = R.w[k]
      /\ R.q = {ReadyRow(k, ScheduleOf(R, k)) :
                  k \in {j \in WorkKeys(R) : ~ ScheduleOf(R, j).quarantined}}
      /\ R.p = {k \in WorkKeys(R) : ScheduleOf(R, k).quarantined}
      /\ R.pending = Cardinality(WorkKeys(R))
      /\ R.poison = Cardinality(R.p)

\* The relation index and its counters are what the projected resources say:
\* IndexPage and IndexCount answer from rows put maintains by difference.
RelationIndexExact ==
    \A g \in Whole : \A o \in Owners :
      /\ rows[g].i[o] = {k \in Keys : rows[g].d[k].own = o}
      /\ rows[g].ic[o] = Cardinality(rows[g].i[o])

\* A crash at any batch leaks no rows: every generation that has rows is named
\* by active, staging or garbage, so the next BeginSnapshot, DiscardStaging or
\* CollectGarbage reclaims it, and never the one that is published.
NoLeakedGeneration ==
    /\ \A g \in Generations \ {0} :
         rows[g] # EmptyRows => g \in {active, staging, garbage}
    /\ staging # 0 => staging \notin {active, garbage}
    /\ garbage # 0 => garbage # active

\* Publication loses nothing and adds nothing: what was unfinished in the old generation, what
\* the listing changed and what it no longer contains is work in the new one,
\* a quarantined resource that did not change stays quarantined, and every
\* relation that was waiting or whose members changed is notified; a resource
\* the listing found unchanged and that had no work has none afterwards.
PublishExact ==
    [][active' # active =>
         LET N == rows'[active'] IN
         /\ \A k \in Keys :
              Old.w[k] # 0 \/ Old.d[k] # N.d[k] => N.w[k] # 0
         /\ \A k \in Keys :
              Old.d[k] # NoItem /\ Old.d[k] = N.d[k] /\ Old.w[k] = 0 => N.w[k] = 0
         /\ \A k \in Old.p : Old.d[k] = N.d[k] => k \in N.p
         /\ \A o \in Owners :
              Old.r[o] # 0 \/ Old.i[o] # N.i[o] => N.r[o] # 0]_vars

=============================================================================
