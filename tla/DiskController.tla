--------------------------- MODULE DiskController ---------------------------
(***************************************************************************)
(* One controller kind, end to end: the API's resources and its watch log, *)
(* the list/watch runner (internal/listwatch/runner.go), the durable store *)
(* (DiskStore), the recovery gate (internal/cache/cache.go) and the        *)
(* dispatch loop with its workers (internal/manager/manager.go).           *)
(*                                                                         *)
(* The watch log is a sequence of changes; a cursor is a position in it    *)
(* and the version of a projected resource is the position of the change   *)
(* that wrote it.  The API counts resourceVersion from 1 for every         *)
(* incarnation of a resource, so two positions may carry the same          *)
(* resourceVersion (Revision).  Bookmarks have sequence numbers of their   *)
(* own in the journal and carry nothing; the model drops those numbers and *)
(* lets the stream deliver a bookmark between any two changes.             *)
(*                                                                         *)
(* A crash loses everything but the log and the store.                     *)
(***************************************************************************)
EXTENDS DiskStore

CONSTANTS
    Kinds,        \* the kinds to check, see the assumption
    WorkerCount,  \* ReconcilerRegistration.WorkerCount
    MaxFaults     \* bound on crashes, expiries, failed calls and failed attempts

ASSUME ControllerAssumption ==
    /\ Kinds \subseteq [filtered : BOOLEAN,     \* sets AcceptUpdate and ShouldEnqueueUpdate
                         keys : SUBSET Keys,    \* bound on the resources the API has
                         changes : 0..MaxCursor]\* bound on the changes it commits
    /\ WorkerCount \in Nat \ {0}
    /\ MaxFaults \in Nat
    /\ 1 \in Owners

VARIABLES
    kind,       \* the kind the controller is for, one of Kinds
    log,        \* what the API committed, in watch order
    pc,         \* where the runner is
    listed,     \* the last key of the listing's last page
    listCursor, \* the cursor bootstrapCursor returned for this listing
    rv,         \* Runner.currentRV
    recovering, \* Cache.recovery.Recovering
    synced,     \* Cache.synced
    loop,       \* where the dispatch loop is
    page,       \* the page of Ready the dispatch loop is going through
    lease,      \* kindState.leases: the captured token of a reserved key, or 0
    phase,      \* what the worker of a reserved key does
    saw,        \* what the reconciliation of a key has read
    seen,       \* what the last successful reconciliation of a key had read
    faults      \* faults so far

apiVars == <<kind, log>>
runnerVars == <<pc, listed, listCursor, rv>>
gateVars == <<recovering, synced>>
loopVars == <<loop, page>>
workVars == <<lease, phase, saw, seen>>
managerVars == <<loopVars, workVars>>
cVars == <<vars, apiVars, runnerVars, gateVars, managerVars, faults>>

ControllerInit ==
    /\ Init
    /\ kind \in Kinds
    /\ log = <<>>
    /\ pc = "start" /\ listed = 0 /\ listCursor = 0 /\ rv = 0
    /\ recovering = FALSE /\ synced = FALSE
    /\ loop = "gate" /\ page = {}
    /\ lease = [k \in Keys |-> 0]
    /\ phase = [k \in Keys |-> "none"]
    /\ saw = [k \in Keys |-> 0]
    /\ seen = [k \in Keys |-> 0]
    /\ faults = 0

Fault == faults < MaxFaults /\ faults' = faults + 1

-----------------------------------------------------------------------------
(* The API.                                                                *)

\* The state of k after the first h changes.
ItemAsOf(k, h) ==
    LET P == {p \in 1..h : log[p].key = k}
        last == CHOOSE p \in P : \A q \in P : q <= p
    IN  IF P = {} THEN NoItem
        ELSE IF log[last].type = "delete" THEN NoItem
        ELSE [ver |-> last, own |-> 1]

ApiItem(k) == ItemAsOf(k, Len(log))

ListedKeys == {k \in Keys : ApiItem(k) # NoItem}

\* The changes of the incarnation that change p belongs to, up to p.
Incarnation(p) ==
    {q \in 1..p : /\ log[q].key = log[p].key
                  /\ \A j \in q..p : log[j].key = log[p].key => log[j].type # "delete"}

Revision(p) == Cardinality(Incarnation(p))

GenerationOf(p) == Cardinality({q \in Incarnation(p) : log[q].type = "spec"})

\* The deletion timestamp or the foreground deletion finalizer is set.
Marked(p) == \E q \in Incarnation(p) : log[q].type = "mark"

\* What of a resource a reconciliation has to see: for a kind that filters
\* updates the last change that is not of its status, otherwise every change.
Content(item) ==
    IF item = NoItem THEN 0
    ELSE LET C == {q \in Incarnation(item.ver) : kind.filtered => log[q].type # "status"}
         IN  CHOOSE q \in C : \A j \in C : j <= q

\* A resource is created, updated, marked for deletion once, and deleted.
ApiWrite(k) ==
    /\ k \in kind.keys /\ Len(log) < kind.changes
    /\ \E type \in {"spec", "status", "mark", "delete"} :
         /\ ApiItem(k) = NoItem => type = "spec"
         /\ ~ kind.filtered => type \in {"spec", "delete"}
         /\ type = "mark" => ~ Marked(ApiItem(k).ver)
         /\ log' = Append(log, [key |-> k, type |-> type])
    /\ UNCHANGED <<vars, kind, runnerVars, gateVars, managerVars, faults>>

-----------------------------------------------------------------------------
(* The recovery gate.  BeginRecovery closes admission at once and returns  *)
(* when the dispatches that hold a permit are done.                        *)

Running == {k \in Keys : phase[k] \in {"run", "read", "defer"}}

CloseGate == recovering' = TRUE /\ UNCHANGED synced

\* Mutant: BeginRecovery does not wait.
Drained_NoWait == TRUE

Drained == Running = {}

-----------------------------------------------------------------------------
(* The runner.                                                             *)

\* runDisk: BeginRecovery, then listing or resuming.
Start ==
    /\ pc = "start" /\ pc' = "drain"
    /\ CloseGate
    /\ UNCHANGED <<vars, apiVars, listed, listCursor, rv, managerVars, faults>>

\* BeginRecovery returns: at the start, before the listing after an expired
\* watch, and before an event is applied again.
RecoveryBegun ==
    /\ Drained
    /\ \/ pc = "drain" /\ pc' = IF active = 0 THEN "list" ELSE "discard"
       \/ pc = "expired" /\ pc' = "list"
       \/ pc = "retry" /\ pc' = "watch"
    /\ UNCHANGED <<vars, apiVars, listed, listCursor, rv, gateVars, managerVars, faults>>

\* DiscardStaging, and resuming at the durable cursor
Discard ==
    /\ pc = "discard"
    /\ \/ /\ \/ DiscardStaging
             \/ op.name = "discard" /\ DeletePage
             \/ DiscardStagingCommit
          /\ UNCHANGED <<runnerVars, gateVars>>
       \/ /\ Free /\ staging = 0
          /\ pc' = "collect"
          /\ rv' = cursor
          /\ synced' = TRUE
          /\ UNCHANGED <<vars, listed, listCursor, recovering>>
    /\ UNCHANGED <<apiVars, managerVars, faults>>

\* listToDisk: BeginSnapshot, the cursor, the pages in key order, FinishSnapshot.
ListBegin ==
    /\ pc = "list"
    /\ \/ (BeginSnapshot \/ (op.name = "begin" /\ DeletePage)) /\ UNCHANGED pc
       \/ BeginSnapshotCommit /\ pc' = "cursor"
    /\ UNCHANGED <<apiVars, listed, listCursor, rv, gateVars, managerVars, faults>>

\* ListPages asks for the watch position before it asks for the first page.
ListCursor ==
    /\ pc = "cursor" /\ pc' = "pages"
    /\ listCursor' = Len(log)
    /\ listed' = 0
    /\ UNCHANGED <<vars, apiVars, rv, gateVars, managerVars, faults>>

\* A page: what the API holds now behind the last key.
ListPage ==
    /\ pc = "pages"
    /\ \E k \in Keys :
         /\ IsNext(k, ListedKeys, listed)
         /\ PutSnapshotPage(k, ApiItem(k))
         /\ listed' = k
    /\ UNCHANGED <<apiVars, pc, listCursor, rv, gateVars, managerVars, faults>>

\* Mutant: the watch position is taken after the last page.
ListFinish_LateCursor ==
    /\ pc = "pages"
    /\ \/ /\ \/ (\A k \in ListedKeys : k <= listed) /\ FinishSnapshot(Len(log))
             \/ FinishPage
             \/ FinishFamily
          /\ UNCHANGED <<runnerVars, gateVars>>
       \/ /\ Publish
          /\ rv' = op.cursor /\ synced' = TRUE /\ pc' = "collect"
          /\ listed' = 0 /\ listCursor' = 0
          /\ UNCHANGED recovering
    /\ UNCHANGED <<apiVars, managerVars, faults>>

ListFinish ==
    /\ pc = "pages"
    /\ \/ /\ \/ (\A k \in ListedKeys : k <= listed) /\ FinishSnapshot(listCursor)
             \/ FinishPage
             \/ FinishFamily
          /\ UNCHANGED <<runnerVars, gateVars>>
       \/ /\ Publish
          /\ rv' = op.cursor
          /\ synced' = TRUE
          /\ pc' = "collect"
          /\ listed' = 0 /\ listCursor' = 0
          /\ UNCHANGED recovering
    /\ UNCHANGED <<apiVars, managerVars, faults>>

\* A call of listToDisk fails: diskRetry runs the whole listing again.
ListFails ==
    /\ pc \in {"list", "cursor", "pages"}
    /\ Fault
    /\ Interrupt
    /\ pc' = "list" /\ listed' = 0 /\ listCursor' = 0
    /\ UNCHANGED <<apiVars, rv, gateVars, managerVars>>

\* collectDiskGarbage
Collect ==
    /\ pc = "collect"
    /\ \/ (CollectGarbage \/ (op.name = "collect" /\ DeletePage)) /\ UNCHANGED pc
       \/ CollectGarbageCommit /\ pc' = "connect"
    /\ UNCHANGED <<apiVars, listed, listCursor, rv, gateVars, managerVars, faults>>

\* Watch at currentRV
Connect ==
    /\ pc = "connect" /\ pc' = "watch"
    /\ UNCHANGED <<vars, apiVars, listed, listCursor, rv, gateVars, managerVars, faults>>

\* The stream ends, or it is refused or ended with WATCH_EXPIRED: retention,
\* the replay limit or a subscriber that was too slow.
WatchEnds ==
    /\ pc \in {"connect", "watch"}
    /\ Fault
    /\ \/ pc' = "connect" /\ UNCHANGED gateVars
       \/ pc' = "expired" /\ CloseGate
    /\ UNCHANGED <<vars, apiVars, listed, listCursor, rv, managerVars>>

\* AcceptWatchUpdate of a kind that filters, for changes p (projected) and q
AcceptUpdate(p, q) ==
    kind.filtered => IF GenerationOf(q) # GenerationOf(p) THEN GenerationOf(q) > GenerationOf(p)
                ELSE Revision(q) >= Revision(p)

\* ShouldEnqueueWatchUpdate of a kind that filters
ShouldEnqueueUpdate(p, q) ==
    kind.filtered => GenerationOf(q) > GenerationOf(p) \/ (~ Marked(p) /\ Marked(q))

\* applyDiskEvent for the change at position q
ApplyDiskEvent(q) ==
    LET k == log[q].key
        prior == Old.d[k].ver
    IN  \/ /\ log[q].type = "delete"
           /\ Apply(k, NoItem, TRUE, q)
        \/ /\ log[q].type # "delete"
           /\ prior # 0
           /\ Revision(prior) = Revision(q) \/ ~ AcceptUpdate(prior, q)
           /\ AdvanceCursor(q)
        \/ /\ log[q].type # "delete"
           /\ prior # 0 => Revision(prior) # Revision(q) /\ AcceptUpdate(prior, q)
           /\ Apply(k, [ver |-> q, own |-> 1],
                    prior # 0 => ShouldEnqueueUpdate(prior, q), q)

\* consumeDiskWatch, a change
WatchEvent ==
    /\ pc = "watch"
    /\ rv < Len(log)
    /\ ApplyDiskEvent(rv + 1)
    /\ rv' = rv + 1
    /\ UNCHANGED <<apiVars, pc, listed, listCursor, gateVars, managerVars, faults>>

\* ... that fails, with or without its batch written (write may fail after
\* db.Write): admission closes and the event is applied again.
WatchEventFails ==
    /\ pc = "watch" /\ pc' = "retry"
    /\ rv < Len(log)
    /\ Fault
    /\ ApplyDiskEvent(rv + 1) \/ UNCHANGED vars
    /\ CloseGate
    /\ UNCHANGED <<apiVars, listed, listCursor, rv, managerVars>>

\* consumeDiskWatch, a bookmark: with WaitForWatchBookmark only this reopens
\* admission.
Bookmark ==
    /\ pc = "watch"
    /\ AdvanceCursor(rv)
    /\ recovering' = FALSE
    /\ UNCHANGED <<apiVars, runnerVars, synced, managerVars, faults>>

-----------------------------------------------------------------------------
(* The dispatch loop and the workers.                                      *)

Before(x, y) ==
    \/ x.priority < y.priority
    \/ x.priority = y.priority /\ x.due < y.due
    \/ x.priority = y.priority /\ x.due = y.due /\ x.token < y.token

\* Ready: the first WorkerCount due rows of the ready index
ReadyPage ==
    LET due == {x \in Old.q : x.due <= now}
    IN  {x \in due : Cardinality({y \in due : Before(y, x)}) < WorkerCount}

Leased == {k \in Keys : lease[k] # 0}

\* WaitForRecovery
LoopGate ==
    /\ loop = "gate" /\ loop' = "ready"
    /\ synced /\ ~ recovering
    /\ UNCHANGED <<vars, apiVars, runnerVars, gateVars, page, workVars, faults>>

\* Ready is skipped while every worker is taken and refused during a long operation.
LoopReady ==
    /\ loop = "ready"
    /\ \/ /\ Cardinality(Leased) >= WorkerCount \/ ~ Free
          /\ loop' = "gate" /\ page' = {}
       \/ /\ Cardinality(Leased) < WorkerCount /\ Free
          /\ loop' = "page" /\ page' = ReadyPage
    /\ UNCHANGED <<vars, apiVars, runnerVars, gateVars, workVars, faults>>

\* A row of the page is leased unless its key is or no worker is left.
LoopLease ==
    /\ loop = "page"
    /\ \/ /\ page = {} /\ loop' = "gate"
          /\ UNCHANGED <<page, lease, phase>>
       \/ \E x \in page :
            /\ page' = page \ {x}
            /\ IF lease[x.key] = 0 /\ Cardinality(Leased) < WorkerCount
               THEN /\ lease' = [lease EXCEPT ![x.key] = x.token]
                    /\ phase' = [phase EXCEPT ![x.key] = "wait"]
               ELSE UNCHANGED <<lease, phase>>
            /\ UNCHANGED loop
    /\ UNCHANGED <<vars, apiVars, runnerVars, gateVars, saw, seen, faults>>

\* AcquireDispatch
AcquireDispatch(k) ==
    /\ phase[k] = "wait"
    /\ ~ recovering
    /\ phase' = [phase EXCEPT ![k] = "run"]
    /\ UNCHANGED <<vars, apiVars, runnerVars, gateVars, loopVars, lease, saw, seen, faults>>

\* The reconciler's Lookup
Lookup(k) ==
    /\ phase[k] = "run"
    /\ \/ /\ recovering \/ ~ synced \/ ~ Free
          /\ phase' = [phase EXCEPT ![k] = "defer"]
          /\ UNCHANGED saw
       \/ /\ ~ recovering /\ synced /\ Free
          /\ phase' = [phase EXCEPT ![k] = "read"]
          /\ saw' = [saw EXCEPT ![k] = Content(Old.d[k])]
    /\ UNCHANGED <<vars, apiVars, runnerVars, gateVars, loopVars, lease, seen, faults>>

\* Mutant: the lease is not deleted.
Return_KeepLease(k) ==
    /\ phase' = [phase EXCEPT ![k] = "none"]
    /\ UNCHANGED lease
    /\ saw' = [saw EXCEPT ![k] = 0]

\* The dispatch returns: the permit and the lease are released.
Return(k) ==
    /\ phase' = [phase EXCEPT ![k] = "none"]
    /\ lease' = [lease EXCEPT ![k] = 0]
    /\ saw' = [saw EXCEPT ![k] = 0]

\* A call with a token that is no longer current changes nothing.
Stale(k) == Free /\ Old.w[k] # lease[k] /\ UNCHANGED vars

\* Success: complete
Succeed(k) ==
    /\ phase[k] = "read"
    /\ Acknowledge(k, lease[k]) \/ Stale(k)
    /\ seen' = [seen EXCEPT ![k] = saw[k]]
    /\ Return(k)
    /\ UNCHANGED <<apiVars, runnerVars, gateVars, loopVars, faults>>

\* ErrSnapshotInProgress: scheduleRequeue
Defer(k) ==
    /\ phase[k] = "defer"
    /\ DeferWork(k, lease[k], 0, FALSE) \/ Stale(k)
    /\ Return(k)
    /\ UNCHANGED <<apiVars, runnerVars, gateVars, loopVars, seen, faults>>

\* A failed attempt: requeued, quarantined, or tried again under the same permit.
Fail(k) ==
    /\ phase[k] = "read"
    /\ Fault
    /\ \/ /\ \E failed \in BOOLEAN : DeferWork(k, lease[k], 0, failed)
          /\ Return(k)
       \/ /\ Stale(k)
          /\ Return(k)
       \/ /\ phase' = [phase EXCEPT ![k] = "run"]
          /\ UNCHANGED <<vars, lease, saw>>
    /\ UNCHANGED <<apiVars, runnerVars, gateVars, loopVars, seen>>

Crash ==
    /\ Fault
    /\ op' = Idle /\ handle' = 0
    /\ pc' = "start" /\ listed' = 0 /\ listCursor' = 0 /\ rv' = 0
    /\ recovering' = FALSE /\ synced' = FALSE
    /\ loop' = "gate" /\ page' = {}
    /\ lease' = [k \in Keys |-> 0]
    /\ phase' = [k \in Keys |-> "none"]
    /\ saw' = [k \in Keys |-> 0]
    /\ UNCHANGED <<rows, metaVars, sequence, fanout, now, apiVars, seen>>

-----------------------------------------------------------------------------
RunnerStep ==
    \/ Start \/ RecoveryBegun \/ Discard
    \/ ListBegin \/ ListCursor \/ ListPage \/ ListFinish
    \/ Collect \/ Connect \/ WatchEvent

LoopStep == LoopGate \/ LoopReady \/ LoopLease

WorkerStep(k) == AcquireDispatch(k) \/ Lookup(k) \/ Succeed(k) \/ Defer(k)

Faulty == ListFails \/ WatchEnds \/ WatchEventFails \/ (\E k \in Keys : Fail(k)) \/ Crash

ControllerNext ==
    \/ \E k \in Keys : ApiWrite(k)
    \/ RunnerStep \/ Bookmark
    \/ LoopStep
    \/ \E k \in Keys : WorkerStep(k)
    \/ Faulty

Fairness ==
    /\ WF_cVars(RunnerStep)
    /\ WF_cVars(Bookmark)
    /\ WF_cVars(LoopStep)
    /\ \A k \in Keys : WF_cVars(WorkerStep(k))

ControllerSpec == ControllerInit /\ [][ControllerNext]_cVars

FairController == ControllerSpec /\ Fairness

-----------------------------------------------------------------------------
(* Properties.                                                             *)

\* Every projected resource is the API's at some position that is not before
\* the durable cursor: a listing that races with writers may be ahead of its
\* cursor, but a restart at the cursor replays everything the projection does
\* not have.  In particular a caught-up watch has the API's state.
ProjectionCurrent ==
    active # 0 =>
      \A k \in Keys : \E h \in cursor..Len(log) : Old.d[k] = ItemAsOf(k, h)

\* A resource without durable work was reconciled successfully in a state not
\* older than the durable cursor, whatever crashes, listings, duplicate events
\* and acknowledgements with old tokens came in between.
NoLostWork ==
    active # 0 =>
      \A k \in Keys : Old.w[k] = 0 =>
        \E h \in cursor..Len(log) : seen[k] = Content(ItemAsOf(k, h))

\* While the replacement snapshot is built no dispatch is between its permit and
\* its completion (the comment of AcquireDispatch promises it).
RelistDrained == pc \in {"list", "cursor", "pages"} => Running = {}

\* Once the API is quiet and faults have ended, every resource that is not
\* quarantined is eventually reconciled in its final state: the gate reopens,
\* leases return, and no order of listing, replay and dispatch strands work.
Reconciled ==
    <>[](\A k \in Keys : k \in Old.p \/ seen[k] = Content(ApiItem(k)))

=============================================================================
