---------------------------- MODULE WatchJournal ----------------------------
(***************************************************************************)
(* The ordered watch journal and its fenced materializer                   *)
(* (gitstore-api/internal/datastore/scylla/namespace_watch.go, with        *)
(* internal/watchjournal/lease.go and materializer.go and the leader loop  *)
(* of internal/app/server.go).                                             *)
(*                                                                         *)
(* Replicas compete for a lease on the clock row.  The leader takes the    *)
(* changes 1, 2, ... of the CDC source in order, writes them as journal    *)
(* rows behind the high water and then moves the high water over them;     *)
(* readers see the rows up to the high water.  Every access to the clock   *)
(* and to a journal row is one linearizable Scylla statement and is one    *)
(* step here; between two of them any other replica may run, and a reply   *)
(* may get lost although the statement was applied.                        *)
(*                                                                         *)
(* Time is left out: whether a lease has expired depends on the clocks of  *)
(* two machines, so a replica may take the lease over at any moment and a  *)
(* leader may give up at any moment.  What must hold rests on the fencing  *)
(* token alone.  Rows do not reach their TTL (7 days) during the steps of  *)
(* one append.                                                             *)
(***************************************************************************)
EXTENDS Integers

CONSTANTS
    Replicas,   \* API processes
    Changes,    \* number of changes of the CDC source
    BatchSize,  \* bound on the changes of one AppendBatch chunk
    MaxToken,   \* bound on the fencing token
    MaxWater    \* bound on the high water

Nobody == "nobody"              \* the empty holder, which no process may have

ASSUME JournalAssumption ==
    /\ Nobody \notin Replicas
    /\ Changes \in Nat
    /\ BatchSize \in Nat \ {0}
    /\ MaxToken \in Nat
    /\ MaxWater \in Nat

Bookmark == 0                   \* the source position of a bookmark

NoRow == [src |-> -1, token |-> 0]

Rows == [src : 0..Changes, token : 1..MaxToken]

\* A replica that is in no append: its lease, the next change of its CDC thread and
\* the batch this thread has yet to save
Between(pc, t, next, unsaved) ==
    [pc |-> pc, token |-> t, next |-> next, unsaved |-> unsaved,
     ev |-> 0, chunk |-> 0, upto |-> 0, count |-> 0, water |-> 0, old |-> NoRow]

Out == Between("out", 0, 0, 0)

VARIABLES
    holder,     \* resource_watch_clock.lease_holder
    token,      \* resource_watch_clock.fencing_token
    water,      \* resource_watch_clock.high_water
    events,     \* resource_watch_events, by sequence
    progress,   \* the published frontier: the last change of a saved batch
    node,       \* per replica: the append it is in
    adopted     \* history: an append went on with an older leader's row (Settle)

clockVars == <<holder, token, water>>
jVars == <<holder, token, water, events, progress, node, adopted>>

Init ==
    /\ holder = Nobody /\ token = 0 /\ water = 0
    /\ events = [s \in 1..MaxWater |-> NoRow]
    /\ progress = 0
    /\ node = [r \in Replicas |-> Out]
    /\ adopted = FALSE

Set(r, n) == node' = [node EXCEPT ![r] = n]

Goto(r, pc) == Set(r, [node[r] EXCEPT !.pc = pc])

\* Mutant: a lease counts although a newer one was granted.
Mine_OrOlder(r) == node[r].token <= token

\* namespaceWatchLeaseMatches, and the condition of every fenced statement
Mine(r) == holder = r /\ token = node[r].token

-----------------------------------------------------------------------------
(* The lease.                                                              *)

\* AcquireLease: the conditional update loses to any update since the read, so
\* both are one step.  resolveNamespaceLeaseAcquisition finds out about a lost
\* reply; when that read fails too, nobody acts on the lease.  Nothing but the
\* new leader changes the published frontier it goes on from.
Acquire(r) ==
    /\ node[r].pc = "out"
    /\ token < MaxToken
    /\ holder' = r /\ token' = token + 1
    /\ \/ Set(r, Between("idle", token + 1, progress + 1, 0))
       \/ UNCHANGED node
    /\ UNCHANGED <<water, events, progress, adopted>>

\* Maintain releases the lease when it ends, whatever the appending threads are
\* doing at that moment.
Release(r) ==
    /\ node[r].pc # "out" /\ Mine(r)
    /\ holder' = Nobody
    /\ UNCHANGED <<token, water, events, progress, node, adopted>>

\* runAsLeader returns, or the process dies.
StepDown(r) ==
    /\ node[r].pc # "out"
    /\ Set(r, Out)
    /\ UNCHANGED <<clockVars, events, progress, adopted>>

-----------------------------------------------------------------------------
(* Append and AppendBatch, one at a time under appendMu.  AppendBatch      *)
(* writes a chunk of the batch at a time; a chunk that cannot be written   *)
(* in one statement goes through Append event by event.                    *)

Idle(r, next, unsaved) == Between("idle", node[r].token, next, unsaved)

\* An append returns an error.  Its thread ends; until runAsLeader returns the
\* other one may still append.
Failed(r) ==
    Set(r, Idle(r, IF node[r].ev = Bookmark THEN node[r].next ELSE Changes + 1,
                node[r].unsaved))

\* loadNamespaceWatchClock and the lease check, ErrStaleWatchLease
Loaded(r, n) ==
    IF Mine(r) THEN Set(r, [n EXCEPT !.water = water, !.old = NoRow]) ELSE Failed(r)

\* AppendBookmark.  An event of another CDC source behaves in the same way.
AppendBookmark(r) ==
    /\ node[r].pc = "idle"
    /\ Set(r, [node[r] EXCEPT !.pc = "load", !.ev = Bookmark, !.chunk = Bookmark,
                              !.upto = Bookmark])
    /\ UNCHANGED <<clockVars, events, progress, adopted>>

\* MaterializeBatch with the next changes of the source
MaterializeBatch(r) ==
    /\ node[r].pc = "idle" /\ node[r].unsaved = 0
    /\ \E p \in node[r].next..Changes :
         Set(r, [node[r] EXCEPT !.pc = "batch", !.ev = node[r].next, !.upto = p])
    /\ UNCHANGED <<clockVars, events, progress, adopted>>

\* AppendBatch takes as many events as fit into a statement and a bucket.
LoadChunk(r) ==
    /\ node[r].pc = "batch"
    /\ \E c \in 1..BatchSize :
         /\ node[r].ev + c - 1 <= node[r].upto
         /\ Loaded(r, [node[r] EXCEPT !.pc = "insertBatch", !.count = c,
                                      !.chunk = node[r].ev + c - 1])
    /\ UNCHANGED <<clockVars, events, progress, adopted>>

\* Append starts, or starts over.
Load(r) ==
    /\ node[r].pc = "load"
    /\ Loaded(r, [node[r] EXCEPT !.pc = "insert", !.count = 1])
    /\ UNCHANGED <<clockVars, events, progress, adopted>>

Span(r) == (node[r].water + 1)..(node[r].water + node[r].count)

\* The candidate row of a sequence
Candidate(r, s) ==
    [src |-> IF node[r].ev = Bookmark THEN Bookmark
             ELSE node[r].ev + s - node[r].water - 1,
     token |-> node[r].token]

\* Mutant: the insert is not conditional.
Written_Upsert(r) ==
    events' = [s \in DOMAIN events |-> IF s \in Span(r) THEN Candidate(r, s) ELSE events[s]]

\* IF NOT EXISTS, for every row of the statement
Written(r) ==
    /\ \A s \in Span(r) : events[s] = NoRow
    /\ events' = [s \in DOMAIN events |->
                    IF s \in Span(r) THEN Candidate(r, s) ELSE events[s]]

\* INSERT ... IF NOT EXISTS of all rows of a chunk: one conditional batch.  When
\* it is not applied, or its reply is lost, every event is appended by itself.
InsertBatch(r) ==
    /\ node[r].pc = "insertBatch"
    /\ node[r].water + node[r].count <= MaxWater
    /\ \/ Written(r) /\ (Goto(r, "publish") \/ Goto(r, "load"))
       \/ Goto(r, "load") /\ UNCHANGED events
    /\ UNCHANGED <<clockVars, progress, adopted>>

\* INSERT ... IF NOT EXISTS of one row.  A lost reply is an error.
Insert(r) ==
    /\ node[r].pc = "insert"
    /\ node[r].water < MaxWater
    /\ \/ Written(r) /\ (Goto(r, "publish") \/ Failed(r))
       \/ events[node[r].water + 1] # NoRow /\ Goto(r, "conflict") /\ UNCHANGED events
    /\ UNCHANGED <<clockVars, progress, adopted>>

\* namespaceWatchEvent: the row that was in the way
ReadExisting(r) ==
    /\ node[r].pc = "conflict"
    /\ Set(r, [node[r] EXCEPT !.pc = "settle", !.old = events[node[r].water + 1]])
    /\ UNCHANGED <<clockVars, events, progress, adopted>>

\* The row in the way has the deduplication key of this event, which for a
\* bookmark is the time it was made.
SameEvent(r) ==
    /\ node[r].old.src = node[r].ev
    /\ node[r].ev = Bookmark => node[r].old.token = node[r].token

\* A row of an older leader is deleted, if its token is still older then, and a
\* row of a newer leader ends this one.  Otherwise the row is published if it is
\* this event, and the append starts over if not.
Settle(r) ==
    LET s == node[r].water + 1 IN
    /\ node[r].pc = "settle"
    /\ IF /\ node[r].old.token < node[r].token
          /\ events[s] # NoRow /\ events[s].token < node[r].token
       THEN events' = [events EXCEPT ![s] = NoRow] /\ Goto(r, "load") /\ UNCHANGED adopted
       ELSE /\ UNCHANGED events
            /\ IF node[r].old.token > node[r].token THEN Failed(r)
               ELSE Goto(r, IF SameEvent(r) THEN "publish" ELSE "load")
            /\ adopted' = (adopted \/ (SameEvent(r) /\ node[r].old.token < node[r].token))
    /\ UNCHANGED <<clockVars, progress>>

\* Mutant: the rest of the batch is forgotten after its first chunk.
Appended_OneChunk(r) ==
    LET ev == node[r].ev + node[r].count IN
    Set(r, IF node[r].ev = Bookmark THEN Idle(r, node[r].next, node[r].unsaved)
           ELSE IF ev <= node[r].chunk THEN [node[r] EXCEPT !.pc = "load", !.ev = ev]
           ELSE Idle(r, node[r].upto + 1, node[r].upto))

\* The append is done: on with the chunk, the batch, or the checkpoint.
Appended(r) ==
    LET ev == node[r].ev + node[r].count IN
    Set(r, IF node[r].ev = Bookmark THEN Idle(r, node[r].next, node[r].unsaved)
           ELSE IF ev <= node[r].chunk THEN [node[r] EXCEPT !.pc = "load", !.ev = ev]
           ELSE IF ev <= node[r].upto THEN [node[r] EXCEPT !.pc = "batch", !.ev = ev]
           ELSE Idle(r, ev, node[r].upto))

\* Mutant: the high water is compared, the lease is not.
Publish_Unfenced(r) ==
    /\ node[r].pc = "publish"
    /\ IF water = node[r].water
       THEN water' = water + node[r].count /\ Appended(r)
       ELSE Goto(r, "resolve") /\ UNCHANGED water
    /\ UNCHANGED <<holder, token, events, progress, adopted>>

\* publishNamespaceWatchSequence: the high water moves if it is the one that was
\* read and the lease is still held.
Publish(r) ==
    /\ node[r].pc = "publish"
    /\ \/ /\ Mine(r) /\ water = node[r].water
          /\ water' = water + node[r].count
          /\ Appended(r) \/ Goto(r, "resolve")
       \/ Goto(r, "resolve") /\ UNCHANGED water
    /\ UNCHANGED <<holder, token, events, progress, adopted>>

\* Mutant: a publication without an answer is tried again.
Resolve_Retry(r) ==
    /\ node[r].pc = "resolve"
    /\ IF Mine(r) THEN Goto(r, "load") ELSE Failed(r)
    /\ UNCHANGED <<clockVars, events, progress, adopted>>

\* resolveNamespaceWatchPublishedRange, when the publication was refused or not
\* answered: it happened if the high water covers it and the rows are its own.
Resolve(r) ==
    /\ node[r].pc = "resolve"
    /\ IF water < node[r].water + node[r].count
       THEN IF Mine(r) THEN Goto(r, "load") ELSE Failed(r)
       ELSE IF \A s \in Span(r) :
                 events[s] = IF node[r].old # NoRow THEN node[r].old ELSE Candidate(r, s)
            THEN Appended(r) ELSE Failed(r)
    /\ UNCHANGED <<clockVars, events, progress, adopted>>

\* The checkpoint of a batch, fenced like its publication.  The bookmark thread
\* does not wait for it.
SavePublishedFrontier(r) ==
    /\ node[r].unsaved # 0
    /\ progress' = IF Mine(r) THEN node[r].unsaved ELSE progress
    /\ \/ Mine(r) /\ Set(r, [node[r] EXCEPT !.unsaved = 0])
       \/ Set(r, [node[r] EXCEPT !.unsaved = 0, !.next = Changes + 1])
    /\ UNCHANGED <<clockVars, events, adopted>>

AppendStep(r) ==
    \/ AppendBookmark(r) \/ MaterializeBatch(r) \/ LoadChunk(r) \/ Load(r)
    \/ InsertBatch(r) \/ Insert(r) \/ ReadExisting(r) \/ Settle(r)
    \/ Publish(r) \/ Resolve(r) \/ SavePublishedFrontier(r)

Next == \E r \in Replicas : Acquire(r) \/ Release(r) \/ StepDown(r) \/ AppendStep(r)

Spec == Init /\ [][Next]_jVars

-----------------------------------------------------------------------------
(* Properties.                                                             *)

Published == 1..water

NodeType ==
    [pc : {"out", "idle", "batch", "load", "insertBatch", "insert", "conflict", "settle",
           "publish", "resolve"},
     token : 0..MaxToken, next : 0..(Changes + 1), unsaved : 0..Changes,
     ev : 0..Changes, chunk : 0..Changes, upto : 0..Changes, count : 0..BatchSize,
     water : 0..MaxWater, old : Rows \cup {NoRow}]

\* The type of the clock row, the journal rows and the replicas' state.
TypeOK ==
    /\ holder \in Replicas \cup {Nobody}
    /\ token \in 0..MaxToken
    /\ water \in 0..MaxWater
    /\ events \in [1..MaxWater -> Rows \cup {NoRow}]
    /\ progress \in 0..Changes
    /\ node \in [Replicas -> NodeType]

\* The comment of AppendBatch: "the clock CAS publishes the entire contiguous range
\* only after every row is durable", and the recovery by Append "advances the clock
\* without gaps".  No published sequence is without its row.
NoGaps == \A s \in Published : events[s] # NoRow

\* The code breaks NoGaps in one way: a leader that cannot delete the row it found
\* in its way, because another one already did, publishes that sequence all the
\* same.  As long as this did not happen, every published row is there.
NoOtherGaps == adopted \/ NoGaps

\* What is published never changes or disappears, although a leader deletes rows
\* in its way and a replica that lost the lease goes on inserting and deleting
\* until a fenced statement refuses it.
PublishedForever ==
    [][/\ water' >= water
       /\ adopted' \/ \A s \in Published : events'[s] = events[s]]_jVars

\* Leaders publish one after the other: the tokens of published rows never
\* decrease, so no row of a deposed leader comes after one of its successor.
TermsOrdered ==
    adopted \/ \A s, t \in Published : s < t => events[s].token <= events[t].token

\* Every change is preceded by all changes before it in the source, and one
\* leader publishes a change only once, also when the answer to its publication
\* was lost: what a crash may cost is a repetition by the next leader.
SourceOrder ==
    adopted \/ \A s \in Published : events[s].src # Bookmark =>
      /\ \A p \in 1..(events[s].src - 1) : \E t \in 1..(s - 1) : events[t].src = p
      /\ \A t \in Published :
           t # s /\ events[t].token = events[s].token => events[t].src # events[s].src

\* The comment of Materializer.Process: a crash between the append and the
\* checkpoint "may duplicate on recovery but cannot skip an acknowledged
\* transition".
NothingSkipped ==
    adopted \/ \A p \in 1..progress : \E s \in Published : events[s].src = p

=============================================================================
