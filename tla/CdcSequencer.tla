---------------------------- MODULE CdcSequencer ----------------------------
(***************************************************************************)
(* From the change log of a table to one ordered source: the CDC reader    *)
(* library (shared/scylla-cdc-go: reader.go, stream_batch.go), the         *)
(* sequencer that merges the streams by their watermarks and the progress  *)
(* manager that makes its position durable                                 *)
(* (gitstore-api/internal/datastore/scylla/namespace_cdc.go).              *)
(*                                                                         *)
(* Scylla splits the log into streams; a topology change starts a new      *)
(* generation of streams.  One reader per batch of streams polls windows   *)
(* of the log and hands every change to the sequencer, which publishes a   *)
(* change when each active stream was read up to its time.  The process    *)
(* may die between any two durable writes, a query may fail and a reader   *)
(* may give up; the next run starts from the durable positions.            *)
(*                                                                         *)
(* A position is a natural number: a change has a time, and a window that  *)
(* ends at e (the smallest time UUID after e) holds the changes up to e.   *)
(* The tables of the namespaces, the repositories and the catalog kinds    *)
(* each have a sequencer; only that of the namespaces keeps its frontier.  *)
(* The journal behind MaterializeBatch and the lease are in WatchJournal;  *)
(* here a published change is a member of done.                            *)
(***************************************************************************)
EXTENDS Integers, FiniteSets, FiniteSetsExt

CONSTANTS
    Gens,       \* the number of generations
    Batches,    \* per generation: a partition of its streams into batches
    Ends,       \* per generation: the last time it covers
    Tables,     \* the tables to consider: their kind, and a set of changes
                \* <<stream, time>>
    Private,    \* the changes a consumer suppresses (namespaceCDCSuppress)
    Window,     \* QueryTimeWindowSize
    MaxPending, \* namespaceCDCPendingLimit
    MaxFaults   \* bound on crashes, failed queries and failed readers

StreamsOf(g) == UNION Batches[g]

Streams == UNION {StreamsOf(g) : g \in 1..Gens}

MaxTime == Ends[Gens]

\* The time after the last change goes on for ever, and is one value.
Horizon == MaxTime + 1

Starts(g) == IF g = 1 THEN 0 ELSE Ends[g - 1]       \* just before its first time

\* A stream gets changes while its generation lasts.
ASSUME CdcConstants ==
    /\ Gens \in Nat \ {0}
    /\ \A g \in 1..Gens : Ends[g] \in Nat /\ Ends[g] > Starts(g)
    /\ \A g \in 1..Gens : StreamsOf(g) # {}
    /\ {MaxPending, MaxFaults} \subseteq Nat
    /\ Window \in Nat \ {0}
    /\ \A table \in Tables : \A r \in table.log :
         \E g \in 1..Gens : r[1] \in StreamsOf(g) /\ r[2] \in (Starts(g) + 1)..Ends[g]

VARIABLES
    source,     \* the kind of the table
    log,        \* the changes of the table
    done,       \* the changes in the journal
    saved,      \* durable: generation, published frontier, its manifest, positions
    run,        \* "down", "up", or "halted": the leader loop waits for an operator
    seq,        \* namespaceCDCSequencer.Run
    gen,        \* Reader.Run: the generation it reads, and whether it knows the next
    rd,         \* streamBatchReader, per batch
    faults,     \* faults so far
    broken      \* history: a reader gave up on its own

cdcVars == <<source, log, done, saved, run, seq, gen, rd, faults, broken>>

None == -1

NewSeq(through) ==
    [pc |-> "idle", active |-> {}, registered |-> {}, expected |-> {}, through |-> through,
     water |-> [s \in Streams |-> None], pending |-> {}, batch |-> {}, todo |-> {}]

Waiting ==
    [pc |-> "wait", pos |-> [s \in Streams |-> 0], end |-> 0, rows |-> FALSE, todo |-> {}]

Finished == [Waiting EXCEPT !.pc = "ended"]

AllBatches == UNION {Batches[g] : g \in 1..Gens}

NoGen == [n |-> 0, closed |-> FALSE, failed |-> FALSE]

Init ==
    /\ \E table \in Tables : source = table.kind /\ log = table.log
    /\ done = {}
    /\ saved = [gen |-> 0, frontier |-> 0, manifest |-> [s \in Streams |-> 0],
                progress |-> [s \in Streams |-> 0]]
    /\ run = "down"
    /\ seq = NewSeq(0)
    /\ gen = NoGen
    /\ rd = [b \in AllBatches |-> Waiting]
    /\ faults = 0
    /\ broken = FALSE

Later(a, b) == IF a > b THEN a ELSE b

-----------------------------------------------------------------------------
(* A run: RunNamespaceCDC, from the leader loop of app/server.go.          *)

\* Nothing of a run outlives it.
Stop(state) ==
    /\ run' = state
    /\ seq' = NewSeq(0) /\ gen' = NoGen /\ rd' = [b \in AllBatches |-> Waiting]

\* PublishedFrontier and determineStartTimestamp
RunNamespaceCDC ==
    /\ run = "down"
    /\ run' = "up"
    /\ seq' = NewSeq(saved.frontier)
    /\ UNCHANGED <<source, log, done, saved, gen, rd, faults, broken>>

\* The lease is lost, the process dies, a conditional write fails or
\* shouldPublish finds the projection not committed: the context of the run is
\* cancelled, and with it every write of the sequencer.
Crash ==
    /\ run = "up" /\ faults < MaxFaults
    /\ faults' = faults + 1
    /\ Stop("down")
    /\ UNCHANGED <<source, log, done, saved, broken>>

-----------------------------------------------------------------------------
(* The sequencer.                                                          *)

\* An error with ErrNamespaceWatchDiscontinuity
Discontinuity == Stop("halted") /\ UNCHANGED <<source, log, done, saved, faults, broken>>

\* StartGeneration: BeginGeneration, then the generation is saved.  The reader
\* starts with the saved generation and goes on when all its batches ended.
StartGeneration ==
    /\ run = "up" /\ seq.pc = "idle" /\ ~gen.failed
    /\ \/ gen.n = 0
       \/ gen.n > 0 /\ gen.closed /\ \A b \in Batches[gen.n] : rd[b].pc = "ended"
    /\ LET g == IF gen.n = 0 THEN Later(1, saved.gen) ELSE gen.n + 1
       IN  IF seq.active # {} \/ seq.pending # {} THEN Discontinuity
           ELSE /\ seq' = [seq EXCEPT !.expected = StreamsOf(g), !.registered = {}]
                /\ gen' = [n |-> g, closed |-> FALSE, failed |-> FALSE]
                /\ saved' = [saved EXCEPT !.gen = g]
                /\ UNCHANGED <<source, log, done, run, rd, faults, broken>>

\* namespaceCDCFrontier
Ready(q) == \A s \in q.active : q.water[s] # None

Frontier(q) == Min({q.water[s] : s \in q.active})

\* The prefix of the sorted requests up to the frontier; all of them when no
\* stream is active
Due(q) ==
    {r \in q.pending : q.active = {} \/ (Ready(q) /\ r.t <= Frontier(q))}

\* The changes among the requests, without what the consumers suppress.
Rows(rs) == {<<r.s, r.t>> : r \in {x \in rs : x.row}} \ Private

\* The part of the loop below the select, after the ticker or an Unregister
Flush(q) ==
    IF q.expected = {} \/ q.registered # q.expected \/ Due(q) = {} THEN q
    ELSE [q EXCEPT !.pc = "publish", !.batch = Due(q), !.todo = Rows(Due(q))]

Ticker ==
    /\ run = "up" /\ seq.pc = "idle"
    /\ Flush(seq) # seq
    /\ seq' = Flush(seq)
    /\ UNCHANGED <<source, log, done, saved, run, gen, rd, faults, broken>>

\* A wrong batch: it is not sorted.
MaterializeBatch_Unsorted ==
    /\ seq.pc = "publish"
    /\ \E r \in seq.todo :
         done' = done \cup {r} /\ seq' = [seq EXCEPT !.todo = @ \ {r}]
    /\ UNCHANGED <<source, log, saved, run, gen, rd, faults, broken>>

\* MaterializeBatch appends in the order of the batch.
MaterializeBatch ==
    /\ seq.pc = "publish" /\ seq.todo # {}
    /\ \E r \in seq.todo :
         /\ \A q \in seq.todo : r[2] <= q[2]
         /\ done' = done \cup {r}
         /\ seq' = [seq EXCEPT !.todo = @ \ {r}]
    /\ UNCHANGED <<source, log, saved, run, gen, rd, faults, broken>>

\* latestProgress
Latest(q, s) == Max({r.t : r \in {x \in q.batch : x.s = s}})

Touched(q) == {r.s : r \in q.batch}

\* batchFrontier: the time of the last change the batch publishes
BatchFrontier(q) == Max({r[2] : r \in Rows(q.batch)} \cup {q.through})

\* persistFrontier, which only the table of the namespaces has: the frontier and
\* the positions that go with it become durable in one write.
SavePublishedFrontier ==
    /\ seq.pc = "publish" /\ seq.todo = {}
    /\ saved' = IF source # "Namespace" THEN saved
                ELSE [saved EXCEPT !.frontier = BatchFrontier(seq),
                                   !.manifest = [s \in Streams |->
                                       IF s \in Touched(seq) THEN Latest(seq, s) ELSE 0]]
    /\ seq' = [seq EXCEPT !.pc = "mark", !.todo = Touched(seq)]
    /\ UNCHANGED <<source, log, done, run, gen, rd, faults, broken>>

\* The loop over markProgress, in the order of the batch; after the last one the
\* batch leaves the pending requests.
MarkProgress ==
    /\ seq.pc = "mark"
    /\ \E s \in seq.todo :
         /\ \A u \in seq.todo : Latest(seq, s) <= Latest(seq, u)
         /\ saved' = [saved EXCEPT !.progress[s] = Latest(seq, s)]
         /\ seq' = IF seq.todo # {s} THEN [seq EXCEPT !.todo = @ \ {s}]
                   ELSE [seq EXCEPT !.pc = "idle", !.through = BatchFrontier(seq),
                                    !.pending = @ \ seq.batch, !.batch = {}, !.todo = {}]
    /\ UNCHANGED <<source, log, done, run, gen, rd, faults, broken>>

\* Enqueue: reader b hands over request r and, once it is accepted, becomes next.
Enqueue(b, r, next) ==
    LET q == [seq EXCEPT !.water[r.s] = r.t]
    IN
    /\ seq.pc = "idle"
    /\ \/ \* the stream moved backward, or a change lies behind the published frontier
          /\ r.t < seq.water[r.s] \/ (r.row /\ r.t < seq.through)
          /\ Discontinuity
       \/ \* an empty window behind the frontier
          /\ r.t >= seq.water[r.s] /\ ~r.row /\ r.t < seq.through
          /\ saved' = [saved EXCEPT !.progress[r.s] = r.t]
          /\ seq' = q
          /\ rd' = [rd EXCEPT ![b] = next]
          /\ UNCHANGED <<source, log, done, run, gen, faults, broken>>
       \/ /\ r.t >= seq.water[r.s] /\ r.t >= seq.through
          /\ IF Cardinality(seq.pending) >= MaxPending THEN Stop("down")
             ELSE /\ seq' = [q EXCEPT !.pending = @ \cup {r}]
                  /\ rd' = [rd EXCEPT ![b] = next]
                  /\ UNCHANGED <<run, gen>>
          /\ UNCHANGED <<source, log, done, saved, faults, broken>>

-----------------------------------------------------------------------------
(* streamBatchReader.run, per batch                                        *)

Reading(b) == run = "up" /\ gen.n > 0 /\ b \in Batches[gen.n]

Unread == UNCHANGED <<source, log, done, saved, run, seq, gen, faults, broken>>

\* A wrong GetProgress: the manifest of the published frontier is not consulted.
GetProgress_Saved(s) == saved.progress[s]

\* GetProgress: the manifest stands for positions that were not marked yet.
GetProgress(s) == Later(saved.progress[s], saved.manifest[s])

\* loadProgressForStreams, where GetProgress saves what it takes from the manifest,
\* and CreateChangeConsumer for every stream.  Nobody else touches the positions of
\* these streams, and nothing is published before the last batch has registered.
Register(b) ==
    /\ Reading(b) /\ rd[b].pc = "wait" /\ ~gen.failed /\ seq.pc = "idle"
    /\ seq' = [seq EXCEPT !.active = @ \cup b, !.registered = @ \cup b]
    /\ rd' = [rd EXCEPT ![b].pc = "poll",
                        ![b].pos = [s \in Streams |-> IF s \in b
                                      THEN Later(Starts(gen.n), GetProgress(s)) ELSE 0]]
    /\ saved' = [saved EXCEPT !.progress = [s \in Streams |->
                    IF s \in b THEN GetProgress(s) ELSE @[s]]]
    /\ UNCHANGED <<source, log, done, run, gen, faults, broken>>

\* getPollWindowStart
WindowStart(b) == Min({rd[b].pos[s] : s \in b})

\* reachedEndOfTheGeneration
AtEnd(b) == gen.closed /\ WindowStart(b) >= Ends[gen.n]

\* getPollWindow and queryRange.  The window ends at the confidence limit, before
\* which no change is added to the log any more, or a query window after its start.
Poll(b) ==
    LET begin == WindowStart(b)
    IN
    /\ Reading(b) /\ rd[b].pc = "poll" /\ ~AtEnd(b)
    /\ \E end \in (begin + 1)..(begin + Window) :
         rd' = [rd EXCEPT ![b].pc = "read",
                  ![b].end = IF end < Horizon THEN end ELSE Horizon,
                  ![b].rows = \E r \in log : r[1] \in b /\ begin < r[2] /\ r[2] <= end]
    /\ Unread

\* The changes of the window that are new to their stream
Left(b) == {r \in log : r[1] \in b /\ rd[b].pos[r[1]] < r[2] /\ r[2] <= rd[b].end}

\* processRows: the next change of a stream goes to its consumer
Consume(b) ==
    /\ Reading(b) /\ rd[b].pc = "read"
    /\ \E r \in Left(b) :
         /\ \A q \in Left(b) : q[1] = r[1] => r[2] <= q[2]
         /\ Enqueue(b, [s |-> r[1], t |-> r[2], row |-> TRUE],
                    [rd[b] EXCEPT !.pos[r[1]] = r[2]])

\* A page of the query fails: the window is polled again.
QueryFails(b) ==
    /\ Reading(b) /\ rd[b].pc = "read" /\ faults < MaxFaults
    /\ faults' = faults + 1
    /\ rd' = [rd EXCEPT ![b].pc = "poll", ![b].rows = FALSE, ![b].end = 0]
    /\ UNCHANGED <<source, log, done, saved, run, seq, gen, broken>>

\* A wrong advance: to the end of a window that was not read to its end.
AdvanceAllStreams_Early(b) ==
    /\ Reading(b) /\ rd[b].pc = "read"
    /\ rd' = [rd EXCEPT ![b].pc = "empty", ![b].todo = b, ![b].rows = FALSE,
         ![b].pos = [s \in Streams |-> IF s \in b THEN Later(@[s], rd[b].end) ELSE @[s]]]
    /\ Unread

\* A wrong advance: an empty window is not reported.
AdvanceAllStreams_Quiet(b) ==
    /\ Reading(b) /\ rd[b].pc = "read" /\ Left(b) = {}
    /\ rd' = [rd EXCEPT ![b].pc = "poll", ![b].end = 0, ![b].rows = FALSE,
         ![b].pos = [s \in Streams |-> IF s \in b THEN Later(@[s], rd[b].end) ELSE @[s]]]
    /\ Unread

\* advanceAllStreamsTo; Empty is due when the window of the batch had no row
AdvanceAllStreams(b) ==
    /\ Reading(b) /\ rd[b].pc = "read" /\ Left(b) = {}
    /\ rd' = [rd EXCEPT
         ![b].pc = IF rd[b].rows THEN "poll" ELSE "empty",
         ![b].end = IF rd[b].rows THEN 0 ELSE @,
         ![b].todo = IF rd[b].rows THEN {} ELSE b, ![b].rows = FALSE,
         ![b].pos = [s \in Streams |-> IF s \in b THEN Later(@[s], rd[b].end) ELSE @[s]]]
    /\ Unread

Empty(b) ==
    /\ Reading(b) /\ rd[b].pc = "empty"
    /\ \E s \in rd[b].todo :
         Enqueue(b, [s |-> s, t |-> rd[b].end, row |-> FALSE],
                 [rd[b] EXCEPT !.todo = @ \ {s},
                               !.pc = IF rd[b].todo = {s} THEN "poll" ELSE "empty",
                               !.end = IF rd[b].todo = {s} THEN 0 ELSE @])

\* The generation fetcher delivers the next generation: reader.close.
Close ==
    /\ run = "up" /\ gen.n \in 1..(Gens - 1) /\ ~gen.closed
    /\ gen' = [gen EXCEPT !.closed = TRUE]
    /\ UNCHANGED <<source, log, done, saved, run, seq, rd, faults, broken>>

\* The loop of a reader ends: at the end of the generation, because the reader
\* fails, or because another one did and the context of the generation is cancelled.
Ending(b) ==
    rd' = [rd EXCEPT ![b].pc = "ending", ![b].todo = b, ![b].rows = FALSE, ![b].end = 0]

EndOfGeneration(b) ==
    /\ Reading(b) /\ rd[b].pc = "poll" /\ AtEnd(b)
    /\ Ending(b)
    /\ Unread

ReaderFails(b) ==
    /\ Reading(b) /\ rd[b].pc \in {"poll", "read", "empty"} /\ faults < MaxFaults
    /\ faults' = faults + 1
    /\ broken' = TRUE
    /\ Ending(b)
    /\ UNCHANGED <<source, log, done, saved, run, seq, gen>>

Cancelled(b) ==
    /\ Reading(b) /\ gen.failed
    /\ \/ rd[b].pc = "wait" /\ rd' = [rd EXCEPT ![b] = Finished]
       \/ rd[b].pc \in {"poll", "read", "empty"} /\ Ending(b)
    /\ Unread

\* End: Unregister the consumers one by one.  The answer comes before the flush, so
\* the reader may return while the sequencer publishes; an error cancels the context
\* of the generation.
Unregister(b) ==
    /\ Reading(b) /\ rd[b].pc = "ending" /\ seq.pc = "idle"
    /\ \E s \in rd[b].todo :
         /\ seq' = Flush([seq EXCEPT !.active = @ \ {s}, !.water[s] = None])
         /\ rd' = [rd EXCEPT ![b] = IF rd[b].todo = {s} THEN Finished
                                   ELSE [@ EXCEPT !.todo = @ \ {s}]]
         /\ gen' = [gen EXCEPT !.failed = @ \/ (rd[b].todo = {s} /\ ~AtEnd(b))]
    /\ UNCHANGED <<source, log, done, saved, run, faults, broken>>

\* genErrG.Wait returns the error, and RunNamespaceCDC cancels the sequencer.
Return ==
    /\ run = "up" /\ gen.failed
    /\ \A b \in Batches[gen.n] : rd[b].pc = "ended"
    /\ Stop("down")
    /\ UNCHANGED <<source, log, done, saved, faults, broken>>

-----------------------------------------------------------------------------
SequencerStep ==
    \/ Ticker \/ MaterializeBatch \/ SavePublishedFrontier \/ MarkProgress

ReaderStep(b) ==
    \/ Register(b) \/ Poll(b) \/ Consume(b) \/ AdvanceAllStreams(b) \/ Empty(b)
    \/ EndOfGeneration(b) \/ Cancelled(b) \/ Unregister(b)

Next ==
    \/ RunNamespaceCDC \/ StartGeneration \/ Close \/ Return \/ SequencerStep
    \/ Crash
    \/ \E b \in AllBatches : ReaderStep(b) \/ QueryFails(b) \/ ReaderFails(b)

Fairness ==
    /\ WF_cdcVars(RunNamespaceCDC) /\ WF_cdcVars(StartGeneration) /\ WF_cdcVars(Close)
    /\ WF_cdcVars(Return) /\ WF_cdcVars(SequencerStep)
    /\ \A b \in AllBatches : WF_cdcVars(ReaderStep(b))

Spec == Init /\ [][Next]_cdcVars /\ Fairness

-----------------------------------------------------------------------------
(* Properties.                                                             *)

Events == log \ Private

\* A change is never published for the first time after a later change of
\* another stream was: across restarts between any two durable writes, quiet
\* streams and generations, the journal follows the order of the table.  That
\* is what the watermarks, the sort and the published frontier are for.  A
\* reader that gives up on its own breaks it: Unregister takes its stream out of
\* the frontier while the stream still has changes to come.
OrderKept ==
    [][broken \/ \A r \in done' \ done : \A q \in done : q[2] <= r[2]]_cdcVars

\* Nothing durable claims more than was published: a stream's position as the
\* next run reads it (GetProgress, the manifest of the frontier included) is not
\* past a change that is missing from the journal, and no generation is left
\* behind with one.  A position saved too early loses the change for good.
NothingPassed ==
    /\ \A r \in Events : r[2] <= GetProgress(r[1]) => r \in done
    /\ \A g \in 1..(saved.gen - 1) : \A r \in Events : r[1] \in StreamsOf(g) => r \in done

\* The sequencer halts with ErrNamespaceWatchDiscontinuity, which takes an
\* operator to clear, only after a reader gave up: no crash between
\* SavePublishedFrontier and the positions of its streams makes the next run
\* read a change behind the frontier it has published.
HaltsOnlyForAReader == run = "halted" => broken

\* Every change is published in the end, or the run has halted: empty windows
\* move the watermark of a quiet stream, so it holds nobody back, and the
\* generations follow one another.
EverythingPublished == <>[](run = "halted" \/ Events \subseteq done)

=============================================================================
