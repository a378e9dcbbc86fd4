----------------------------- MODULE WatchStream -----------------------------
(* Durable watches, from the journal to the caches of the clients: the     *)
(* subscribers of one API process, the tailer they share, the selector     *)
(* projection of the GraphQL resolvers, and clients that take a bootstrap  *)
(* cursor, list, watch from it, resume after a broken stream and list      *)
(* again after an expired one.                                             *)
(*                                                                         *)
(* The journal is what WatchJournal builds: entry k of an epoch is the k-th *)
(* change of the source.  Its rows carry a TTL and may be gone, in any     *)
(* order, when a reader comes for them.                                    *)
EXTENDS Integers, Sequences, FiniteSets, FiniteSetsExt

CONSTANTS Clients,      \* watching clients, one GraphQL subscription each
          Objs,         \* resources of the watched kind
          Buffer,       \* SubscriberConfig.BufferSize
          MaxTailers,   \* bound: tailers that exist at a time
          Scopes        \* settings and bounds, one of which a behaviour has

\* A scope: the clients and the resources there are; ReadBatchSize and
\* MaxReplayEvents of the SubscriberConfig; and bounds on the journal entries, the
\* epochs, the rows of the current epoch lost to the TTL, and the faults: store
\* errors, broken connections, slow clients.
ASSUME StreamConstants ==
  /\ Buffer \in Nat \ {0} /\ MaxTailers \in Nat \ {0}
  /\ Scopes \subseteq [clients : SUBSET Clients, objs : SUBSET Objs,
                       batch : Nat \ {0}, replay : Nat \ {0},
                       entries : Nat, epochs : Nat \ {0}, gone : Nat, faults : Nat]

VARIABLES scope,    \* the scope, which never changes
          log,      \* log[e]: the changes committed in epoch e, in order
          base,     \* base[e]: the labels of each resource when e began
          water,    \* water[e]: the high water of the journal of e
          rows,     \* the retained rows, as <<epoch, sequence>>
          oldest,   \* the clock's retained lower bound
          tailer,   \* tailer[t]: the tailers somebody is attached to, others None
          live,     \* Subscriber.live, or 0
          conn,     \* conn[c]: the subscription of c, server side
          client,   \* client[c]: the client's own state
          faults    \* faults so far

vars == <<scope, log, base, water, rows, oldest, tailer, live, conn, client, faults>>

-----------------------------------------------------------------------------
(* The source and the journal.  A resource is absent, or has labels that    *)
(* the clients' selector matches ("in") or does not ("out").  `pre' and     *)
(* `post' say whether the labels before and after a change match; a        *)
(* deletion carries the last labels.  The entries of a journal never       *)
(* change, so a sequence number stands for the event read under it.        *)

epoch == Len(log)

None == -1

Touched(e, o, p) == {k \in 1..p : log[e][k].obj = o}

State(e, o, p) ==
  IF Touched(e, o, p) = {} THEN base[e][o]
  ELSE LET ev == log[e][Max(Touched(e, o, p))]
       IN  IF ev.type = "DELETED" THEN "absent" ELSE IF ev.post THEN "in" ELSE "out"

Now(o) == State(epoch, o, Len(log[epoch]))

\* What a cache filtered by the selector holds of o at position p: the entry
\* that wrote it, 0 for what the epoch began with.
Matching(e, o, p) ==
  IF State(e, o, p) # "in" THEN None
  ELSE IF Touched(e, o, p) = {} THEN 0 ELSE Max(Touched(e, o, p))

Entries == MapThenSumSet(LAMBDA e : Len(log[e]), 1..epoch)

Commit(event) ==
  /\ Entries < scope.entries
  /\ log' = [log EXCEPT ![epoch] = Append(@, event)]

Write(o) ==
  /\ \/ \E post \in BOOLEAN :
          Commit([obj |-> o, type |-> IF Now(o) = "absent" THEN "ADDED" ELSE "MODIFIED",
                  pre |-> Now(o) = "in", post |-> post])
     \/ /\ Now(o) # "absent"
        /\ Commit([obj |-> o, type |-> "DELETED",
                   pre |-> Now(o) = "in", post |-> Now(o) = "in"])
  /\ UNCHANGED <<scope, base, water, rows, oldest, tailer, live, conn, client, faults>>

Grow ==
  /\ water' = [water EXCEPT ![epoch] = @ + 1]
  /\ rows' = rows \cup {<<epoch, water[epoch] + 1>>}

\* The materializer publishes the next change,
Publish ==
  /\ water[epoch] < Len(log[epoch])
  /\ Grow
  /\ UNCHANGED <<scope, log, base, oldest, tailer, live, conn, client, faults>>

\* or a bookmark, when it has nothing else to publish.
Bookmark ==
  /\ water[epoch] = Len(log[epoch])
  /\ Commit([obj |-> "none", type |-> "BOOKMARK", pre |-> TRUE, post |-> TRUE])
  /\ Grow
  /\ UNCHANGED <<scope, base, oldest, tailer, live, conn, client, faults>>

\* The TTL of a row runs out.
Expire ==
  /\ Cardinality({s \in 1..water[epoch] : <<epoch, s>> \notin rows}) < scope.gone
  /\ \E r \in rows : rows' = rows \ {r}
  /\ UNCHANGED <<scope, log, base, water, oldest, tailer, live, conn, client, faults>>

\* The journal's tables are emptied and it is initialised again, under a new
\* epoch.
Reset ==
  /\ epoch < scope.epochs
  /\ log' = Append(log, <<>>)
  /\ base' = Append(base, [o \in Objs |-> Now(o)])
  /\ water' = Append(water, 0)
  /\ rows' = {} /\ oldest' = 0
  /\ UNCHANGED <<scope, tailer, live, conn, client, faults>>

-----------------------------------------------------------------------------
(* The store as the subscribers read it.                                    *)

\* namespaceWatchRetainedOldest for a captured clock: the first row left at or
\* after its lower bound.
RetainedOldest(clock) ==
  LET left == {s \in Max({clock.oldest, 1})..clock.high : <<clock.epoch, s>> \in rows}
  IN  IF clock.high = 0 THEN 0 ELSE IF left = {} THEN clock.high + 1 ELSE Min(left)

\* ReadAfter: an error, or the next rows in order, at most ReadBatchSize.
ReadError(cur) ==
  LET next == cur.seq + 1
  IN  IF cur.epoch # epoch THEN "epoch"
      ELSE IF oldest > 0 /\ next < oldest THEN "retention"
      ELSE IF cur.seq < water[epoch] /\ <<epoch, next>> \notin rows THEN "retention"
      ELSE "none"

ReadRows(cur) ==
  LET after == {s \in cur.seq + 1..water[epoch] : <<epoch, s>> \in rows}
  IN  {s \in after : Cardinality({r \in after : r <= s}) <= scope.batch}

-----------------------------------------------------------------------------
(* Subscriptions.  A batch or a ring is the set of its sequence numbers: it *)
(* is kept and consumed in ascending order.  `sent' only records the last   *)
(* entry put into the buffer, or the cursor the stream began with.          *)

Start == [epoch |-> 0, seq |-> 0]

Tailers == 1..MaxTailers

NoTailer == [epoch |-> 0, cursor |-> 0, ring |-> {}, batch |-> {},
             pc |-> "none", err |-> "none"]

Off == [pc |-> "off", clock |-> Start, cur |-> Start, top |-> 0, from |-> 0,
        batch |-> {}, tail |-> 0, ready |-> FALSE, failed |-> "none",
        events |-> <<>>, sent |-> 0, err |-> "none"]

\* A stream attached to a tailer, whose run() goroutine has not returned.
Running(c) == conn[c].pc \in {"replay", "live", "deliver", "wait"}

Attached(t) == {c \in Clients : Running(c) /\ conn[c].tail = t}

\* Subscribe begins: Bounds reads the clock.
Subscribe(c) ==
  /\ c \in scope.clients
  /\ client[c].pc \in {"start", "resume"}
  /\ conn[c].pc = "off"
  /\ conn' = [conn EXCEPT ![c] = [Off EXCEPT !.pc = "bounds",
                !.clock = [epoch |-> epoch, high |-> water[epoch], oldest |-> oldest]]]
  /\ client' = [client EXCEPT ![c].pc = IF @ = "start" THEN "boot" ELSE "watch"]
  /\ UNCHANGED <<scope, log, base, water, rows, oldest, tailer, live, faults>>

\* A wrong client: it resumes from the cursor that has expired.
Refused_Resume(c, why) ==
  /\ conn' = [conn EXCEPT ![c] = Off]
  /\ client' = [client EXCEPT ![c].pc = IF @ = "boot" THEN "start" ELSE "resume"]

\* The client's call fails: it will list again, or try again.
Refused(c, why) ==
  /\ conn' = [conn EXCEPT ![c] = Off]
  /\ client' = [client EXCEPT ![c].pc =
                  IF why = "expired" \/ @ = "boot" THEN "start" ELSE "resume"]

\* The rest of Bounds: the lower bound moves up to the first row left.
Advanced(clock) == RetainedOldest(clock) > clock.oldest

CASApplies(clock) == clock.epoch = epoch /\ clock.oldest = oldest

BoundsFail(clock) ==
  /\ Advanced(clock)
  /\ ~CASApplies(clock)
  /\ clock.epoch # epoch \/ oldest < RetainedOldest(clock)

\* The clock row Bounds answers with.
BoundsRow(clock) ==
  IF Advanced(clock) /\ ~CASApplies(clock)
  THEN [epoch |-> epoch, high |-> water[epoch], oldest |-> oldest]
  ELSE [clock EXCEPT !.oldest = Max({@, RetainedOldest(clock)})]

\* The checks of SubscribePath on the cursor it was given.
CursorExpired(cur, row) ==
  \/ cur.epoch # row.epoch
  \/ cur.seq > row.high
  \/ row.oldest > 0 /\ cur.seq + 1 < row.oldest
  \/ row.high - cur.seq > scope.replay

Validate(c) ==
  /\ conn[c].pc = "bounds"
  /\ LET clock == conn[c].clock
         row   == BoundsRow(clock)
         boot  == client[c].pc = "boot"
         cur   == IF boot THEN [epoch |-> row.epoch, seq |-> row.high]
                  ELSE client[c].cur
     IN  /\ oldest' = IF Advanced(clock) /\ CASApplies(clock)
                      THEN RetainedOldest(clock) ELSE oldest
         /\ IF BoundsFail(clock) THEN Refused(c, "unavailable")
            ELSE IF ~boot /\ CursorExpired(cur, row) THEN Refused(c, "expired")
            ELSE /\ conn' = [conn EXCEPT ![c].pc = "register", ![c].clock = row,
                                         ![c].cur = cur]
                 /\ UNCHANGED client
  /\ UNCHANGED <<scope, log, base, water, rows, tailer, live, faults>>

Unused == Min({t \in Tailers : tailer[t] = NoTailer} \cup {MaxTailers + 1})

\* registerLive, and the bookmark of a bootstrap subscription.
Register(c) ==
  /\ conn[c].pc = "register"
  /\ live = 0 => Unused \in Tailers
  /\ LET row   == conn[c].clock
         cur   == conn[c].cur
         t     == IF live = 0 THEN Unused ELSE live
         new   == [NoTailer EXCEPT !.epoch = row.epoch, !.cursor = row.high,
                                   !.pc = "read"]
         shared == IF live = 0 THEN [tailer EXCEPT ![t] = new] ELSE tailer
         top   == Max({row.high, shared[t].cursor})
     IN  /\ tailer' = shared
         /\ live' = t
         /\ IF shared[t].epoch # row.epoch \/ top - cur.seq > scope.replay
            THEN Refused(c, "expired")
            ELSE /\ conn' = [conn EXCEPT ![c] = [Off EXCEPT !.pc = "replay", !.cur = cur,
                               !.top = top, !.from = cur.seq, !.sent = cur.seq, !.tail = t,
                               !.events = IF client[c].pc = "boot"
                                          THEN <<row.high>> ELSE <<>>]]
                 /\ UNCHANGED client
  /\ UNCHANGED <<scope, log, base, water, rows, oldest, faults>>

\* A wrong unregisterLive: any subscriber that leaves cancels the live tailer.
Leave_Any(c) ==
  LET t == conn[c].tail
  IN  /\ live' = IF t = live THEN 0 ELSE live
      /\ tailer' = IF Attached(t) = {c} THEN [tailer EXCEPT ![t] = NoTailer] ELSE tailer

\* unregisterLive: the live tailer is cancelled when its last subscriber
\* leaves; it only returns after that.
Leave(c) ==
  LET t    == conn[c].tail
      last == Attached(t) = {c}
  IN  /\ live' = IF last /\ t = live THEN 0 ELSE live
      /\ tailer' = IF last THEN [tailer EXCEPT ![t] = NoTailer] ELSE tailer

\* run() returns with an error for the resolver.
Terminate(c, why) ==
  /\ conn' = [conn EXCEPT ![c] = [Off EXCEPT !.pc = "done", !.cur = conn[c].cur,
                                   !.events = conn[c].events, !.err = why]]
  /\ Leave(c)

\* replayThrough reads the next rows, up to the high water it replays to.
Replay(c) ==
  /\ conn[c].pc = "replay" /\ conn[c].batch = {}
  /\ LET cur == conn[c].cur
     IN  IF cur.seq >= conn[c].top
         THEN conn' = [conn EXCEPT ![c].pc = "live"] /\ UNCHANGED <<live, tailer>>
         ELSE IF ReadError(cur) # "none" THEN Terminate(c, "expired")
         ELSE /\ conn' = [conn EXCEPT ![c].batch = ReadRows(cur)]
              /\ UNCHANGED <<live, tailer>>
  /\ UNCHANGED <<scope, log, base, water, rows, oldest, client, faults>>

\* The next event of the batch goes into the stream's buffer, if it is the one
\* after the cursor.
Deliver(c) ==
  /\ conn[c].pc \in {"replay", "deliver"} /\ conn[c].batch # {}
  /\ LET next   == conn[c].cur.seq + 1
         replay == conn[c].pc = "replay"
     IN  IF replay /\ \A s \in conn[c].batch : s > conn[c].top
         THEN conn' = [conn EXCEPT ![c].batch = {}] /\ UNCHANGED <<live, tailer>>
         ELSE IF next \notin conn[c].batch \/ (replay /\ next - conn[c].from > scope.replay)
         THEN Terminate(c, "expired")
         ELSE /\ Len(conn[c].events) < Buffer
              /\ conn' = [conn EXCEPT ![c].cur.seq = next, ![c].sent = next,
                            ![c].events = Append(@, next), ![c].batch = @ \ {next},
                            ![c].pc = IF ~replay /\ conn[c].batch = {next}
                                      THEN "live" ELSE @]
              /\ UNCHANGED <<live, tailer>>
  /\ UNCHANGED <<scope, log, base, water, rows, oldest, client, faults>>

\* A wrong liveBatch: it goes on with whatever the ring still has.
Live_Jump(c) ==
  /\ conn[c].pc = "live"
  /\ LET cur  == conn[c].cur
         t    == tailer[conn[c].tail]
         rest == {s \in t.ring : s > cur.seq}
     IN  IF t.epoch # cur.epoch THEN Terminate(c, "expired")
         ELSE /\ conn' = [conn EXCEPT ![c] =
                   IF cur.seq >= t.cursor THEN [@ EXCEPT !.pc = "wait"]
                   ELSE IF rest = {}
                   THEN [@ EXCEPT !.pc = "replay", !.top = t.cursor, !.from = cur.seq]
                   ELSE [@ EXCEPT !.pc = "deliver", !.batch = rest,
                                  !.cur.seq = Min(rest) - 1]]
              /\ UNCHANGED <<live, tailer>>
  /\ UNCHANGED <<scope, log, base, water, rows, oldest, client, faults>>

\* liveBatch: from the ring, or from the journal when the ring has moved on.
Live(c) ==
  /\ conn[c].pc = "live"
  /\ LET cur  == conn[c].cur
         t    == tailer[conn[c].tail]
         rest == {s \in t.ring : s > cur.seq}
     IN  IF t.epoch # cur.epoch THEN Terminate(c, "expired")
         ELSE /\ conn' = [conn EXCEPT ![c] =
                   IF cur.seq >= t.cursor THEN [@ EXCEPT !.pc = "wait"]
                   ELSE IF rest = {} \/ cur.seq + 1 < Min(t.ring)
                   THEN [@ EXCEPT !.pc = "replay", !.top = t.cursor, !.from = cur.seq]
                   ELSE [@ EXCEPT !.pc = "deliver", !.batch = rest]]
              /\ UNCHANGED <<live, tailer>>
  /\ UNCHANGED <<scope, log, base, water, rows, oldest, client, faults>>

\* Nothing to send: a wake-up, or the error of the tailer.
Wait(c) ==
  /\ conn[c].pc = "wait"
  /\ \/ /\ conn[c].ready
        /\ conn' = [conn EXCEPT ![c].pc = "live", ![c].ready = FALSE]
        /\ UNCHANGED <<live, tailer>>
     \/ /\ conn[c].failed # "none"
        /\ Terminate(c, conn[c].failed)
  /\ UNCHANGED <<scope, log, base, water, rows, oldest, client, faults>>

-----------------------------------------------------------------------------
(* The shared tailer.                                                       *)

RingSize == Max({1, 2 * scope.batch, Buffer})

\* runTailer reads; with nothing to read it refreshes the bounds and polls.
TailRead(t) ==
  /\ live = t /\ tailer[t].pc = "read"
  /\ LET cur   == [epoch |-> tailer[t].epoch, seq |-> tailer[t].cursor]
         clock == [epoch |-> epoch, high |-> water[epoch], oldest |-> oldest]
     IN  IF ReadError(cur) # "none"
         THEN /\ tailer' = [tailer EXCEPT ![t].pc = "fail", ![t].err = "expired"]
              /\ UNCHANGED oldest
         ELSE IF ReadRows(cur) = {}
         THEN /\ oldest' = BoundsRow(clock).oldest
              /\ UNCHANGED tailer
         ELSE /\ tailer' = [tailer EXCEPT ![t].pc = "publish", ![t].batch = ReadRows(cur)]
              /\ UNCHANGED oldest
  /\ UNCHANGED <<scope, log, base, water, rows, live, conn, client, faults>>

\* publishLiveBatch: the unbroken part of the batch enters the ring, the
\* oldest entries leave it, and every subscriber is woken.
TailPublish(t) ==
  /\ live = t /\ tailer[t].pc = "publish"
  /\ LET cursor == tailer[t].cursor
         batch  == tailer[t].batch
         next   == {s \in batch : cursor + 1..s \subseteq batch}
         ring   == tailer[t].ring \cup next
         kept   == {s \in ring : Cardinality({r \in ring : r >= s}) <= RingSize}
     IN  /\ tailer' = [tailer EXCEPT ![t] =
                         [@ EXCEPT !.batch = {}, !.ring = kept,
                                   !.cursor = Max({cursor} \cup next),
                                   !.pc = IF next = batch THEN "read" ELSE "fail",
                                   !.err = IF next = batch THEN "none" ELSE "expired"]]
         /\ conn' = [c \in Clients |-> IF c \in Attached(t) /\ next # {}
                                       THEN [conn[c] EXCEPT !.ready = TRUE] ELSE conn[c]]
  /\ UNCHANGED <<scope, log, base, water, rows, oldest, live, client, faults>>

\* failTailer: no longer the live one; its subscribers are told.
TailFail(t) ==
  /\ live = t /\ tailer[t].pc = "fail"
  /\ live' = 0
  /\ tailer' = [tailer EXCEPT ![t].pc = "done"]
  /\ conn' = [c \in Clients |->
                IF c \in Attached(t) /\ conn[c].failed = "none"
                THEN [conn[c] EXCEPT !.failed = tailer[t].err] ELSE conn[c]]
  /\ UNCHANGED <<scope, log, base, water, rows, oldest, client, faults>>

-----------------------------------------------------------------------------
(* The resolver's goroutine and the client behind it.                       *)

\* A wrong projection: only the labels after the change count.
Project_Current(ev) ==
  IF ev.post THEN ev.type ELSE "nothing"

\* projectResourceJournalSelector: what the client is sent for an entry.
Project(ev) ==
  IF ev.type # "MODIFIED" THEN IF ev.post THEN ev.type ELSE "nothing"
  ELSE IF ev.pre /\ ev.post THEN "MODIFIED"
  ELSE IF ev.post THEN "ADDED"
  ELSE IF ev.pre THEN "DELETED" ELSE "nothing"

\* The client's connection is gone and the subscription's context cancelled.
Cancel(c) ==
  /\ conn' = [conn EXCEPT ![c] = Off]
  /\ IF Running(c) THEN Leave(c) ELSE UNCHANGED <<live, tailer>>

\* The bookmark of a bootstrap subscription is the cursor to list under.
Bootstrap(c) ==
  /\ client[c].pc = "boot" /\ conn[c].events # <<>>
  /\ client' = [client EXCEPT ![c] = [@ EXCEPT !.pc = "list", !.todo = scope.objs,
                  !.cur = [epoch |-> conn[c].cur.epoch, seq |-> Head(conn[c].events)]]]
  /\ Cancel(c)
  /\ UNCHANGED <<scope, log, base, water, rows, oldest, faults>>

\* The list reads one resource after the other, whatever was journaled.
List(c) ==
  /\ client[c].pc = "list"
  /\ \/ \E o \in client[c].todo :
          client' = [client EXCEPT ![c] = [@ EXCEPT !.todo = @ \ {o},
                       !.view[o] = Matching(epoch, o, Len(log[epoch])),
                       !.listed[o] = Len(log[epoch])]]
     \/ /\ client[c].todo = {}
        /\ client' = [client EXCEPT ![c].pc = "resume"]
  /\ UNCHANGED <<scope, log, base, water, rows, oldest, tailer, live, conn, faults>>

\* An entry leaves the buffer; the client sees it if the projection keeps it.
Receive(c) ==
  /\ client[c].pc = "watch" /\ conn[c].events # <<>>
  /\ LET s    == Head(conn[c].events)
         e    == conn[c].cur.epoch
         ev   == log[e][s]
         sent == Project(ev)
     IN  /\ conn' = [conn EXCEPT ![c].events = Tail(@)]
         /\ client' = [client EXCEPT ![c] =
              IF sent = "nothing" THEN @
              ELSE [@ EXCEPT !.cur = [epoch |-> e, seq |-> s],
                             !.view = IF sent = "BOOKMARK" THEN @
                                      ELSE [@ EXCEPT ![ev.obj] =
                                              IF sent = "DELETED" THEN None ELSE s]]]
  /\ UNCHANGED <<scope, log, base, water, rows, oldest, tailer, live, faults>>

\* The error of the stream, ahead of what is still buffered.
ReceiveError(c) ==
  /\ conn[c].pc = "done"
  /\ Refused(c, conn[c].err)
  /\ UNCHANGED <<scope, log, base, water, rows, oldest, tailer, live, faults>>

-----------------------------------------------------------------------------
(* Faults.                                                                  *)

Fault ==
  /\ faults < scope.faults
  /\ faults' = faults + 1

\* A read of the tailer fails, or its bounds are unreadable or too old.
TailFault(t) ==
  /\ Fault
  /\ live = t /\ tailer[t].pc = "read"
  /\ \E why \in {"expired", "unavailable"} :
       tailer' = [tailer EXCEPT ![t].pc = "fail", ![t].err = why]
  /\ UNCHANGED <<scope, log, base, water, rows, oldest, live, conn, client>>

\* The buffer stays full until the backpressure timeout.
Overflow(c) ==
  /\ Fault
  /\ conn[c].pc \in {"replay", "deliver"} /\ conn[c].batch # {}
  /\ Len(conn[c].events) = Buffer
  /\ Terminate(c, "expired")
  /\ UNCHANGED <<scope, log, base, water, rows, oldest, client>>

\* The connection breaks, with whatever it still carried.
Break(c) ==
  /\ Fault
  /\ conn[c].pc # "off"
  /\ Cancel(c)
  /\ client' = [client EXCEPT ![c].pc = IF @ = "boot" THEN "start" ELSE "resume"]
  /\ UNCHANGED <<scope, log, base, water, rows, oldest>>

-----------------------------------------------------------------------------
Init ==
  /\ scope \in Scopes
  /\ log = <<<<>>>> /\ base = <<[o \in Objs |-> "in"]>>
  /\ water = <<0>> /\ rows = {} /\ oldest = 0
  /\ tailer = [t \in Tailers |-> NoTailer] /\ live = 0
  /\ conn = [c \in Clients |-> Off]
  /\ client = [c \in Clients |-> [pc |-> "start", cur |-> Start, todo |-> {},
                 view |-> [o \in Objs |-> None], listed |-> [o \in Objs |-> 0]]]
  /\ faults = 0

TailStep(t) == TailRead(t) \/ TailPublish(t) \/ TailFail(t)

\* What the goroutines of a stream and its client do on their own.
StreamStep(c) ==
  \/ Subscribe(c) \/ Validate(c) \/ Register(c)
  \/ Replay(c) \/ Deliver(c) \/ Live(c) \/ Wait(c)

ClientStep(c) ==
  Bootstrap(c) \/ List(c) \/ Receive(c) \/ ReceiveError(c)

Next ==
  \/ \E o \in scope.objs : Write(o)
  \/ Publish \/ Bookmark \/ Expire \/ Reset
  \/ \E c \in Clients : StreamStep(c) \/ ClientStep(c) \/ Overflow(c) \/ Break(c)
  \/ \E t \in Tailers : TailStep(t) \/ TailFault(t)

Fairness ==
  /\ WF_vars(Publish)
  /\ \A c \in Clients : WF_vars(StreamStep(c)) /\ WF_vars(ClientStep(c))
  /\ \A t \in Tailers : WF_vars(TailStep(t))

Safe == Init /\ [][Next]_vars

Spec == Safe /\ Fairness

-----------------------------------------------------------------------------
(* Properties.                                                             *)

\* A client that has received everything up to the moment a resource was
\* listed holds exactly what the selector matches at its cursor, however its
\* list and its streams interleaved with the changes: a resource that leaves
\* the selector is sent as deleted and one that enters it as added
\* (projectResourceJournalSelector), and none that was listed is missed.
FilteredView ==
  \A c \in scope.clients : \A o \in scope.objs :
    LET cl == client[c]
    IN  /\ cl.pc \in {"resume", "watch"}
        /\ cl.cur.epoch = epoch /\ cl.cur.seq >= cl.listed[o]
        => cl.view[o] = Matching(epoch, o, cl.cur.seq)

\* No lost wake-up: a stream that waits without a wake-up or an error pending is
\* attached to the live tailer and has seen all of it, whatever the order in
\* which streams register, leave and the tailer fails (registerLive,
\* unregisterLive, publishLiveBatch, failTailer); and the live tailer has
\* somebody to serve, so it does not leak.
NobodyForgotten ==
  /\ \A c \in Clients :
       conn[c].pc = "wait" /\ ~conn[c].ready /\ conn[c].failed = "none"
         => /\ conn[c].tail = live
            /\ conn[c].cur.seq >= tailer[live].cursor
  /\ live # 0 => Attached(live) # {}

Feed == INSTANCE WatchFeed WITH
          published <- water,
          at <- [c \in Clients |-> IF Running(c)
                                   THEN [epoch |-> conn[c].cur.epoch, seq |-> conn[c].sent]
                                   ELSE Start]

\* The subscribers implement the feed: every stream walks through the journal
\* one published entry at a time from where it was opened, without a gap or a
\* repetition, across the hand-over from the replay to the ring and back, a
\* ring that has moved on, a replaced tailer and rows lost to the TTL.
FeedImplemented == Feed!Feed

\* Every client ends up watching, with the current state in its cache: no error,
\* expired cursor, failed tailer or new epoch leaves it waiting or listing for
\* ever, once the source, the TTL and the faults come to rest.
Converges ==
  <>[](\A c \in scope.clients :
         /\ client[c].pc = "watch"
         /\ \A o \in scope.objs : client[c].view[o] = Matching(epoch, o, Len(log[epoch])))

=============================================================================
