------------------------- MODULE WatchStreamProofs -------------------------
(***************************************************************************)
(* Two results on the subscribers, for any number of clients, tailers,     *)
(* entries, epochs and faults: their streams are those of WatchFeed, and   *)
(* no stream misses its wake-up.                                           *)
(*                                                                         *)
(* The inductive invariant: every cursor a stream works with, every entry  *)
(* of its batch and of the rings is one that the journal of its epoch has  *)
(* reached, so that what a stream sends is published; and a stream that    *)
(* was not told of a failure is attached to the live tailer.               *)
(***************************************************************************)
EXTENDS WatchStream, WellFoundedInduction, TLAPS


Entry == [obj : Objs \cup {"none"}, type : {"ADDED", "MODIFIED", "DELETED", "BOOKMARK"},
          pre : BOOLEAN, post : BOOLEAN]

Cursor == {"epoch", "seq"}
Clock == {"epoch", "high", "oldest"}

ConnFields == {"pc", "clock", "cur", "top", "from", "batch", "tail", "ready", "failed",
               "events", "sent", "err"}

TailerFields == {"epoch", "cursor", "ring", "batch", "pc", "err"}

ClientFields == {"pc", "cur", "todo", "view", "listed"}

RunningPcs == {"replay", "live", "deliver", "wait"}

JournalTyped ==
  /\ scope \in Scopes
  /\ log \in Seq(Seq(Entry)) /\ water \in Seq(Nat)
  /\ Len(log) = Len(water) /\ Len(water) >= 1

\* The journal of epoch e has an entry s, or begins with it.
Reached(e, s) == e \in 1..Len(water) /\ s \in 0..water[e]

ConnInv(x) ==
  /\ DOMAIN x = ConnFields
  /\ x.events \in Seq(Nat)
  /\ x.pc = "bounds" => DOMAIN x.clock = Clock /\ Reached(x.clock.epoch, x.clock.high)
  /\ x.pc = "register" =>
       /\ Reached(x.clock.epoch, x.clock.high)
       /\ DOMAIN x.cur = Cursor
       /\ x.cur.epoch = x.clock.epoch /\ x.cur.seq \in 0..x.clock.high
       /\ x.clock.high - x.cur.seq <= scope.replay
  /\ x.pc \in RunningPcs =>
       /\ DOMAIN x.cur = Cursor
       /\ Reached(x.cur.epoch, x.cur.seq) /\ x.sent = x.cur.seq
       /\ \A s \in x.batch : Reached(x.cur.epoch, s)

ClientInv(x) ==
  /\ DOMAIN x = ClientFields
  /\ x.cur.seq \in Nat /\ DOMAIN x.cur = Cursor

TailerInv(x) ==
  /\ DOMAIN x = TailerFields
  /\ x.cursor \in Nat
  /\ x.pc = "fail" => x.err # "none"
  /\ \A s \in x.ring \cup x.batch : Reached(x.epoch, s)

Tables ==
  /\ DOMAIN conn = Clients /\ DOMAIN client = Clients /\ DOMAIN tailer = Tailers
  /\ \A c \in Clients : ConnInv(conn[c]) /\ ClientInv(client[c])
  /\ \A t \in Tailers : TailerInv(tailer[t])

\* A stream that waits is awake, or has seen all its tailer has.
Awake(x) ==
  x.pc \in RunningPcs =>
    /\ x.tail \in Tailers
    /\ x.failed = "none" =>
         /\ x.tail = live
         /\ x.pc = "wait" /\ ~ x.ready => x.cur.seq >= tailer[live].cursor

Attending ==
  /\ live \in {0} \cup Tailers
  /\ \A c \in Clients : Awake(conn[c])
  /\ live # 0 => \E c \in Clients : conn[c].pc \in RunningPcs /\ conn[c].tail = live

StreamInv == JournalTyped /\ Tables /\ Attending

-----------------------------------------------------------------------------
(* What a step may do to the tables.                                       *)

Growing == \A e, s : Reached(e, s) => Reached(e, s)'

Only(c) == DOMAIN conn' = Clients /\ \A d \in Clients \ {c} : conn'[d] = conn[d]

Same == UNCHANGED <<scope, log, water>>

LEMMA SameJournal == ASSUME JournalTyped, Same
                     PROVE  JournalTyped' /\ Growing
  BY Zenon DEF JournalTyped, Same, Growing, Reached

LEMMA Stays ==
  ASSUME Growing, scope' = scope
  PROVE  /\ \A x : ConnInv(x) => ConnInv(x)'
         /\ \A x : TailerInv(x) => TailerInv(x)'
         /\ \A x : ClientInv(x) => ClientInv(x)'
  <1>1. \A x : ConnInv(x) => ConnInv(x)'
    BY Zenon DEF Growing, ConnInv
  <1>2. \A x : TailerInv(x) => TailerInv(x)'
    BY Zenon DEF Growing, TailerInv
  <1>3. \A x : ClientInv(x) => ClientInv(x)'
    BY Zenon DEF ClientInv
  <1> QED BY Zenon, <1>1, <1>2, <1>3

\* The source and the journal move, the subscribers do not.
LEMMA SourceStep ==
  ASSUME StreamInv, JournalTyped', Growing, UNCHANGED <<scope, tailer, live, conn, client>>
  PROVE  StreamInv'
  <1>1. Tables'
    BY Zenon, Stays DEF StreamInv, Tables
  <1>2. Attending'
    BY Zenon DEF StreamInv, Attending, Awake, Tailers
  <1> QED BY Zenon, <1>1, <1>2 DEF StreamInv

\* One stream and its client move.
LEMMA TablesStep ==
  ASSUME StreamInv, Same, NEW c \in Clients, Only(c), ConnInv(conn'[c]),
         DOMAIN client' = Clients, \A d \in Clients : ClientInv(client'[d]),
         DOMAIN tailer' = Tailers, \A t \in Tailers : TailerInv(tailer'[t])
  PROVE  JournalTyped' /\ Tables'
  <1>1. JournalTyped' /\ Growing /\ scope' = scope
    BY Zenon, SameJournal DEF StreamInv, Same
  <1>2. \A d \in Clients : ConnInv(conn'[d])
    BY Zenon DEF Only, StreamInv, Tables
  <1>3. Tables'
    BY Zenon, <1>1, <1>2, Stays DEF Tables, Only, Tailers
  <1> QED BY Zenon, <1>1, <1>3

LEMMA AttendStep ==
  ASSUME StreamInv, NEW c \in Clients, Only(c), UNCHANGED <<live, tailer>>, Awake(conn'[c]),
         conn[c].pc \in RunningPcs => conn'[c].pc \in RunningPcs /\ conn'[c].tail = conn[c].tail
  PROVE  Attending'
  BY DEF StreamInv, Attending, Awake, Only, Tailers

LEMMA LeaveStep ==
  ASSUME StreamInv, NEW c \in Clients, Running(c), Leave(c), Only(c),
         conn'[c].pc \notin RunningPcs
  PROVE  Attending' /\ DOMAIN tailer' = Tailers /\ \A t \in Tailers : TailerInv(tailer'[t])
  <1>1. \A d \in Clients \ {c} : conn[d].pc \in RunningPcs /\ conn[d].failed = "none" =>
          live' = live /\ live \in Tailers /\ tailer'[live] = tailer[live]
    BY Zenon DEF StreamInv, Attending, Awake, Leave, Attached, Running, RunningPcs, Tables
  <1>2. ASSUME live' # 0
        PROVE  \E d \in Clients : conn'[d].pc \in RunningPcs /\ conn'[d].tail = live'
    <2>1. live' = live /\ ~ (Attached(live) = {c})
      BY Zenon, <1>2 DEF Leave, Attached
    <2>2. PICK d \in Clients : d # c /\ conn[d].pc \in RunningPcs /\ conn[d].tail = live
      BY Zenon, <1>2, <2>1 DEF StreamInv, Attending, Attached, Running, RunningPcs
    <2> QED BY Zenon, <2>1, <2>2 DEF Only
  <1>0. live' \in {0} \cup Tailers
    BY Zenon DEF Leave, StreamInv, Attending
  <1>3. Attending'
    BY <1>0, <1>1, <1>2 DEF Attending, Awake, Only, StreamInv, Tailers
  <1>4. TailerInv(NoTailer)
    BY Zenon DEF TailerInv, NoTailer, TailerFields
  <1> QED BY Zenon, <1>3, <1>4 DEF Leave, StreamInv, Tables

LEMMA ClosedInv ==
  ASSUME NEW x, DOMAIN x = ConnFields, x.pc \in {"off", "done"}, x.events \in Seq(Nat)
  PROVE  ConnInv(x) /\ Awake(x) /\ x.pc \notin RunningPcs
  BY Zenon DEF ConnInv, Awake, RunningPcs

LEMMA OffInv == ConnInv(Off) /\ Awake(Off) /\ Off.pc \notin RunningPcs
  <1>1. DOMAIN Off = ConnFields /\ Off.pc = "off" /\ Off.events \in Seq(Nat)
    BY DEF Off, ConnFields
  <1> QED BY Zenon, <1>1, ClosedInv

\* A client that is told of an error, and one that is not told anything.
LEMMA ClientStep1 ==
  ASSUME Tables, NEW c \in Clients, NEW pc,
         client' = client \/ client' = [client EXCEPT ![c].pc = pc]
  PROVE  DOMAIN client' = Clients /\ \A d \in Clients : ClientInv(client'[d])
  BY Zenon DEF Tables, ClientInv, ClientFields

LEMMA RefusedStep ==
  ASSUME StreamInv, Same, NEW c \in Clients, NEW why, Refused(c, why),
         conn[c].pc \notin RunningPcs,
         DOMAIN tailer' = Tailers, \A t \in Tailers : TailerInv(tailer'[t])
  PROVE  Only(c) /\ conn'[c] = Off /\ JournalTyped' /\ Tables'
  <1>1. Only(c) /\ conn'[c] = Off
    BY Zenon DEF Refused, Only, StreamInv, Tables
  <1>2. DOMAIN client' = Clients /\ \A d \in Clients : ClientInv(client'[d])
    BY Zenon, ClientStep1 DEF Refused, StreamInv
  <1> QED BY Zenon, <1>1, <1>2, OffInv, TablesStep

LEMMA TerminateStep ==
  ASSUME StreamInv, Same, NEW c \in Clients, NEW why, Terminate(c, why), Running(c),
         client' = client
  PROVE  StreamInv' /\ Only(c) /\ conn'[c].pc \notin RunningPcs
  <1>1. Only(c) /\ DOMAIN conn'[c] = ConnFields /\ conn'[c].pc = "done"
          /\ conn'[c].events = conn[c].events
    BY Zenon DEF Terminate, Only, StreamInv, Tables, Off, ConnFields
  <1>2. conn[c].events \in Seq(Nat)
    BY Zenon DEF StreamInv, Tables, ConnInv
  <1>3. ConnInv(conn'[c]) /\ conn'[c].pc \notin RunningPcs
    BY Zenon, <1>1, <1>2, ClosedInv
  <1>4. Attending' /\ DOMAIN tailer' = Tailers /\ \A t \in Tailers : TailerInv(tailer'[t])
    BY Zenon, <1>1, <1>3, LeaveStep DEF Terminate
  <1>5. DOMAIN client' = Clients /\ \A d \in Clients : ClientInv(client'[d])
    BY Zenon DEF StreamInv, Tables
  <1>6. JournalTyped' /\ Tables'
    BY Zenon, <1>1, <1>3, <1>4, <1>5, TablesStep
  <1> QED BY Zenon, <1>1, <1>3, <1>4, <1>6 DEF StreamInv

LEMMA CancelStep ==
  ASSUME StreamInv, Same, NEW c \in Clients, Cancel(c),
         DOMAIN client' = Clients, \A d \in Clients : ClientInv(client'[d])
  PROVE  StreamInv' /\ Only(c) /\ conn'[c].pc \notin RunningPcs
  <1>1. Only(c) /\ conn'[c] = Off
    BY Zenon DEF Cancel, Only, StreamInv, Tables
  <1>2. Attending' /\ DOMAIN tailer' = Tailers /\ \A t \in Tailers : TailerInv(tailer'[t])
    <2>1. CASE Running(c)
      BY Zenon, <2>1, <1>1, OffInv, LeaveStep DEF Cancel
    <2>2. CASE ~ Running(c)
      <3>1. conn[c].pc \notin RunningPcs /\ UNCHANGED <<live, tailer>>
        BY Zenon, <2>2 DEF Cancel, Running, RunningPcs
      <3> QED BY Zenon, <3>1, <1>1, OffInv, AttendStep DEF StreamInv, Tables
    <2> QED BY Zenon, <2>1, <2>2
  <1>3. JournalTyped' /\ Tables'
    BY Zenon, <1>1, <1>2, OffInv, TablesStep
  <1> QED BY Zenon, <1>1, <1>2, <1>3, OffInv DEF StreamInv

\* A step of one stream that leaves the tailers and the clients alone.
LEMMA StreamMoves ==
  ASSUME StreamInv, Same, NEW c \in Clients, Only(c), UNCHANGED <<live, tailer, client>>,
         ConnInv(conn'[c]), Awake(conn'[c]),
         conn[c].pc \in RunningPcs => conn'[c].pc \in RunningPcs /\ conn'[c].tail = conn[c].tail
  PROVE  StreamInv'
  <1>1. JournalTyped' /\ Tables'
    BY Zenon, TablesStep DEF StreamInv, Tables
  <1>2. Attending'
    BY Zenon, AttendStep
  <1> QED BY Zenon, <1>1, <1>2 DEF StreamInv

-----------------------------------------------------------------------------
(* The source and the journal.                                             *)

LEMMA CommitTyped ==
  ASSUME JournalTyped, NEW event \in Entry, Commit(event)
  PROVE  log' \in Seq(Seq(Entry)) /\ Len(log') = Len(log)
  BY DEF JournalTyped, Commit, epoch

LEMMA GrowTyped ==
  ASSUME JournalTyped, Grow
  PROVE  water' \in Seq(Nat) /\ Len(water') = Len(water) /\ Growing
  BY DEF JournalTyped, Grow, Growing, Reached, epoch

LEMMA WriteStep ==
  ASSUME StreamInv, NEW o \in scope.objs, Write(o)
  PROVE  StreamInv'
  <1>1. o \in Objs
    BY Zenon, StreamConstants DEF StreamInv, JournalTyped
  <1>2. log' \in Seq(Seq(Entry)) /\ Len(log') = Len(log)
    <2>1. CASE \E post \in BOOLEAN :
            Commit([obj |-> o, type |-> IF Now(o) = "absent" THEN "ADDED" ELSE "MODIFIED",
                    pre |-> Now(o) = "in", post |-> post])
      <3>1. PICK post \in BOOLEAN :
              Commit([obj |-> o, type |-> IF Now(o) = "absent" THEN "ADDED" ELSE "MODIFIED",
                      pre |-> Now(o) = "in", post |-> post])
        BY Zenon, <2>1
      <3> DEFINE event == [obj |-> o, pre |-> Now(o) = "in", post |-> post,
                           type |-> IF Now(o) = "absent" THEN "ADDED" ELSE "MODIFIED"]
      <3>2. event \in Entry
        BY Zenon, <1>1 DEF Entry
      <3> QED BY Zenon, <3>1, <3>2, CommitTyped DEF StreamInv
    <2>2. CASE Commit([obj |-> o, type |-> "DELETED", pre |-> Now(o) = "in",
                       post |-> Now(o) = "in"])
      <3>1. [obj |-> o, type |-> "DELETED", pre |-> Now(o) = "in", post |-> Now(o) = "in"]
              \in Entry
        BY Zenon, <1>1 DEF Entry
      <3> QED BY Zenon, <3>1, <2>2, CommitTyped DEF StreamInv
    <2> QED BY Zenon, <2>1, <2>2 DEF Write
  <1>3. JournalTyped' /\ Growing
    BY Zenon, <1>2 DEF StreamInv, JournalTyped, Write, Growing, Reached
  <1> QED BY Zenon, <1>3, SourceStep DEF Write

LEMMA PublishStep ==
  ASSUME StreamInv, Publish
  PROVE  StreamInv'
  <1>1. JournalTyped' /\ Growing
    BY Zenon, GrowTyped DEF StreamInv, JournalTyped, Publish
  <1> QED BY Zenon, <1>1, SourceStep DEF Publish

LEMMA BookmarkStep ==
  ASSUME StreamInv, Bookmark
  PROVE  StreamInv'
  <1>1. log' \in Seq(Seq(Entry)) /\ Len(log') = Len(log)
    <2>1. [obj |-> "none", type |-> "BOOKMARK", pre |-> TRUE, post |-> TRUE] \in Entry
      BY Zenon DEF Entry
    <2> QED BY Zenon, <2>1, CommitTyped DEF Bookmark, StreamInv
  <1>2. JournalTyped' /\ Growing
    BY Zenon, <1>1, GrowTyped DEF StreamInv, JournalTyped, Bookmark
  <1> QED BY Zenon, <1>2, SourceStep DEF Bookmark

LEMMA ExpireStep ==
  ASSUME StreamInv, Expire
  PROVE  StreamInv'
  <1>1. JournalTyped' /\ Growing
    BY Zenon, SameJournal DEF StreamInv, Expire, Same
  <1> QED BY Zenon, <1>1, SourceStep DEF Expire

LEMMA ResetStep ==
  ASSUME StreamInv, Reset
  PROVE  StreamInv'
  <1>1. JournalTyped' /\ Growing
    BY DEF StreamInv, JournalTyped, Reset, Growing, Reached
  <1> QED BY Zenon, <1>1, SourceStep DEF Reset

-----------------------------------------------------------------------------
(* The streams.                                                            *)

LEMMA SubscribeStep ==
  ASSUME StreamInv, NEW c \in Clients, Subscribe(c)
  PROVE  StreamInv' /\ Only(c) /\ conn[c].pc \notin RunningPcs /\ conn'[c].pc \notin RunningPcs
  <1> DEFINE x == [Off EXCEPT !.pc = "bounds",
                     !.clock = [epoch |-> epoch, high |-> water[epoch], oldest |-> oldest]]
  <1>1. Only(c) /\ conn'[c] = x /\ conn[c].pc = "off"
    BY Zenon DEF Subscribe, Only, StreamInv, Tables
  <1>2. x.pc = "bounds" /\ x.pc \notin RunningPcs /\ conn[c].pc \notin RunningPcs
    BY Zenon, <1>1 DEF Off, RunningPcs
  <1>3. ConnInv(x)
    BY DEF ConnInv, Off, ConnFields, Clock, RunningPcs, Reached, StreamInv, JournalTyped, epoch
  <1>4. DOMAIN client' = Clients /\ \A d \in Clients : ClientInv(client'[d])
    BY Zenon, ClientStep1 DEF Subscribe, StreamInv
  <1>5. JournalTyped' /\ Tables'
    BY Zenon, <1>1, <1>3, <1>4, TablesStep DEF Subscribe, Same, StreamInv, Tables
  <1>6. Attending'
    <2>1. Awake(conn'[c])
      BY Zenon, <1>1, <1>2 DEF Awake
    <2> QED BY Zenon, <1>1, <1>2, <2>1, AttendStep DEF Subscribe
  <1> QED BY Zenon, <1>1, <1>2, <1>5, <1>6 DEF StreamInv

LEMMA BoundsRowInv ==
  ASSUME JournalTyped, NEW clock, DOMAIN clock = Clock, Reached(clock.epoch, clock.high)
  PROVE  /\ DOMAIN BoundsRow(clock) = Clock
         /\ Reached(BoundsRow(clock).epoch, BoundsRow(clock).high)
  <1>1. CASE Advanced(clock) /\ ~CASApplies(clock)
    BY <1>1 DEF BoundsRow, Clock, Reached, JournalTyped, epoch
  <1>2. CASE ~ (Advanced(clock) /\ ~CASApplies(clock))
    BY Zenon, <1>2 DEF BoundsRow, Clock
  <1> QED BY Zenon, <1>1, <1>2

LEMMA ValidateStep ==
  ASSUME StreamInv, NEW c \in Clients, Validate(c)
  PROVE  StreamInv' /\ Only(c) /\ conn[c].pc \notin RunningPcs /\ conn'[c].pc \notin RunningPcs
  <1> DEFINE clock == conn[c].clock
             row   == BoundsRow(clock)
             boot  == client[c].pc = "boot"
             cur   == IF boot THEN [epoch |-> row.epoch, seq |-> row.high] ELSE client[c].cur
  <1>1. conn[c].pc = "bounds" /\ conn[c].pc \notin RunningPcs
    BY Zenon DEF Validate, RunningPcs
  <1>2. DOMAIN clock = Clock /\ Reached(clock.epoch, clock.high)
    BY Zenon, <1>1 DEF StreamInv, Tables, ConnInv
  <1>3. Reached(row.epoch, row.high)
    BY Zenon, <1>2, BoundsRowInv DEF StreamInv
  <1>4. Same /\ UNCHANGED <<tailer, live>> /\ DOMAIN tailer' = Tailers
          /\ \A t \in Tailers : TailerInv(tailer'[t])
    BY Zenon DEF Validate, Same, StreamInv, Tables
  <1>5. CASE \E why : Refused(c, why)
    <2>1. Only(c) /\ conn'[c] = Off /\ JournalTyped' /\ Tables'
      BY Zenon, <1>1, <1>4, <1>5, RefusedStep
    <2>2. Attending'
      BY Zenon, <2>1, <1>1, <1>4, OffInv, AttendStep
    <2> QED BY Zenon, <2>1, <2>2, <1>1, OffInv DEF StreamInv
  <1>6. CASE /\ ~ (~boot /\ CursorExpired(cur, row))
             /\ conn' = [conn EXCEPT ![c].pc = "register", ![c].clock = row, ![c].cur = cur]
             /\ UNCHANGED client
    <2>1. Only(c) /\ conn'[c] = [conn[c] EXCEPT !.pc = "register", !.clock = row, !.cur = cur]
      BY Zenon, <1>6 DEF Only, StreamInv, Tables
    <2>2. /\ DOMAIN conn'[c] = ConnFields /\ conn'[c].pc = "register"
          /\ conn'[c].clock = row /\ conn'[c].cur = cur /\ conn'[c].events \in Seq(Nat)
      BY Zenon, <2>1 DEF StreamInv, Tables, ConnInv, ConnFields
    <2>3. row.high \in Nat /\ scope.replay \in Nat
      BY <1>3, StreamConstants DEF Reached, StreamInv, JournalTyped
    <2>4. /\ DOMAIN cur = Cursor /\ cur.epoch = row.epoch /\ cur.seq \in 0..row.high
          /\ row.high - cur.seq <= scope.replay
      <3>1. CASE boot
        BY <3>1, <2>3 DEF Cursor
      <3>2. CASE ~ boot
        <4>1. cur = client[c].cur /\ cur.seq \in Nat /\ DOMAIN cur = Cursor
          BY Zenon, <3>2 DEF StreamInv, Tables, ClientInv
        <4>2. ~ CursorExpired(cur, row)
          BY Zenon, <3>2, <1>6
        <4> HIDE DEF cur, row
        <4> QED BY <4>1, <4>2, <2>3 DEF CursorExpired
      <3> QED BY Zenon, <3>1, <3>2
    <2>5. ConnInv(conn'[c])
      <3> HIDE DEF cur, row
      <3> QED BY Zenon, <2>2, <2>4, <1>3 DEF ConnInv, RunningPcs
    <2>6. conn'[c].pc \notin RunningPcs /\ Awake(conn'[c])
      BY Zenon, <2>2 DEF Awake, RunningPcs
    <2> QED BY Zenon, <2>1, <2>5, <2>6, <1>1, <1>4, <1>6, StreamMoves
  <1> QED BY Zenon, <1>5, <1>6 DEF Validate

LEMMA ReachedNat ==
  ASSUME JournalTyped
  PROVE  \A e, s : Reached(e, s) => /\ s \in Nat /\ \A r \in 0..s : Reached(e, r)
                                    /\ water[e] \in Nat /\ s <= water[e]
  BY DEF JournalTyped, Reached

LEMMA MaxSame == \A n \in Nat : Max({n, n}) = n /\ Max({n} \cup {}) = n
  BY DEF Max

\* A stream opens where the journal is, or is refused.
LEMMA RegisterStep ==
  ASSUME StreamInv, NEW c \in Clients, Register(c)
  PROVE  /\ StreamInv' /\ Only(c) /\ conn[c].pc \notin RunningPcs
         /\ conn'[c].pc \in RunningPcs => Reached(conn'[c].cur.epoch, conn'[c].sent)
  <1> DEFINE row == conn[c].clock
             cur == conn[c].cur
             t   == IF live = 0 THEN Unused ELSE live
             new == [NoTailer EXCEPT !.epoch = row.epoch, !.cursor = row.high, !.pc = "read"]
             shared == IF live = 0 THEN [tailer EXCEPT ![t] = new] ELSE tailer
             top == Max({row.high, shared[t].cursor})
             x   == [Off EXCEPT !.pc = "replay", !.cur = cur, !.top = top, !.from = cur.seq,
                       !.sent = cur.seq, !.tail = t,
                       !.events = IF client[c].pc = "boot" THEN <<row.high>> ELSE <<>>]
  <1>1. conn[c].pc = "register" /\ conn[c].pc \notin RunningPcs
    BY Zenon DEF Register, RunningPcs
  <1>2. /\ Reached(row.epoch, row.high) /\ DOMAIN cur = Cursor
        /\ cur.epoch = row.epoch /\ cur.seq \in 0..row.high
        /\ row.high - cur.seq <= scope.replay
    BY Zenon, <1>1 DEF StreamInv, Tables, ConnInv
  <1>3. row.high \in Nat /\ Reached(cur.epoch, cur.seq)
    BY Zenon, <1>2, ReachedNat DEF StreamInv
  <1>4. TailerInv(new) /\ new.epoch = row.epoch /\ new.cursor = row.high
    BY Zenon, <1>3 DEF TailerInv, NoTailer, TailerFields
  <1>5. live = 0 => t \in Tailers
    BY Zenon DEF Register
  <1>6. live # 0 => t = live /\ shared = tailer
    OBVIOUS
  <1>7. DOMAIN shared = Tailers /\ \A u \in Tailers : TailerInv(shared[u])
    <2> HIDE DEF new
    <2> QED BY Zenon, <1>4, <1>5 DEF StreamInv, Tables
  <1>8. Same /\ tailer' = shared /\ live' = t
    BY Zenon DEF Register, Same
  <1>9. live # 0 => live \in Tailers
    BY Zenon DEF StreamInv, Attending
  <1>10. CASE (shared[t].epoch # row.epoch \/ top - cur.seq > scope.replay) /\ Refused(c, "expired")
    <2>1. live # 0
      <3>1. SUFFICES ASSUME live = 0 PROVE FALSE
        OBVIOUS
      <3>2. shared[t] = new
        <4> HIDE DEF new
        <4> QED BY Zenon, <3>1, <1>5 DEF StreamInv, Tables
      <3>3. top = row.high
        BY Zenon, <3>2, <1>4, <1>3, MaxSame
      <3>4. scope.replay \in Nat
        BY Zenon, StreamConstants DEF StreamInv, JournalTyped
      <3>5. shared[t].epoch = row.epoch
        BY Zenon, <3>2, <1>4
      <3> HIDE DEF shared, top, row, cur
      <3>6. top - cur.seq <= scope.replay /\ cur.seq \in Nat
        BY <3>3, <3>4, <1>2, <1>3
      <3> QED BY <3>3, <3>4, <3>5, <3>6, <1>3, <1>10
    <2>2. Only(c) /\ conn'[c] = Off /\ JournalTyped' /\ Tables'
      BY Zenon, <1>1, <1>7, <1>8, <1>10, RefusedStep
    <2>3. Attending'
      BY Zenon, <2>1, <2>2, <1>1, <1>6, <1>8, OffInv, AttendStep
    <2> QED BY Zenon, <2>2, <2>3, <1>1, OffInv DEF StreamInv
  <1>11. CASE conn' = [conn EXCEPT ![c] = x] /\ UNCHANGED client
    <2>1. Only(c) /\ conn'[c] = x
      BY Zenon, <1>11 DEF Only, StreamInv, Tables
    <2>2. /\ DOMAIN x = ConnFields /\ x.pc = "replay" /\ x.cur = cur /\ x.sent = cur.seq
          /\ x.tail = t /\ x.batch = {} /\ x.failed = "none"
          /\ x.events = IF client[c].pc = "boot" THEN <<row.high>> ELSE <<>>
      BY Zenon DEF Off, ConnFields
    <2>3. ConnInv(x)
      <3> HIDE DEF x, cur
      <3>1. x.events \in Seq(Nat)
        BY <2>2, <1>3
      <3> QED BY Zenon, <2>2, <3>1, <1>2, <1>3 DEF ConnInv, RunningPcs
    <2>4. JournalTyped' /\ Tables'
      <3>1. DOMAIN client' = Clients /\ \A d \in Clients : ClientInv(client'[d])
        BY Zenon, <1>11 DEF StreamInv, Tables
      <3> HIDE DEF x
      <3> QED BY Zenon, <2>1, <2>3, <3>1, <1>7, <1>8, TablesStep
    <2>5. Attending'
      <3> HIDE DEF x, t
      <3>1. t \in Tailers /\ t # 0
        BY <1>5, <1>6, <1>9 DEF Tailers
      <3>2. \A d \in Clients \ {c} : Awake(conn[d])'
        <4>1. CASE live = 0
          BY <4>1, <2>1 DEF StreamInv, Attending, Awake, Only, Tailers
        <4>2. CASE live # 0
          BY Zenon, <4>2, <2>1, <1>6, <1>8 DEF StreamInv, Attending, Awake, Only, Tailers
        <4> QED BY Zenon, <4>1, <4>2
      <3>3. Awake(conn[c])'
        BY Zenon, <2>1, <2>2, <3>1, <1>8 DEF Awake, Tailers
      <3> QED BY Zenon, <3>1, <3>2, <3>3, <2>1, <2>2, <1>8 DEF Attending, RunningPcs
    <2> QED
      <3> HIDE DEF x, cur
      <3> QED BY Zenon, <2>1, <2>2, <2>4, <2>5, <1>1, <1>3 DEF StreamInv
  <1> QED BY Zenon, <1>10, <1>11 DEF Register

\* A stream is closed, or goes on where it was.
Rests(c) ==
  \/ conn'[c].pc \notin RunningPcs
  \/ /\ conn'[c].pc \in RunningPcs /\ conn[c].pc \in RunningPcs
     /\ conn'[c].cur = conn[c].cur /\ conn'[c].sent = conn[c].sent

LEMMA RowsReached ==
  ASSUME JournalTyped, NEW cur, cur.seq \in Nat, ReadError(cur) = "none"
  PROVE  \A s \in ReadRows(cur) : Reached(cur.epoch, s)
  <1>1. cur.epoch = epoch
    BY Zenon DEF ReadError
  <1> QED BY <1>1 DEF ReadRows, Reached, JournalTyped, epoch

LEMMA ReplayStep ==
  ASSUME StreamInv, NEW c \in Clients, Replay(c)
  PROVE  StreamInv' /\ Only(c) /\ Rests(c)
  <1> DEFINE cur == conn[c].cur
  <1>1. conn[c].pc = "replay" /\ conn[c].pc \in RunningPcs /\ Running(c) /\ Same /\ client' = client
    BY Zenon DEF Replay, Running, RunningPcs, Same
  <1>2. /\ ConnInv(conn[c]) /\ Awake(conn[c]) /\ JournalTyped
        /\ Reached(cur.epoch, cur.seq) /\ cur.seq \in Nat
    BY Zenon, <1>1, ReachedNat DEF StreamInv, Tables, Attending, ConnInv
  <1>3. CASE Terminate(c, "expired")
    BY Zenon, <1>1, <1>3, TerminateStep DEF Rests
  <1>4. CASE conn' = [conn EXCEPT ![c].pc = "live"] /\ UNCHANGED <<live, tailer>>
    <2>1. Only(c) /\ conn'[c] = [conn[c] EXCEPT !.pc = "live"]
      BY Zenon, <1>4 DEF Only, StreamInv, Tables
    <2>2. ConnInv(conn'[c]) /\ Awake(conn'[c]) /\ Rests(c) /\ conn'[c].tail = conn[c].tail
            /\ conn'[c].pc \in RunningPcs
      BY Zenon, <2>1, <1>1, <1>2 DEF ConnInv, ConnFields, Awake, Rests, RunningPcs
    <2> QED BY Zenon, <2>1, <2>2, <1>1, <1>4, StreamMoves
  <1>5. CASE /\ ReadError(cur) = "none"
             /\ conn' = [conn EXCEPT ![c].batch = ReadRows(cur)] /\ UNCHANGED <<live, tailer>>
    <2>1. Only(c) /\ conn'[c] = [conn[c] EXCEPT !.batch = ReadRows(cur)]
      BY Zenon, <1>5 DEF Only, StreamInv, Tables
    <2>2. \A s \in ReadRows(cur) : Reached(cur.epoch, s)
      BY Zenon, <1>2, <1>5, RowsReached
    <2>3. ConnInv(conn'[c]) /\ Awake(conn'[c]) /\ Rests(c) /\ conn'[c].tail = conn[c].tail
            /\ conn'[c].pc \in RunningPcs
      BY <2>1, <2>2, <1>1, <1>2 DEF ConnInv, ConnFields, Awake, Rests, RunningPcs
    <2> QED BY Zenon, <2>1, <2>3, <1>1, <1>5, StreamMoves
  <1> QED BY Zenon, <1>3, <1>4, <1>5 DEF Replay

\* The stream sends the entry after its cursor, which the journal has reached.
Sends(c) ==
  /\ conn[c].pc \in RunningPcs /\ conn'[c].pc \in RunningPcs
  /\ conn'[c].cur.epoch = conn[c].cur.epoch
  /\ conn'[c].sent = conn[c].sent + 1
  /\ conn[c].sent < water[conn[c].cur.epoch]

LEMMA DeliverStep ==
  ASSUME StreamInv, NEW c \in Clients, Deliver(c)
  PROVE  StreamInv' /\ Only(c) /\ (Rests(c) \/ Sends(c))
  <1> DEFINE cur == conn[c].cur
             next == cur.seq + 1
             pc == IF ~ (conn[c].pc = "replay") /\ conn[c].batch = {next} THEN "live" ELSE conn[c].pc
  <1>1. /\ conn[c].pc \in {"replay", "deliver"} /\ conn[c].pc \in RunningPcs /\ Running(c)
        /\ Same /\ client' = client
    BY Zenon DEF Deliver, Running, RunningPcs, Same
  <1>2. /\ ConnInv(conn[c]) /\ Awake(conn[c]) /\ JournalTyped
        /\ Reached(cur.epoch, cur.seq) /\ cur.seq \in Nat
    BY Zenon, <1>1, ReachedNat DEF StreamInv, Tables, Attending, ConnInv
  <1>3. CASE Terminate(c, "expired")
    BY Zenon, <1>1, <1>3, TerminateStep DEF Rests
  <1>4. CASE conn' = [conn EXCEPT ![c].batch = {}] /\ UNCHANGED <<live, tailer>>
    <2>1. Only(c) /\ conn'[c] = [conn[c] EXCEPT !.batch = {}]
      BY Zenon, <1>4 DEF Only, StreamInv, Tables
    <2>2. ConnInv(conn'[c]) /\ Awake(conn'[c]) /\ Rests(c) /\ conn'[c].tail = conn[c].tail
            /\ conn'[c].pc \in RunningPcs
      BY Zenon, <2>1, <1>1, <1>2 DEF ConnInv, ConnFields, Awake, Rests, RunningPcs
    <2> QED BY Zenon, <2>1, <2>2, <1>1, <1>4, StreamMoves
  <1>5. CASE /\ next \in conn[c].batch
             /\ conn' = [conn EXCEPT ![c].cur.seq = next, ![c].sent = next,
                           ![c].events = Append(@, next), ![c].batch = @ \ {next}, ![c].pc = pc]
             /\ UNCHANGED <<live, tailer>>
    <2>1. Only(c)
      BY Zenon, <1>5 DEF Only, StreamInv, Tables
    <2>2. /\ DOMAIN conn'[c] = ConnFields /\ conn'[c].cur = [cur EXCEPT !.seq = next]
          /\ conn'[c].sent = next /\ conn'[c].batch = conn[c].batch \ {next} /\ conn'[c].pc = pc
          /\ conn'[c].events = Append(conn[c].events, next) /\ conn'[c].tail = conn[c].tail
          /\ conn'[c].failed = conn[c].failed
      <3>1. conn'[c] = [conn[c] EXCEPT !.cur.seq = next, !.sent = next,
                           !.events = Append(@, next), !.batch = @ \ {next}, !.pc = pc]
        BY Zenon, <1>5 DEF StreamInv, Tables
      <3> HIDE DEF next, pc
      <3> QED BY Zenon, <3>1, <1>2 DEF ConnInv, ConnFields
    <2>3. DOMAIN cur = Cursor /\ conn[c].sent = cur.seq /\ Reached(cur.epoch, next)
      BY Zenon, <1>1, <1>2, <1>5 DEF ConnInv
    <2>4. DOMAIN [cur EXCEPT !.seq = next] = Cursor /\ conn'[c].cur.seq = next
            /\ conn'[c].cur.epoch = cur.epoch
      BY Zenon, <2>2, <2>3 DEF Cursor
    <2>5. pc \in {"replay", "deliver", "live"} /\ pc \in RunningPcs
      BY Zenon, <1>1 DEF RunningPcs
    <2>6. conn'[c].events \in Seq(Nat)
      BY <2>2, <1>2 DEF ConnInv
    <2>7. ConnInv(conn'[c])
      <3> HIDE DEF next, pc
      <3> QED BY Zenon, <2>2, <2>3, <2>4, <2>5, <2>6, <1>1, <1>2 DEF ConnInv
    <2>8. Awake(conn'[c])
      <3> HIDE DEF next, pc
      <3> QED BY Zenon, <2>2, <2>5, <1>1, <1>2 DEF Awake
    <2>9. Sends(c)
      <3>1. water[cur.epoch] \in Nat /\ next <= water[cur.epoch]
        BY Zenon, <2>3, <1>2, ReachedNat
      <3> QED BY <3>1, <2>2, <2>3, <2>4, <2>5, <1>1, <1>2 DEF Sends
    <2> QED
      <3> HIDE DEF next, pc
      <3> QED BY Zenon, <2>1, <2>2, <2>5, <2>7, <2>8, <2>9, <1>1, <1>5, StreamMoves
  <1> QED BY Zenon, <1>3, <1>4, <1>5 DEF Deliver

LEMMA LiveStep ==
  ASSUME StreamInv, NEW c \in Clients, Live(c)
  PROVE  StreamInv' /\ Only(c) /\ Rests(c)
  <1> DEFINE cur == conn[c].cur
             t == tailer[conn[c].tail]
             rest == {s \in t.ring : s > cur.seq}
  <1>1. conn[c].pc = "live" /\ conn[c].pc \in RunningPcs /\ Running(c) /\ Same /\ client' = client
    BY Zenon DEF Live, Running, RunningPcs, Same
  <1>2. ConnInv(conn[c]) /\ Awake(conn[c]) /\ TailerInv(t)
    BY Zenon, <1>1 DEF StreamInv, Tables, Attending, Awake
  <1>3. CASE Terminate(c, "expired")
    BY Zenon, <1>1, <1>3, TerminateStep DEF Rests
  <1>4. CASE /\ t.epoch = cur.epoch
             /\ conn' = [conn EXCEPT ![c] =
                   IF cur.seq >= t.cursor THEN [@ EXCEPT !.pc = "wait"]
                   ELSE IF rest = {} \/ cur.seq + 1 < Min(t.ring)
                   THEN [@ EXCEPT !.pc = "replay", !.top = t.cursor, !.from = cur.seq]
                   ELSE [@ EXCEPT !.pc = "deliver", !.batch = rest]]
             /\ UNCHANGED <<live, tailer>>
    <2>1. Only(c)
      BY Zenon, <1>4 DEF Only, StreamInv, Tables
    <2>2. ConnInv(conn'[c]) /\ Awake(conn'[c]) /\ Rests(c) /\ conn'[c].tail = conn[c].tail
            /\ conn'[c].pc \in RunningPcs
      <3>1. CASE conn'[c] = [conn[c] EXCEPT !.pc = "wait"] /\ cur.seq >= t.cursor
        BY Zenon, <3>1, <1>1, <1>2 DEF ConnInv, ConnFields, Awake, Rests, RunningPcs
      <3>2. CASE conn'[c] = [conn[c] EXCEPT !.pc = "replay", !.top = t.cursor, !.from = cur.seq]
        BY Zenon, <3>2, <1>1, <1>2 DEF ConnInv, ConnFields, Awake, Rests, RunningPcs
      <3>3. CASE conn'[c] = [conn[c] EXCEPT !.pc = "deliver", !.batch = rest]
        <4>1. \A s \in rest : Reached(cur.epoch, s)
          BY Zenon, <1>2, <1>4 DEF TailerInv
        <4> HIDE DEF rest
        <4> QED BY Zenon, <3>3, <4>1, <1>1, <1>2 DEF ConnInv, ConnFields, Awake, Rests, RunningPcs
      <3> HIDE DEF rest, t
      <3> QED BY Zenon, <3>1, <3>2, <3>3, <1>4 DEF StreamInv, Tables
    <2> QED BY Zenon, <2>1, <2>2, <1>1, <1>4, StreamMoves
  <1> QED BY Zenon, <1>3, <1>4 DEF Live

LEMMA WaitStep ==
  ASSUME StreamInv, NEW c \in Clients, Wait(c)
  PROVE  StreamInv' /\ Only(c) /\ Rests(c)
  <1>1. conn[c].pc = "wait" /\ conn[c].pc \in RunningPcs /\ Running(c) /\ Same /\ client' = client
    BY Zenon DEF Wait, Running, RunningPcs, Same
  <1>2. ConnInv(conn[c]) /\ Awake(conn[c])
    BY Zenon DEF StreamInv, Tables, Attending
  <1>3. CASE Terminate(c, conn[c].failed)
    BY Zenon, <1>1, <1>3, TerminateStep DEF Rests
  <1>4. CASE /\ conn' = [conn EXCEPT ![c].pc = "live", ![c].ready = FALSE]
             /\ UNCHANGED <<live, tailer>>
    <2>1. Only(c) /\ conn'[c] = [conn[c] EXCEPT !.pc = "live", !.ready = FALSE]
      BY Zenon, <1>4 DEF Only, StreamInv, Tables
    <2>2. ConnInv(conn'[c]) /\ Awake(conn'[c]) /\ Rests(c) /\ conn'[c].tail = conn[c].tail
            /\ conn'[c].pc \in RunningPcs
      BY Zenon, <2>1, <1>1, <1>2 DEF ConnInv, ConnFields, Awake, Rests, RunningPcs
    <2> QED BY Zenon, <2>1, <2>2, <1>1, <1>4, StreamMoves
  <1> QED BY Zenon, <1>3, <1>4 DEF Wait

LEMMA OverflowStep ==
  ASSUME StreamInv, NEW c \in Clients, Overflow(c)
  PROVE  StreamInv' /\ Only(c) /\ Rests(c)
  <1>1. Running(c) /\ Same /\ client' = client
    BY Zenon DEF Overflow, Running, Same
  <1> QED BY Zenon, <1>1, TerminateStep DEF Overflow, Rests


-----------------------------------------------------------------------------
(* The tailers.                                                            *)

LEMMA Largest ==
  ASSUME NEW n \in Nat, NEW S, S \subseteq 0..n, S # {}
  PROVE  Max(S) \in S
  <1> DEFINE R == OpToRel(<, Nat)
             T == {k \in Nat : n - k \in S}
  <1>1. T # {}
    <2>1. PICK s \in S : TRUE
      BY Zenon
    <2>2. n - s \in Nat /\ n - (n - s) = s
      BY <2>1
    <2> QED BY Zenon, <2>1, <2>2
  <1>2. IsWellFoundedOn(R, Nat)
    BY Zenon, NatLessThanWellFounded
  <1>3. PICK k \in T : \A y \in T : ~ (<<y, k>> \in R)
    <2> HIDE DEF R, T
    <2>1. T \subseteq Nat
      BY Zenon DEF T
    <2> QED BY Zenon, <1>1, <1>2, <2>1, WFMin
  <1>4. k \in Nat /\ n - k \in S /\ \A y \in T : ~ (y < k)
    BY Zenon, <1>3 DEF OpToRel
  <1> HIDE DEF R
  <1>5. \A s \in S : n - k >= s
    <2>1. TAKE s \in S
    <2>2. n - s \in T
      BY <2>1
    <2>3. n - s \in Nat /\ s \in Nat /\ ~ (n - s < k)
      BY <2>1, <2>2, <1>4
    <2> QED BY <2>3, <1>4
  <1> QED BY Zenon, <1>4, <1>5 DEF Max

\* Streams are only told something: to wake up, or that their tailer has failed.
Told == /\ DOMAIN conn' = Clients
        /\ \A c \in Clients : \/ conn'[c] = conn[c]
                               \/ conn'[c] = [conn[c] EXCEPT !.ready = TRUE]
                               \/ \E e : conn'[c] = [conn[c] EXCEPT !.failed = e]

LEMMA ToldConn ==
  ASSUME Tables, Told, NEW c \in Clients
  PROVE  /\ ConnInv(conn'[c])
         /\ conn'[c].pc = conn[c].pc /\ conn'[c].cur = conn[c].cur
         /\ conn'[c].sent = conn[c].sent /\ conn'[c].tail = conn[c].tail
  <1>1. ConnInv(conn[c])
    BY Zenon DEF Tables
  <1>2. CASE conn'[c] = conn[c]
    BY Zenon, <1>1, <1>2
  <1>3. CASE conn'[c] = [conn[c] EXCEPT !.ready = TRUE]
    BY Zenon, <1>1, <1>3 DEF ConnInv, ConnFields
  <1>4. ASSUME NEW e, conn'[c] = [conn[c] EXCEPT !.failed = e]
        PROVE  /\ ConnInv(conn'[c])
               /\ conn'[c].pc = conn[c].pc /\ conn'[c].cur = conn[c].cur
               /\ conn'[c].sent = conn[c].sent /\ conn'[c].tail = conn[c].tail
    BY Zenon, <1>1, <1>4 DEF ConnInv, ConnFields
  <1> QED BY Zenon, <1>2, <1>3, <1>4 DEF Told

LEMMA TailTables ==
  ASSUME StreamInv, Same, Told, client' = client,
         DOMAIN tailer' = Tailers, \A t \in Tailers : TailerInv(tailer'[t])
  PROVE  JournalTyped' /\ Tables'
  <1>1. JournalTyped' /\ Growing /\ scope' = scope
    BY Zenon, SameJournal DEF StreamInv, Same
  <1>2. \A c \in Clients : ConnInv(conn'[c])
    BY Zenon, ToldConn DEF StreamInv
  <1>3. Tables'
    BY Zenon, <1>1, <1>2, Stays DEF Tables, Told, StreamInv, Tailers
  <1> QED BY Zenon, <1>1, <1>3

\* The tailer reads, or fails.
LEMMA TailMoves ==
  ASSUME StreamInv, Same, NEW t \in Tailers, UNCHANGED <<conn, client, live>>,
         DOMAIN tailer' = Tailers, \A u \in Tailers \ {t} : tailer'[u] = tailer[u],
         TailerInv(tailer'[t]), tailer'[t].cursor = tailer[t].cursor
  PROVE  StreamInv' /\ Told
  <1>1. Told
    BY Zenon DEF Told, StreamInv, Tables
  <1>2. \A u \in Tailers : TailerInv(tailer'[u])
    BY Zenon DEF StreamInv, Tables
  <1>3. JournalTyped' /\ Tables'
    BY Zenon, <1>1, <1>2, TailTables
  <1>4. \A u \in Tailers : tailer'[u].cursor = tailer[u].cursor
    OBVIOUS
  <1>5. Attending'
    BY Zenon, <1>4 DEF StreamInv, Attending, Awake, Tailers
  <1> QED BY Zenon, <1>1, <1>3, <1>5 DEF StreamInv

LEMMA TailReadStep ==
  ASSUME StreamInv, NEW t \in Tailers, TailRead(t)
  PROVE  StreamInv' /\ Told
  <1> DEFINE cur == [epoch |-> tailer[t].epoch, seq |-> tailer[t].cursor]
  <1>1. Same /\ UNCHANGED <<conn, client, live>> /\ TailerInv(tailer[t]) /\ JournalTyped
    BY Zenon DEF TailRead, Same, StreamInv, Tables
  <1>2. CASE tailer' = [tailer EXCEPT ![t].pc = "fail", ![t].err = "expired"]
    <2>1. /\ DOMAIN tailer' = Tailers /\ \A u \in Tailers \ {t} : tailer'[u] = tailer[u]
          /\ tailer'[t] = [tailer[t] EXCEPT !.pc = "fail", !.err = "expired"]
      BY Zenon, <1>2 DEF StreamInv, Tables
    <2>2. TailerInv(tailer'[t]) /\ tailer'[t].cursor = tailer[t].cursor
      BY Zenon, <2>1, <1>1 DEF TailerInv, TailerFields
    <2> QED BY Zenon, <2>1, <2>2, <1>1, TailMoves
  <1>3. CASE UNCHANGED tailer
    BY Zenon, <1>1, <1>3, TailMoves DEF StreamInv, Tables
  <1>4. CASE /\ ReadError(cur) = "none"
             /\ tailer' = [tailer EXCEPT ![t].pc = "publish", ![t].batch = ReadRows(cur)]
    <2>1. /\ DOMAIN tailer' = Tailers /\ \A u \in Tailers \ {t} : tailer'[u] = tailer[u]
          /\ tailer'[t] = [tailer[t] EXCEPT !.pc = "publish", !.batch = ReadRows(cur)]
      BY Zenon, <1>4 DEF StreamInv, Tables
    <2>2. \A s \in ReadRows(cur) : Reached(tailer[t].epoch, s)
      BY Zenon, <1>1, <1>4, RowsReached DEF TailerInv
    <2>3. TailerInv(tailer'[t]) /\ tailer'[t].cursor = tailer[t].cursor
      <3> HIDE DEF cur
      <3> QED BY <2>1, <2>2, <1>1 DEF TailerInv, TailerFields
    <2> QED BY Zenon, <2>1, <2>3, <1>1, TailMoves
  <1> QED BY Zenon, <1>2, <1>3, <1>4 DEF TailRead

LEMMA TailFaultStep ==
  ASSUME StreamInv, NEW t \in Tailers, TailFault(t)
  PROVE  StreamInv' /\ Told
  <1>1. Same /\ UNCHANGED <<conn, client, live>> /\ TailerInv(tailer[t])
    BY Zenon DEF TailFault, Same, StreamInv, Tables
  <1>2. PICK why \in {"expired", "unavailable"} :
          tailer' = [tailer EXCEPT ![t].pc = "fail", ![t].err = why]
    BY Zenon DEF TailFault
  <1>3. /\ DOMAIN tailer' = Tailers /\ \A u \in Tailers \ {t} : tailer'[u] = tailer[u]
        /\ tailer'[t] = [tailer[t] EXCEPT !.pc = "fail", !.err = why]
    BY Zenon, <1>2 DEF StreamInv, Tables
  <1>4. TailerInv(tailer'[t]) /\ tailer'[t].cursor = tailer[t].cursor
    BY Zenon, <1>1, <1>2, <1>3 DEF TailerInv, TailerFields
  <1> QED BY Zenon, <1>1, <1>3, <1>4, TailMoves

LEMMA TailPublishStep ==
  ASSUME StreamInv, NEW t \in Tailers, TailPublish(t)
  PROVE  StreamInv' /\ Told
  <1> DEFINE cursor == tailer[t].cursor
             batch  == tailer[t].batch
             next   == {s \in batch : cursor + 1..s \subseteq batch}
             ring   == tailer[t].ring \cup next
             kept   == {s \in ring : Cardinality({r \in ring : r >= s}) <= RingSize}
             x      == [tailer[t] EXCEPT !.batch = {}, !.ring = kept,
                          !.cursor = Max({cursor} \cup next),
                          !.pc = IF next = batch THEN "read" ELSE "fail",
                          !.err = IF next = batch THEN "none" ELSE "expired"]
  <1>1. Same /\ UNCHANGED <<client, live>> /\ live = t /\ TailerInv(tailer[t]) /\ JournalTyped
    BY Zenon DEF TailPublish, Same, StreamInv, Tables
  <1>2. /\ tailer' = [tailer EXCEPT ![t] = x]
        /\ conn' = [c \in Clients |-> IF c \in Attached(t) /\ next # {}
                                      THEN [conn[c] EXCEPT !.ready = TRUE] ELSE conn[c]]
    BY Zenon DEF TailPublish
  <1>3. kept \subseteq ring /\ next \subseteq batch
    OBVIOUS
  <1>4. \A s \in ring \cup batch : Reached(tailer[t].epoch, s)
    BY Zenon, <1>1, <1>3 DEF TailerInv
  <1>5. cursor \in Nat /\ DOMAIN tailer[t] = TailerFields
    BY Zenon, <1>1 DEF TailerInv
  <1> HIDE DEF kept, ring, next, batch, cursor
  <1>6. Max({cursor} \cup next) \in Nat /\ (next = {} => Max({cursor} \cup next) = cursor)
    <2>1. CASE next = {}
      BY Zenon, <2>1, <1>5, MaxSame
    <2>2. CASE next # {}
      <3>1. PICK s \in next : TRUE
        BY Zenon, <2>2
      <3>2. water[tailer[t].epoch] \in Nat
        BY Zenon, <3>1, <1>1, <1>3, <1>4, ReachedNat
      <3> DEFINE n == cursor + water[tailer[t].epoch]
      <3>3. \A r \in next : r \in Nat /\ r <= water[tailer[t].epoch]
        BY Zenon, <1>1, <1>3, <1>4, ReachedNat
      <3>4. n \in Nat /\ {cursor} \cup next \subseteq 0..n
        BY <3>2, <3>3, <1>5
      <3>5. Max({cursor} \cup next) \in {cursor} \cup next
        <4> HIDE DEF n
        <4> QED BY Zenon, <3>4, Largest
      <3> QED BY Zenon, <2>2, <3>3, <3>5, <1>5
    <2> QED BY Zenon, <2>1, <2>2
  <1>7. TailerInv(x)
    <2>1. /\ DOMAIN x = TailerFields /\ x.batch = {} /\ x.ring = kept /\ x.epoch = tailer[t].epoch
          /\ x.cursor = Max({cursor} \cup next)
          /\ x.pc = (IF next = batch THEN "read" ELSE "fail")
          /\ x.err = (IF next = batch THEN "none" ELSE "expired")
      BY Zenon, <1>5 DEF TailerFields
    <2> HIDE DEF x
    <2> QED BY Zenon, <2>1, <1>3, <1>4, <1>6 DEF TailerInv
  <1>8. x.cursor = Max({cursor} \cup next)
    BY Zenon, <1>5 DEF TailerFields
  <1> HIDE DEF x
  <1>9. DOMAIN tailer' = Tailers /\ tailer'[t] = x /\ \A u \in Tailers : TailerInv(tailer'[u])
    BY Zenon, <1>2, <1>7 DEF StreamInv, Tables
  <1>10. Told
    BY Zenon, <1>2 DEF Told
  <1>11. JournalTyped' /\ Tables'
    BY Zenon, <1>1, <1>9, <1>10, TailTables
  <1>12. \A c \in Clients : Awake(conn[c])'
    <2>1. SUFFICES ASSUME NEW c \in Clients PROVE Awake(conn[c])'
      OBVIOUS
    <2>2. conn'[c].pc = conn[c].pc /\ conn'[c].cur = conn[c].cur /\ conn'[c].tail = conn[c].tail
      BY Zenon, <1>10, ToldConn DEF StreamInv
    <2>3. conn'[c].failed = conn[c].failed
      BY Zenon, <1>2 DEF StreamInv, Tables, ConnInv, ConnFields
    <2>4. Awake(conn[c])
      BY Zenon DEF StreamInv, Attending
    <2>5. CASE next = {}
      <3>1. conn'[c] = conn[c] /\ tailer'[live].cursor = tailer[live].cursor
        BY Zenon, <2>5, <1>1, <1>2, <1>6, <1>8, <1>9 DEF cursor
      <3> QED BY Zenon, <3>1, <2>4, <1>1 DEF Awake, Tailers
    <2>6. CASE next # {} /\ conn[c].pc \in RunningPcs /\ conn[c].tail = t
      <3>1. conn'[c] = [conn[c] EXCEPT !.ready = TRUE]
        BY Zenon, <2>6, <1>2 DEF Attached, Running, RunningPcs
      <3>2. conn'[c].ready = TRUE
        BY Zenon, <3>1 DEF StreamInv, Tables, ConnInv, ConnFields
      <3> QED BY Zenon, <3>2, <2>2, <2>3, <2>4, <1>1 DEF Awake, Tailers
    <2>7. CASE ~ (conn[c].pc \in RunningPcs /\ conn[c].tail = t)
      BY Zenon, <2>7, <2>2, <2>3, <2>4, <1>1 DEF Awake, Tailers
    <2> QED BY Zenon, <2>5, <2>6, <2>7
  <1>13. Attending'
    <2>1. \A c \in Clients : conn'[c].pc = conn[c].pc /\ conn'[c].tail = conn[c].tail
      BY Zenon, <1>10, ToldConn DEF StreamInv
    <2> QED BY Zenon, <2>1, <1>1, <1>12 DEF Attending, StreamInv, Tailers
  <1> QED BY Zenon, <1>10, <1>11, <1>13 DEF StreamInv

LEMMA TailFailStep ==
  ASSUME StreamInv, NEW t \in Tailers, TailFail(t)
  PROVE  StreamInv' /\ Told
  <1>1. /\ Same /\ client' = client /\ live = t /\ live' = 0 /\ TailerInv(tailer[t])
        /\ tailer[t].pc = "fail" /\ tailer[t].err # "none"
    BY Zenon DEF TailFail, Same, StreamInv, Tables, TailerInv
  <1>2. /\ tailer' = [tailer EXCEPT ![t].pc = "done"]
        /\ conn' = [c \in Clients |->
                      IF c \in Attached(t) /\ conn[c].failed = "none"
                      THEN [conn[c] EXCEPT !.failed = tailer[t].err] ELSE conn[c]]
    BY Zenon DEF TailFail
  <1>3. DOMAIN tailer' = Tailers /\ \A u \in Tailers : TailerInv(tailer'[u])
    <2>1. TailerInv([tailer[t] EXCEPT !.pc = "done"])
      BY Zenon, <1>1 DEF TailerInv, TailerFields
    <2> QED BY Zenon, <2>1, <1>2 DEF StreamInv, Tables
  <1>4. Told
    BY Zenon, <1>2 DEF Told
  <1>5. JournalTyped' /\ Tables'
    BY Zenon, <1>1, <1>3, <1>4, TailTables
  <1>6. \A c \in Clients : Awake(conn[c])'
    <2>1. SUFFICES ASSUME NEW c \in Clients PROVE Awake(conn[c])'
      OBVIOUS
    <2>2. conn'[c].pc = conn[c].pc /\ conn'[c].tail = conn[c].tail
      BY Zenon, <1>4, ToldConn DEF StreamInv
    <2>3. Awake(conn[c]) /\ ConnInv(conn[c])
      BY Zenon DEF StreamInv, Attending, Tables
    <2>4. conn[c].pc \in RunningPcs => conn'[c].failed # "none"
      <3>1. CASE c \in Attached(t) /\ conn[c].failed = "none"
        BY Zenon, <3>1, <2>3, <1>1, <1>2 DEF ConnInv, ConnFields
      <3>2. CASE c \notin Attached(t)
        BY Zenon, <3>2, <2>3, <1>1, <1>2 DEF Awake, Attached, Running, RunningPcs
      <3>3. CASE conn[c].failed # "none"
        BY Zenon, <3>3, <1>2
      <3> QED BY Zenon, <3>1, <3>2, <3>3
    <2> QED BY Zenon, <2>2, <2>3, <2>4 DEF Awake, Tailers
  <1>7. Attending'
    BY Zenon, <1>1, <1>6 DEF Attending
  <1> QED BY Zenon, <1>4, <1>5, <1>7 DEF StreamInv

-----------------------------------------------------------------------------
(* The clients.                                                            *)

LEMMA BootstrapStep ==
  ASSUME StreamInv, NEW c \in Clients, Bootstrap(c)
  PROVE  StreamInv' /\ Only(c) /\ Rests(c)
  <1>1. Same /\ Cancel(c) /\ conn[c].events # <<>>
    BY Zenon DEF Bootstrap, Same
  <1>2. Head(conn[c].events) \in Nat
    BY <1>1 DEF StreamInv, Tables, ConnInv
  <1> DEFINE cur == [epoch |-> conn[c].cur.epoch, seq |-> Head(conn[c].events)]
             x == [client[c] EXCEPT !.pc = "list", !.todo = scope.objs, !.cur = cur]
  <1>3. client' = [client EXCEPT ![c] = x]
    BY Zenon DEF Bootstrap
  <1>4. ClientInv(x)
    <2>1. DOMAIN x = ClientFields /\ x.cur = cur
      BY Zenon DEF StreamInv, Tables, ClientInv, ClientFields
    <2> HIDE DEF x
    <2> QED BY <2>1, <1>2 DEF ClientInv, Cursor
  <1> HIDE DEF x
  <1>5. DOMAIN client' = Clients /\ \A d \in Clients : ClientInv(client'[d])
    BY Zenon, <1>3, <1>4 DEF StreamInv, Tables
  <1> QED BY Zenon, <1>1, <1>5, CancelStep DEF Rests

LEMMA BreakStep ==
  ASSUME StreamInv, NEW c \in Clients, Break(c)
  PROVE  StreamInv' /\ Only(c) /\ Rests(c)
  <1>1. Same /\ Cancel(c)
    BY Zenon DEF Break, Same
  <1>2. DOMAIN client' = Clients /\ \A d \in Clients : ClientInv(client'[d])
    BY Zenon, ClientStep1 DEF Break, StreamInv
  <1> QED BY Zenon, <1>1, <1>2, CancelStep DEF Rests

LEMMA ReceiveErrorStep ==
  ASSUME StreamInv, NEW c \in Clients, ReceiveError(c)
  PROVE  StreamInv' /\ Only(c) /\ Rests(c)
  <1>1. Same /\ UNCHANGED <<tailer, live>> /\ conn[c].pc \notin RunningPcs
    BY Zenon DEF ReceiveError, Same, RunningPcs
  <1>2. Only(c) /\ conn'[c] = Off /\ JournalTyped' /\ Tables'
    BY Zenon, <1>1, RefusedStep DEF ReceiveError, StreamInv, Tables
  <1>3. Attending'
    BY Zenon, <1>1, <1>2, OffInv, AttendStep
  <1> QED BY Zenon, <1>2, <1>3, OffInv DEF StreamInv, Rests

LEMMA ListStep ==
  ASSUME StreamInv, NEW c \in Clients, List(c)
  PROVE  StreamInv' /\ conn' = conn
  <1>1. Same /\ UNCHANGED <<tailer, live, conn>>
    BY Zenon DEF List, Same
  <1>2. DOMAIN client' = Clients /\ \A d \in Clients : ClientInv(client'[d])
    <2>1. CASE client' = [client EXCEPT ![c].pc = "resume"]
      BY Zenon, <2>1, ClientStep1 DEF StreamInv
    <2>2. ASSUME NEW o, client' = [client EXCEPT ![c] = [@ EXCEPT !.todo = @ \ {o},
                       !.view[o] = Matching(epoch, o, Len(log[epoch])),
                       !.listed[o] = Len(log[epoch])]]
          PROVE  DOMAIN client' = Clients /\ \A d \in Clients : ClientInv(client'[d])
      <3>1. /\ DOMAIN client' = Clients /\ \A d \in Clients \ {c} : client'[d] = client[d]
            /\ DOMAIN client'[c] = DOMAIN client[c] /\ client'[c].cur = client[c].cur
        BY Zenon, <2>2 DEF StreamInv, Tables, ClientInv, ClientFields
      <3> QED BY Zenon, <3>1 DEF StreamInv, Tables, ClientInv
    <2> QED BY Zenon, <2>1, <2>2 DEF List
  <1>3. Only(c) /\ ConnInv(conn'[c]) /\ Awake(conn'[c])
    BY Zenon, <1>1 DEF Only, StreamInv, Tables, Attending
  <1>4. JournalTyped' /\ Tables'
    BY Zenon, <1>1, <1>2, <1>3, TablesStep DEF StreamInv, Tables
  <1>5. Attending'
    BY Zenon, <1>1, <1>3, AttendStep
  <1> QED BY Zenon, <1>1, <1>4, <1>5 DEF StreamInv

LEMMA ReceiveStep ==
  ASSUME StreamInv, NEW c \in Clients, Receive(c)
  PROVE  StreamInv' /\ Only(c) /\ Rests(c)
  <1> DEFINE s == Head(conn[c].events)
             e == conn[c].cur.epoch
  <1>1. Same /\ UNCHANGED <<tailer, live>> /\ conn[c].events # <<>>
    BY ZenonT(30) DEF Receive, Same
  <1>2. conn' = [conn EXCEPT ![c].events = Tail(@)]
    BY Zenon DEF Receive
  <1>3. s \in Nat /\ Tail(conn[c].events) \in Seq(Nat)
    BY <1>1 DEF StreamInv, Tables, ConnInv
  <1>4. Only(c) /\ conn'[c] = [conn[c] EXCEPT !.events = Tail(@)]
    BY Zenon, <1>2 DEF Only, StreamInv, Tables
  <1>5. ConnInv(conn[c]) /\ Awake(conn[c])
    BY Zenon DEF StreamInv, Tables, Attending
  <1>6. /\ ConnInv(conn'[c]) /\ Awake(conn'[c]) /\ Rests(c) /\ conn'[c].tail = conn[c].tail
        /\ conn'[c].pc = conn[c].pc
    BY Zenon, <1>3, <1>4, <1>5 DEF ConnInv, ConnFields, Awake, Rests
  <1>7. DOMAIN client' = Clients /\ \A d \in Clients : ClientInv(client'[d])
    <2>1. \E view : client' = [client EXCEPT ![c] =
                    [@ EXCEPT !.cur = [epoch |-> e, seq |-> s], !.view = view]]
          \/ client' = [client EXCEPT ![c] = @]
      BY Zenon DEF Receive
    <2>2. ClientInv(client[c])
      BY Zenon DEF StreamInv, Tables
    <2> HIDE DEF e, s
    <2>3. ASSUME NEW view PROVE ClientInv([client[c] EXCEPT
                                  !.cur = [epoch |-> e, seq |-> s], !.view = view])
      BY Zenon, <1>3, <2>2 DEF ClientInv, ClientFields, Cursor
    <2> QED BY ZenonT(30), <2>1, <2>2, <2>3 DEF StreamInv, Tables
  <1>8. JournalTyped' /\ Tables'
    BY Zenon, <1>1, <1>4, <1>6, <1>7, TablesStep DEF StreamInv, Tables
  <1>9. Attending'
    BY Zenon, <1>1, <1>4, <1>6, AttendStep
  <1> QED BY Zenon, <1>4, <1>6, <1>8, <1>9 DEF StreamInv

-----------------------------------------------------------------------------
(* What a step is to the feed.                                             *)

At == [c \in Clients |-> IF Running(c) THEN [epoch |-> conn[c].cur.epoch, seq |-> conn[c].sent]
                         ELSE Start]

FeedStep == [Feed!FeedNext]_<<water, At>>

LEMMA RestsFeed ==
  ASSUME NEW c \in Clients, Only(c), water' = water,
         Rests(c) \/ (conn[c].pc \notin RunningPcs /\ conn'[c].pc \notin RunningPcs)
  PROVE  FeedStep
  <1>1. \A d \in Clients \ {c} : At'[d] = At[d]
    BY Zenon DEF At, Running, Only
  <1>2. CASE conn'[c].pc \notin RunningPcs
    <2>1. At'[c] = Feed!Closed
      BY Zenon, <1>2 DEF At, Running, RunningPcs, Start, Feed!Closed
    <2>2. At' = [At EXCEPT ![c] = Feed!Closed]
      BY Zenon, <1>1, <2>1 DEF At
    <2>3. Feed!Close(c)
      BY Zenon, <2>2 DEF Feed!Close, At
    <2> QED BY Zenon, <2>3 DEF FeedStep, Feed!FeedNext
  <1>3. CASE /\ conn'[c].pc \in RunningPcs /\ conn[c].pc \in RunningPcs
             /\ conn'[c].cur = conn[c].cur /\ conn'[c].sent = conn[c].sent
    <2>1. At'[c] = At[c]
      BY Zenon, <1>3 DEF At, Running, RunningPcs
    <2>2. At' = At
      BY Zenon, <1>1, <2>1 DEF At
    <2> QED BY Zenon, <2>2 DEF FeedStep
  <1> QED BY Zenon, <1>2, <1>3 DEF Rests

LEMMA OpenFeed ==
  ASSUME NEW c \in Clients, Only(c), water' = water, conn[c].pc \notin RunningPcs,
         conn'[c].pc \in RunningPcs, Reached(conn'[c].cur.epoch, conn'[c].sent)
  PROVE  FeedStep
  <1> DEFINE x == [epoch |-> conn'[c].cur.epoch, seq |-> conn'[c].sent]
  <1>1. \A d \in Clients \ {c} : At'[d] = At[d]
    BY Zenon DEF At, Running, Only
  <1>2. At'[c] = x /\ At[c] = Feed!Closed
    BY Zenon DEF At, Running, RunningPcs, Start, Feed!Closed
  <1>3. At' = [At EXCEPT ![c] = x]
    BY Zenon, <1>1, <1>2 DEF At
  <1>4. Feed!Open(c)
    BY Zenon, <1>2, <1>3 DEF Feed!Open, Reached, At
  <1> QED BY Zenon, <1>4 DEF FeedStep, Feed!FeedNext

LEMMA SendFeed ==
  ASSUME NEW c \in Clients, Only(c), water' = water, Sends(c), conn[c].cur.epoch \in Nat \ {0}
  PROVE  FeedStep
  <1> DEFINE x == [epoch |-> conn[c].cur.epoch, seq |-> conn[c].sent]
             y == [epoch |-> conn[c].cur.epoch, seq |-> conn[c].sent + 1]
  <1>1. \A d \in Clients \ {c} : At'[d] = At[d]
    BY Zenon DEF At, Running, Only
  <1>2. At[c] = x /\ At'[c] = y
    BY Zenon DEF At, Running, RunningPcs, Sends
  <1>3. x # Feed!Closed /\ x.seq < water[x.epoch] /\ [x EXCEPT !.seq = x.seq + 1] = y
    BY DEF Feed!Closed, Sends
  <1>4. At' = [At EXCEPT ![c] = y]
    BY Zenon, <1>1, <1>2 DEF At
  <1>5. Feed!Advance(c)
    <2>1. At[c] # Feed!Closed /\ At[c].seq < water[At[c].epoch]
      BY Zenon, <1>2, <1>3
    <2>2. At' = [At EXCEPT ![c] = [At[c] EXCEPT !.seq = At[c].seq + 1]]
      BY Zenon, <1>2, <1>3, <1>4
    <2> QED BY Zenon, <2>1, <2>2 DEF Feed!Advance, At
  <1> QED BY Zenon, <1>5 DEF FeedStep, Feed!FeedNext

LEMMA ToldFeed ==
  ASSUME StreamInv, Told, water' = water
  PROVE  FeedStep
  <1>1. \A c \in Clients : At'[c] = At[c]
    BY Zenon, ToldConn DEF At, Running, StreamInv
  <1>2. At' = At
    BY Zenon, <1>1 DEF At
  <1> QED BY Zenon, <1>2 DEF FeedStep

LEMMA SourceFeed ==
  ASSUME StreamInv, conn' = conn,
         water' = water \/ water' = Append(water, 0)
           \/ water' = [water EXCEPT ![Len(water)] = water[Len(water)] + 1]
  PROVE  FeedStep
  <1>1. At' = At
    BY Zenon DEF At, Running
  <1>2. CASE water' = water
    BY Zenon, <1>1, <1>2 DEF FeedStep
  <1>3. CASE water' = Append(water, 0)
    <2>1. Feed!Restart
      BY Zenon, <1>1, <1>3 DEF Feed!Restart, At
    <2> QED BY Zenon, <2>1 DEF FeedStep, Feed!FeedNext
  <1>4. CASE water' = [water EXCEPT ![Len(water)] = water[Len(water)] + 1]
    <2>1. Feed!Publish
      BY Zenon, <1>1, <1>4 DEF Feed!Publish, At
    <2> QED BY Zenon, <2>1 DEF FeedStep, Feed!FeedNext
  <1> QED BY Zenon, <1>2, <1>3, <1>4

-----------------------------------------------------------------------------

LEMMA InitHolds == ASSUME Init PROVE StreamInv /\ Feed!FeedInit
  <1>1. JournalTyped
    BY DEF Init, JournalTyped
  <1>2. \A c \in Clients : conn[c] = Off /\ ConnInv(conn[c]) /\ Awake(conn[c])
                            /\ conn[c].pc \notin RunningPcs
    BY Zenon, OffInv DEF Init
  <1>3. \A c \in Clients : ClientInv(client[c])
    BY Zenon DEF Init, ClientInv, ClientFields, Cursor, Start
  <1>4. \A t \in Tailers : TailerInv(tailer[t])
    BY Zenon DEF Init, TailerInv, NoTailer, TailerFields
  <1>5. StreamInv
    BY Zenon, <1>1, <1>2, <1>3, <1>4 DEF Init, StreamInv, Tables, Attending
  <1>6. Feed!FeedInit
    BY Zenon, <1>2 DEF Init, Feed!FeedInit, Feed!Closed, Start, Running, RunningPcs
  <1> QED BY Zenon, <1>5, <1>6

LEMMA StreamStepHolds ==
  ASSUME StreamInv, NEW c \in Clients, StreamStep(c)
  PROVE  StreamInv' /\ FeedStep
  <1>1. CASE Subscribe(c)
    BY Zenon, <1>1, SubscribeStep, RestsFeed DEF Subscribe
  <1>2. CASE Validate(c)
    BY Zenon, <1>2, ValidateStep, RestsFeed DEF Validate
  <1>3. CASE Register(c)
    <2>1. /\ StreamInv' /\ Only(c) /\ conn[c].pc \notin RunningPcs /\ water' = water
          /\ conn'[c].pc \in RunningPcs => Reached(conn'[c].cur.epoch, conn'[c].sent)
      BY Zenon, <1>3, RegisterStep DEF Register
    <2> QED BY Zenon, <2>1, RestsFeed, OpenFeed
  <1>4. CASE Replay(c)
    BY Zenon, <1>4, ReplayStep, RestsFeed DEF Replay
  <1>5. CASE Deliver(c)
    <2>1. StreamInv' /\ Only(c) /\ (Rests(c) \/ Sends(c)) /\ water' = water
      BY ZenonT(30), <1>5, DeliverStep DEF Deliver
    <2>2. Sends(c) => conn[c].cur.epoch \in Nat \ {0}
      BY DEF Sends, StreamInv, Tables, ConnInv, Reached
    <2> QED BY Zenon, <2>1, <2>2, RestsFeed, SendFeed
  <1>6. CASE Live(c)
    BY Zenon, <1>6, LiveStep, RestsFeed DEF Live
  <1>7. CASE Wait(c)
    BY Zenon, <1>7, WaitStep, RestsFeed DEF Wait
  <1> QED BY Zenon, <1>1, <1>2, <1>3, <1>4, <1>5, <1>6, <1>7 DEF StreamStep

LEMMA OtherStepHolds ==
  ASSUME StreamInv, NEW c \in Clients, ClientStep(c) \/ Overflow(c) \/ Break(c)
  PROVE  StreamInv' /\ FeedStep
  <1>1. CASE Bootstrap(c)
    BY Zenon, <1>1, BootstrapStep, RestsFeed DEF Bootstrap
  <1>2. CASE List(c)
    BY Zenon, <1>2, ListStep, SourceFeed DEF List
  <1>3. CASE Receive(c)
    BY Zenon, <1>3, ReceiveStep, RestsFeed DEF Receive
  <1>4. CASE ReceiveError(c)
    BY Zenon, <1>4, ReceiveErrorStep, RestsFeed DEF ReceiveError
  <1>5. CASE Overflow(c)
    BY Zenon, <1>5, OverflowStep, RestsFeed DEF Overflow
  <1>6. CASE Break(c)
    BY Zenon, <1>6, BreakStep, RestsFeed DEF Break
  <1> QED BY Zenon, <1>1, <1>2, <1>3, <1>4, <1>5, <1>6 DEF ClientStep

LEMMA TailStepHolds ==
  ASSUME StreamInv, NEW t \in Tailers, TailStep(t) \/ TailFault(t)
  PROVE  StreamInv' /\ FeedStep
  <1>1. CASE TailRead(t)
    BY Zenon, <1>1, TailReadStep, ToldFeed DEF TailRead
  <1>2. CASE TailPublish(t)
    BY Zenon, <1>2, TailPublishStep, ToldFeed DEF TailPublish
  <1>3. CASE TailFail(t)
    BY Zenon, <1>3, TailFailStep, ToldFeed DEF TailFail
  <1>4. CASE TailFault(t)
    BY Zenon, <1>4, TailFaultStep, ToldFeed DEF TailFault
  <1> QED BY Zenon, <1>1, <1>2, <1>3, <1>4 DEF TailStep

LEMMA SourceStepHolds ==
  ASSUME StreamInv, (\E o \in scope.objs : Write(o)) \/ Publish \/ Bookmark \/ Expire \/ Reset
  PROVE  StreamInv' /\ FeedStep
  <1>0. Len(log) = Len(water)
    BY Zenon DEF StreamInv, JournalTyped
  <1>1. CASE \E o \in scope.objs : Write(o)
    BY Zenon, <1>1, WriteStep, SourceFeed DEF Write
  <1>2. CASE Publish
    BY Zenon, <1>0, <1>2, PublishStep, SourceFeed DEF Publish, Grow, epoch
  <1>3. CASE Bookmark
    BY Zenon, <1>0, <1>3, BookmarkStep, SourceFeed DEF Bookmark, Grow, epoch
  <1>4. CASE Expire
    BY Zenon, <1>4, ExpireStep, SourceFeed DEF Expire
  <1>5. CASE Reset
    BY Zenon, <1>5, ResetStep, SourceFeed DEF Reset
  <1> QED BY Zenon, <1>1, <1>2, <1>3, <1>4, <1>5

LEMMA StepHolds == ASSUME StreamInv, [Next]_vars PROVE StreamInv' /\ FeedStep
  <1>1. CASE Next
    BY Zenon, <1>1, StreamStepHolds, OtherStepHolds, TailStepHolds, SourceStepHolds DEF Next
  <1>2. CASE UNCHANGED vars
    <2>1. StreamInv'
      BY Zenon, <1>2, SameJournal, SourceStep DEF vars, Same, StreamInv
    <2> QED BY Zenon, <1>2, <2>1, SourceFeed DEF vars
  <1> QED BY Zenon, <1>1, <1>2

\* Whatever the clients, the journal, its expiry and the faults do, the inductive
\* invariant holds of the subscribers.
THEOREM StreamsHold == Safe => []StreamInv
  BY InitHolds, StepHolds, PTL DEF Safe

\* The subscribers implement the feed, for any number of clients, tailers,
\* entries, epochs and faults: replay, ring and hand-over neither leave out an
\* entry nor repeat one.
THEOREM StreamsImplementFeed == Safe => FeedImplemented
  <1>1. Init => Feed!FeedInit
    BY Zenon, InitHolds
  <1>2. StreamInv /\ [Next]_vars => [Feed!FeedNext]_<<water, At>>
    BY Zenon, StepHolds DEF FeedStep
  <1> QED BY <1>1, <1>2, StreamsHold, PTL DEF Safe, FeedImplemented, Feed!Feed, At

\* No stream waits for a wake-up that will not come, and the live tailer always has
\* a stream to serve.
THEOREM NoLostWakeUp == Safe => []NobodyForgotten
  <1>1. StreamInv => NobodyForgotten
    BY Zenon DEF StreamInv, Attending, Awake, NobodyForgotten, Attached, Running, RunningPcs
  <1> QED BY <1>1, StreamsHold, PTL
=============================================================================
