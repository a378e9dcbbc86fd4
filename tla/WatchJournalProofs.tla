------------------------- MODULE WatchJournalProofs --------------------------
(*****************************************************************************)
(* What the fencing token guarantees about the watch journal, for any        *)
(* number of replicas, changes, leaderships and rows: as long as no leader   *)
(* went on with the row of an older one (Settle), what is published has no   *)
(* gap and stays as it is, leaders publish one after the other, every change *)
(* comes after all changes before it, and the checkpoint passes none.        *)
(*                                                                           *)
(* JournalInv says who may write.  SourceInv adds what a leader knows of the *)
(* source: Ahead and Prior place the change it appends next between what is  *)
(* published and what is not.                                                *)
(*****************************************************************************)
EXTENDS WatchJournal, TLAPS

Row == [src : Int, token : Nat]

Pcs == {"out", "idle", "batch", "load", "insertBatch", "insert", "conflict", "settle",
        "publish", "resolve"}

Node ==
    [pc : Pcs, token : Nat, next : Int, unsaved : Int, ev : Int, chunk : Int,
     upto : Int, count : Nat, water : Nat, old : Row]

JournalType ==
    /\ token \in Nat /\ water \in 0..MaxWater
    /\ events \in [1..MaxWater -> Row]
    /\ progress \in Int
    /\ node \in [Replicas -> Node]
    /\ adopted \in BOOLEAN

\* The steps of an append that work from a high water read before
Holding == {"insertBatch", "insert", "conflict", "settle", "publish", "resolve"}

\* The lease of a replica and the high water it works from are current.
Current(r, n) == holder = r /\ token = n.token /\ water = n.water

\* What is known of a replica that has read the high water: rows published since
\* then are of its own leadership or a later one, and while it is current the rows
\* it is about to publish are its own.
Fenced(r, n) ==
    /\ n.pc \in Holding => \A s \in (n.water + 1)..water : events[s].token >= n.token
    /\ n.pc = "publish" /\ Current(r, n) =>
         \A s \in (n.water + 1)..(n.water + n.count) : events[s].token = n.token
    /\ n.pc = "settle" /\ n.old.token = n.token /\ Current(r, n) =>
         events[n.water + 1].token = n.token

Bounds(n) ==
    /\ n.token <= token
    /\ n.pc # "out" => n.token >= 1
    /\ n.pc \in Holding => n.water <= water
    /\ n.pc \in {"insert", "conflict", "settle"} => n.count = 1
    /\ n.pc \in {"conflict", "settle", "publish", "resolve"} => n.water + n.count <= MaxWater

NodeInv(r, n) == Bounds(n) /\ (adopted \/ Fenced(r, n))

\* The inductive invariant
JournalInv ==
    /\ JournalType
    /\ \A s \in 1..MaxWater : events[s].token <= token
    /\ \A r \in Replicas : NodeInv(r, node[r])
    /\ adopted \/ \A s \in 1..water : events[s].token >= 1

-----------------------------------------------------------------------------

\* Set changes one replica.
LEMMA SetNode ==
    ASSUME node \in [Replicas -> Node], NEW r \in Replicas, NEW n \in Node, Set(r, n)
    PROVE  /\ node' \in [Replicas -> Node]
           /\ node'[r] = n
           /\ \A q \in Replicas : q # r => node'[q] = node[q]
BY Zenon DEF Set

\* The steps in which a replica holds on to nothing it has read
Quiet == {"out", "idle", "batch", "load"}

\* A replica in such a step is bound by its token only.
LEMMA QuietInv ==
    ASSUME NEW r \in Replicas, NEW n \in Node, n.pc \in Quiet, n.token <= token,
           n.pc # "out" => n.token >= 1
    PROVE  Bounds(n) /\ Fenced(r, n)
BY Zenon DEF Quiet, Bounds, Fenced, Holding

\* The initial state of the clock row, the journal and the replicas.
LEMMA JournalInit == Init => JournalInv
<1> SUFFICES ASSUME Init PROVE JournalInv
  OBVIOUS
<1>1. NoRow \in Row /\ NoRow.token = 0 /\ Out \in Node
  <2>1. NoRow \in Row /\ NoRow.token = 0
    BY DEF NoRow, Row
  <2>2. Out \in Node
    BY <2>1 DEF Out, Between, Node, Pcs
  <2> QED BY Zenon, <2>1, <2>2
<1>2. JournalType
  <2>1. events \in [1..MaxWater -> Row]
    BY Zenon, <1>1 DEF Init
  <2>2. node \in [Replicas -> Node]
    BY Zenon, <1>1 DEF Init
  <2>3. adopted \in BOOLEAN
    BY ZenonT(60) DEF Init
  <2> QED BY <2>1, <2>2, <2>3, JournalAssumption DEF Init, JournalType
<1>3. \A r \in Replicas : NodeInv(r, node[r])
  <2>1. Out.pc = "out" /\ Out.token = 0 /\ "out" \in Quiet
    BY Zenon DEF Out, Between, Quiet
  <2>2. \A r \in Replicas : node[r] = Out
    BY Zenon DEF Init
  <2>3. token = 0
    BY Zenon DEF Init
  <2>4. ASSUME NEW r \in Replicas PROVE NodeInv(r, node[r])
    <3>1. Out \in Node /\ Out.pc \in Quiet /\ Out.token <= token
      BY <1>1, <2>1, <2>3
    <3>2. Bounds(Out) /\ Fenced(r, Out)
      BY Zenon, <2>1, <3>1, QuietInv
    <3> QED BY Zenon, <2>2, <3>2 DEF NodeInv
  <2> QED BY Zenon, <2>4
<1>4. (\A s \in 1..MaxWater : events[s].token <= token) /\ (\A s \in 1..water : events[s].token >= 1)
  BY <1>1 DEF Init
<1> QED
  BY Zenon, <1>2, <1>3, <1>4 DEF JournalInv

\* A step that touches neither the clock nor the journal has to keep up the
\* invariant of its own replica only.
LEMMA NodeStep ==
    ASSUME JournalInv, NEW r \in Replicas, NEW n \in Node, Set(r, n),
           UNCHANGED <<clockVars, events>>, progress' \in Int, adopted' \in BOOLEAN,
           adopted => adopted', Bounds(n), adopted' \/ Fenced(r, n)
    PROVE  JournalInv'
<1>1. /\ node' \in [Replicas -> Node]
      /\ node'[r] = n
      /\ \A q \in Replicas : q # r => node'[q] = node[q]
  BY Zenon, SetNode DEF JournalInv, JournalType
<1>2. JournalType'
  BY Zenon, <1>1 DEF JournalInv, JournalType, clockVars
<1>3. ASSUME NEW q \in Replicas PROVE NodeInv(q, node[q])'
  <2>1. CASE q = r
    BY Zenon, <2>1, <1>1 DEF NodeInv, Bounds, Fenced, Current, clockVars
  <2>2. CASE q # r
    BY SMTT(60), <2>2, <1>1 DEF JournalInv, NodeInv, Bounds, Fenced, Current, clockVars
  <2> QED BY Zenon, <2>1, <2>2
<1> QED
  BY Zenon, <1>2, <1>3 DEF JournalInv, clockVars

-----------------------------------------------------------------------------
(* Where a step takes its replica.                                         *)

\* Goto changes the step of a replica and nothing else.
LEMMA GotoNode ==
    ASSUME JournalInv, NEW r \in Replicas, NEW pc \in Pcs, Goto(r, pc)
    PROVE  \E n \in Node :
             /\ Set(r, n) /\ n.pc = pc /\ n.token = node[r].token
             /\ n.water = node[r].water /\ n.count = node[r].count /\ n.old = node[r].old
<1> DEFINE n == [node[r] EXCEPT !.pc = pc]
<1>1. node[r] \in Node
  BY Zenon DEF JournalInv, JournalType
<1>2. /\ n \in Node /\ n.pc = pc /\ n.token = node[r].token
      /\ n.water = node[r].water /\ n.count = node[r].count /\ n.old = node[r].old
  BY Zenon, <1>1 DEF Node
<1> QED
  BY Zenon, <1>2 DEF Goto

\* A leader in no append, with the token it had
LEMMA IdleNode ==
    ASSUME JournalInv, NEW r \in Replicas, NEW next \in Int, NEW unsaved \in Int
    PROVE  /\ Idle(r, next, unsaved) \in Node
           /\ Idle(r, next, unsaved).pc = "idle"
           /\ Idle(r, next, unsaved).token = node[r].token
<1>1. node[r].token \in Nat
  BY Zenon DEF JournalInv, JournalType, Node
<1>2. NoRow \in Row
  BY DEF NoRow, Row
<1> QED
  BY <1>1, <1>2 DEF Idle, Between, Node, Pcs

\* A failed append leaves the leader idle.
LEMMA FailedNode ==
    ASSUME JournalInv, NEW r \in Replicas, Failed(r)
    PROVE  \E n \in Node : Set(r, n) /\ n.pc \in {"idle"} /\ n.token = node[r].token
<1> DEFINE next == IF node[r].ev = Bookmark THEN node[r].next ELSE Changes + 1
<1>1. next \in Int /\ node[r].unsaved \in Int
  BY JournalAssumption DEF JournalInv, JournalType, Node
<1> HIDE DEF next
<1>2. Set(r, Idle(r, next, node[r].unsaved))
  BY Zenon DEF Failed, next
<1> QED
  BY Zenon, <1>1, <1>2, IdleNode

\* After an append the leader is idle or about to read the high water again.
LEMMA AppendedNode ==
    ASSUME JournalInv, NEW r \in Replicas, Appended(r)
    PROVE  \E n \in Node :
             Set(r, n) /\ n.pc \in {"idle", "load", "batch"} /\ n.token = node[r].token
<1> DEFINE ev == node[r].ev + node[r].count
<1>1. node[r] \in Node
  BY Zenon DEF JournalInv, JournalType
<1>2. ev \in Int /\ node[r].next \in Int /\ node[r].unsaved \in Int /\ node[r].upto \in Int
  BY <1>1 DEF Node
<1>3. CASE node[r].ev = Bookmark
  <2>1. Set(r, Idle(r, node[r].next, node[r].unsaved))
    BY Zenon, <1>3 DEF Appended
  <2> QED BY Zenon, <2>1, <1>2, IdleNode
<1>4. CASE node[r].ev # Bookmark /\ ev <= node[r].chunk
  <2> DEFINE n == [node[r] EXCEPT !.pc = "load", !.ev = ev]
  <2>1. n \in Node /\ n.pc = "load" /\ n.token = node[r].token
    BY Zenon, <1>1, <1>2 DEF Node, Pcs
  <2>2. Set(r, n)
    BY Zenon, <1>4 DEF Appended
  <2> QED BY Zenon, <2>1, <2>2
<1>5. CASE node[r].ev # Bookmark /\ ~ (ev <= node[r].chunk) /\ ev <= node[r].upto
  <2> DEFINE n == [node[r] EXCEPT !.pc = "batch", !.ev = ev]
  <2>1. n \in Node /\ n.pc = "batch" /\ n.token = node[r].token
    BY Zenon, <1>1, <1>2 DEF Node, Pcs
  <2>2. Set(r, n)
    BY Zenon, <1>5 DEF Appended
  <2> QED BY Zenon, <2>1, <2>2
<1>6. CASE node[r].ev # Bookmark /\ ~ (ev <= node[r].chunk) /\ ~ (ev <= node[r].upto)
  <2>1. Set(r, Idle(r, ev, node[r].upto))
    BY Zenon, <1>6 DEF Appended
  <2> HIDE DEF ev
  <2> QED BY Zenon, <2>1, <1>2, IdleNode
<1> QED
  BY Zenon, <1>3, <1>4, <1>5, <1>6

\* A step to a quiet place that touches neither the clock nor the journal
LEMMA QuietStep ==
    ASSUME JournalInv, NEW r \in Replicas, node[r].pc # "out",
           \E n \in Node : Set(r, n) /\ n.pc \in {"idle", "load", "batch"}
                             /\ n.token = node[r].token,
           UNCHANGED <<clockVars, events, adopted>>, progress' \in Int
    PROVE  JournalInv'
<1>1. PICK n \in Node : Set(r, n) /\ n.pc \in {"idle", "load", "batch"}
                         /\ n.token = node[r].token
  OBVIOUS
<1>2. n.token <= token /\ n.token >= 1
  BY Zenon, <1>1 DEF JournalInv, NodeInv, Bounds
<1>3. Bounds(n) /\ Fenced(r, n)
  BY Zenon, <1>1, <1>2, QuietInv DEF Quiet
<1>4. adopted' \in BOOLEAN /\ (adopted => adopted')
  BY ZenonT(60) DEF JournalInv, JournalType
<1> QED
  BY Zenon, <1>1, <1>3, <1>4, NodeStep

-----------------------------------------------------------------------------
(* The steps that change the journal.                                      *)

\* Rows are written only where there is none, so not over a published one, and
\* carry the token of their writer.
LEMMA WriteStep ==
    ASSUME JournalInv, NEW r \in Replicas, node[r].pc \in {"insertBatch", "insert"},
           node[r].water + node[r].count <= MaxWater, Written(r),
           NEW n \in Node, Set(r, n), n.token = node[r].token,
           \/ n.pc \in {"idle", "load", "batch"}
           \/ n.pc = "publish" /\ n.water = node[r].water /\ n.count = node[r].count,
           UNCHANGED <<clockVars, progress, adopted>>
    PROVE  /\ JournalInv'
           /\ adopted' \/ \A s \in Published : events'[s] = events[s]
<1> DEFINE t == node[r].token
<1>1. node[r] \in Node /\ NodeInv(r, node[r]) /\ t >= 1 /\ t <= token
  BY Zenon DEF JournalInv, JournalType, NodeInv, Bounds
<1>2. /\ events \in [1..MaxWater -> Row] /\ water \in 0..MaxWater /\ token \in Nat
      /\ node[r].water \in Nat /\ node[r].count \in Nat /\ node[r].ev \in Int /\ t \in Nat
  BY Zenon, <1>1 DEF JournalInv, JournalType, Node
<1>3. \A s \in Span(r) : s \in 1..MaxWater /\ events[s].token = 0
  <2>1. \A s \in Span(r) : s \in 1..MaxWater
    BY <1>2, JournalAssumption DEF Span
  <2>2. \A s \in Span(r) : events[s].token = 0
    BY DEF Written, NoRow
  <2> QED BY Zenon, <2>1, <2>2
<1>4. \A s \in Span(r) : Candidate(r, s) \in Row /\ Candidate(r, s).token = t
  BY SMTT(60), <1>2 DEF Span, Candidate, Row, Bookmark
<1>5. /\ events' \in [1..MaxWater -> Row]
      /\ \A s \in 1..MaxWater : events'[s] = IF s \in Span(r) THEN Candidate(r, s) ELSE events[s]
  BY Zenon, <1>2, <1>4 DEF Written
<1>6. \A s \in Span(r) : events'[s].token = t
  BY Zenon, <1>3, <1>4, <1>5
<1>7. \A s \in 1..MaxWater : events[s].token # 0 => events'[s] = events[s]
  BY Zenon, <1>3, <1>5
<1>8. adopted \/ \A s \in 1..water : events[s].token >= 1 /\ events'[s] = events[s]
  <2>1. \A s \in 1..water : s \in 1..MaxWater
    BY <1>2, JournalAssumption
  <2> QED BY <2>1, <1>7 DEF JournalInv
<1>9. /\ node' \in [Replicas -> Node]
      /\ node'[r] = n
      /\ \A q \in Replicas : q # r => node'[q] = node[q]
  BY Zenon, SetNode DEF JournalInv, JournalType
<1>10. JournalType'
  BY Zenon, <1>5, <1>9 DEF JournalInv, JournalType, clockVars
<1>11. \A s \in 1..MaxWater : events'[s].token <= token'
  BY Zenon, <1>1, <1>2, <1>5, <1>6 DEF JournalInv, clockVars
<1>12. ASSUME NEW q \in Replicas, q # r PROVE NodeInv(q, node[q])'
  <2>1. NodeInv(q, node[q]) /\ node[q] \in Node /\ node'[q] = node[q]
    BY Zenon, <1>9, <1>12 DEF JournalInv, JournalType
  <2>2. node[q].water \in Nat /\ node[q].count \in Nat /\ node[q].token \in Nat
    BY Zenon, <2>1 DEF Node
  <2>3. ASSUME ~ adopted PROVE Fenced(q, node[q])'
    <3>1. Fenced(q, node[q])
      BY Zenon, <2>1, <2>3 DEF NodeInv, Bounds
    <3>2. node[q].pc \in Holding =>
            \A s \in (node[q].water + 1)..water : events'[s].token >= node[q].token
      BY SMTT(60), <3>1, <1>2, <1>8, <2>2, <2>3 DEF Fenced
    <3>3. node[q].pc = "publish" /\ Current(q, node[q]) =>
            \A s \in (node[q].water + 1)..(node[q].water + node[q].count) :
               events'[s].token = node[q].token
      <4> SUFFICES ASSUME node[q].pc = "publish", Current(q, node[q]),
                          NEW s \in (node[q].water + 1)..(node[q].water + node[q].count)
                   PROVE  events'[s].token = node[q].token
        OBVIOUS
      <4>1. events[s].token = node[q].token /\ node[q].token >= 1 /\ s \in 1..MaxWater
        BY SMTT(60), <3>1, <2>1, <2>2, <1>2, JournalAssumption DEF Fenced, NodeInv, Bounds
      <4> QED BY <4>1, <1>7
    <3>4. node[q].pc = "settle" /\ node[q].old.token = node[q].token /\ Current(q, node[q])
            => events'[node[q].water + 1].token = node[q].token
      <4> SUFFICES ASSUME node[q].pc = "settle", node[q].old.token = node[q].token,
                          Current(q, node[q])
                   PROVE  events'[node[q].water + 1].token = node[q].token
        OBVIOUS
      <4>1. /\ events[node[q].water + 1].token = node[q].token /\ node[q].token >= 1
            /\ node[q].water + 1 \in 1..MaxWater
        BY SMTT(60), <3>1, <2>1, <2>2, <1>2, JournalAssumption DEF Fenced, NodeInv, Bounds
      <4> QED BY SMTT(60), <4>1, <1>7
    <3> QED
      BY Zenon, <2>1, <3>2, <3>3, <3>4 DEF Fenced, Current, clockVars
  <2> QED
    BY Zenon, <2>1, <2>3 DEF NodeInv, Bounds, clockVars
<1>13. NodeInv(r, node[r])'
  <2>1. CASE n.pc \in {"idle", "load", "batch"}
    BY Zenon, <2>1, <1>1, <1>9 DEF NodeInv, Bounds, Fenced, Holding, clockVars
  <2>2. CASE n.pc = "publish" /\ n.water = node[r].water /\ n.count = node[r].count
    <3>1. /\ n.water <= water /\ n.water + n.count <= MaxWater
      BY Zenon, <2>2, <1>1 DEF NodeInv, Bounds, Holding
    <3>2. ASSUME ~ adopted PROVE \A s \in (n.water + 1)..water : events'[s].token >= n.token
      <4>1. \A s \in (n.water + 1)..water : events[s].token >= n.token
        BY Zenon, <2>2, <3>2, <1>1 DEF NodeInv, Bounds, Fenced, Holding
      <4> QED BY SMTT(60), <4>1, <3>2, <2>2, <1>2, <1>8
    <3>3. \A s \in (n.water + 1)..(n.water + n.count) : events'[s].token = n.token
      BY Zenon, <2>2, <1>6 DEF Span
    <3> QED
      BY Zenon, <2>2, <3>1, <3>2, <3>3, <1>1, <1>9 DEF NodeInv, Bounds, Fenced, Holding, clockVars
  <2> QED BY Zenon, <2>1, <2>2
<1>14. adopted' \/ \A s \in 1..water' : events'[s].token >= 1
  BY Zenon, <1>8 DEF clockVars
<1> QED
  BY Zenon, <1>8, <1>10, <1>11, <1>12, <1>13, <1>14 DEF JournalInv, Published, clockVars

\* A row that is deleted has an older token than its deleter, who would know a
\* published row by its token; and the rows of a current leader are younger.
LEMMA DeleteStep ==
    ASSUME JournalInv, NEW r \in Replicas, node[r].pc = "settle",
           events[node[r].water + 1].token < node[r].token,
           events' = [events EXCEPT ![node[r].water + 1] = NoRow],
           NEW n \in Node, Set(r, n), n.token = node[r].token, n.pc = "load",
           UNCHANGED <<clockVars, progress, adopted>>
    PROVE  /\ JournalInv'
           /\ adopted' \/ \A s \in Published : events'[s] = events[s]
<1> DEFINE t == node[r].token
           d == node[r].water + 1
<1>1. node[r] \in Node /\ NodeInv(r, node[r]) /\ t >= 1 /\ t <= token
  BY Zenon DEF JournalInv, JournalType, NodeInv, Bounds
<1>2. /\ events \in [1..MaxWater -> Row] /\ water \in 0..MaxWater /\ token \in Nat
      /\ node[r].water \in Nat /\ t \in Nat
  BY Zenon, <1>1 DEF JournalInv, JournalType, Node
<1>3. d \in 1..MaxWater
  BY <1>1, <1>2, JournalAssumption DEF NodeInv, Bounds
<1>4. NoRow \in Row /\ NoRow.token = 0
  BY DEF NoRow, Row
<1>5. /\ events' \in [1..MaxWater -> Row]
      /\ events'[d].token = 0
      /\ \A s \in 1..MaxWater : s # d => events'[s] = events[s]
  BY Zenon, <1>2, <1>3, <1>4
<1>6. \A s \in 1..MaxWater : events[s].token >= t => events'[s] = events[s]
  <2>1. events[d].token \in Nat
    BY Zenon, <1>2, <1>3 DEF Row
  <2> QED BY <1>2, <1>5, <2>1
<1>7. adopted \/ \A s \in 1..water : events[s].token >= 1 /\ events'[s] = events[s]
  <2> SUFFICES ASSUME ~ adopted, NEW s \in 1..water
               PROVE  events[s].token >= 1 /\ events'[s] = events[s]
    OBVIOUS
  <2>1. s \in 1..MaxWater
    BY <1>2, JournalAssumption
  <2>2. events[s].token >= 1
    BY Zenon DEF JournalInv
  <2>3. \A u \in d..water : events[u].token >= t
    BY Zenon, <1>1 DEF NodeInv, Bounds, Fenced, Holding
  <2>4. CASE s = d
    BY <2>3, <2>4, <1>2, <1>6, <2>1, <2>2
  <2>5. CASE s # d
    BY Zenon, <2>1, <2>2, <2>5, <1>5
  <2> QED BY Zenon, <2>4, <2>5
<1>8. /\ node' \in [Replicas -> Node]
      /\ node'[r] = n
      /\ \A q \in Replicas : q # r => node'[q] = node[q]
  BY Zenon, SetNode DEF JournalInv, JournalType
<1>9. JournalType'
  BY Zenon, <1>5, <1>8 DEF JournalInv, JournalType, clockVars
<1>10. \A s \in 1..MaxWater : events'[s].token <= token'
  BY <1>2, <1>5 DEF JournalInv, clockVars
<1>11. ASSUME NEW q \in Replicas, q # r PROVE NodeInv(q, node[q])'
  <2>1. NodeInv(q, node[q]) /\ node[q] \in Node /\ node'[q] = node[q]
    BY Zenon, <1>8, <1>11 DEF JournalInv, JournalType
  <2>2. node[q].water \in Nat /\ node[q].count \in Nat /\ node[q].token \in Nat
    BY Zenon, <2>1 DEF Node
  <2>3. ASSUME ~ adopted PROVE Fenced(q, node[q])'
    <3>1. Fenced(q, node[q])
      BY Zenon, <2>1, <2>3 DEF NodeInv, Bounds
    <3>2. node[q].pc \in Holding =>
            \A s \in (node[q].water + 1)..water : events'[s].token >= node[q].token
      BY SMTT(60), <3>1, <1>2, <1>7, <2>2, <2>3 DEF Fenced
    <3>3. node[q].pc = "publish" /\ Current(q, node[q]) =>
            \A s \in (node[q].water + 1)..(node[q].water + node[q].count) :
               events'[s].token = node[q].token
      <4> SUFFICES ASSUME node[q].pc = "publish", Current(q, node[q]),
                          NEW s \in (node[q].water + 1)..(node[q].water + node[q].count)
                   PROVE  events'[s].token = node[q].token
        OBVIOUS
      <4>1. events[s].token = node[q].token
        BY Zenon, <3>1 DEF Fenced
      <4>2. node[q].token >= t
        BY Zenon, <1>1, <1>2 DEF Current
      <4>3. s \in 1..MaxWater
        BY SMTT(60), <2>1, <2>2, JournalAssumption DEF NodeInv, Bounds
      <4> QED BY Zenon, <4>1, <4>2, <4>3, <1>6
    <3>4. node[q].pc = "settle" /\ node[q].old.token = node[q].token /\ Current(q, node[q])
            => events'[node[q].water + 1].token = node[q].token
      <4> SUFFICES ASSUME node[q].pc = "settle", node[q].old.token = node[q].token,
                          Current(q, node[q])
                   PROVE  events'[node[q].water + 1].token = node[q].token
        OBVIOUS
      <4>1. /\ events[node[q].water + 1].token = node[q].token /\ node[q].token >= t
            /\ node[q].water + 1 \in 1..MaxWater
        BY SMTT(60), <3>1, <2>1, <2>2, <1>1, <1>2, JournalAssumption DEF Fenced, NodeInv, Bounds, Current
      <4> QED BY Zenon, <4>1, <1>6
    <3> QED
      BY Zenon, <2>1, <3>2, <3>3, <3>4 DEF Fenced, Current, clockVars
  <2> QED
    BY Zenon, <2>1, <2>3 DEF NodeInv, Bounds, clockVars
<1>12. NodeInv(r, node[r])'
  BY Zenon, <1>1, <1>8 DEF NodeInv, Bounds, Fenced, Holding, clockVars
<1>13. adopted' \/ \A s \in 1..water' : events'[s].token >= 1
  BY Zenon, <1>7 DEF clockVars
<1> QED
  BY Zenon, <1>7, <1>9, <1>10, <1>11, <1>12, <1>13 DEF JournalInv, Published, clockVars

-----------------------------------------------------------------------------
(* The steps that change the clock.                                        *)

\* A replica publishes only what its lease and the high water it has read still
\* cover: rows of its own, and nobody has a younger token.
LEMMA PublishStep ==
    ASSUME JournalInv, NEW r \in Replicas, node[r].pc = "publish",
           Mine(r), water = node[r].water, water' = water + node[r].count,
           NEW n \in Node, Set(r, n), n.token = node[r].token,
           \/ n.pc \in {"idle", "load", "batch"}
           \/ n.pc = "resolve" /\ n.water = node[r].water /\ n.count = node[r].count,
           UNCHANGED <<holder, token, events, progress, adopted>>
    PROVE  JournalInv'
<1> DEFINE t == node[r].token
<1>1. node[r] \in Node /\ NodeInv(r, node[r]) /\ t >= 1 /\ t = token
  BY Zenon DEF JournalInv, JournalType, NodeInv, Bounds, Mine
<1>2. /\ events \in [1..MaxWater -> Row] /\ water \in 0..MaxWater /\ token \in Nat
      /\ node[r].water \in Nat /\ node[r].count \in Nat
  BY Zenon, <1>1 DEF JournalInv, JournalType, Node
<1>3. water' \in 0..MaxWater /\ water' >= water
  BY SMTT(60), <1>1, <1>2, JournalAssumption DEF NodeInv, Bounds
<1>4. adopted \/ \A s \in (water + 1)..water' : events[s].token = token
  BY Zenon, <1>1 DEF NodeInv, Bounds, Fenced, Current, Mine
<1>5. /\ node' \in [Replicas -> Node]
      /\ node'[r] = n
      /\ \A q \in Replicas : q # r => node'[q] = node[q]
  BY Zenon, SetNode DEF JournalInv, JournalType
<1>6. JournalType'
  BY Zenon, <1>3, <1>5 DEF JournalInv, JournalType
<1>7. adopted' \/ \A s \in 1..water' : events'[s].token >= 1
  <2>1. adopted \/ \A s \in 1..water' : s \in 1..water \/ s \in (water + 1)..water'
    BY <1>2, <1>3
  <2> QED BY Zenon, <2>1, <1>1, <1>4 DEF JournalInv
<1>8. ASSUME NEW q \in Replicas, NEW m \in Node, NodeInv(q, m), m.pc \in Holding, ~ adopted
      PROVE  \A s \in (m.water + 1)..water' : events'[s].token >= m.token
  <2> SUFFICES ASSUME NEW s \in (m.water + 1)..water' PROVE events[s].token >= m.token
    OBVIOUS
  <2>1. m.water \in Nat /\ m.token \in Nat /\ m.token <= token
    BY Zenon, <1>8 DEF Node, NodeInv, Bounds
  <2>2. CASE s <= water
    BY SMTT(60), <2>1, <2>2, <1>2, <1>3, <1>8 DEF NodeInv, Bounds, Fenced
  <2>3. CASE s > water
    <3>1. s \in (water + 1)..water'
      BY <2>1, <2>3, <1>2, <1>3
    <3> QED BY Zenon, <3>1, <2>1, <1>2, <1>4, <1>8
  <2> QED BY SMTT(60), <2>1, <2>2, <2>3, <1>2, <1>3
<1>9. ASSUME NEW q \in Replicas, q # r PROVE NodeInv(q, node[q])'
  <2>1. NodeInv(q, node[q]) /\ node[q] \in Node /\ node'[q] = node[q]
    BY Zenon, <1>5, <1>9 DEF JournalInv, JournalType
  <2>2. node[q].water \in Nat
    BY Zenon, <2>1 DEF Node
  <2>3. ~ Current(q, node[q])'
    BY Zenon, <1>9 DEF Mine, Current
  <2>4. adopted' \/ Fenced(q, node[q])'
    BY Zenon, <2>1, <2>3, <1>8 DEF Fenced
  <2> QED
    BY SMTT(60), <2>1, <2>2, <2>4, <1>2, <1>3 DEF NodeInv, Bounds
<1>10. NodeInv(r, node[r])'
  <2>1. CASE n.pc \in {"idle", "load", "batch"}
    BY Zenon, <2>1, <1>1, <1>5 DEF NodeInv, Bounds, Fenced, Holding
  <2>2. CASE n.pc = "resolve" /\ n.water = node[r].water /\ n.count = node[r].count
    <3>1. n.water <= water' /\ n.water + n.count <= MaxWater
      BY Zenon, <2>2, <1>1, <1>2, <1>3 DEF NodeInv, Bounds
    <3>2. adopted \/ \A s \in (n.water + 1)..water' : events'[s].token >= n.token
      BY Zenon, <1>8, <1>1, <2>2 DEF Holding
    <3> QED
      BY Zenon, <2>2, <3>1, <3>2, <1>1, <1>5 DEF NodeInv, Bounds, Fenced
  <2> QED BY Zenon, <2>1, <2>2
<1> QED
  BY Zenon, <1>6, <1>7, <1>9, <1>10 DEF JournalInv

\* A new lease has a token that no other replica has.
LEMMA AcquireStep ==
    ASSUME JournalInv, NEW r \in Replicas, Acquire(r)
    PROVE  JournalInv'
<1>1. /\ token \in Nat /\ token' = token + 1 /\ water' = water /\ events' = events
      /\ progress' = progress /\ adopted' = adopted /\ progress \in Int
      /\ node[r].pc = "out" /\ NodeInv(r, node[r]) /\ node[r] \in Node
  BY Zenon DEF Acquire, JournalInv, JournalType
<1>2. /\ node' \in [Replicas -> Node]
      /\ \A q \in Replicas : q # r => node'[q] = node[q]
      /\ \/ node'[r] = node[r]
         \/ node'[r].pc = "idle" /\ node'[r].token = token + 1
  <2>1. CASE UNCHANGED node
    BY Zenon, <2>1, <1>1 DEF JournalInv, JournalType
  <2>2. CASE Set(r, Between("idle", token + 1, progress + 1, 0))
    <3> DEFINE n == Between("idle", token + 1, progress + 1, 0)
    <3>1. NoRow \in Row
      BY DEF NoRow, Row
    <3>2. n \in Node /\ n.pc = "idle" /\ n.token = token + 1
      BY SMTT(60), <1>1, <3>1 DEF Between, Node, Pcs
    <3> HIDE DEF n
    <3> QED BY Zenon, <2>2, <3>2, SetNode DEF JournalInv, JournalType, n
  <2> QED BY Zenon, <2>1, <2>2 DEF Acquire
<1>3. JournalType'
  BY <1>1, <1>2 DEF JournalInv, JournalType
<1>4. \A s \in 1..MaxWater : events'[s].token <= token'
  BY SMTT(60), <1>1 DEF JournalInv, JournalType, Row
<1>5. ASSUME NEW q \in Replicas, q # r PROVE NodeInv(q, node[q])'
  <2>1. NodeInv(q, node[q]) /\ node[q].token \in Nat /\ node'[q] = node[q]
    BY Zenon, <1>2, <1>5 DEF JournalInv, JournalType, Node
  <2>2. node[q].token < token' /\ ~ Current(q, node[q])'
    BY SMTT(60), <2>1, <1>1 DEF NodeInv, Bounds, Current
  <2> QED
    BY SMTT(60), <2>1, <2>2, <1>1 DEF NodeInv, Bounds, Fenced
<1>6. NodeInv(r, node[r])'
  <2>1. CASE node'[r] = node[r]
    BY SMTT(60), <2>1, <1>1 DEF NodeInv, Bounds, Fenced, Holding, Node
  <2>2. CASE node'[r].pc = "idle" /\ node'[r].token = token + 1
    BY SMTT(60), <2>2, <1>1 DEF NodeInv, Bounds, Fenced, Holding
  <2> QED BY Zenon, <2>1, <2>2, <1>2
<1> QED
  BY Zenon, <1>1, <1>3, <1>4, <1>5, <1>6 DEF JournalInv

\* A released lease makes no replica current.
LEMMA ReleaseStep ==
    ASSUME JournalInv, NEW r \in Replicas, Release(r)
    PROVE  JournalInv'
<1>1. /\ holder' = Nobody
      /\ UNCHANGED <<token, water, events, progress, node, adopted>>
  BY Zenon DEF Release
<1>2. ASSUME NEW q \in Replicas PROVE NodeInv(q, node[q])'
  <2>1. NodeInv(q, node[q])
    BY Zenon DEF JournalInv
  <2>2. ~ Current(q, node[q])'
    BY Zenon, <1>1, JournalAssumption DEF Current
  <2> QED
    BY Zenon, <2>1, <2>2, <1>1 DEF NodeInv, Bounds, Fenced
<1> QED
  BY Zenon, <1>1, <1>2 DEF JournalInv, JournalType

-----------------------------------------------------------------------------
(* Every step keeps the invariant, and what is published.                  *)

Kept == adopted' \/ \A s \in Published : events'[s] = events[s]

\* Reading the clock: the replica is current, or its append fails.
LEMMA LoadedStep ==
    ASSUME JournalInv, NEW r \in Replicas, node[r].pc # "out", NEW n \in Node, Loaded(r, n),
           n.pc \in {"insertBatch", "insert"}, n.pc = "insert" => n.count = 1,
           n.token = node[r].token, UNCHANGED <<clockVars, events, progress, adopted>>
    PROVE  JournalInv'
<1>1. progress' \in Int
  BY Zenon DEF JournalInv, JournalType
<1>2. CASE Mine(r)
  <2> DEFINE m == [n EXCEPT !.water = water, !.old = NoRow]
  <2>1. NoRow \in Row /\ water \in Nat
    BY DEF NoRow, Row, JournalInv, JournalType
  <2>2. /\ m \in Node /\ m.pc = n.pc /\ m.token = n.token /\ m.count = n.count
        /\ m.water = water
    BY Zenon, <2>1 DEF Node
  <2>3. Set(r, m)
    BY Zenon, <1>2 DEF Loaded
  <2> HIDE DEF m
  <2>4. m.token <= token /\ m.token >= 1
    BY Zenon, <2>2 DEF JournalInv, NodeInv, Bounds
  <2>5. Fenced(r, m)
    BY <2>1, <2>2 DEF Fenced
  <2>6. Bounds(m)
    BY <2>1, <2>2, <2>4 DEF Bounds
  <2>7. adopted' \in BOOLEAN /\ (adopted => adopted')
    BY ZenonT(60) DEF JournalInv, JournalType
  <2> QED
    BY Zenon, <1>1, <2>2, <2>3, <2>5, <2>6, <2>7, NodeStep
<1>3. CASE ~ Mine(r)
  <2>1. Failed(r)
    BY Zenon, <1>3 DEF Loaded
  <2> QED
    BY Zenon, <2>1, <1>1, FailedNode, QuietStep
<1> QED
  BY Zenon, <1>2, <1>3

\* What the row in the way turns out to be
LEMMA SettleStep ==
    ASSUME JournalInv, NEW r \in Replicas, Settle(r)
    PROVE  JournalInv' /\ Kept
<1>1. /\ node[r] \in Node /\ NodeInv(r, node[r]) /\ node[r].pc = "settle"
      /\ node[r].token \in Nat /\ node[r].old \in Row /\ node[r].old.token \in Nat
      /\ progress' \in Int /\ UNCHANGED <<clockVars, progress>>
  BY Zenon DEF JournalInv, JournalType, Settle, Node, Row
<1>2. CASE /\ node[r].old.token < node[r].token
           /\ events[node[r].water + 1] # NoRow
           /\ events[node[r].water + 1].token < node[r].token
  <2>1. /\ events' = [events EXCEPT ![node[r].water + 1] = NoRow]
        /\ Goto(r, "load") /\ UNCHANGED adopted
    BY Zenon, <1>2 DEF Settle
  <2>2. "load" \in Pcs
    BY Zenon DEF Pcs
  <2>3. PICK n \in Node : Set(r, n) /\ n.pc = "load" /\ n.token = node[r].token
    BY SMTT(60), <2>1, <2>2, GotoNode
  <2> QED
    BY Zenon, <1>1, <1>2, <2>1, <2>3, DeleteStep DEF Kept
<1>3. CASE ~ (/\ node[r].old.token < node[r].token
              /\ events[node[r].water + 1] # NoRow
              /\ events[node[r].water + 1].token < node[r].token)
  <2>1. /\ UNCHANGED events
        /\ IF node[r].old.token > node[r].token THEN Failed(r)
           ELSE Goto(r, IF SameEvent(r) THEN "publish" ELSE "load")
        /\ adopted' = (adopted \/ (SameEvent(r) /\ node[r].old.token < node[r].token))
    BY Zenon, <1>3 DEF Settle
  <2>2. Kept
    BY Zenon, <2>1 DEF Kept
  <2>3. adopted' \in BOOLEAN /\ (adopted => adopted')
    BY <2>1, ZenonT(60) DEF JournalInv, JournalType
  <2>4. node[r].token <= token /\ node[r].token >= 1
    BY Zenon, <1>1 DEF NodeInv, Bounds
  <2>5. CASE \E n \in Node : Set(r, n) /\ n.pc \in {"idle", "load"} /\ n.token = node[r].token
    <3>1. PICK n \in Node : Set(r, n) /\ n.pc \in {"idle", "load"} /\ n.token = node[r].token
      BY Zenon, <2>5
    <3>2. Bounds(n) /\ Fenced(r, n)
      BY Zenon, <3>1, <2>4, QuietInv DEF Quiet
    <3> QED BY Zenon, <3>1, <3>2, <2>1, <2>2, <2>3, <1>1, NodeStep
  <2>6. CASE node[r].old.token > node[r].token
    BY Zenon, <2>1, <2>5, <2>6, FailedNode
  <2>7. CASE ~ (node[r].old.token > node[r].token) /\ ~ SameEvent(r)
    <3>1. Goto(r, "load") /\ "load" \in Pcs
      BY Zenon, <2>1, <2>7 DEF Pcs
    <3> QED BY <3>1, <2>5, GotoNode
  <2>8. CASE ~ (node[r].old.token > node[r].token) /\ SameEvent(r)
    <3>1. Goto(r, "publish") /\ "publish" \in Pcs
      BY Zenon, <2>1, <2>8 DEF Pcs
    <3>2. PICK n \in Node :
             /\ Set(r, n) /\ n.pc = "publish" /\ n.token = node[r].token
             /\ n.water = node[r].water /\ n.count = node[r].count
      BY <3>1, GotoNode
    <3>3. node[r].count = 1 /\ node[r].water + 1 <= MaxWater /\ node[r].water <= water
      BY Zenon, <1>1 DEF NodeInv, Bounds, Holding
    <3>4. adopted' \/ Fenced(r, n)
      <4> SUFFICES ASSUME ~ adopted' PROVE Fenced(r, n)
        OBVIOUS
      <4>1. ~ adopted /\ ~ (node[r].old.token < node[r].token)
        BY <2>1, <2>8, ZenonT(60)
      <4>2. node[r].old.token = node[r].token /\ Fenced(r, node[r])
        BY SMTT(60), <4>1, <1>1, <2>8 DEF NodeInv, Bounds
      <4>3. node[r].water \in Nat
        BY Zenon, <1>1 DEF Node
      <4> QED
        BY SMTT(60), <4>2, <4>3, <3>2, <3>3, <1>1 DEF Fenced, Holding, Current
    <3>5. Bounds(n)
      BY Zenon, <3>2, <3>3, <2>4 DEF Bounds
    <3> QED BY Zenon, <3>2, <3>4, <3>5, <2>1, <2>2, <2>3, <1>1, NodeStep
  <2> QED BY Zenon, <2>6, <2>7, <2>8
<1> QED
  BY Zenon, <1>2, <1>3

\* Every step of every replica
LEMMA ReplicaStep ==
    ASSUME JournalInv, NEW r \in Replicas,
           Acquire(r) \/ Release(r) \/ StepDown(r) \/ AppendStep(r)
    PROVE  JournalInv' /\ Kept
<1>1. node[r] \in Node /\ NodeInv(r, node[r]) /\ progress \in Int
  BY Zenon DEF JournalInv, JournalType
<1>2. \A pc \in {"load", "publish", "conflict", "resolve"} : pc \in Pcs
  BY Zenon DEF Pcs
<1>3. CASE Acquire(r)
  BY Zenon, <1>3, AcquireStep DEF Acquire, Kept
<1>4. CASE Release(r)
  BY Zenon, <1>4, ReleaseStep DEF Release, Kept
<1>5. CASE StepDown(r)
  <2>1. Out \in Node /\ Out.pc = "out" /\ Out.token = 0
    <3>1. NoRow \in Row
      BY DEF NoRow, Row
    <3> QED BY <3>1 DEF Out, Between, Node, Pcs
  <2>2. Bounds(Out) /\ Fenced(r, Out)
    <3>1. token \in Nat /\ "out" \in Quiet
      BY Zenon DEF JournalInv, JournalType, Quiet
    <3> QED BY <2>1, <3>1, QuietInv
  <2>3. adopted' \in BOOLEAN /\ (adopted => adopted')
    BY <1>5, ZenonT(60) DEF StepDown, JournalInv, JournalType
  <2> QED
    BY Zenon, <1>1, <1>5, <2>1, <2>2, <2>3, NodeStep DEF StepDown, Kept
<1>6. CASE AppendBookmark(r)
  <2> DEFINE n == [node[r] EXCEPT !.pc = "load", !.ev = Bookmark, !.chunk = Bookmark,
                                  !.upto = Bookmark]
  <2>0. Bookmark \in Int
    BY DEF Bookmark
  <2>1. n \in Node /\ n.pc = "load" /\ n.token = node[r].token
    BY Zenon, <1>1, <2>0 DEF Node, Pcs
  <2>2. Set(r, n)
    BY Zenon, <1>6 DEF AppendBookmark
  <2> HIDE DEF n
  <2> QED
    BY Zenon, <1>1, <1>6, <2>1, <2>2, QuietStep DEF AppendBookmark, Kept
<1>7. CASE MaterializeBatch(r)
  <2>1. PICK p \in node[r].next..Changes :
          Set(r, [node[r] EXCEPT !.pc = "batch", !.ev = node[r].next, !.upto = p])
    BY Zenon, <1>7 DEF MaterializeBatch
  <2> DEFINE n == [node[r] EXCEPT !.pc = "batch", !.ev = node[r].next, !.upto = p]
  <2>2. p \in Int /\ node[r].next \in Int
    BY <1>1, JournalAssumption DEF Node
  <2>3. n \in Node /\ n.pc = "batch" /\ n.token = node[r].token
    BY Zenon, <1>1, <2>2 DEF Node, Pcs
  <2> HIDE DEF n
  <2>4. Set(r, n)
    BY Zenon, <2>1 DEF n
  <2> QED
    BY Zenon, <1>1, <1>7, <2>3, <2>4, QuietStep DEF MaterializeBatch, Kept
<1>8. CASE LoadChunk(r)
  <2>1. PICK c \in 1..BatchSize :
          Loaded(r, [node[r] EXCEPT !.pc = "insertBatch", !.count = c,
                                    !.chunk = node[r].ev + c - 1])
    BY Zenon, <1>8 DEF LoadChunk
  <2> DEFINE n == [node[r] EXCEPT !.pc = "insertBatch", !.count = c,
                                  !.chunk = node[r].ev + c - 1]
  <2>2. c \in Nat /\ node[r].ev + c - 1 \in Int
    BY <1>1, JournalAssumption DEF Node
  <2>3. n \in Node /\ n.pc = "insertBatch" /\ n.token = node[r].token
    BY Zenon, <1>1, <2>2 DEF Node, Pcs
  <2> HIDE DEF n
  <2>4. Loaded(r, n)
    BY Zenon, <2>1 DEF n
  <2> QED
    BY Zenon, <1>8, <2>3, <2>4, LoadedStep DEF LoadChunk, Kept
<1>9. CASE Load(r)
  <2> DEFINE n == [node[r] EXCEPT !.pc = "insert", !.count = 1]
  <2>1. n \in Node /\ n.pc = "insert" /\ n.token = node[r].token /\ n.count = 1
    BY ZenonT(60), <1>1 DEF Node, Pcs
  <2>2. Loaded(r, n)
    BY Zenon, <1>9 DEF Load
  <2> HIDE DEF n
  <2> QED
    BY Zenon, <1>9, <2>1, <2>2, LoadedStep DEF Load, Kept
<1>10. CASE InsertBatch(r)
  <2>1. CASE Written(r) /\ (Goto(r, "publish") \/ Goto(r, "load"))
    <3>1. PICK n \in Node :
            /\ Set(r, n) /\ n.pc \in {"publish", "load"} /\ n.token = node[r].token
            /\ n.water = node[r].water /\ n.count = node[r].count
      BY SMTT(60), <2>1, <1>2, GotoNode
    <3> QED
      BY Zenon, <1>10, <2>1, <3>1, WriteStep DEF InsertBatch, Kept
  <2>2. CASE Goto(r, "load") /\ UNCHANGED events
    BY SMTT(60), <1>1, <1>2, <1>10, <2>2, GotoNode, QuietStep DEF InsertBatch, Kept
  <2> QED BY Zenon, <1>10, <2>1, <2>2 DEF InsertBatch
<1>11. CASE Insert(r)
  <2>1. /\ node[r].pc = "insert" /\ node[r].count = 1 /\ node[r].water \in Nat
        /\ node[r].water + node[r].count <= MaxWater
        /\ UNCHANGED <<clockVars, progress, adopted>>
    BY SMTT(60), <1>1, <1>11, JournalAssumption DEF Insert, NodeInv, Bounds, Node
  <2>2. CASE Written(r) /\ Goto(r, "publish")
    <3>1. PICK n \in Node :
            /\ Set(r, n) /\ n.pc = "publish" /\ n.token = node[r].token
            /\ n.water = node[r].water /\ n.count = node[r].count
      BY SMTT(60), <2>2, <1>2, GotoNode
    <3> QED
      BY Zenon, <2>1, <2>2, <3>1, WriteStep DEF Kept
  <2>3. CASE Written(r) /\ Failed(r)
    <3>1. PICK n \in Node : Set(r, n) /\ n.pc = "idle" /\ n.token = node[r].token
      BY Zenon, <2>3, FailedNode
    <3> QED
      BY Zenon, <2>1, <2>3, <3>1, WriteStep DEF Kept
  <2>4. CASE Goto(r, "conflict") /\ UNCHANGED events
    <3>1. PICK n \in Node :
            /\ Set(r, n) /\ n.pc = "conflict" /\ n.token = node[r].token
            /\ n.water = node[r].water /\ n.count = node[r].count
      BY SMTT(60), <2>4, <1>2, GotoNode
    <3>2. Bounds(n)
      BY Zenon, <1>1, <2>1, <3>1 DEF NodeInv, Bounds, Holding
    <3>3. adopted' \in BOOLEAN /\ (adopted => adopted')
      BY <2>1, ZenonT(60) DEF JournalInv, JournalType
    <3>4. adopted' \/ Fenced(r, n)
      BY Zenon, <1>1, <2>1, <3>1 DEF NodeInv, Fenced, Holding
    <3> QED
      BY Zenon, <1>1, <2>1, <2>4, <3>1, <3>2, <3>3, <3>4, NodeStep DEF Kept
  <2> QED BY Zenon, <1>11, <2>2, <2>3, <2>4 DEF Insert
<1>12. CASE ReadExisting(r)
  <2> DEFINE n == [node[r] EXCEPT !.pc = "settle", !.old = events[node[r].water + 1]]
  <2>1. /\ node[r].pc = "conflict" /\ node[r].count = 1 /\ node[r].water \in Nat
        /\ node[r].water + 1 \in 1..MaxWater
    BY <1>1, <1>12, JournalAssumption DEF ReadExisting, NodeInv, Bounds, Node
  <2>2. events[node[r].water + 1] \in Row
    BY Zenon, <2>1 DEF JournalInv, JournalType
  <2>3. /\ n \in Node /\ n.pc = "settle" /\ n.token = node[r].token /\ n.water = node[r].water
        /\ n.count = node[r].count /\ n.old = events[node[r].water + 1]
    BY ZenonT(60), <1>1, <2>2 DEF Node, Pcs
  <2>4. Set(r, n)
    BY Zenon, <1>12 DEF ReadExisting
  <2> HIDE DEF n
  <2>5. Bounds(n)
    BY Zenon, <1>1, <2>1, <2>3 DEF NodeInv, Bounds, Holding
  <2>6. adopted' \in BOOLEAN /\ (adopted => adopted')
    BY <1>12, ZenonT(60) DEF ReadExisting, JournalInv, JournalType
  <2>7. adopted' \/ Fenced(r, n)
    BY Zenon, <1>1, <1>12, <2>1, <2>3 DEF ReadExisting, NodeInv, Fenced, Holding
  <2> QED
    BY Zenon, <1>1, <1>12, <2>3, <2>4, <2>5, <2>6, <2>7, NodeStep DEF ReadExisting, Kept
<1>13. CASE Settle(r)
  BY Zenon, <1>13, SettleStep
<1>14. CASE Publish(r)
  <2>1. CASE Mine(r) /\ water = node[r].water /\ water' = water + node[r].count /\ Appended(r)
    <3>1. PICK n \in Node : /\ Set(r, n) /\ n.pc \in {"idle", "load", "batch"}
                             /\ n.token = node[r].token
      BY Zenon, <2>1, AppendedNode
    <3> QED
      BY Zenon, <1>14, <2>1, <3>1, PublishStep DEF Publish, Kept
  <2>2. CASE /\ Mine(r) /\ water = node[r].water /\ water' = water + node[r].count
             /\ Goto(r, "resolve")
    <3>1. PICK n \in Node :
            /\ Set(r, n) /\ n.pc = "resolve" /\ n.token = node[r].token
            /\ n.water = node[r].water /\ n.count = node[r].count
      BY SMTT(60), <2>2, <1>2, GotoNode
    <3> QED
      BY Zenon, <1>14, <2>2, <3>1, PublishStep DEF Publish, Kept
  <2>3. CASE Goto(r, "resolve") /\ UNCHANGED water
    <3>1. PICK n \in Node :
            /\ Set(r, n) /\ n.pc = "resolve" /\ n.token = node[r].token
            /\ n.water = node[r].water /\ n.count = node[r].count
      BY SMTT(60), <2>3, <1>2, GotoNode
    <3>2. Bounds(n)
      BY Zenon, <1>1, <1>14, <3>1 DEF Publish, NodeInv, Bounds, Holding
    <3>3. adopted' \in BOOLEAN /\ (adopted => adopted')
      BY <1>14, ZenonT(60) DEF Publish, JournalInv, JournalType
    <3>4. adopted' \/ Fenced(r, n)
      BY Zenon, <1>1, <1>14, <3>1 DEF Publish, NodeInv, Fenced, Holding
    <3> QED
      BY Zenon, <1>1, <1>14, <2>3, <3>1, <3>2, <3>3, <3>4, NodeStep DEF Publish, Kept, clockVars
  <2> QED BY Zenon, <1>14, <2>1, <2>2, <2>3 DEF Publish
<1>15. CASE Resolve(r)
  <2>1. Goto(r, "load") \/ Failed(r) \/ Appended(r)
    BY Zenon, <1>15 DEF Resolve
  <2>2. \E n \in Node : Set(r, n) /\ n.pc \in {"idle", "load", "batch"}
                         /\ n.token = node[r].token
    BY SMTT(60), <2>1, <1>2, GotoNode, FailedNode, AppendedNode
  <2> QED
    BY Zenon, <1>1, <1>15, <2>2, QuietStep DEF Resolve, Kept
<1>16. CASE SavePublishedFrontier(r)
  <2>1. PICK next \in Int : Set(r, [node[r] EXCEPT !.unsaved = 0, !.next = next])
    <3>1. CASE Set(r, [node[r] EXCEPT !.unsaved = 0])
      <4>1. node[r].next \in Int
        BY Zenon, <1>1 DEF Node
      <4>2. [node[r] EXCEPT !.unsaved = 0] = [node[r] EXCEPT !.unsaved = 0, !.next = node[r].next]
        BY Zenon, <1>1 DEF Node
      <4> QED BY ZenonT(60), <3>1, <4>1, <4>2
    <3>2. CASE Set(r, [node[r] EXCEPT !.unsaved = 0, !.next = Changes + 1])
      <4>1. Changes + 1 \in Int
        BY JournalAssumption
      <4> QED BY Zenon, <3>2, <4>1
    <3> QED BY ZenonT(60), <1>16, <3>1, <3>2 DEF SavePublishedFrontier
  <2> DEFINE n == [node[r] EXCEPT !.unsaved = 0, !.next = next]
  <2>2. /\ n \in Node /\ n.pc = node[r].pc /\ n.token = node[r].token /\ n.water = node[r].water
        /\ n.count = node[r].count /\ n.old = node[r].old
    <3>1. 0 \in Int /\ next \in Int
      OBVIOUS
    <3> QED BY ZenonT(60), <1>1, <3>1 DEF Node
  <2>3. progress' \in Int
    BY Zenon, <1>1, <1>16 DEF SavePublishedFrontier, Node
  <2> HIDE DEF n
  <2>4. Set(r, n)
    BY Zenon, <2>1 DEF n
  <2>5. Bounds(n)
    BY Zenon, <1>1, <2>2 DEF NodeInv, Bounds
  <2>6. adopted' \in BOOLEAN /\ (adopted => adopted')
    BY <1>16, ZenonT(60) DEF SavePublishedFrontier, JournalInv, JournalType
  <2>7. adopted' \/ Fenced(r, n)
    BY Zenon, <1>1, <1>16, <2>2 DEF SavePublishedFrontier, NodeInv, Fenced, Current
  <2> QED
    BY Zenon, <1>16, <2>2, <2>3, <2>4, <2>5, <2>6, <2>7, NodeStep DEF SavePublishedFrontier, Kept
<1> QED
  BY Zenon, <1>3, <1>4, <1>5, <1>6, <1>7, <1>8, <1>9, <1>10, <1>11, <1>12, <1>13, <1>14, <1>15, <1>16
     DEF AppendStep

\* The invariant is inductive, a step changes nothing that is published, and the
\* high water only rises.
LEMMA JournalStep ==
    ASSUME JournalInv, [Next]_jVars
    PROVE  /\ JournalInv'
           /\ water' >= water
           /\ Kept
<1>1. CASE UNCHANGED jVars
  BY SMTT(60), <1>1 DEF jVars, JournalInv, JournalType, NodeInv, Bounds, Fenced, Current, Kept
<1>2. CASE Next
  <2>1. PICK r \in Replicas : Acquire(r) \/ Release(r) \/ StepDown(r) \/ AppendStep(r)
    BY Zenon, <1>2 DEF Next
  <2>2. JournalInv' /\ Kept
    BY Zenon, <2>1, ReplicaStep
  <2>3. water \in Nat /\ node[r].count \in Nat
    BY DEF JournalInv, JournalType, Node
  <2>4. water' = water \/ water' = water + node[r].count
    BY Zenon, <2>1 DEF AppendStep, Acquire, Release, StepDown, AppendBookmark, MaterializeBatch,
                LoadChunk, Load, InsertBatch, Insert, ReadExisting, Settle, Publish, Resolve,
                SavePublishedFrontier, clockVars
  <2> QED BY <2>2, <2>3, <2>4
<1> QED
  BY Zenon, <1>1, <1>2

\* The inductive invariant holds in every reachable state.
THEOREM Fencing == Spec => []JournalInv
<1>1. JournalInv /\ [Next]_jVars => JournalInv'
  BY Zenon, JournalStep
<1> QED
  BY <1>1, JournalInit, PTL DEF Spec

\* As long as no leader went on with the row of an older one, no published
\* sequence is without its row: AppendBatch's "contiguous range".
THEOREM OneWayToAGap == Spec => []NoOtherGaps
<1>1. JournalInv => NoOtherGaps
  <2> SUFFICES ASSUME JournalInv, ~ adopted, NEW s \in Published PROVE events[s] # NoRow
    BY Zenon DEF NoOtherGaps, NoGaps
  <2>1. events[s].token >= 1
    BY Zenon DEF JournalInv, Published
  <2> QED BY <2>1 DEF NoRow
<1> QED
  BY <1>1, Fencing, PTL

\* What is published stays: neither the deletion of rows in the way (Append) nor
\* the inserts of a deposed leader reach it.
THEOREM PublishedStays == Spec => PublishedForever
<1>1. JournalInv /\ [Next]_jVars =>
        [/\ water' >= water
         /\ adopted' \/ \A s \in Published : events'[s] = events[s]]_jVars
  BY Zenon, JournalStep DEF Kept
<1> QED
  BY <1>1, Fencing, PTL DEF Spec, PublishedForever

-----------------------------------------------------------------------------
(* The order of the source                                                  *)


\* A change that is published
Seen(p, w, e) == \E s \in 1..w : e[s].src = p

\* The change a leader appends next
Due(n) == IF n.ev = Bookmark THEN n.next ELSE n.ev

\* The sequences of an append and their rows
SpanOf(n) == (n.water + 1)..(n.water + n.count)

SourceOf(n, s) == IF n.ev = Bookmark THEN Bookmark ELSE n.ev + s - n.water - 1

RowOf(n, s) == [src |-> SourceOf(n, s), token |-> n.token]

\* An append works on changes of its chunk, and the chunk lies within the batch.
Shape(n) ==
    /\ n.pc # "out" => n.next >= 1
    /\ n.upto <= Changes
    /\ n.unsaved \in 0..Changes /\ (n.pc = "out" => n.unsaved = 0)
    /\ n.pc \in {"out", "idle"} => n.ev = Bookmark
    /\ n.pc = "batch" => n.ev # Bookmark
    /\ n.ev # Bookmark =>
         /\ n.ev >= 1 /\ n.ev <= n.upto
         /\ n.pc # "batch" => n.ev <= n.chunk /\ n.chunk <= n.upto
         /\ n.pc \in Holding => n.ev + n.count - 1 <= n.chunk
    /\ n.ev = Bookmark /\ n.pc \in Holding => n.count = 1
    /\ n.pc \in Holding => n.count >= 1
    /\ n.pc \in {"insertBatch", "insert", "conflict"} => n.old = NoRow
    /\ n.pc \in {"publish", "resolve"} /\ n.old # NoRow => n.count = 1 /\ n.old.src = n.ev

\* While a replica holds the lease the high water is where it has left it, and
\* the rows it is about to publish are those of its append.
Steady(r, n, h, t, w, e) ==
    h = r /\ t = n.token =>
      /\ n.pc \in Holding => w = n.water \/ (n.pc = "resolve" /\ w = n.water + n.count)
      /\ n.pc = "publish" => \A s \in SpanOf(n) : e[s] = RowOf(n, s)
      /\ n.pc = "settle" /\ n.old.token = n.token => e[n.water + 1] = n.old

\* What a leader has published lies before the change it appends next; only a
\* publication without an answer may have gone further.
Ahead(n, w, e) ==
    n.pc # "out" =>
      \A s \in 1..w :
        /\ e[s].token = n.token
        /\ e[s].src # Bookmark
        /\ n.pc = "resolve" /\ n.ev # Bookmark => s \notin SpanOf(n)
        => e[s].src < Due(n)

\* What comes before the change a leader appends next is published, and so is the batch
\* it has yet to save.
Prior(n, w, e) ==
    /\ n.pc # "out" /\ Due(n) <= Changes => \A p \in 1..(Due(n) - 1) : Seen(p, w, e)
    /\ \A p \in 1..n.unsaved : Seen(p, w, e)

\* What holds of the replica r with the state n
Good(r, n, h, t, w, e) == Steady(r, n, h, t, w, e) /\ Ahead(n, w, e) /\ Prior(n, w, e)

\* The published rows: leaders one after the other, each change after all before it
\* and once per leader
Ordered(w, e) ==
    /\ \A s \in 1..w : e[s].src \in 0..Changes
    /\ \A s, t \in 1..w : s < t => e[s].token <= e[t].token
    /\ \A s \in 1..w : e[s].src # Bookmark =>
         \A p \in 1..(e[s].src - 1) : \E t \in 1..(s - 1) : e[t].src = p
    /\ \A s, t \in 1..w :
         e[s].src # Bookmark /\ t # s /\ e[t].token = e[s].token => e[t].src # e[s].src

\* No two replicas have the token of one leadership.
Distinct(nodes) ==
    \A r, q \in Replicas : r # q /\ nodes[r].pc # "out" => nodes[r].token # nodes[q].token

\* The inductive invariant; what it says of the source ends with an adopted row.
SourceInv ==
    /\ JournalInv
    /\ \A r \in Replicas : Shape(node[r])
    /\ Distinct(node)
    /\ progress \in 0..Changes
    /\ \/ adopted
       \/ /\ \A r \in Replicas : Good(r, node[r], holder, token, water, events)
          /\ Ordered(water, events)
          /\ \A p \in 1..progress : Seen(p, water, events)

-----------------------------------------------------------------------------
(* What growth of the published rows keeps.                                *)

Rowset == [1..MaxWater -> Row]

\* The published rows stay, and rows may be published after them.
Grown(w, e, v, f) == w <= v /\ \A s \in 1..w : f[s] = e[s]

\* A published change stays published.
LEMMA SeenStays ==
    ASSUME NEW w \in 0..MaxWater, NEW v \in 0..MaxWater, NEW e, NEW f, NEW p,
           Grown(w, e, v, f), Seen(p, w, e)
    PROVE  Seen(p, v, f)
BY JournalAssumption DEF Grown, Seen

\* And with it what comes before a leader's next change.
LEMMA PriorStays ==
    ASSUME NEW w \in 0..MaxWater, NEW v \in 0..MaxWater, NEW e, NEW f, NEW n,
           Grown(w, e, v, f), Prior(n, w, e)
    PROVE  Prior(n, v, f)
BY Zenon, SeenStays DEF Prior

\* A leader is not overtaken by rows of other leaders.
LEMMA AheadStays ==
    ASSUME NEW w \in 0..MaxWater, NEW v \in 0..MaxWater, NEW e, NEW f, NEW n,
           Grown(w, e, v, f), Ahead(n, w, e),
           \A s \in (w + 1)..v : f[s].token # n.token
    PROVE  Ahead(n, v, f)
<1>1. \A s \in 1..v : s \in 1..w \/ s \in (w + 1)..v
  BY JournalAssumption
<1> QED BY Zenon, <1>1 DEF Grown, Ahead

\* The order of the published rows does not depend on the others.
LEMMA OrderedStays ==
    ASSUME NEW w \in 0..MaxWater, NEW e, NEW f, Grown(w, e, w, f), Ordered(w, e)
    PROVE  Ordered(w, f)
<1>1. \A s \in 1..w : f[s] = e[s]
  BY Zenon DEF Grown
<1>2. \A s \in 1..w : \A t \in 1..(s - 1) : t \in 1..w
  BY JournalAssumption
<1>3. /\ \A s \in 1..w : f[s].src \in 0..Changes
      /\ \A s, t \in 1..w : s < t => f[s].token <= f[t].token
      /\ \A s, t \in 1..w :
           f[s].src # Bookmark /\ t # s /\ f[t].token = f[s].token => f[t].src # f[s].src
  BY Zenon, <1>1 DEF Ordered
<1>4. ASSUME NEW s \in 1..w, f[s].src # Bookmark, NEW p \in 1..(f[s].src - 1)
      PROVE  \E t \in 1..(s - 1) : f[t].src = p
  <2>1. PICK t \in 1..(s - 1) : e[t].src = p
    BY Zenon, <1>1, <1>4 DEF Ordered
  <2> QED BY Zenon, <1>1, <1>2, <2>1
<1> QED BY Zenon, <1>3, <1>4 DEF Ordered

\* The fields of a row
LEMMA RowFields ==
    \A n, s : RowOf(n, s).token = n.token /\ RowOf(n, s).src = SourceOf(n, s)
BY Zenon DEF RowOf

\* The rows of an append continue the order: their leader is the last one, all
\* changes before theirs are published, and this leader has published none of them.
LEMMA OrderedGrows ==
    ASSUME NEW w \in 0..MaxWater, NEW v \in 0..MaxWater, NEW e \in Rowset, NEW n \in Node,
           Ordered(w, e), Shape(n), n.pc \in Holding \ {"resolve"}, n.water = w, v = w + n.count,
           \A s \in SpanOf(n) : e[s] = RowOf(n, s),
           \A s \in 1..w : e[s].token <= n.token,
           Ahead(n, w, e), Prior(n, w, e)
    PROVE  Ordered(v, e)
<1>1. /\ n.count \in Nat /\ n.ev \in Int /\ n.upto \in Int /\ n.chunk \in Int /\ n.token \in Nat
      /\ n.upto <= Changes /\ n.count >= 1 /\ n.next \in Int
      /\ n.ev # Bookmark => n.ev >= 1 /\ n.ev + n.count - 1 <= n.chunk /\ n.chunk <= n.upto
      /\ n.pc # "out" /\ n.pc # "resolve"
  BY Zenon DEF Node, Shape, Holding
<1>2. \A s \in 1..v : s \in 1..w \/ s \in (w + 1)..v
  BY JournalAssumption
<1>3. \A s \in (w + 1)..v : /\ e[s].token = n.token
                            /\ n.ev = Bookmark => e[s].src = Bookmark
                            /\ n.ev # Bookmark => e[s].src = n.ev + s - w - 1
  <2>1. \A s \in (w + 1)..v : e[s] = RowOf(n, s)
    BY Zenon DEF SpanOf
  <2>2. ASSUME NEW s \in (w + 1)..v
        PROVE  /\ e[s].token = n.token
               /\ n.ev = Bookmark => e[s].src = Bookmark
               /\ n.ev # Bookmark => e[s].src = n.ev + s - w - 1
    <3>1. e[s] = RowOf(n, s) /\ n.water = w
      BY Zenon, <2>1
    <3>2. /\ e[s].token = n.token
          /\ e[s].src = IF n.ev = Bookmark THEN Bookmark ELSE n.ev + s - w - 1
      BY <3>1 DEF RowOf, SourceOf
    <3> QED BY Zenon, <3>2
  <2> QED BY Zenon, <2>2
<1>4. \A s \in 1..v : e[s].src \in 0..Changes
  <2>1. ASSUME NEW s \in (w + 1)..v PROVE e[s].src \in 0..Changes
    BY <1>1, <1>3, <2>1, JournalAssumption DEF Bookmark
  <2> QED BY Zenon, <1>2, <2>1 DEF Ordered
<1>5. ASSUME NEW s \in 1..v, NEW t \in 1..v, s < t PROVE e[s].token <= e[t].token
  <2>1. CASE t \in 1..w
    <3>1. s \in 1..w
      BY <1>5, <2>1, JournalAssumption
    <3> QED BY Zenon, <1>5, <2>1, <3>1 DEF Ordered
  <2>2. CASE t \in (w + 1)..v
    BY <1>1, <1>2, <1>3, <2>2
  <2> QED BY Zenon, <1>2, <2>1, <2>2
<1>6. ASSUME NEW s \in 1..v, e[s].src # Bookmark, NEW p \in 1..(e[s].src - 1)
      PROVE  \E t \in 1..(s - 1) : e[t].src = p
  <2>1. CASE s \in 1..w
    BY Zenon, <1>6, <2>1 DEF Ordered
  <2>2. CASE s \in (w + 1)..v
    <3>1. n.ev # Bookmark /\ e[s].src = n.ev + s - w - 1 /\ Due(n) = n.ev /\ n.ev <= Changes
      BY <1>1, <1>3, <1>6, <2>2, JournalAssumption DEF Due
    <3>2. CASE p < n.ev
      <4>1. p \in 1..(Due(n) - 1)
        BY <1>1, <3>1, <3>2, <1>6
      <4>2. Seen(p, w, e)
        BY Zenon, <1>1, <3>1, <4>1 DEF Prior
      <4>3. PICK t \in 1..w : e[t].src = p
        BY Zenon, <4>2 DEF Seen
      <4> QED BY <2>2, <4>3, JournalAssumption
    <3>3. CASE p >= n.ev
      <4> DEFINE t == w + 1 + p - n.ev
      <4>1. t \in (w + 1)..v /\ t \in 1..(s - 1)
        BY <1>1, <1>6, <2>2, <3>1, <3>3, JournalAssumption
      <4>2. e[t].src = n.ev + t - w - 1
        BY Zenon, <1>3, <3>1, <4>1
      <4>3. e[t].src = p
        BY <4>2, <1>1, <1>6, <3>1
      <4> QED BY Zenon, <4>1, <4>3
    <3> QED BY <1>1, <3>1, <3>2, <3>3
  <2> QED BY Zenon, <1>2, <2>1, <2>2
<1>7. ASSUME NEW s \in 1..v, NEW t \in 1..v, e[s].src # Bookmark, t # s, e[t].token = e[s].token,
             e[t].src = e[s].src
      PROVE  FALSE
  <2>1. ASSUME NEW i \in 1..w, NEW j \in (w + 1)..v, e[i].token = e[j].token,
               e[i].src = e[j].src, e[i].src # Bookmark
        PROVE  FALSE
    <3>1. n.ev # Bookmark /\ e[j].src = n.ev + j - w - 1 /\ Due(n) = n.ev /\ e[i].token = n.token
      BY Zenon, <1>3, <2>1 DEF Due
    <3>2. e[i].src < n.ev
      BY Zenon, <1>1, <2>1, <3>1 DEF Ahead
    <3> QED BY <1>1, <2>1, <3>1, <3>2
  <2>2. CASE s \in 1..w /\ t \in 1..w
    BY Zenon, <1>7, <2>2 DEF Ordered
  <2>3. CASE s \in 1..w /\ t \in (w + 1)..v
    BY Zenon, <1>7, <2>1, <2>3
  <2>4. CASE s \in (w + 1)..v /\ t \in 1..w
    <3>1. e[t].src # Bookmark
      BY Zenon, <1>7
    <3> QED BY Zenon, <1>7, <2>1, <2>4, <3>1
  <2>5. CASE s \in (w + 1)..v /\ t \in (w + 1)..v
    BY <1>1, <1>3, <1>7, <2>5
  <2> QED BY Zenon, <1>2, <2>2, <2>3, <2>4, <2>5
<1> QED BY Zenon, <1>4, <1>5, <1>6, <1>7 DEF Ordered


-----------------------------------------------------------------------------
(* What a step keeps of the invariant.                                     *)

\* The facts of the invariant that the steps use
LEMMA SourceFacts ==
    ASSUME SourceInv, NEW r \in Replicas
    PROVE  /\ JournalInv /\ node[r] \in Node /\ Shape(node[r]) /\ NodeInv(r, node[r])
           /\ water \in 0..MaxWater /\ events \in Rowset /\ token \in Nat
           /\ progress \in 0..Changes
           /\ ~ adopted => /\ Good(r, node[r], holder, token, water, events)
                           /\ Ordered(water, events)
                           /\ \A p \in 1..progress : Seen(p, water, events)
BY Zenon DEF SourceInv, JournalInv, JournalType, Rowset

\* A replica that does not move keeps what is known of it, if its token is not
\* published by another and the rows of the current leader stay.
LEMMA GoodStays ==
    ASSUME NEW r, NEW n \in Node, NEW h, NEW t, NEW w \in 0..MaxWater, NEW e,
           NEW k, NEW u, NEW v \in 0..MaxWater, NEW f,
           Good(r, n, h, t, w, e), Grown(w, e, v, f), Shape(n),
           \A s \in (w + 1)..v : f[s].token # n.token,
           n.pc \in {"conflict", "settle", "publish", "resolve"} => n.water + n.count <= MaxWater,
           k = r /\ u = n.token =>
             /\ h = r /\ t = n.token /\ v = w
             /\ \A s \in 1..MaxWater : e[s].token = t => f[s] = e[s]
    PROVE  Good(r, n, k, u, v, f)
<1>1. Ahead(n, v, f) /\ Prior(n, v, f)
  BY Zenon, AheadStays, PriorStays DEF Good
<1>2. ASSUME k = r, u = n.token
      PROVE  /\ n.pc \in Holding => v = n.water \/ (n.pc = "resolve" /\ v = n.water + n.count)
             /\ n.pc = "publish" => \A s \in SpanOf(n) : f[s] = RowOf(n, s)
             /\ n.pc = "settle" /\ n.old.token = n.token => f[n.water + 1] = n.old
  <2>1. /\ h = r /\ t = n.token /\ v = w
        /\ \A s \in 1..MaxWater : e[s].token = t => f[s] = e[s]
    BY Zenon, <1>2
  <2>2. /\ n.pc \in Holding => w = n.water \/ (n.pc = "resolve" /\ w = n.water + n.count)
        /\ n.pc = "publish" => \A s \in SpanOf(n) : e[s] = RowOf(n, s)
        /\ n.pc = "settle" /\ n.old.token = n.token => e[n.water + 1] = n.old
    BY Zenon, <2>1 DEF Good, Steady
  <2>3. n.water \in Nat /\ n.count \in Nat
    BY Zenon DEF Node
  <2>4. ASSUME n.pc = "publish", NEW s \in SpanOf(n) PROVE f[s] = RowOf(n, s)
    <3>1. s \in 1..MaxWater
      BY <2>3, <2>4, JournalAssumption DEF SpanOf
    <3>2. e[s] = RowOf(n, s)
      BY Zenon, <2>2, <2>4
    <3>3. e[s].token = n.token
      BY <3>2 DEF RowOf
    <3> QED BY Zenon, <2>1, <3>1, <3>2, <3>3
  <2>5. ASSUME n.pc = "settle", n.old.token = n.token PROVE f[n.water + 1] = n.old
    <3>1. n.count >= 1
      BY Zenon, <2>5 DEF Shape, Holding
    <3>2. n.water + 1 \in 1..MaxWater
      BY <2>3, <2>5, <3>1, JournalAssumption
    <3>3. e[n.water + 1] = n.old /\ e[n.water + 1].token = t
      BY Zenon, <2>1, <2>2, <2>5
    <3> QED BY Zenon, <2>1, <3>2, <3>3
  <2> QED BY Zenon, <2>1, <2>2, <2>4, <2>5
<1> QED BY Zenon, <1>1, <1>2 DEF Good, Steady

\* A step of one replica that leaves the lease and the high water alone and the
\* rows of the current leader as they are.
LEMMA MoveStep ==
    ASSUME SourceInv, JournalInv', Kept, NEW r \in Replicas, NEW n \in Node, Set(r, n),
           n.pc = "out" \/ (n.token = node[r].token /\ node[r].pc # "out"), Shape(n),
           n.pc = "out" => n.token = 0,
           UNCHANGED clockVars, adopted => adopted', progress' \in 0..Changes,
           \A s \in 1..MaxWater : events[s].token = token => events'[s] = events[s],
           adopted' \/ /\ Good(r, n, holder, token, water, events')
                       /\ \A p \in 1..progress' : Seen(p, water, events)
    PROVE  SourceInv'
<1>1. /\ node' \in [Replicas -> Node]
      /\ node'[r] = n
      /\ \A q \in Replicas : q # r => node'[q] = node[q]
  BY Zenon, SetNode DEF SourceInv, JournalInv, JournalType
<1>2. \A q \in Replicas : Shape(node'[q])
  BY Zenon, <1>1 DEF SourceInv
<1>3. Distinct(node')
  <2> SUFFICES ASSUME NEW p \in Replicas, NEW q \in Replicas, p # q, node'[p].pc # "out"
               PROVE  node'[p].token # node'[q].token
    BY Zenon DEF Distinct
  <2>1. \A i \in Replicas : node[i].pc # "out" => node[i].token >= 1
    BY Zenon DEF SourceInv, JournalInv, NodeInv, Bounds
  <2>2. CASE p # r /\ q # r
    BY ZenonT(30), <1>1, <2>2 DEF SourceInv, Distinct
  <2>3. CASE p = r
    BY Zenon, <1>1, <2>3 DEF SourceInv, Distinct
  <2>4. CASE q = r /\ n.pc # "out"
    BY Zenon, <1>1, <2>4 DEF SourceInv, Distinct
  <2>5. CASE q = r /\ n.pc = "out"
    BY <1>1, <2>1, <2>5
  <2> QED BY Zenon, <2>2, <2>3, <2>4, <2>5
<1>4. water' = water /\ holder' = holder /\ token' = token
  BY Zenon DEF clockVars
<1>5. ASSUME ~ adopted'
      PROVE  /\ \A q \in Replicas : Good(q, node'[q], holder', token', water', events')
             /\ Ordered(water', events')
             /\ \A p \in 1..progress' : Seen(p, water', events')
  <2>1. ~ adopted /\ water \in 0..MaxWater
    BY Zenon, <1>5, SourceFacts
  <2>2. Grown(water, events, water, events')
    BY <1>5, <2>1 DEF Kept, Grown, Published
  <2>3. Ordered(water', events')
    BY Zenon, <1>4, <2>1, <2>2, OrderedStays, SourceFacts
  <2>4. \A p \in 1..progress' : Seen(p, water', events')
    BY Zenon, <1>4, <1>5, <2>1, <2>2, SeenStays
  <2>5. ASSUME NEW q \in Replicas, q # r
        PROVE  Good(q, node[q], holder, token, water, events')
    <3>1. /\ node[q] \in Node /\ Shape(node[q]) /\ Good(q, node[q], holder, token, water, events)
          /\ NodeInv(q, node[q])
      BY Zenon, <2>1, SourceFacts
    <3>2. \A s \in (water + 1)..water : events'[s].token # node[q].token
      BY <2>1, JournalAssumption
    <3>3. node[q].pc \in {"conflict", "settle", "publish", "resolve"}
             => node[q].water + node[q].count <= MaxWater
      BY Zenon, <3>1 DEF NodeInv, Bounds
    <3> QED BY Zenon, <2>1, <2>2, <3>1, <3>2, <3>3, GoodStays
  <2> QED BY Zenon, <1>1, <1>4, <1>5, <2>3, <2>4, <2>5
<1> QED BY Zenon, <1>2, <1>3, <1>5 DEF SourceInv


-----------------------------------------------------------------------------
(* Where a step leaves its replica.                                        *)

\* The leader after a failed append
FailedTo(m, n) ==
    /\ n.token = m.token /\ n.pc = "idle" /\ n.ev = Bookmark /\ n.upto = 0
    /\ n.next = IF m.ev = Bookmark THEN m.next ELSE Changes + 1
    /\ n.unsaved = m.unsaved

\* The leader after a published append: the checkpoint, the batch or the chunk is next.
AppendedTo(m, n) ==
    /\ n.token = m.token
    /\ \/ /\ m.ev = Bookmark /\ n.pc = "idle" /\ n.ev = Bookmark /\ n.upto = 0
          /\ n.next = m.next /\ n.unsaved = m.unsaved
       \/ /\ m.ev # Bookmark /\ n.pc = "idle" /\ n.ev = Bookmark /\ n.upto = 0
          /\ n.next = m.ev + m.count /\ n.next > m.upto /\ n.unsaved = m.upto
       \/ /\ m.ev # Bookmark /\ n.ev = m.ev + m.count /\ n.upto = m.upto /\ n.chunk = m.chunk
          /\ n.next = m.next /\ n.unsaved = m.unsaved
          /\ \/ n.pc = "load" /\ n.ev <= m.chunk
             \/ n.pc = "batch" /\ n.ev <= m.upto

\* The same append at another step
SameAppend(m, n) ==
    /\ n.token = m.token /\ n.next = m.next /\ n.unsaved = m.unsaved /\ n.ev = m.ev
    /\ n.chunk = m.chunk /\ n.upto = m.upto /\ n.count = m.count /\ n.water = m.water
    /\ n.old = m.old

\* An idle leader, field by field
LEMMA IdleFields ==
    ASSUME JournalInv, NEW r \in Replicas, NEW next \in Int, NEW unsaved \in Int
    PROVE  /\ Idle(r, next, unsaved) \in Node
           /\ Idle(r, next, unsaved).pc = "idle"
           /\ Idle(r, next, unsaved).token = node[r].token
           /\ Idle(r, next, unsaved).ev = Bookmark
           /\ Idle(r, next, unsaved).upto = 0
           /\ Idle(r, next, unsaved).next = next
           /\ Idle(r, next, unsaved).unsaved = unsaved
<1>1. Idle(r, next, unsaved) \in Node
  BY Zenon, IdleNode
<1> QED BY Zenon, <1>1 DEF Idle, Between, Bookmark

\* A failed append
LEMMA FailedFields ==
    ASSUME JournalInv, NEW r \in Replicas, Failed(r)
    PROVE  \E n \in Node : Set(r, n) /\ FailedTo(node[r], n)
<1> DEFINE next == IF node[r].ev = Bookmark THEN node[r].next ELSE Changes + 1
<1>1. next \in Int /\ node[r].unsaved \in Int
  BY JournalAssumption DEF JournalInv, JournalType, Node
<1>2. Set(r, Idle(r, next, node[r].unsaved))
  BY Zenon DEF Failed
<1>3. next = IF node[r].ev = Bookmark THEN node[r].next ELSE Changes + 1
  OBVIOUS
<1> HIDE DEF next
<1>4. PICK n : n = Idle(r, next, node[r].unsaved)
  OBVIOUS
<1>5. /\ n \in Node /\ n.pc = "idle" /\ n.token = node[r].token /\ n.ev = Bookmark
      /\ n.upto = 0 /\ n.next = next /\ n.unsaved = node[r].unsaved
  BY <1>1, <1>4, IdleFields
<1>6. FailedTo(node[r], n)
  BY Zenon, <1>3, <1>5 DEF FailedTo
<1> QED BY Zenon, <1>2, <1>4, <1>5, <1>6

\* A published append
LEMMA AppendedFields ==
    ASSUME JournalInv, NEW r \in Replicas, Appended(r)
    PROVE  \E n \in Node : Set(r, n) /\ AppendedTo(node[r], n)
<1> DEFINE ev == node[r].ev + node[r].count
<1>1. node[r] \in Node
  BY Zenon DEF JournalInv, JournalType
<1>2. /\ ev \in Int /\ node[r].next \in Int /\ node[r].unsaved \in Int /\ node[r].upto \in Int
      /\ ev = node[r].ev + node[r].count
  BY <1>1 DEF Node
<1>3. CASE node[r].ev = Bookmark
  <2>1. Set(r, Idle(r, node[r].next, node[r].unsaved))
    BY Zenon, <1>3 DEF Appended
  <2>2. PICK n : n = Idle(r, node[r].next, node[r].unsaved)
    OBVIOUS
  <2>3. /\ n \in Node /\ n.pc = "idle" /\ n.token = node[r].token /\ n.ev = Bookmark
        /\ n.upto = 0 /\ n.next = node[r].next /\ n.unsaved = node[r].unsaved
    BY <1>2, <2>2, IdleFields
  <2> QED BY Zenon, <1>3, <2>1, <2>2, <2>3 DEF AppendedTo
<1>4. CASE node[r].ev # Bookmark /\ ev <= node[r].chunk
  <2> DEFINE n == [node[r] EXCEPT !.pc = "load", !.ev = ev]
  <2>1. /\ n \in Node /\ n.pc = "load" /\ n.token = node[r].token /\ n.ev = ev
        /\ n.next = node[r].next /\ n.unsaved = node[r].unsaved /\ n.chunk = node[r].chunk
        /\ n.upto = node[r].upto
    BY ZenonT(60), <1>1, <1>2 DEF Node, Pcs
  <2>2. Set(r, n)
    BY Zenon, <1>4 DEF Appended
  <2> HIDE DEF n, ev
  <2> QED BY Zenon, <1>2, <1>4, <2>1, <2>2 DEF AppendedTo
<1>5. CASE node[r].ev # Bookmark /\ ~ (ev <= node[r].chunk) /\ ev <= node[r].upto
  <2> DEFINE n == [node[r] EXCEPT !.pc = "batch", !.ev = ev]
  <2>1. /\ n \in Node /\ n.pc = "batch" /\ n.token = node[r].token /\ n.ev = ev
        /\ n.next = node[r].next /\ n.unsaved = node[r].unsaved /\ n.chunk = node[r].chunk
        /\ n.upto = node[r].upto
    BY ZenonT(60), <1>1, <1>2 DEF Node, Pcs
  <2>2. Set(r, n)
    BY Zenon, <1>5 DEF Appended
  <2> HIDE DEF n, ev
  <2> QED BY Zenon, <1>2, <1>5, <2>1, <2>2 DEF AppendedTo
<1>6. CASE node[r].ev # Bookmark /\ ~ (ev <= node[r].chunk) /\ ~ (ev <= node[r].upto)
  <2>1. Set(r, Idle(r, ev, node[r].upto))
    BY Zenon, <1>6 DEF Appended
  <2>2. PICK n : n = Idle(r, ev, node[r].upto)
    OBVIOUS
  <2>3. ev > node[r].upto
    BY <1>2, <1>6
  <2> HIDE DEF ev
  <2>4. /\ n \in Node /\ n.pc = "idle" /\ n.token = node[r].token /\ n.ev = Bookmark
        /\ n.upto = 0 /\ n.next = ev /\ n.unsaved = node[r].upto
    BY <1>2, <2>2, IdleFields
  <2> QED BY Zenon, <1>2, <1>6, <2>1, <2>2, <2>3, <2>4 DEF AppendedTo
<1> QED
  BY Zenon, <1>3, <1>4, <1>5, <1>6

\* Another step of the same append
LEMMA GotoFields ==
    ASSUME JournalInv, NEW r \in Replicas, NEW pc \in Pcs, Goto(r, pc)
    PROVE  \E n \in Node : Set(r, n) /\ n.pc = pc /\ SameAppend(node[r], n)
<1> DEFINE n == [node[r] EXCEPT !.pc = pc]
<1>1. node[r] \in Node
  BY Zenon DEF JournalInv, JournalType
<1>2. n \in Node /\ n.pc = pc /\ SameAppend(node[r], n)
  BY ZenonT(60), <1>1 DEF Node, SameAppend
<1> QED
  BY Zenon, <1>2 DEF Goto


-----------------------------------------------------------------------------
(* What is known of a replica after its step.                              *)

\* As long as the next change stays the same, so does what is known about it.
LEMMA SameDue ==
    ASSUME NEW m \in Node, NEW n \in Node, NEW w, NEW e, m.pc # "out", m.pc # "resolve",
           n.token = m.token, n.unsaved = m.unsaved, Due(n) = Due(m),
           Ahead(m, w, e), Prior(m, w, e)
    PROVE  Ahead(n, w, e) /\ Prior(n, w, e)
BY Zenon DEF Ahead, Prior

\* A leader that works from no high water has nothing to hold on to.
LEMMA SteadyQuiet ==
    ASSUME NEW r, NEW n \in Node, NEW h, NEW t, NEW w, NEW e, n.pc \notin Holding
    PROVE  Steady(r, n, h, t, w, e)
BY Zenon DEF Steady, Holding

\* After a failed append the thread of the changes is over.
LEMMA FailedGood ==
    ASSUME NEW r, NEW m \in Node, NEW n \in Node, NEW h, NEW t, NEW w, NEW e,
           m.pc # "out", FailedTo(m, n), Ahead(m, w, e), Prior(m, w, e), Ordered(w, e)
    PROVE  Good(r, n, h, t, w, e)
<1>1. Steady(r, n, h, t, w, e)
  BY Zenon, SteadyQuiet DEF FailedTo, Holding
<1>2. CASE m.ev = Bookmark
  <2>1. Due(n) = Due(m) /\ n.token = m.token /\ n.unsaved = m.unsaved /\ n.pc = "idle"
    BY Zenon, <1>2 DEF FailedTo, Due
  <2>2. Ahead(n, w, e) /\ Prior(n, w, e)
    BY Zenon, <1>2, <2>1 DEF Ahead, Prior
  <2> QED BY Zenon, <1>1, <2>2 DEF Good
<1>3. CASE m.ev # Bookmark
  <2>1. Due(n) = Changes + 1 /\ n.unsaved = m.unsaved
    BY Zenon, <1>3 DEF FailedTo, Due
  <2>2. \A s \in 1..w : e[s].src < Due(n)
    BY <2>1, JournalAssumption DEF Ordered
  <2>3. ~ (Due(n) <= Changes)
    BY <2>1, JournalAssumption
  <2>4. Ahead(n, w, e) /\ Prior(n, w, e)
    BY Zenon, <2>1, <2>2, <2>3 DEF Ahead, Prior
  <2> QED BY Zenon, <1>1, <2>4 DEF Good
<1> QED BY Zenon, <1>2, <1>3

\* And the state of the replica is well formed.
LEMMA FailedShape ==
    ASSUME NEW m \in Node, NEW n \in Node, m.pc # "out", Shape(m), FailedTo(m, n)
    PROVE  Shape(n)
BY JournalAssumption DEF Shape, FailedTo, Holding, Bookmark

\* The published rows of an append are the changes before the next one.
LEMMA AppendedGood ==
    ASSUME NEW r, NEW m \in Node, NEW n \in Node, NEW h, NEW t, NEW w \in 0..MaxWater, NEW e \in Rowset,
           m.pc \in {"publish", "resolve"}, AppendedTo(m, n), Shape(m), m.water + m.count <= w,
           \A s \in SpanOf(m) : e[s].src = SourceOf(m, s),
           Prior(m, w, e), Ahead([m EXCEPT !.pc = "resolve"], w, e)
    PROVE  Good(r, n, h, t, w, e)
<1> DEFINE a == [m EXCEPT !.pc = "resolve"]
<1>1. /\ a.pc = "resolve" /\ a.token = m.token /\ a.ev = m.ev /\ Due(a) = Due(m)
      /\ SpanOf(a) = SpanOf(m)
  BY Zenon DEF Node, Due, SpanOf
<1> HIDE DEF a
<1>2. /\ m.ev \in Int /\ m.count \in Nat /\ m.water \in Nat /\ m.upto \in Int /\ m.chunk \in Int
      /\ m.count >= 1 /\ m.upto <= Changes /\ m.pc # "out" /\ m.next \in Int
      /\ m.ev # Bookmark => m.ev >= 1 /\ m.ev <= m.upto /\ m.chunk <= m.upto
                              /\ m.ev + m.count - 1 <= m.chunk
  BY Zenon DEF Node, Shape, Holding
<1>3. Steady(r, n, h, t, w, e)
  BY Zenon, SteadyQuiet DEF AppendedTo, Holding
<1>4. \A s \in 1..w : /\ e[s].token = m.token /\ e[s].src # Bookmark
                      /\ m.ev # Bookmark => s \notin SpanOf(m)
                      => e[s].src < Due(m)
  BY Zenon, <1>1 DEF Ahead, a
<1>5. CASE m.ev = Bookmark
  <2>1. Due(n) = Due(m) /\ n.token = m.token /\ n.unsaved = m.unsaved
    BY Zenon, <1>5 DEF AppendedTo, Due
  <2>2. Ahead(n, w, e) /\ Prior(n, w, e)
    BY Zenon, <1>2, <1>4, <1>5, <2>1 DEF Ahead, Prior
  <2> QED BY Zenon, <1>3, <2>2 DEF Good
<1>6. CASE m.ev # Bookmark
  <2>1. Due(m) = m.ev /\ Due(n) = m.ev + m.count /\ n.token = m.token
    BY <1>2, <1>6 DEF AppendedTo, Due, Bookmark
  <2>2. \A s \in SpanOf(m) : s \in 1..w /\ e[s].src = m.ev + s - m.water - 1
    BY <1>2, <1>6, JournalAssumption DEF SpanOf, SourceOf
  <2>3. ASSUME NEW s \in 1..w, e[s].token = m.token, e[s].src # Bookmark
        PROVE  e[s].src < Due(n)
    <3>1. CASE s \in SpanOf(m)
      BY <1>2, <2>1, <2>2, <3>1 DEF SpanOf
    <3>2. CASE s \notin SpanOf(m)
      <4>1. e[s].src < m.ev
        BY Zenon, <1>4, <2>1, <2>3, <3>2
      <4>2. e[s].src \in Int
        BY JournalAssumption DEF Rowset, Row
      <4> QED BY <1>2, <2>1, <4>1, <4>2
    <3> QED BY Zenon, <3>1, <3>2
  <2>4. ASSUME NEW p \in 1..(m.ev + m.count - 1) PROVE Seen(p, w, e)
    <3>1. CASE p < m.ev
      <4>1. p \in 1..(Due(m) - 1) /\ Due(m) <= Changes
        BY <1>2, <1>6, <2>1, <2>4, <3>1, JournalAssumption
      <4> QED BY Zenon, <1>2, <4>1 DEF Prior
    <3>2. CASE p >= m.ev
      <4> DEFINE s == m.water + 1 + p - m.ev
      <4>1. s \in SpanOf(m)
        BY <1>2, <1>6, <2>4, <3>2 DEF SpanOf
      <4>2. s \in 1..w /\ e[s].src = m.ev + s - m.water - 1
        BY Zenon, <2>2, <4>1
      <4>3. e[s].src = p
        BY <1>2, <2>4, <4>2
      <4> HIDE DEF s
      <4> QED BY Zenon, <4>2, <4>3 DEF Seen
    <3> QED BY <1>2, <2>4, <3>1, <3>2
  <2>5. Ahead(n, w, e)
    BY Zenon, <2>1, <2>3 DEF Ahead
  <2>6. \A p \in 1..n.unsaved : Seen(p, w, e)
    <3>1. CASE n.unsaved = m.unsaved
      BY Zenon, <3>1 DEF Prior
    <3>2. CASE n.unsaved = m.upto /\ m.ev + m.count > m.upto
      <4>1. \A p \in 1..n.unsaved : p \in 1..(m.ev + m.count - 1)
        BY <1>2, <3>2
      <4> QED BY Zenon, <2>4, <4>1
    <3> QED BY Zenon, <1>6, <3>1, <3>2 DEF AppendedTo
  <2>7. Prior(n, w, e)
    <3>1. \A p \in 1..(Due(n) - 1) : p \in 1..(m.ev + m.count - 1)
      BY <1>2, <2>1
    <3>2. \A p \in 1..(Due(n) - 1) : Seen(p, w, e)
      BY Zenon, <2>4, <3>1
    <3> QED BY Zenon, <2>6, <3>2 DEF Prior
  <2> QED BY Zenon, <1>3, <2>5, <2>7 DEF Good
<1> QED BY Zenon, <1>5, <1>6

\* And the state of the replica is well formed.
LEMMA AppendedShape ==
    ASSUME NEW m \in Node, NEW n \in Node, m.pc \in {"publish", "resolve"}, Shape(m),
           AppendedTo(m, n)
    PROVE  Shape(n)
<1>1. m.ev \in Int /\ m.count \in Nat /\ m.count >= 1 /\ m.upto \in Int /\ m.chunk \in Int
  BY Zenon DEF Shape, Node, Holding
<1> QED BY <1>1, JournalAssumption DEF Shape, AppendedTo, Holding, Bookmark


-----------------------------------------------------------------------------
(* The steps.                                                              *)

\* The rows of the current leader stay.
LeaderRowsStay == \A s \in 1..MaxWater : events[s].token = token => events'[s] = events[s]

\* The published rows stay where the high water does.
LEMMA GrownStep ==
    ASSUME SourceInv, Kept, ~ adopted', UNCHANGED clockVars
    PROVE  /\ Grown(water, events, water, events')
           /\ \A s \in (water + 1)..water : FALSE
<1>1. water \in 0..MaxWater
  BY Zenon DEF SourceInv, JournalInv, JournalType
<1> QED BY <1>1, JournalAssumption DEF Kept, Grown, Published

\* A step to a quiet place
LEMMA QuietMove ==
    ASSUME SourceInv, JournalInv', Kept, NEW r \in Replicas, NEW n \in Node, Set(r, n),
           node[r].pc # "out", n.token = node[r].token, n.pc \in {"idle", "load", "batch"}, Shape(n),
           UNCHANGED clockVars, progress' = progress, adopted => adopted', LeaderRowsStay,
           adopted' \/ (Ahead(n, water, events) /\ Prior(n, water, events))
    PROVE  SourceInv'
<1>1. /\ n.pc \notin Holding /\ n.pc # "out"
  BY Zenon DEF Holding
<1>2. progress' \in 0..Changes
  BY Zenon DEF SourceInv
<1>3. ASSUME ~ adopted'
      PROVE  /\ Good(r, n, holder, token, water, events')
             /\ \A p \in 1..progress' : Seen(p, water, events)
  <2>1. Grown(water, events, water, events') /\ \A s \in (water + 1)..water : FALSE
    BY Zenon, <1>3, GrownStep
  <2>2. water \in 0..MaxWater /\ ~ adopted
    BY Zenon, <1>3, SourceFacts
  <2>3. Prior(n, water, events')
    BY Zenon, <1>3, <2>1, <2>2, PriorStays
  <2>4. Ahead(n, water, events')
    BY Zenon, <1>3, <2>1, <2>2, AheadStays
  <2>5. Steady(r, n, holder, token, water, events')
    BY Zenon, <1>1, SteadyQuiet
  <2>6. \A p \in 1..progress' : Seen(p, water, events)
    BY Zenon, <2>2, SourceFacts
  <2> QED BY Zenon, <2>3, <2>4, <2>5, <2>6 DEF Good
<1> QED BY Zenon, <1>1, <1>2, <1>3, MoveStep DEF LeaderRowsStay

\* A failed append
LEMMA FailedMove ==
    ASSUME SourceInv, JournalInv', Kept, NEW r \in Replicas, node[r].pc # "out", Failed(r),
           UNCHANGED clockVars, progress' = progress, adopted => adopted', LeaderRowsStay
    PROVE  SourceInv'
<1>1. node[r] \in Node /\ Shape(node[r]) /\ JournalInv
  BY Zenon, SourceFacts
<1>2. PICK n \in Node : Set(r, n) /\ FailedTo(node[r], n)
  BY Zenon, <1>1, FailedFields
<1>3. Shape(n)
  BY Zenon, <1>1, <1>2, FailedShape
<1>4. n.token = node[r].token /\ n.pc = "idle"
  BY Zenon, <1>2 DEF FailedTo
<1>5. ASSUME ~ adopted' PROVE Ahead(n, water, events) /\ Prior(n, water, events)
  <2>1. Good(r, node[r], holder, token, water, events) /\ Ordered(water, events)
    BY Zenon, <1>5, SourceFacts
  <2>2. Good(r, n, holder, token, water, events)
    BY Zenon, <1>1, <1>2, <2>1, FailedGood DEF Good
  <2> QED BY Zenon, <2>2 DEF Good
<1> QED BY Zenon, <1>2, <1>3, <1>4, <1>5, QuietMove

\* An append that starts over
LEMMA RestartMove ==
    ASSUME SourceInv, JournalInv', Kept, NEW r \in Replicas, Goto(r, "load"),
           node[r].pc \in Holding, node[r].pc = "resolve" => adopted \/ water = node[r].water,
           UNCHANGED clockVars, progress' = progress, adopted => adopted', LeaderRowsStay
    PROVE  SourceInv'
<1> DEFINE m == node[r]
<1>1. m \in Node /\ Shape(m) /\ JournalInv /\ "load" \in Pcs
  BY Zenon, SourceFacts DEF Pcs
<1>2. PICK n \in Node : Set(r, n) /\ n.pc = "load" /\ SameAppend(m, n)
  BY Zenon, <1>1, GotoFields
<1>3. m.pc # "out" /\ m.pc # "batch"
  BY Zenon DEF Holding
<1>4. Shape(n)
  BY Zenon, <1>1, <1>2, <1>3 DEF Shape, SameAppend, Holding
<1>5. n.token = m.token /\ n.unsaved = m.unsaved /\ Due(n) = Due(m)
  BY Zenon, <1>2 DEF SameAppend, Due
<1>6. ASSUME ~ adopted' PROVE Ahead(n, water, events) /\ Prior(n, water, events)
  <2>1. Ahead(m, water, events) /\ Prior(m, water, events)
    BY Zenon, <1>6, SourceFacts DEF Good
  <2>2. CASE m.pc # "resolve"
    BY Zenon, <1>1, <1>3, <1>5, <2>1, <2>2, SameDue
  <2>3. CASE m.pc = "resolve"
    <3>1. water = m.water
      BY Zenon, <1>6, <2>3
    <3>2. \A s \in 1..water : s \notin SpanOf(m)
      BY <1>1, <3>1 DEF SpanOf, Node
    <3> QED BY Zenon, <1>2, <1>3, <1>5, <2>1, <3>2 DEF Ahead, Prior
  <2> QED BY Zenon, <2>2, <2>3
<1> QED BY Zenon, <1>2, <1>3, <1>4, <1>5, <1>6, QuietMove


\* A step to a place that works from the high water
LEMMA HoldingMove ==
    ASSUME SourceInv, JournalInv', Kept, NEW r \in Replicas, NEW n \in Node, Set(r, n),
           node[r].pc # "out", node[r].pc # "resolve", n.token = node[r].token,
           n.unsaved = node[r].unsaved, Due(n) = Due(node[r]), n.pc # "out", Shape(n),
           UNCHANGED clockVars, progress' = progress, adopted => adopted', LeaderRowsStay,
           adopted' \/ Steady(r, n, holder, token, water, events')
    PROVE  SourceInv'
<1>1. progress' \in 0..Changes
  BY Zenon DEF SourceInv
<1>2. ASSUME ~ adopted'
      PROVE  /\ Good(r, n, holder, token, water, events')
             /\ \A p \in 1..progress' : Seen(p, water, events)
  <2>1. Grown(water, events, water, events') /\ \A s \in (water + 1)..water : FALSE
    BY Zenon, <1>2, GrownStep
  <2>2. /\ water \in 0..MaxWater /\ ~ adopted /\ node[r] \in Node
        /\ Good(r, node[r], holder, token, water, events)
    BY Zenon, <1>2, SourceFacts
  <2>3. Ahead(n, water, events) /\ Prior(n, water, events)
    BY Zenon, <2>2, SameDue DEF Good
  <2>4. Prior(n, water, events')
    BY Zenon, <2>1, <2>2, <2>3, PriorStays
  <2>5. Ahead(n, water, events')
    BY Zenon, <2>1, <2>2, <2>3, AheadStays
  <2>6. \A p \in 1..progress' : Seen(p, water, events)
    BY Zenon, <2>2, SourceFacts
  <2> QED BY Zenon, <1>2, <2>4, <2>5, <2>6 DEF Good
<1> QED BY Zenon, <1>1, <1>2, MoveStep DEF LeaderRowsStay

\* A new leader goes on after the published frontier.
LEMMA AcquireSource ==
    ASSUME SourceInv, JournalInv', Kept, NEW r \in Replicas, Acquire(r)
    PROVE  SourceInv'
<1>1. /\ water' = water /\ events' = events /\ progress' = progress /\ adopted' = adopted
      /\ token' = token + 1 /\ holder' = r /\ token \in Nat /\ node[r].pc = "out"
      /\ progress \in 0..Changes /\ water \in 0..MaxWater
  BY Zenon, SourceFacts DEF Acquire
<1>2. \A q \in Replicas : /\ node[q] \in Node /\ Shape(node[q]) /\ node[q].token <= token
                          /\ node[q].token \in Nat /\ NodeInv(q, node[q])
  BY Zenon DEF SourceInv, JournalInv, JournalType, NodeInv, Bounds, Node
<1>3. ~ adopted => Grown(water, events, water, events)
  BY <1>1, JournalAssumption DEF Grown
<1>4. ASSUME NEW q \in Replicas, ~ adopted
      PROVE  Good(q, node[q], r, token', water, events)
  <2>1. Good(q, node[q], holder, token, water, events)
    BY Zenon, <1>4, SourceFacts
  <2>2. token' # node[q].token
    BY <1>1, <1>2
  <2> QED BY Zenon, <2>1, <2>2 DEF Good, Steady
<1>5. CASE UNCHANGED node
  <2>1. \A q \in Replicas : Shape(node'[q])
    BY Zenon, <1>2, <1>5
  <2>2. Distinct(node')
    BY Zenon, <1>5 DEF SourceInv, Distinct
  <2>3. adopted' \/ \A q \in Replicas : Good(q, node'[q], holder', token', water', events')
    BY Zenon, <1>1, <1>4, <1>5
  <2>4. \/ adopted'
        \/ /\ \A q \in Replicas : Good(q, node'[q], holder', token', water', events')
           /\ Ordered(water', events') /\ \A p \in 1..progress' : Seen(p, water', events')
    BY Zenon, <1>1, <2>3 DEF SourceInv
  <2> QED BY Zenon, <1>1, <2>1, <2>2, <2>4 DEF SourceInv
<1>6. CASE Set(r, Between("idle", token + 1, progress + 1, 0))
  <2>1. PICK n : n = Between("idle", token + 1, progress + 1, 0)
    OBVIOUS
  <2>2. /\ n \in Node /\ n.pc = "idle" /\ n.token = token' /\ n.ev = Bookmark /\ n.upto = 0
        /\ n.next = progress + 1 /\ n.unsaved = 0
    <3>1. NoRow \in Row
      BY DEF NoRow, Row
    <3> QED BY <1>1, <2>1, <3>1, JournalAssumption DEF Between, Node, Pcs, Bookmark
  <2>3. Shape(n)
    BY <1>1, <2>2, JournalAssumption DEF Shape, Holding, Bookmark
  <2>4. Set(r, n)
    BY Zenon, <1>6, <2>1
  <2>5. node'[r] = n /\ \A q \in Replicas : q # r => node'[q] = node[q]
    BY Zenon, <2>2, <2>4, SetNode DEF SourceInv, JournalInv, JournalType
  <2>6. Distinct(node')
    <3>1. \A q \in Replicas : node[q].token # token'
      BY <1>1, <1>2
    <3> QED BY Zenon, <2>2, <2>5, <3>1 DEF SourceInv, Distinct
  <2>7. \A q \in Replicas : Shape(node'[q])
    BY Zenon, <1>2, <2>3, <2>5
  <2>8. ASSUME ~ adopted PROVE Good(r, n, r, token', water, events)
    <3>1. Steady(r, n, r, token', water, events)
      BY Zenon, <2>2, SteadyQuiet DEF Holding
    <3>2. Due(n) = progress + 1
      BY Zenon, <2>2 DEF Due
    <3>3. \A s \in 1..water : events[s].token # n.token
      BY <1>1, <2>2, JournalAssumption DEF SourceInv, JournalInv, JournalType, Row
    <3>4. Ahead(n, water, events)
      BY Zenon, <3>3 DEF Ahead
    <3>5. /\ \A p \in 1..(Due(n) - 1) : p \in 1..progress
          /\ \A p \in 1..n.unsaved : FALSE
      BY <1>1, <2>2, <3>2, JournalAssumption
    <3>6. Prior(n, water, events)
      BY Zenon, <2>8, <3>5 DEF Prior, SourceInv
    <3> QED BY Zenon, <3>1, <3>4, <3>6 DEF Good
  <2>9. \/ adopted'
        \/ /\ \A q \in Replicas : Good(q, node'[q], holder', token', water', events')
           /\ Ordered(water', events') /\ \A p \in 1..progress' : Seen(p, water', events')
    BY Zenon, <1>1, <1>4, <2>5, <2>8 DEF SourceInv
  <2> QED BY Zenon, <1>1, <2>6, <2>7, <2>9 DEF SourceInv
<1> QED BY Zenon, <1>5, <1>6 DEF Acquire

\* The lease is given up.
LEMMA ReleaseSource ==
    ASSUME SourceInv, JournalInv', NEW r \in Replicas, Release(r)
    PROVE  SourceInv'
<1>1. /\ water' = water /\ events' = events /\ progress' = progress /\ adopted' = adopted
      /\ node' = node /\ token' = token /\ holder' = Nobody
  BY Zenon DEF Release
<1>2. ASSUME NEW q \in Replicas, ~ adopted
      PROVE  Good(q, node[q], Nobody, token, water, events)
  <2>1. Good(q, node[q], holder, token, water, events)
    BY Zenon, <1>2, SourceFacts
  <2>2. Nobody # q
    BY Zenon, JournalAssumption
  <2> QED BY Zenon, <2>1, <2>2 DEF Good, Steady
<1>3. \/ adopted'
      \/ /\ \A q \in Replicas : Good(q, node'[q], holder', token', water', events')
         /\ Ordered(water', events') /\ \A p \in 1..progress' : Seen(p, water', events')
  BY Zenon, <1>1, <1>2 DEF SourceInv
<1>4. Distinct(node')
  BY Zenon, <1>1 DEF SourceInv
<1> QED BY Zenon, <1>1, <1>3, <1>4 DEF SourceInv


\* A leader stops, or its process dies.
LEMMA StepDownSource ==
    ASSUME SourceInv, JournalInv', Kept, NEW r \in Replicas, StepDown(r)
    PROVE  SourceInv'
<1>1. Out \in Node /\ Out.pc = "out" /\ Out.token = 0 /\ Out.unsaved = 0 /\ Out.ev = 0 /\ Out.upto = 0
  <2>1. NoRow \in Row
    BY DEF NoRow, Row
  <2> QED BY <2>1 DEF Out, Between, Node, Pcs
<1>2. Shape(Out)
  BY <1>1, JournalAssumption DEF Shape, Holding, Bookmark
<1>3. \A w, e : Prior(Out, w, e) /\ Ahead(Out, w, e)
  BY <1>1 DEF Prior, Ahead
<1>4. Steady(r, Out, holder, token, water, events')
  BY Zenon, <1>1, SteadyQuiet DEF Holding
<1>5. /\ UNCHANGED clockVars /\ events' = events /\ adopted' = adopted /\ progress' = progress
      /\ Set(r, Out) /\ progress \in 0..Changes
  BY Zenon DEF StepDown, SourceInv
<1>6. adopted' \/ \A p \in 1..progress' : Seen(p, water, events)
  BY Zenon, <1>5 DEF SourceInv
<1> QED BY Zenon, <1>1, <1>2, <1>3, <1>4, <1>5, <1>6, MoveStep DEF Good

\* A bookmark leaves the thread of the changes where it is.
LEMMA AppendBookmarkSource ==
    ASSUME SourceInv, JournalInv', Kept, NEW r \in Replicas, AppendBookmark(r)
    PROVE  SourceInv'
<1> DEFINE m == node[r]
           n == [m EXCEPT !.pc = "load", !.ev = Bookmark, !.chunk = Bookmark, !.upto = Bookmark]
<1>1. m \in Node /\ Shape(m) /\ m.pc = "idle"
  BY Zenon, SourceFacts DEF AppendBookmark
<1>2. Bookmark \in Int /\ "load" \in Pcs
  BY DEF Bookmark, Pcs
<1>3. /\ n \in Node /\ n.pc = "load" /\ n.ev = Bookmark /\ n.upto = Bookmark /\ n.token = m.token
      /\ n.next = m.next /\ n.unsaved = m.unsaved
  BY ZenonT(60), <1>1, <1>2 DEF Node
<1>4. /\ UNCHANGED clockVars /\ events' = events /\ adopted' = adopted /\ progress' = progress
      /\ Set(r, n)
  BY Zenon DEF AppendBookmark
<1> HIDE DEF n
<1>5. Shape(n)
  BY <1>1, <1>3, JournalAssumption DEF Shape, Holding, Bookmark
<1>6. m.ev = Bookmark
  BY Zenon, <1>1 DEF Shape
<1>7. Due(n) = Due(m) /\ m.pc # "out" /\ m.pc # "resolve"
  BY Zenon, <1>1, <1>3, <1>6 DEF Due
<1>8. adopted' \/ (Ahead(n, water, events) /\ Prior(n, water, events))
  BY Zenon, <1>1, <1>3, <1>4, <1>7, SourceFacts, SameDue DEF Good
<1> QED BY Zenon, <1>3, <1>4, <1>5, <1>7, <1>8, QuietMove DEF LeaderRowsStay

\* A batch begins with the next change.
LEMMA MaterializeBatchSource ==
    ASSUME SourceInv, JournalInv', Kept, NEW r \in Replicas, MaterializeBatch(r)
    PROVE  SourceInv'
<1> DEFINE m == node[r]
<1>1. PICK p \in m.next..Changes : Set(r, [m EXCEPT !.pc = "batch", !.ev = m.next, !.upto = p])
  BY Zenon DEF MaterializeBatch
<1> DEFINE n == [m EXCEPT !.pc = "batch", !.ev = m.next, !.upto = p]
<1>2. m \in Node /\ Shape(m) /\ m.pc = "idle"
  BY Zenon, SourceFacts DEF MaterializeBatch
<1>3. p \in Int /\ "batch" \in Pcs /\ m.next \in Int /\ m.next >= 1 /\ m.next <= p /\ p <= Changes
  BY <1>1, <1>2, JournalAssumption DEF Pcs, Node, Shape
<1>4. /\ n \in Node /\ n.pc = "batch" /\ n.ev = m.next /\ n.upto = p /\ n.token = m.token
      /\ n.next = m.next /\ n.unsaved = m.unsaved
  BY ZenonT(60), <1>2, <1>3 DEF Node
<1>5. /\ UNCHANGED clockVars /\ events' = events /\ adopted' = adopted /\ progress' = progress
      /\ Set(r, n)
  BY Zenon, <1>1 DEF MaterializeBatch
<1> HIDE DEF n
<1>6. Shape(n)
  BY <1>2, <1>3, <1>4, JournalAssumption DEF Shape, Holding, Bookmark
<1>7. m.ev = Bookmark
  BY Zenon, <1>2 DEF Shape
<1>8. Due(n) = Due(m) /\ m.pc # "out" /\ m.pc # "resolve"
  BY Zenon, <1>2, <1>4, <1>7 DEF Due
<1>9. adopted' \/ (Ahead(n, water, events) /\ Prior(n, water, events))
  BY Zenon, <1>2, <1>4, <1>5, <1>8, SourceFacts, SameDue DEF Good
<1> QED BY Zenon, <1>4, <1>5, <1>6, <1>8, <1>9, QuietMove DEF LeaderRowsStay

\* The high water is read under the lease, or the append fails.
LEMMA LoadedSource ==
    ASSUME SourceInv, JournalInv', Kept, NEW r \in Replicas, NEW a \in Node, Loaded(r, a),
           node[r].pc \in {"batch", "load"}, a.pc \in {"insertBatch", "insert"},
           a.token = node[r].token, a.unsaved = node[r].unsaved, Due(a) = Due(node[r]),
           Shape([a EXCEPT !.water = water, !.old = NoRow]),
           UNCHANGED <<clockVars, events, progress, adopted>>
    PROVE  SourceInv'
<1> DEFINE n == [a EXCEPT !.water = water, !.old = NoRow]
<1>1. /\ UNCHANGED clockVars /\ events' = events /\ adopted' = adopted /\ progress' = progress
      /\ LeaderRowsStay /\ node[r].pc # "out" /\ node[r].pc # "resolve" /\ water \in 0..MaxWater
      /\ adopted => adopted'
  BY Zenon, SourceFacts DEF LeaderRowsStay
<1>2. CASE ~ Mine(r)
  <2>1. Failed(r)
    BY Zenon, <1>2 DEF Loaded
  <2> QED BY Zenon, <1>1, <2>1, FailedMove
<1>3. CASE Mine(r)
  <2>1. NoRow \in Row /\ water \in Nat
    BY <1>1, JournalAssumption DEF NoRow, Row
  <2>2. /\ n \in Node /\ n.pc = a.pc /\ n.token = a.token /\ n.unsaved = a.unsaved
        /\ n.water = water /\ n.ev = a.ev /\ n.next = a.next
    BY ZenonT(60), <2>1 DEF Node
  <2>3. Set(r, n)
    BY Zenon, <1>3 DEF Loaded
  <2> HIDE DEF n
  <2>4. Due(n) = Due(node[r])
    BY Zenon, <2>2 DEF Due
  <2>5. Steady(r, n, holder, token, water, events')
    BY Zenon, <2>2 DEF Steady
  <2>6. n.pc # "out" /\ Shape(n)
    BY Zenon, <2>2 DEF n
  <2>7. n.token = node[r].token /\ n.unsaved = node[r].unsaved
    BY Zenon, <2>2
  <2> QED BY Zenon, <1>1, <2>2, <2>3, <2>4, <2>5, <2>6, <2>7, HoldingMove
<1> QED BY Zenon, <1>2, <1>3

\* A chunk of the batch
LEMMA LoadChunkSource ==
    ASSUME SourceInv, JournalInv', Kept, NEW r \in Replicas, LoadChunk(r)
    PROVE  SourceInv'
<1> DEFINE m == node[r]
<1>1. PICK c \in 1..BatchSize :
        /\ m.ev + c - 1 <= m.upto
        /\ Loaded(r, [m EXCEPT !.pc = "insertBatch", !.count = c, !.chunk = m.ev + c - 1])
  BY Zenon DEF LoadChunk
<1> DEFINE a == [m EXCEPT !.pc = "insertBatch", !.count = c, !.chunk = m.ev + c - 1]
           n == [a EXCEPT !.water = water, !.old = NoRow]
<1>2. m \in Node /\ Shape(m) /\ m.pc = "batch" /\ water \in 0..MaxWater
  BY Zenon, SourceFacts DEF LoadChunk
<1>3. /\ c \in Nat /\ c >= 1 /\ "insertBatch" \in Pcs /\ m.ev \in Int /\ m.ev + c - 1 \in Int
      /\ NoRow \in Row /\ water \in Nat /\ m.ev # Bookmark /\ m.upto \in Int
  BY <1>1, <1>2, JournalAssumption DEF Pcs, Node, Shape, NoRow, Row
<1>4. /\ a \in Node /\ a.pc = "insertBatch" /\ a.token = m.token /\ a.unsaved = m.unsaved
      /\ a.ev = m.ev /\ a.next = m.next /\ a.upto = m.upto /\ a.count = c /\ a.chunk = m.ev + c - 1
  BY ZenonT(60), <1>2, <1>3 DEF Node
<1>5. /\ n \in Node /\ n.pc = a.pc /\ n.token = a.token /\ n.unsaved = a.unsaved
      /\ n.ev = a.ev /\ n.next = a.next /\ n.upto = a.upto /\ n.count = a.count
      /\ n.chunk = a.chunk /\ n.old = NoRow
  <2> HIDE DEF a
  <2> QED BY ZenonT(60), <1>3, <1>4 DEF Node
<1>6. Loaded(r, a)
  BY Zenon, <1>1
<1> HIDE DEF a
<1>7. PICK k : k = n
  OBVIOUS
<1>8. /\ k.pc = "insertBatch" /\ k.unsaved = m.unsaved /\ k.ev = m.ev /\ k.next = m.next
      /\ k.upto = m.upto /\ k.count = c /\ k.chunk = m.ev + c - 1 /\ k.old = NoRow
  BY Zenon, <1>4, <1>5, <1>7
<1>9. Shape(k)
  BY <1>1, <1>2, <1>3, <1>8, JournalAssumption DEF Shape, Holding
<1>10. Shape([a EXCEPT !.water = water, !.old = NoRow])
  BY Zenon, <1>7, <1>9
<1>11. Due(a) = Due(m)
  BY Zenon, <1>4 DEF Due
<1>12. UNCHANGED <<clockVars, events, progress, adopted>>
  BY Zenon DEF LoadChunk
<1>13. m.pc \in {"batch", "load"} /\ a.pc \in {"insertBatch", "insert"}
  BY Zenon, <1>2, <1>4
<1> QED BY Zenon, <1>4, <1>6, <1>10, <1>11, <1>12, <1>13, LoadedSource

\* One event
LEMMA LoadSource ==
    ASSUME SourceInv, JournalInv', Kept, NEW r \in Replicas, Load(r)
    PROVE  SourceInv'
<1> DEFINE m == node[r]
           a == [m EXCEPT !.pc = "insert", !.count = 1]
           n == [a EXCEPT !.water = water, !.old = NoRow]
<1>1. m \in Node /\ Shape(m) /\ m.pc = "load" /\ water \in 0..MaxWater
  BY Zenon, SourceFacts DEF Load
<1>2. 1 \in Nat /\ "insert" \in Pcs /\ NoRow \in Row /\ water \in Nat
  BY <1>1, JournalAssumption DEF Pcs, Node, Shape, NoRow, Row
<1>3. /\ a \in Node /\ a.pc = "insert" /\ a.token = m.token /\ a.unsaved = m.unsaved
      /\ a.ev = m.ev /\ a.next = m.next /\ a.upto = m.upto /\ a.count = 1 /\ a.chunk = m.chunk
  BY ZenonT(60), <1>1, <1>2 DEF Node
<1>4. /\ n \in Node /\ n.pc = a.pc /\ n.token = a.token /\ n.unsaved = a.unsaved
      /\ n.ev = a.ev /\ n.next = a.next /\ n.upto = a.upto /\ n.count = a.count
      /\ n.chunk = a.chunk /\ n.old = NoRow
  <2> HIDE DEF a
  <2> QED BY ZenonT(60), <1>2, <1>3 DEF Node
<1>5. Loaded(r, a)
  BY Zenon DEF Load
<1> HIDE DEF a
<1>6. PICK k : k = n
  OBVIOUS
<1>7. /\ k.pc = "insert" /\ k.unsaved = m.unsaved /\ k.ev = m.ev /\ k.next = m.next
      /\ k.upto = m.upto /\ k.count = 1 /\ k.chunk = m.chunk /\ k.old = NoRow
  BY Zenon, <1>3, <1>4, <1>6
<1>8. m.ev \in Int
  BY Zenon, <1>1 DEF Node
<1>9. Shape(k)
  BY <1>1, <1>7, <1>8, JournalAssumption DEF Shape, Holding
<1>10. Shape([a EXCEPT !.water = water, !.old = NoRow])
  BY Zenon, <1>6, <1>9
<1>11. Due(a) = Due(m)
  BY Zenon, <1>3 DEF Due
<1>12. UNCHANGED <<clockVars, events, progress, adopted>>
  BY Zenon DEF Load
<1>13. m.pc \in {"batch", "load"} /\ a.pc \in {"insertBatch", "insert"}
  BY Zenon, <1>1, <1>3
<1> QED BY Zenon, <1>3, <1>5, <1>10, <1>11, <1>12, <1>13, LoadedSource


\* Rows are written where there is none, so not over those of the current leader.
LEMMA WrittenRows ==
    ASSUME SourceInv, NEW r \in Replicas, node[r].pc # "out", Written(r),
           node[r].water + node[r].count <= MaxWater
    PROVE  /\ LeaderRowsStay
           /\ \A s \in SpanOf(node[r]) : events'[s] = RowOf(node[r], s)
<1>1. node[r] \in Node /\ events \in Rowset /\ NodeInv(r, node[r]) /\ token \in Nat
  BY Zenon, SourceFacts
<1>2. /\ node[r].token >= 1 /\ node[r].token <= token /\ node[r].water \in Nat
      /\ node[r].count \in Nat /\ node[r].token \in Nat
  BY Zenon, <1>1 DEF NodeInv, Bounds, Node
<1>3. DOMAIN events = 1..MaxWater
  BY Zenon, <1>1 DEF Rowset
<1>4. Span(r) = SpanOf(node[r]) /\ \A s : Candidate(r, s) = RowOf(node[r], s)
  BY Zenon DEF Span, SpanOf, Candidate, RowOf, SourceOf
<1>5. \A s \in Span(r) : s \in 1..MaxWater
  BY <1>2, JournalAssumption DEF Span
<1>6. \A s \in 1..MaxWater : events'[s] = IF s \in Span(r) THEN Candidate(r, s) ELSE events[s]
  BY Zenon, <1>3 DEF Written
<1>7. \A s \in Span(r) : events[s].token = 0
  BY DEF Written, NoRow
<1>8. LeaderRowsStay
  BY <1>2, <1>6, <1>7 DEF LeaderRowsStay
<1> QED BY Zenon, <1>4, <1>5, <1>6, <1>8

\* Written rows are the ones to publish.
LEMMA WrittenMove ==
    ASSUME SourceInv, JournalInv', Kept, NEW r \in Replicas, Goto(r, "publish"),
           node[r].pc \in {"insertBatch", "insert"}, Written(r),
           node[r].water + node[r].count <= MaxWater,
           UNCHANGED clockVars, progress' = progress, adopted' = adopted
    PROVE  SourceInv'
<1> DEFINE m == node[r]
<1>1. m \in Node /\ Shape(m) /\ JournalInv /\ "publish" \in Pcs /\ m.pc # "out" /\ m.pc # "resolve"
  BY Zenon, SourceFacts DEF Pcs
<1>2. PICK n \in Node : Set(r, n) /\ n.pc = "publish" /\ SameAppend(m, n)
  BY Zenon, <1>1, GotoFields
<1>3. LeaderRowsStay /\ \A s \in SpanOf(m) : events'[s] = RowOf(m, s)
  BY Zenon, <1>1, WrittenRows
<1>4. Shape(n)
  <2>1. n.old = NoRow
    BY Zenon, <1>1, <1>2 DEF Shape, SameAppend
  <2> QED BY Zenon, <1>1, <1>2, <2>1 DEF Shape, SameAppend, Holding
<1>5. n.token = m.token /\ n.unsaved = m.unsaved /\ Due(n) = Due(m) /\ n.pc # "out"
  BY Zenon, <1>2 DEF SameAppend, Due
<1>6. SpanOf(n) = SpanOf(m) /\ \A s : RowOf(n, s) = RowOf(m, s)
  BY Zenon, <1>2 DEF SameAppend, SpanOf, RowOf, SourceOf
<1>7. adopted' \/ Steady(r, n, holder, token, water, events')
  <2>1. SUFFICES ASSUME ~ adopted, holder = r, token = n.token PROVE Steady(r, n, holder, token, water, events')
    BY Zenon DEF Steady
  <2>2. Steady(r, m, holder, token, water, events)
    BY Zenon, <2>1, SourceFacts DEF Good
  <2>3. water = m.water
    BY Zenon, <1>1, <1>5, <2>1, <2>2 DEF Steady, Holding
  <2>4. n.water = m.water
    BY Zenon, <1>2 DEF SameAppend
  <2> QED BY Zenon, <1>2, <1>3, <1>6, <2>3, <2>4 DEF Steady
<1>8. adopted => adopted'
  OBVIOUS
<1> QED BY Zenon, <1>1, <1>2, <1>3, <1>4, <1>5, <1>7, <1>8, HoldingMove

\* The conditional insert of a chunk
LEMMA InsertBatchSource ==
    ASSUME SourceInv, JournalInv', Kept, NEW r \in Replicas, InsertBatch(r)
    PROVE  SourceInv'
<1>1. /\ UNCHANGED clockVars /\ adopted' = adopted /\ progress' = progress /\ (adopted => adopted')
      /\ node[r].pc \in Holding /\ node[r].pc # "out" /\ node[r].pc # "resolve"
      /\ node[r].pc \in {"insertBatch", "insert"} /\ node[r].water + node[r].count <= MaxWater
  BY Zenon DEF InsertBatch, Holding
<1>2. CASE Written(r) /\ Goto(r, "publish")
  BY Zenon, <1>1, <1>2, WrittenMove
<1>3. CASE Written(r) /\ Goto(r, "load")
  <2>1. LeaderRowsStay
    BY Zenon, <1>1, <1>3, WrittenRows
  <2> QED BY Zenon, <1>1, <1>3, <2>1, RestartMove
<1>4. CASE Goto(r, "load") /\ UNCHANGED events
  <2>1. LeaderRowsStay
    BY Zenon, <1>4 DEF LeaderRowsStay
  <2> QED BY Zenon, <1>1, <1>4, <2>1, RestartMove
<1> QED BY Zenon, <1>2, <1>3, <1>4 DEF InsertBatch

\* The conditional insert of one row
LEMMA InsertSource ==
    ASSUME SourceInv, JournalInv', Kept, NEW r \in Replicas, Insert(r)
    PROVE  SourceInv'
<1> DEFINE m == node[r]
<1>1. /\ UNCHANGED clockVars /\ adopted' = adopted /\ progress' = progress /\ (adopted => adopted')
      /\ m.pc = "insert" /\ m.pc # "out" /\ m.pc # "resolve" /\ m.water < MaxWater
      /\ m.pc \in {"insertBatch", "insert"}
  BY Zenon DEF Insert
<1>2. m \in Node /\ Shape(m) /\ JournalInv /\ NodeInv(r, m) /\ "conflict" \in Pcs
  BY Zenon, SourceFacts DEF Pcs
<1>3. m.count = 1 /\ m.water + m.count <= MaxWater
  BY <1>1, <1>2, JournalAssumption DEF NodeInv, Bounds, Node
<1>4. CASE Written(r) /\ Goto(r, "publish")
  BY Zenon, <1>1, <1>3, <1>4, WrittenMove
<1>5. CASE Written(r) /\ Failed(r)
  <2>1. LeaderRowsStay
    BY Zenon, <1>1, <1>3, <1>5, WrittenRows
  <2> QED BY Zenon, <1>1, <1>5, <2>1, FailedMove
<1>6. CASE Goto(r, "conflict") /\ UNCHANGED events
  <2>1. LeaderRowsStay
    BY Zenon, <1>6 DEF LeaderRowsStay
  <2>2. PICK n \in Node : Set(r, n) /\ n.pc = "conflict" /\ SameAppend(m, n)
    BY Zenon, <1>2, <1>6, GotoFields
  <2>3. Shape(n)
    BY Zenon, <1>1, <1>2, <2>2 DEF Shape, SameAppend, Holding
  <2>4. /\ n.token = m.token /\ n.unsaved = m.unsaved /\ Due(n) = Due(m) /\ n.pc # "out"
        /\ n.water = m.water
    BY Zenon, <2>2 DEF SameAppend, Due
  <2>5. adopted' \/ Steady(r, n, holder, token, water, events')
    <3>1. SUFFICES ASSUME ~ adopted PROVE Steady(r, n, holder, token, water, events')
      BY Zenon, <1>1
    <3>2. Steady(r, m, holder, token, water, events)
      BY Zenon, <3>1, SourceFacts DEF Good
    <3> QED BY Zenon, <1>1, <2>2, <2>4, <3>2 DEF Steady, Holding
  <2> QED BY Zenon, <1>1, <2>1, <2>2, <2>3, <2>4, <2>5, HoldingMove
<1> QED BY Zenon, <1>4, <1>5, <1>6 DEF Insert

\* The row in the way is read.
LEMMA ReadExistingSource ==
    ASSUME SourceInv, JournalInv', Kept, NEW r \in Replicas, ReadExisting(r)
    PROVE  SourceInv'
<1> DEFINE m == node[r]
           n == [m EXCEPT !.pc = "settle", !.old = events[m.water + 1]]
<1>1. /\ UNCHANGED clockVars /\ adopted' = adopted /\ progress' = progress /\ (adopted => adopted')
      /\ m.pc = "conflict" /\ m.pc # "out" /\ m.pc # "resolve" /\ events' = events
  BY Zenon DEF ReadExisting
<1>2. m \in Node /\ Shape(m) /\ NodeInv(r, m) /\ events \in Rowset
  BY Zenon, SourceFacts
<1>3. m.water + 1 \in 1..MaxWater
  BY <1>1, <1>2, JournalAssumption DEF NodeInv, Bounds, Node
<1>4. events[m.water + 1] \in Row /\ "settle" \in Pcs
  BY Zenon, <1>2, <1>3 DEF Rowset, Pcs
<1>5. /\ n \in Node /\ n.pc = "settle" /\ n.old = events[m.water + 1] /\ n.token = m.token
      /\ n.next = m.next /\ n.unsaved = m.unsaved /\ n.ev = m.ev /\ n.chunk = m.chunk
      /\ n.upto = m.upto /\ n.count = m.count /\ n.water = m.water
  BY ZenonT(60), <1>2, <1>4 DEF Node
<1>6. Set(r, n) /\ LeaderRowsStay
  BY Zenon, <1>1 DEF ReadExisting, LeaderRowsStay
<1> HIDE DEF n
<1>7. PICK k : k = n
  OBVIOUS
<1>8. Shape(k)
  <2>1. /\ k.pc = "settle" /\ k.unsaved = m.unsaved /\ k.ev = m.ev /\ k.next = m.next
        /\ k.upto = m.upto /\ k.count = m.count /\ k.chunk = m.chunk
    BY Zenon, <1>5, <1>7
  <2> QED BY Zenon, <1>1, <1>2, <2>1 DEF Shape, Holding
<1>9. Due(n) = Due(m) /\ n.pc # "out"
  BY Zenon, <1>5 DEF Due
<1>10. adopted' \/ Steady(r, n, holder, token, water, events')
  <2>1. SUFFICES ASSUME ~ adopted PROVE Steady(r, n, holder, token, water, events')
    BY Zenon, <1>1
  <2>2. Steady(r, m, holder, token, water, events)
    BY Zenon, <2>1, SourceFacts DEF Good
  <2>3. holder = r /\ token = n.token => water = n.water
    BY Zenon, <1>1, <1>5, <2>2 DEF Steady, Holding
  <2> QED BY Zenon, <1>1, <1>5, <2>3 DEF Steady
<1>11. Shape(n)
  BY Zenon, <1>7, <1>8
<1> QED BY Zenon, <1>1, <1>5, <1>6, <1>9, <1>10, <1>11, HoldingMove


\* The row in the way is deleted, published or left.
LEMMA SettleSource ==
    ASSUME SourceInv, JournalInv', Kept, NEW r \in Replicas, Settle(r)
    PROVE  SourceInv'
<1> DEFINE m == node[r]
           s == m.water + 1
<1>1. /\ UNCHANGED clockVars /\ progress' = progress /\ m.pc = "settle" /\ m.pc # "out"
      /\ m.pc # "resolve" /\ m.pc \in Holding
  BY Zenon DEF Settle, Holding
<1>2. /\ m \in Node /\ Shape(m) /\ NodeInv(r, m) /\ events \in Rowset /\ JournalInv
      /\ "publish" \in Pcs /\ token \in Nat
  BY Zenon, SourceFacts DEF Pcs
<1>3. /\ m.token <= token /\ m.token \in Nat /\ s \in 1..MaxWater /\ m.count = 1
      /\ m.old \in Row /\ m.old.token \in Nat /\ m.water \in Nat
  BY <1>1, <1>2, JournalAssumption DEF NodeInv, Bounds, Node, Row
<1>4. CASE /\ events[s].token < m.token /\ events' = [events EXCEPT ![s] = NoRow]
           /\ Goto(r, "load") /\ UNCHANGED adopted
  <2>1. ASSUME NEW i \in 1..MaxWater, events[i].token = token PROVE events'[i] = events[i]
    BY <1>2, <1>3, <1>4, <2>1 DEF Rowset
  <2>2. LeaderRowsStay /\ (adopted => adopted')
    BY Zenon, <1>4, <2>1 DEF LeaderRowsStay
  <2> QED BY Zenon, <1>1, <1>4, <2>2, RestartMove
<1>5. CASE /\ UNCHANGED events
           /\ IF m.old.token > m.token THEN Failed(r)
              ELSE Goto(r, IF SameEvent(r) THEN "publish" ELSE "load")
           /\ adopted' = (adopted \/ (SameEvent(r) /\ m.old.token < m.token))
  <2>1. LeaderRowsStay /\ (adopted => adopted')
    BY Zenon, <1>5 DEF LeaderRowsStay
  <2>2. CASE Failed(r)
    BY Zenon, <1>1, <2>1, <2>2, FailedMove
  <2>3. CASE Goto(r, "load")
    BY Zenon, <1>1, <2>1, <2>3, RestartMove
  <2>4. CASE ~ (m.old.token > m.token) /\ SameEvent(r) /\ Goto(r, "publish")
    <3>1. PICK n \in Node : Set(r, n) /\ n.pc = "publish" /\ SameAppend(m, n)
      BY Zenon, <1>2, <2>4, GotoFields
    <3>2. m.old.src = m.ev
      BY Zenon, <2>4 DEF SameEvent
    <3>3. Shape(n)
      BY Zenon, <1>1, <1>2, <1>3, <3>1, <3>2 DEF Shape, SameAppend, Holding
    <3>4. /\ n.token = m.token /\ n.unsaved = m.unsaved /\ Due(n) = Due(m) /\ n.pc # "out"
          /\ n.water = m.water /\ n.count = 1 /\ n.ev = m.ev
      BY Zenon, <1>3, <3>1 DEF SameAppend, Due
    <3>5. ASSUME ~ adopted', holder = r, token = n.token
          PROVE  water = n.water /\ \A i \in SpanOf(n) : events'[i] = RowOf(n, i)
      <4>1. ~ adopted /\ ~ (m.old.token < m.token)
        BY Zenon, <1>5, <2>4, <3>5
      <4>2. m.old.token = m.token
        BY <1>3, <2>4, <4>1
      <4>3. Steady(r, m, holder, token, water, events)
        BY Zenon, <4>1, SourceFacts DEF Good
      <4>4. water = m.water /\ events[s] = m.old
        BY Zenon, <1>1, <3>4, <3>5, <4>2, <4>3 DEF Steady, Holding
      <4>5. \A i \in SpanOf(n) : i = s
        BY <1>3, <3>4 DEF SpanOf
      <4>6. SourceOf(n, s) = m.ev
        <5>1. m.ev \in Int
          BY Zenon, <1>2 DEF Node
        <5> QED BY <1>3, <3>4, <5>1 DEF SourceOf
      <4>7. RowOf(n, s) = m.old
        BY Zenon, <1>3, <3>2, <3>4, <4>2, <4>6 DEF RowOf, Row
      <4>8. events' = events
        BY Zenon, <1>5
      <4> QED BY Zenon, <3>4, <4>4, <4>5, <4>7, <4>8
    <3>6. adopted' \/ Steady(r, n, holder, token, water, events')
      BY Zenon, <3>1, <3>5 DEF Steady
    <3> QED BY Zenon, <1>1, <2>1, <3>1, <3>3, <3>4, <3>6, HoldingMove
  <2> QED BY Zenon, <1>5, <2>2, <2>3, <2>4
<1> QED BY Zenon, <1>4, <1>5 DEF Settle

\* A publication without an answer: the rows are published if the high water has
\* passed them.
LEMMA ResolveSource ==
    ASSUME SourceInv, JournalInv', Kept, NEW r \in Replicas, Resolve(r)
    PROVE  SourceInv'
<1> DEFINE m == node[r]
<1>1. /\ UNCHANGED clockVars /\ adopted' = adopted /\ progress' = progress /\ (adopted => adopted')
      /\ m.pc = "resolve" /\ m.pc # "out" /\ m.pc \in Holding /\ events' = events
      /\ m.pc \in {"publish", "resolve"}
  BY Zenon DEF Resolve, Holding
<1>2. /\ m \in Node /\ Shape(m) /\ JournalInv /\ events \in Rowset /\ water \in 0..MaxWater
      /\ LeaderRowsStay
  BY Zenon, <1>1, SourceFacts DEF LeaderRowsStay
<1>3. CASE Failed(r)
  BY Zenon, <1>1, <1>2, <1>3, FailedMove
<1>4. CASE water < m.water + m.count /\ Mine(r) /\ Goto(r, "load")
  <2>1. ASSUME ~ adopted PROVE water = m.water
    <3>1. Steady(r, m, holder, token, water, events)
      BY Zenon, <2>1, SourceFacts DEF Good
    <3>2. water = m.water \/ water = m.water + m.count
      BY Zenon, <1>1, <1>4, <3>1 DEF Steady, Mine
    <3>3. m.water + m.count \in Int
      BY <1>2 DEF Node
    <3> QED BY <1>2, <1>4, <3>2, <3>3
  <2> QED BY Zenon, <1>1, <1>2, <1>4, <2>1, RestartMove
<1>5. CASE /\ ~ (water < m.water + m.count)
           /\ \A s \in Span(r) : events[s] = IF m.old # NoRow THEN m.old ELSE Candidate(r, s)
           /\ Appended(r)
  <2>1. PICK n \in Node : Set(r, n) /\ AppendedTo(m, n)
    BY Zenon, <1>2, <1>5, AppendedFields
  <2>2. Shape(n)
    BY Zenon, <1>1, <1>2, <2>1, AppendedShape
  <2>3. n.token = m.token /\ n.pc \in {"idle", "load", "batch"}
    BY Zenon, <2>1 DEF AppendedTo
  <2>4. m.water + m.count <= water /\ m.water \in Nat /\ m.ev \in Int /\ m.count \in Nat
    BY <1>2, <1>5 DEF Node
  <2>5. ASSUME NEW s \in SpanOf(m) PROVE events[s].src = SourceOf(m, s)
    <3>1. events[s] = IF m.old # NoRow THEN m.old ELSE Candidate(r, s)
      BY Zenon, <1>5, <2>5 DEF Span, SpanOf
    <3>2. CASE m.old # NoRow
      <4>1. m.count = 1 /\ m.old.src = m.ev
        BY Zenon, <1>1, <1>2, <3>2 DEF Shape
      <4>2. s = m.water + 1
        BY <2>4, <2>5, <4>1 DEF SpanOf
      <4>3. SourceOf(m, s) = m.ev
        BY <2>4, <4>2 DEF SourceOf
      <4> QED BY Zenon, <3>1, <3>2, <4>1, <4>3
    <3>3. CASE m.old = NoRow
      <4>1. events[s] = Candidate(r, s)
        BY Zenon, <3>1, <3>3
      <4> QED BY <4>1 DEF Candidate, SourceOf
    <3> QED BY Zenon, <3>2, <3>3
  <2>6. ASSUME ~ adopted PROVE Ahead(n, water, events) /\ Prior(n, water, events)
    <3>1. Ahead(m, water, events) /\ Prior(m, water, events)
      BY Zenon, <2>6, SourceFacts DEF Good
    <3>2. [m EXCEPT !.pc = "resolve"] = m
      BY Zenon, <1>1, <1>2 DEF Node
    <3>3. Ahead([m EXCEPT !.pc = "resolve"], water, events)
      BY Zenon, <3>1, <3>2
    <3>4. Good(r, n, holder, token, water, events)
      BY Zenon, <1>1, <1>2, <2>1, <2>4, <2>5, <3>1, <3>3, AppendedGood
    <3> QED BY Zenon, <3>4 DEF Good
  <2> QED BY Zenon, <1>1, <1>2, <2>1, <2>2, <2>3, <2>6, QuietMove
<1> QED BY Zenon, <1>3, <1>4, <1>5 DEF Resolve

\* The checkpoint of a batch is behind what is published.
LEMMA SaveSource ==
    ASSUME SourceInv, JournalInv', Kept, NEW r \in Replicas, SavePublishedFrontier(r)
    PROVE  SourceInv'
<1> DEFINE m == node[r]
<1>1. /\ UNCHANGED clockVars /\ adopted' = adopted /\ (adopted => adopted') /\ events' = events
      /\ m.unsaved # 0 /\ progress' = IF Mine(r) THEN m.unsaved ELSE progress
  BY Zenon DEF SavePublishedFrontier
<1>2. /\ m \in Node /\ Shape(m) /\ water \in 0..MaxWater /\ progress \in 0..Changes
      /\ events \in Rowset /\ LeaderRowsStay
  BY Zenon, <1>1, SourceFacts DEF LeaderRowsStay
<1>3. progress' \in 0..Changes /\ m.pc # "out" /\ m.next \in Int /\ m.next >= 1
  BY Zenon, <1>1, <1>2 DEF Shape, Node
<1>4. PICK next \in {m.next, Changes + 1} : Set(r, [m EXCEPT !.unsaved = 0, !.next = next])
  <2>1. CASE Set(r, [m EXCEPT !.unsaved = 0])
    <3>1. [m EXCEPT !.unsaved = 0] = [m EXCEPT !.unsaved = 0, !.next = m.next]
      BY Zenon, <1>2 DEF Node
    <3> QED BY Zenon, <2>1, <3>1
  <2>2. CASE Set(r, [m EXCEPT !.unsaved = 0, !.next = Changes + 1])
    BY Zenon, <2>2
  <2> QED BY Zenon, <2>1, <2>2 DEF SavePublishedFrontier
<1> DEFINE n == [m EXCEPT !.unsaved = 0, !.next = next]
<1>5. next \in Int /\ 0 \in Int /\ next >= 1
  BY <1>3, <1>4, JournalAssumption
<1>6. /\ n \in Node /\ n.pc = m.pc /\ n.token = m.token /\ n.ev = m.ev /\ n.chunk = m.chunk
      /\ n.upto = m.upto /\ n.count = m.count /\ n.water = m.water /\ n.old = m.old
      /\ n.unsaved = 0 /\ n.next = next
  BY ZenonT(60), <1>2, <1>5 DEF Node
<1>7. Set(r, n)
  BY Zenon, <1>4
<1> HIDE DEF n
<1>8. Shape(n)
  <2>1. PICK k : k = n
    OBVIOUS
  <2>2. /\ k.pc = m.pc /\ k.unsaved = 0 /\ k.ev = m.ev /\ k.next = next /\ k.old = m.old
        /\ k.upto = m.upto /\ k.count = m.count /\ k.chunk = m.chunk
    BY Zenon, <1>6, <2>1
  <2>3. Shape(k)
    BY SMTT(30), <1>2, <1>3, <1>5, <2>2, JournalAssumption DEF Shape
  <2> QED BY Zenon, <2>1, <2>3
<1>9. ASSUME ~ adopted
      PROVE  /\ Good(r, n, holder, token, water, events)
             /\ \A p \in 1..progress' : Seen(p, water, events)
  <2>1. /\ Steady(r, m, holder, token, water, events) /\ Ahead(m, water, events)
        /\ Prior(m, water, events) /\ Ordered(water, events)
        /\ \A p \in 1..progress : Seen(p, water, events)
    BY Zenon, <1>9, SourceFacts DEF Good
  <2>2. \A p \in 1..progress' : Seen(p, water, events)
    BY Zenon, <1>1, <2>1 DEF Prior
  <2>3. SpanOf(n) = SpanOf(m) /\ \A s : RowOf(n, s) = RowOf(m, s)
    BY Zenon, <1>6 DEF SpanOf, RowOf, SourceOf
  <2>4. Steady(r, n, holder, token, water, events)
    BY Zenon, <1>6, <2>1, <2>3 DEF Steady
  <2>5. \A p \in 1..n.unsaved : FALSE
    BY <1>6
  <2>6. CASE Due(n) = Due(m)
    BY Zenon, <1>3, <1>6, <2>1, <2>2, <2>3, <2>4, <2>5, <2>6 DEF Good, Ahead, Prior
  <2>7. CASE Due(n) = Changes + 1
    <3>1. \A s \in 1..water : events[s].src < Due(n)
      BY <2>1, <2>7, JournalAssumption DEF Ordered
    <3>2. ~ (Due(n) <= Changes)
      BY <2>7, JournalAssumption
    <3> QED BY Zenon, <2>2, <2>4, <2>5, <3>1, <3>2 DEF Good, Ahead, Prior
  <2>8. Due(n) = Due(m) \/ Due(n) = Changes + 1
    BY Zenon, <1>4, <1>6 DEF Due
  <2> QED BY Zenon, <2>6, <2>7, <2>8
<1>10. adopted' \/ /\ Good(r, n, holder, token, water, events')
                   /\ \A p \in 1..progress' : Seen(p, water, events)
  BY Zenon, <1>1, <1>9
<1>11. n.pc # "out"
  BY Zenon, <1>3, <1>6
<1> QED BY Zenon, <1>1, <1>2, <1>3, <1>6, <1>7, <1>8, <1>10, <1>11, MoveStep DEF LeaderRowsStay


\* The high water moves over the rows of an append.
LEMMA PublishedMove ==
    ASSUME SourceInv, JournalInv', Kept, NEW r \in Replicas, NEW n \in Node, Set(r, n),
           node[r].pc = "publish", Mine(r), water = node[r].water,
           water' = water + node[r].count, n.token = node[r].token, n.pc # "out", Shape(n),
           holder' = holder, token' = token, events' = events, progress' = progress,
           adopted' = adopted,
           adopted \/ Good(r, n, holder, token, water', events)
    PROVE  SourceInv'
<1> DEFINE m == node[r]
<1>1. /\ m \in Node /\ Shape(m) /\ NodeInv(r, m) /\ water \in 0..MaxWater /\ events \in Rowset
      /\ token \in Nat /\ progress \in 0..Changes
  BY Zenon, SourceFacts
<1>2. /\ m.count \in Nat /\ water' \in 0..MaxWater /\ water <= water' /\ m.token = token
      /\ m.pc \in Holding \ {"resolve"} /\ m.pc # "out"
  BY <1>1, JournalAssumption DEF NodeInv, Bounds, Node, Mine, Holding
<1>3. node'[r] = n /\ \A q \in Replicas : q # r => node'[q] = node[q]
  BY Zenon, SetNode DEF SourceInv, JournalInv, JournalType
<1>4. \A q \in Replicas : Shape(node'[q])
  BY Zenon, <1>3 DEF SourceInv
<1>5. Distinct(node')
  <2>1. \A q \in Replicas :
          node'[q].token = node[q].token /\ (node'[q].pc # "out" => node[q].pc # "out")
    BY Zenon, <1>2, <1>3
  <2> QED BY ZenonT(30), <2>1 DEF SourceInv, Distinct
<1>6. ASSUME ~ adopted
      PROVE  /\ \A q \in Replicas : Good(q, node'[q], holder', token', water', events')
             /\ Ordered(water', events')
             /\ \A p \in 1..progress' : Seen(p, water', events')
  <2>1. Grown(water, events, water', events)
    BY Zenon, <1>2 DEF Grown
  <2>2. /\ Steady(r, m, holder, token, water, events) /\ Ahead(m, water, events)
        /\ Prior(m, water, events) /\ Ordered(water, events)
        /\ \A p \in 1..progress : Seen(p, water, events)
    BY Zenon, <1>6, SourceFacts DEF Good
  <2>3. \A s \in SpanOf(m) : events[s] = RowOf(m, s)
    BY Zenon, <2>2 DEF Steady, Mine
  <2>4. \A s \in 1..water : events[s].token <= m.token
    BY <1>1, <1>2, JournalAssumption DEF SourceInv, JournalInv
  <2>5. Ordered(water', events')
    <3>1. Ordered(water', events)
      BY Zenon, <1>1, <1>2, <2>2, <2>3, <2>4, OrderedGrows
    <3> QED BY Zenon, <3>1
  <2>6. \A p \in 1..progress' : Seen(p, water', events')
    BY ZenonT(30), <1>1, <1>2, <2>1, <2>2, SeenStays
  <2>7. ASSUME NEW q \in Replicas, q # r
        PROVE  Good(q, node[q], holder, token, water', events)
    <3>1. /\ node[q] \in Node /\ Shape(node[q]) /\ Good(q, node[q], holder, token, water, events)
          /\ NodeInv(q, node[q])
      BY Zenon, <1>6, SourceFacts
    <3>2. \A s \in (water + 1)..water' : events[s].token = m.token
      <4>1. \A s \in (water + 1)..water' : s \in SpanOf(m)
        BY Zenon DEF SpanOf
      <4>2. \A s \in SpanOf(m) : events[s].token = m.token
        BY Zenon, <2>3, RowFields
      <4> QED BY Zenon, <4>1, <4>2
    <3>3. node[q].token # m.token
      BY Zenon, <1>2, <2>7 DEF SourceInv, Distinct
    <3>4. node[q].pc \in {"conflict", "settle", "publish", "resolve"}
             => node[q].water + node[q].count <= MaxWater
      BY Zenon, <3>1 DEF NodeInv, Bounds
    <3>5. ~ (holder = q /\ token = node[q].token)
      BY Zenon, <1>2, <3>3
    <3>6. \A s \in (water + 1)..water' : events[s].token # node[q].token
      BY Zenon, <3>2, <3>3
    <3> QED BY SMTT(30), <1>1, <1>2, <2>1, <3>1, <3>4, <3>5, <3>6, GoodStays
  <2>8. ASSUME NEW q \in Replicas PROVE Good(q, node'[q], holder', token', water', events')
    <3>1. CASE q = r
      BY Zenon, <1>3, <1>6, <3>1
    <3>2. CASE q # r
      BY Zenon, <1>3, <2>7, <3>2
    <3> QED BY Zenon, <3>1, <3>2
  <2> QED BY Zenon, <2>5, <2>6, <2>8
<1> QED BY Zenon, <1>1, <1>4, <1>5, <1>6 DEF SourceInv

\* The publication, answered or not
LEMMA PublishSource ==
    ASSUME SourceInv, JournalInv', Kept, NEW r \in Replicas, Publish(r)
    PROVE  SourceInv'
<1> DEFINE m == node[r]
<1>1. /\ holder' = holder /\ token' = token /\ events' = events /\ progress' = progress
      /\ adopted' = adopted /\ m.pc = "publish" /\ m.pc # "out" /\ m.pc # "resolve"
      /\ (adopted => adopted') /\ LeaderRowsStay /\ m.pc \in {"publish", "resolve"}
  BY Zenon DEF Publish, LeaderRowsStay
<1>2. /\ m \in Node /\ Shape(m) /\ NodeInv(r, m) /\ water \in 0..MaxWater /\ events \in Rowset
      /\ JournalInv /\ "resolve" \in Pcs
  BY Zenon, SourceFacts DEF Pcs
<1>3. /\ m.water \in Nat /\ m.count \in Nat /\ m.water + m.count <= MaxWater
      /\ m.count >= 1
  BY Zenon, <1>1, <1>2 DEF NodeInv, Bounds, Node, Shape, Holding
<1>4. ASSUME Mine(r), water = m.water, water' = water + m.count, ~ adopted
      PROVE  /\ water' \in 0..MaxWater
             /\ \A s \in SpanOf(m) : events[s].src = SourceOf(m, s)
             /\ Prior(m, water', events)
             /\ Ahead([m EXCEPT !.pc = "resolve"], water', events)
  <2>1. /\ Steady(r, m, holder, token, water, events) /\ Ahead(m, water, events)
        /\ Prior(m, water, events)
    BY Zenon, <1>4, SourceFacts DEF Good
  <2>2. water' \in 0..MaxWater /\ water <= water'
    BY <1>2, <1>3, <1>4, JournalAssumption
  <2>3. \A s \in SpanOf(m) : events[s] = RowOf(m, s)
    BY Zenon, <1>1, <1>4, <2>1 DEF Steady, Mine
  <2>4. \A s \in SpanOf(m) : events[s].src = SourceOf(m, s)
    BY Zenon, <2>3, RowFields
  <2>5. Grown(water, events, water', events)
    BY Zenon, <2>2 DEF Grown
  <2>6. Prior(m, water', events)
    BY Zenon, <1>2, <2>1, <2>2, <2>5, PriorStays
  <2> DEFINE a == [m EXCEPT !.pc = "resolve"]
  <2>7. a.pc = "resolve" /\ a.token = m.token /\ a.ev = m.ev /\ Due(a) = Due(m) /\ SpanOf(a) = SpanOf(m)
    BY Zenon, <1>2 DEF Node, Due, SpanOf
  <2> HIDE DEF a
  <2>8. ASSUME NEW s \in 1..water', events[s].token = m.token, events[s].src # Bookmark,
               m.ev # Bookmark => s \notin SpanOf(m)
        PROVE  events[s].src < Due(m)
    <3>1. s \in 1..water \/ s \in SpanOf(m)
      BY <1>2, <1>3, <1>4, <2>8 DEF SpanOf
    <3>2. CASE s \in 1..water
      BY Zenon, <1>1, <2>1, <2>8, <3>2 DEF Ahead
    <3>3. CASE s \in SpanOf(m) /\ m.ev = Bookmark
      BY Zenon, <2>4, <2>8, <3>3 DEF SourceOf
    <3> QED BY Zenon, <2>8, <3>1, <3>2, <3>3
  <2>9. Ahead(a, water', events)
    BY Zenon, <2>7, <2>8 DEF Ahead
  <2> QED BY Zenon, <2>2, <2>4, <2>6, <2>9 DEF a
<1>5. CASE Mine(r) /\ water = m.water /\ water' = water + m.count /\ Appended(r)
  <2>1. PICK n \in Node : Set(r, n) /\ AppendedTo(m, n)
    BY Zenon, <1>2, <1>5, AppendedFields
  <2>2. Shape(n)
    BY Zenon, <1>1, <1>2, <2>1, AppendedShape
  <2>3. n.token = m.token /\ n.pc # "out"
    BY Zenon, <2>1 DEF AppendedTo
  <2>4. ASSUME ~ adopted PROVE Good(r, n, holder, token, water', events)
    <3>1. m.water + m.count <= water'
      BY <1>2, <1>3, <1>5
    <3> QED BY Zenon, <1>1, <1>2, <1>4, <1>5, <2>1, <2>4, <3>1, AppendedGood
  <2> QED BY Zenon, <1>1, <1>5, <2>1, <2>2, <2>3, <2>4, PublishedMove
<1>6. CASE Goto(r, "resolve") /\ Mine(r) /\ water = m.water /\ water' = water + m.count
  <2>1. PICK n \in Node : Set(r, n) /\ n.pc = "resolve" /\ SameAppend(m, n)
    BY Zenon, <1>2, <1>6, GotoFields
  <2>2. Shape(n)
    BY Zenon, <1>1, <1>2, <2>1 DEF Shape, SameAppend, Holding
  <2>3. n.token = m.token /\ n.pc # "out"
    BY Zenon, <2>1 DEF SameAppend
  <2>4. ASSUME ~ adopted PROVE Good(r, n, holder, token, water', events)
    <3>1. Prior(m, water', events) /\ Ahead([m EXCEPT !.pc = "resolve"], water', events)
      BY Zenon, <1>4, <1>6, <2>4
    <3>2. /\ n.ev = m.ev /\ Due(n) = Due(m) /\ SpanOf(n) = SpanOf(m) /\ n.unsaved = m.unsaved
          /\ n.water = m.water /\ n.count = m.count
      BY Zenon, <2>1 DEF SameAppend, Due, SpanOf
    <3> DEFINE a == [m EXCEPT !.pc = "resolve"]
    <3>3. /\ a.pc = "resolve" /\ a.token = m.token /\ a.ev = m.ev /\ Due(a) = Due(m)
          /\ SpanOf(a) = SpanOf(m)
      BY Zenon, <1>2 DEF Node, Due, SpanOf
    <3>4. Ahead(a, water', events)
      BY Zenon, <3>1
    <3> HIDE DEF a
    <3>5. Ahead(n, water', events)
      BY Zenon, <2>1, <2>3, <3>2, <3>3, <3>4 DEF Ahead
    <3>6. Prior(n, water', events)
      BY Zenon, <1>1, <3>1, <3>2 DEF Prior
    <3>7. Steady(r, n, holder, token, water', events)
      BY Zenon, <1>6, <2>1, <3>2 DEF Steady
    <3> QED BY Zenon, <3>5, <3>6, <3>7 DEF Good
  <2> QED BY Zenon, <1>1, <1>6, <2>1, <2>2, <2>3, <2>4, PublishedMove
<1>7. CASE Goto(r, "resolve") /\ UNCHANGED water
  <2>1. PICK n \in Node : Set(r, n) /\ n.pc = "resolve" /\ SameAppend(m, n)
    BY Zenon, <1>2, <1>7, GotoFields
  <2>2. Shape(n)
    BY Zenon, <1>1, <1>2, <2>1 DEF Shape, SameAppend, Holding
  <2>3. /\ n.token = m.token /\ n.pc # "out" /\ n.unsaved = m.unsaved /\ Due(n) = Due(m)
        /\ n.water = m.water
    BY Zenon, <2>1 DEF SameAppend, Due
  <2>4. adopted' \/ Steady(r, n, holder, token, water, events')
    <3>1. SUFFICES ASSUME ~ adopted PROVE Steady(r, n, holder, token, water, events')
      BY Zenon, <1>1
    <3>2. Steady(r, m, holder, token, water, events)
      BY Zenon, <3>1, SourceFacts DEF Good
    <3> QED BY Zenon, <1>1, <2>1, <2>3, <3>2 DEF Steady, Holding
  <2>5. UNCHANGED clockVars
    BY Zenon, <1>1, <1>7 DEF clockVars
  <2> QED BY Zenon, <1>1, <2>1, <2>2, <2>3, <2>4, <2>5, HoldingMove
<1> QED BY Zenon, <1>5, <1>6, <1>7 DEF Publish

-----------------------------------------------------------------------------

\* In the initial state nothing is published.
LEMMA SourceInit == Init => SourceInv
<1> SUFFICES ASSUME Init PROVE SourceInv
  OBVIOUS
<1>1. JournalInv
  BY Zenon, JournalInit
<1>2. /\ Out.pc = "out" /\ Out.token = 0 /\ Out.unsaved = 0 /\ Out.ev = 0 /\ Out.upto = 0
      /\ Out \in Node
  <2>1. NoRow \in Row
    BY DEF NoRow, Row
  <2> QED BY <2>1 DEF Out, Between, Node, Pcs
<1>3. Shape(Out)
  BY <1>2, JournalAssumption DEF Shape, Holding, Bookmark
<1>4. ASSUME NEW r \in Replicas PROVE Good(r, Out, holder, token, water, events)
  <2>1. Prior(Out, water, events) /\ Ahead(Out, water, events)
    BY <1>2 DEF Prior, Ahead
  <2>2. Steady(r, Out, holder, token, water, events)
    BY Zenon, <1>2, SteadyQuiet DEF Holding
  <2> QED BY Zenon, <2>1, <2>2 DEF Good
<1>5. \A r \in Replicas : node[r] = Out
  BY Zenon DEF Init
<1>6. Distinct(node)
  BY Zenon, <1>2, <1>5 DEF Distinct
<1>7. Ordered(water, events)
  BY DEF Init, Ordered
<1>8. progress \in 0..Changes /\ \A p \in 1..progress : Seen(p, water, events)
  BY JournalAssumption DEF Init
<1> QED BY Zenon, <1>1, <1>3, <1>4, <1>5, <1>6, <1>7, <1>8 DEF SourceInv

\* Every step keeps the order.
LEMMA SourceStep == SourceInv /\ [Next]_jVars => SourceInv'
<1> SUFFICES ASSUME SourceInv, [Next]_jVars PROVE SourceInv'
  OBVIOUS
<1>1. JournalInv' /\ Kept
  BY Zenon, JournalStep DEF SourceInv
<1>2. CASE UNCHANGED jVars
  <2>1. /\ holder' = holder /\ token' = token /\ water' = water /\ events' = events
        /\ progress' = progress /\ node' = node /\ adopted' = adopted
    BY Zenon, <1>2 DEF jVars
  <2> QED BY Zenon, <1>1, <2>1 DEF SourceInv
<1>3. CASE Next
  <2>1. PICK r \in Replicas : Acquire(r) \/ Release(r) \/ StepDown(r) \/ AppendStep(r)
    BY Zenon, <1>3 DEF Next
  <2> QED
    BY Zenon, <1>1, <2>1, AcquireSource, ReleaseSource, StepDownSource, AppendBookmarkSource,
       MaterializeBatchSource, LoadChunkSource, LoadSource, InsertBatchSource, InsertSource,
       ReadExistingSource, SettleSource, PublishSource, ResolveSource, SaveSource DEF AppendStep
<1> QED BY Zenon, <1>2, <1>3

\* The inductive invariant holds in every reachable state.
THEOREM SourceInvariant == Spec => []SourceInv
BY SourceInit, SourceStep, PTL DEF Spec

\* Leaders publish one after the other: publish compares the token, so no row of a deposed
\* leader is published after one of its successor.
THEOREM TermsInOrder == Spec => []TermsOrdered
<1>1. SourceInv => TermsOrdered
  BY Zenon DEF SourceInv, TermsOrdered, Ordered, Published
<1> QED BY <1>1, SourceInvariant, PTL

\* Every published change comes after all changes before it, and a leader publishes it once: the
\* retry after a publication without an answer (Resolve) repeats nothing.
THEOREM SourceInOrder == Spec => []SourceOrder
<1>1. SourceInv => SourceOrder
  BY Zenon DEF SourceInv, SourceOrder, Ordered, Published
<1> QED BY <1>1, SourceInvariant, PTL

\* The checkpoint that SaveProgress writes never passes a change that is not published, as the
\* comment of Materializer.Process says.
THEOREM NoChangeSkipped == Spec => []NothingSkipped
<1>1. SourceInv => NothingSkipped
  BY Zenon DEF SourceInv, NothingSkipped, Seen, Published
<1> QED BY <1>1, SourceInvariant, PTL

=============================================================================
