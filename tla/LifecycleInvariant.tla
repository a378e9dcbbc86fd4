------------------------- MODULE LifecycleInvariant --------------------------
(*****************************************************************************)
(* Every step of LifecycleFences keeps LifecycleInv: first the lemmas that   *)
(* all steps use, then one lemma per action or group of actions.             *)
(*****************************************************************************)
EXTENDS LifecycleState, TLAPS

-----------------------------------------------------------------------------
(* A step of one process                                                   *)

\* What a process that goes on from b to c must not do: enter the fenced part,
\* a creation or a deletion, or change the repository it is about.
Kept(b, c) ==
    /\ c.pc \in InBody => b.pc \in InBody /\ c.epoch = b.epoch
    /\ c.pc \in Early => b.pc \in Early
    /\ c.pc \in Early \cup Late => b.pc \in Early \cup Late
    /\ c.pc \in Ending => b.pc \in Ending
    /\ c.pc \in Early \cup Late \cup Ending => c.r = b.r

\* Set installs a process state and leaves the other processes alone.
LEMMA Installed ==
    ASSUME proc \in [Procs -> Call], NEW p \in Procs, NEW c \in Call, Set(p, c)
    PROVE  /\ proc' \in [Procs -> Call]
           /\ proc'[p] = c
           /\ \A q \in Procs \ {p} : proc'[q] = proc[q]
BY Zenon DEF Set

\* A step of p keeps the invariant if it keeps what the rows say, what p knows,
\* what each other process knows, and what p and the others may not share.
LEMMA Assemble ==
    ASSUME LifecycleInv, NEW p \in Procs, NEW c \in Call, Set(p, c),
           FenceExclusive', Rows', IndexCovers', NoOrphanItem', Process(c)',
           ns' \in NsRow, fence' \in [epoch : Int, pending : {0, 1}],
           repo' \in [Repos -> RepoRow],
           listed' \subseteq Repos, used' \subseteq Repos, created' \subseteq Repos,
           item' \in [Items -> Repos \cup {None}],
           \A q \in Procs \ {p} : \A d \in Call : d = proc[q] => Process(d)',
           \A q \in Procs \ {p} : Apart(c, proc[q]) /\ Apart(proc[q], c)
    PROVE  LifecycleInv'
<1>1. proc \in [Procs -> Call]
  BY Zenon DEF LifecycleInv, Typed
<1>2. /\ proc' \in [Procs -> Call]
      /\ proc'[p] = c
      /\ \A q \in Procs \ {p} : proc'[q] = proc[q]
  BY Zenon, <1>1, Installed
<1>3. Typed'
  BY Zenon, <1>2 DEF Typed
<1>4. \A q \in Procs : Process(proc[q])'
  <2> SUFFICES ASSUME NEW q \in Procs PROVE Process(proc[q])'  OBVIOUS
  <2>1. proc[q] \in Call
    BY Zenon, <1>1
  <2>2. ASSUME NEW d \in Call, Process(d)', proc'[q] = d PROVE Process(proc[q])'
    BY <2>2 DEF Process, Shape, Creation, Mutation, Emptied, Vacated, Live
  <2>3. CASE q = p
    BY Zenon, <1>2, <2>2, <2>3
  <2>4. CASE q # p
    BY Zenon, <1>2, <2>1, <2>2, <2>4
  <2> QED  BY Zenon, <2>3, <2>4
<1>5. \A q, s \in Procs : q # s => Apart(proc[q], proc[s])'
  <2> SUFFICES ASSUME NEW q \in Procs, NEW s \in Procs, q # s PROVE Apart(proc[q], proc[s])'
    OBVIOUS
  <2>1. Apart(proc[q], proc[s])
    BY Zenon DEF LifecycleInv
  <2>2. CASE q = p
    BY Zenon, <1>2, <2>2 DEF Apart
  <2>3. CASE s = p
    BY Zenon, <1>2, <2>3 DEF Apart
  <2>4. CASE q # p /\ s # p
    BY Zenon, <1>2, <2>1, <2>4 DEF Apart
  <2> QED  BY Zenon, <2>2, <2>3, <2>4
<1> QED  BY Zenon, <1>3, <1>4, <1>5 DEF LifecycleInv

\* The fence excludes after a step that leaves it alone and does not enter.
LEMMA FenceKept ==
    ASSUME LifecycleInv, NEW p \in Procs, NEW c \in Call, Set(p, c), fence' = fence,
           c.pc \in InBody => proc[p].pc \in InBody /\ c.epoch = proc[p].epoch
    PROVE  FenceExclusive'
<1>1. proc \in [Procs -> Call]
  BY Zenon DEF LifecycleInv, Typed
<1>2. proc'[p] = c /\ \A q \in Procs \ {p} : proc'[q] = proc[q]
  BY Zenon, <1>1, Installed
<1>3. \A q \in Procs : proc'[q].pc \in InBody
                         => proc[q].pc \in InBody /\ proc'[q].epoch = proc[q].epoch
  BY Zenon, <1>2
<1> QED  BY Zenon, <1>3 DEF LifecycleInv, FenceExclusive, Holders

\* A step that stays outside the fence, the creation or the deletion it is not
\* in keeps the distances.
LEMMA StepKeeps ==
    ASSUME LifecycleInv, NEW p \in Procs, NEW c \in Call, Set(p, c), Kept(proc[p], c),
           fence' = fence, Rows', IndexCovers', NoOrphanItem', Process(c)',
           ns' \in NsRow, repo' \in [Repos -> RepoRow],
           listed' \subseteq Repos, used' \subseteq Repos, created' \subseteq Repos,
           item' \in [Items -> Repos \cup {None}],
           \A q \in Procs \ {p} : \A d \in Call : d = proc[q] => Process(d)'
    PROVE  LifecycleInv'
<1>1. FenceExclusive'
  BY Zenon, FenceKept DEF Kept
<1>2. \A q \in Procs \ {p} : Apart(c, proc[q]) /\ Apart(proc[q], c)
  <2> SUFFICES ASSUME NEW q \in Procs \ {p} PROVE Apart(c, proc[q]) /\ Apart(proc[q], c)
    OBVIOUS
  <2>1. Apart(proc[p], proc[q]) /\ Apart(proc[q], proc[p])
    BY Zenon DEF LifecycleInv
  <2> QED  BY Zenon, <2>1 DEF Apart, Kept
<1>3. fence' \in [epoch : Int, pending : {0, 1}]
  BY Zenon DEF LifecycleInv, Typed
<1> QED  BY Zenon, <1>1, <1>2, <1>3, Assemble

\* What the invariant is about, besides the processes.
rowVars == <<ns, fence, repo, listed, used, created, item, index>>

\* The knowledge of a process is about these rows only.
LEMMA RowsUnchanged ==
    ASSUME LifecycleInv, UNCHANGED <<ns, repo, listed, used, created, item, index>>
    PROVE  /\ Rows' /\ IndexCovers' /\ NoOrphanItem'
           /\ ns' \in NsRow /\ repo' \in [Repos -> RepoRow]
           /\ listed' \subseteq Repos /\ used' \subseteq Repos /\ created' \subseteq Repos
           /\ item' \in [Items -> Repos \cup {None}]
           /\ \A d \in Call : Process(d) => Process(d)'
<1>1. Rows' /\ IndexCovers' /\ NoOrphanItem'
  BY Zenon DEF LifecycleInv, Rows, Live, IndexCovers, NoOrphanItem
<1>2. ASSUME NEW d \in Call, Process(d) PROVE Process(d)'
  BY <1>2 DEF Process, Shape, Creation, Mutation, Emptied, Vacated, Live
<1> QED  BY Zenon, <1>1, <1>2 DEF LifecycleInv, Typed

\* A step that changes none of these rows.
LEMMA QuietStep ==
    ASSUME LifecycleInv, NEW p \in Procs, NEW c \in Call, Set(p, c), Kept(proc[p], c),
           UNCHANGED rowVars, Process(c)
    PROVE  LifecycleInv'
<1>1. fence' = fence /\ UNCHANGED <<ns, repo, listed, used, created, item, index>>
  BY Zenon DEF rowVars
<1>2. \A q \in Procs \ {p} : \A d \in Call : d = proc[q] => Process(d)'
  BY Zenon, <1>1, RowsUnchanged DEF LifecycleInv
<1>3. Process(c)'
  BY Zenon, <1>1, RowsUnchanged
<1> QED  BY Zenon, <1>1, <1>2, <1>3, RowsUnchanged, StepKeeps

\* An idle process knows nothing, and to become idle is always allowed.
LEMMA IdleFacts ==
    ASSUME NEW b
    PROVE  Idle \in Call /\ Kept(b, Idle) /\ Process(Idle)
<1>1. Idle \in Call
  BY LifecycleAssumption DEF Idle, Call, None, Pcs, Results
<1>2. Kept(b, Idle)
  <2>1. Idle.pc = "idle"
    BY Zenon DEF Idle
  <2>2. "idle" \notin InBody /\ "idle" \notin Early /\ "idle" \notin Late /\ "idle" \notin Ending
    BY Zenon DEF InBody, Early, Late, Ending
  <2> QED  BY Zenon, <2>1, <2>2 DEF Kept
<1>3. Process(Idle)
  BY Zenon DEF Idle, None, Process, Shape, Creation, Mutation, Emptied, Vacated, Early, Late, Ending,
         InBody, Writing, Touching, Removing
<1> QED  BY Zenon, <1>1, <1>2, <1>3

\* A process returns, whatever it has left behind.
LEMMA QuietReturn ==
    ASSUME LifecycleInv, NEW p \in Procs, Return(p), UNCHANGED rowVars
    PROVE  LifecycleInv'
BY Zenon, IdleFacts, QuietStep DEF Return

\* The process returns, or it goes on to x, possibly with another result.
At2(c, x, y) == [c EXCEPT !.pc = x, !.result = y]

NewResults(c) == {c.result, "failed", "repair"}

Moves(p, S) == Return(p) \/ \E x \in S, y \in NewResults(proc[p]) : Set(p, At2(proc[p], x, y))

\* The fields of such a state.
LEMMA MovedFields ==
    ASSUME NEW c \in Call, NEW x \in Pcs, NEW y \in Results
    PROVE  /\ At2(c, x, y) \in Call
           /\ At2(c, x, y).pc = x /\ At2(c, x, y).result = y
           /\ At2(c, x, y).call = c.call /\ At2(c, x, y).r = c.r /\ At2(c, x, y).i = c.i
           /\ At2(c, x, y).mark = c.mark /\ At2(c, x, y).epoch = c.epoch
           /\ At2(c, x, y).from = c.from /\ At2(c, x, y).now = c.now
BY ZenonT(60) DEF At2, Call

\* A step of the form Goto.
LEMMA MovesByGoto ==
    ASSUME LifecycleInv, NEW p \in Procs, NEW S, NEW x \in S, Goto(p, x)
    PROVE  Moves(p, S)
<1>1. proc[p] \in Call
  BY Zenon DEF LifecycleInv, Typed
<1>2. [proc[p] EXCEPT !.pc = x] = At2(proc[p], x, proc[p].result)
  BY ZenonT(60), <1>1 DEF Call, At2
<1>3. proc[p].result \in NewResults(proc[p])
  BY Zenon DEF NewResults
<1>4. Set(p, At2(proc[p], x, proc[p].result))
  BY ZenonT(60), <1>2 DEF Set, Goto
<1> QED  BY Zenon, <1>3, <1>4 DEF Moves

\* The same for Return.
LEMMA MovesByReturn ==
    ASSUME NEW p \in Procs, NEW S, Return(p)
    PROVE  Moves(p, S)
BY Zenon DEF Moves

\* The same for Failed and Repair.
LEMMA MovesByResult ==
    ASSUME NEW p \in Procs, NEW S, NEW x \in S, Failed(p, x) \/ Repair(p, x)
    PROVE  Moves(p, S)
<1>1. CASE Failed(p, x)
  <2>1. Set(p, At2(proc[p], x, "failed"))
    BY Zenon, <1>1 DEF Failed, At2
  <2> QED  BY Zenon, <2>1 DEF Moves, NewResults
<1>2. CASE Repair(p, x)
  <2>1. Set(p, At2(proc[p], x, "repair"))
    BY Zenon, <1>2 DEF Repair, At2
  <2> QED  BY Zenon, <2>1 DEF Moves, NewResults
<1> QED  BY Zenon, <1>1, <1>2

\* Results are results.
LEMMA ResultsTyped ==
    ASSUME NEW c \in Call
    PROVE  NewResults(c) \subseteq Results
BY Zenon DEF NewResults, Results, Call

\* A step of this form that changes none of the rows.
LEMMA QuietMove ==
    ASSUME LifecycleInv, NEW p \in Procs, NEW S \in SUBSET Pcs, Moves(p, S),
           UNCHANGED rowVars,
           \A x \in S, y \in NewResults(proc[p]) : /\ Kept(proc[p], At2(proc[p], x, y))
                                      /\ Process(At2(proc[p], x, y))
    PROVE  LifecycleInv'
<1>1. CASE Return(p)
  BY Zenon, <1>1, QuietReturn
<1>2. CASE \E x \in S, y \in NewResults(proc[p]) : Set(p, At2(proc[p], x, y))
  <2>1. PICK x \in S, y \in NewResults(proc[p]) : Set(p, At2(proc[p], x, y))
    BY Zenon, <1>2
  <2>2. proc[p] \in Call
    BY Zenon DEF LifecycleInv, Typed
  <2>3. At2(proc[p], x, y) \in Call
    BY Zenon, <2>2, MovedFields, ResultsTyped
  <2> QED  BY Zenon, <2>1, <2>3, QuietStep
<1> QED  BY Zenon, <1>1, <1>2 DEF Moves

-----------------------------------------------------------------------------
(* Where a process may go without learning anything                        *)

\* Within a creation, except to "ready".
LEMMA CreationGoesOn ==
    ASSUME LifecycleInv, NEW p \in Procs, proc[p].pc \in (Early \cup Late) \ {"release"},
           NEW x \in Pcs, x \in (Early \cup Late) \ {"ready"}, x \in Early => proc[p].pc \in Early,
           NEW y \in NewResults(proc[p])
    PROVE  Kept(proc[p], At2(proc[p], x, y)) /\ Process(At2(proc[p], x, y))
<1> DEFINE b == proc[p]
           c == At2(b, x, y)
<1>1. b \in Call /\ Process(b)
  BY Zenon DEF LifecycleInv, Typed
<1>2. c.pc = x /\ c.result = y /\ c.call = b.call /\ c.r = b.r /\ c.i = b.i
  BY <1>1, MovedFields, ResultsTyped
<1> HIDE DEF c
<1>3. y # "done"
  BY Zenon, <1>1 DEF Process, Shape, NewResults
<1>4. Kept(b, c)
  BY Zenon, <1>2 DEF Kept, Early, Late, InBody, Ending
<1>5. Shape(c)
  BY Zenon, <1>1, <1>2, <1>3 DEF Process, Shape, Early, Late, InBody, Writing, Touching
<1>6. Creation(c)
  BY Zenon, <1>1, <1>2, <1>3 DEF Process, Creation
<1>7. Mutation(c) /\ Emptied(c) /\ Vacated(c)
  BY Zenon, <1>2 DEF Mutation, Emptied, Vacated, Early, Late, Ending, Removing
<1> QED  BY Zenon, <1>4, <1>5, <1>6, <1>7 DEF Process, c

\* Within the deletion of a repository, and to its end.
LEMMA EndingGoesOn ==
    ASSUME LifecycleInv, NEW p \in Procs, proc[p].pc \in Ending,
           NEW x \in Pcs, x \in Ending \cup {"give"}, NEW y \in NewResults(proc[p])
    PROVE  Kept(proc[p], At2(proc[p], x, y)) /\ Process(At2(proc[p], x, y))
<1> DEFINE b == proc[p]
           c == At2(b, x, y)
<1>1. b \in Call /\ Process(b)
  BY Zenon DEF LifecycleInv, Typed
<1>2. c.pc = x /\ c.result = y /\ c.call = b.call /\ c.r = b.r /\ c.i = b.i /\ c.epoch = b.epoch
  BY <1>1, MovedFields, ResultsTyped
<1> HIDE DEF c
<1>3. y # "done"
  BY Zenon, <1>1 DEF Process, Shape, NewResults, Ending
<1>4. Kept(b, c)
  BY Zenon, <1>2 DEF Kept, Early, Late, InBody, Ending
<1>5. Shape(c)
  BY Zenon, <1>1, <1>2, <1>3 DEF Process, Shape, Ending, InBody, Writing, Touching
<1>6. Emptied(c)
  BY Zenon, <1>1, <1>2 DEF Process, Emptied, Ending
<1>7. Mutation(c) /\ Creation(c) /\ Vacated(c)
  BY Zenon, <1>2 DEF Mutation, Creation, Vacated, Early, Late, Ending, Removing
<1> QED  BY Zenon, <1>4, <1>5, <1>6, <1>7 DEF Process, c

\* From anywhere under the fence to where it is given back.
LEMMA GivesUp ==
    ASSUME LifecycleInv, NEW p \in Procs, proc[p].pc \in InBody, NEW y \in NewResults(proc[p])
    PROVE  Kept(proc[p], At2(proc[p], "give", y)) /\ Process(At2(proc[p], "give", y))
<1> DEFINE b == proc[p]
           c == At2(b, "give", y)
<1>1. b \in Call /\ Process(b)
  BY Zenon DEF LifecycleInv, Typed
<1>2. /\ c.pc = "give" /\ c.result = y /\ c.call = b.call /\ c.r = b.r /\ c.i = b.i
      /\ c.epoch = b.epoch
  <2>1. "give" \in Pcs
    BY Zenon DEF Pcs, InBody
  <2> QED  BY <1>1, <2>1, MovedFields, ResultsTyped
<1> HIDE DEF c
<1>3. y # "done"
  BY Zenon, <1>1 DEF Process, Shape, NewResults, InBody
<1>4. Kept(b, c)
  BY Zenon, <1>2 DEF Kept, Early, Late, InBody, Ending
<1>5. Shape(c)
  BY Zenon, <1>1, <1>2, <1>3 DEF Process, Shape, InBody, Writing, Touching
<1>6. Creation(c) /\ Mutation(c) /\ Emptied(c) /\ Vacated(c)
  BY Zenon, <1>2 DEF Creation, Mutation, Emptied, Vacated, Early, Late, Ending, Removing
<1> QED  BY Zenon, <1>4, <1>5, <1>6 DEF Process, c

\* Within the deletion of a namespace, and to the restoration of its indexes.
LEMMA RemovingGoesOn ==
    ASSUME LifecycleInv, NEW p \in Procs,
           proc[p].pc \in Removing \cup {"nsResolve", "backNsList"},
           NEW x \in Pcs, x \in Removing \cup {"nsResolve", "backNsList", "backNsName"},
           x \in Removing => proc[p].pc \in Removing, NEW y \in NewResults(proc[p])
    PROVE  Kept(proc[p], At2(proc[p], x, y)) /\ Process(At2(proc[p], x, y))
<1> DEFINE b == proc[p]
           c == At2(b, x, y)
<1>1. b \in Call /\ Process(b)
  BY Zenon DEF LifecycleInv, Typed
<1>2. c.pc = x /\ c.result = y /\ c.call = b.call /\ c.r = b.r /\ c.i = b.i
  BY SMTT(60), <1>1, MovedFields, ResultsTyped
<1> HIDE DEF c
<1>3. y # "done"
  BY Zenon, <1>1 DEF Process, Shape, NewResults, Removing
<1>4. Kept(b, c)
  BY Zenon, <1>2 DEF Kept, Early, Late, InBody, Ending, Removing
<1>5. Shape(c)
  BY Zenon, <1>1, <1>2, <1>3 DEF Process, Shape, Removing, InBody, Writing, Touching
<1>6. Vacated(c)
  BY Zenon, <1>1, <1>2 DEF Process, Vacated, Removing
<1>7. Mutation(c) /\ Creation(c) /\ Emptied(c)
  BY Zenon, <1>2 DEF Mutation, Creation, Emptied, Early, Late, Ending, Removing
<1> QED  BY Zenon, <1>4, <1>5, <1>6, <1>7 DEF Process, c

\* The rows of a repository that is not there and of a new one.
LEMMA FreshRows ==
    /\ NoRepo \in RepoRow /\ ~ NoRepo.here
    /\ NewRepo \in RepoRow /\ NewRepo.here /\ ~ Marked(NewRepo)
<1>1. NoRepo \in RepoRow /\ ~ NoRepo.here /\ ~ NoRepo.deleting /\ ~ NoRepo.intent
  BY DEF NoRepo, RepoRow
<1>2. NewRepo \in RepoRow /\ NewRepo.here /\ ~ NewRepo.deleting /\ ~ NewRepo.intent
  BY DEF NewRepo, RepoRow
<1> QED  BY Zenon, <1>1, <1>2 DEF Marked

\* What is known of another process.
LEMMA Other ==
    ASSUME LifecycleInv, NEW p \in Procs, NEW q \in Procs \ {p}
    PROVE  /\ Process(proc[q])
           /\ Apart(proc[p], proc[q]) /\ Apart(proc[q], proc[p])
           /\ ~ (proc[p].pc \in InBody /\ proc[q].pc \in InBody)
BY Zenon DEF LifecycleInv, FenceExclusive, Holders

\* Counting a creation in or out changes neither the marks nor the presence of
\* the namespace.
LEMMA CounterKeeps ==
    ASSUME LifecycleInv, NEW p \in Procs, NEW c \in Call, Set(p, c), Kept(proc[p], c),
           UNCHANGED <<fence, repo, listed, used, created, item, index>>,
           ns' \in NsRow, ns'.here = ns.here, Marked(ns') = Marked(ns),
           ns'.deleting = ns.deleting, Process(c)
    PROVE  LifecycleInv'
<1>1. Marked(ns)' = Marked(ns)
  BY Zenon DEF Marked
<1>2. Rows' /\ IndexCovers' /\ NoOrphanItem'
  BY ZenonT(30), <1>1 DEF LifecycleInv, Rows, Live, IndexCovers, NoOrphanItem
<1>3. \A d \in Call : Process(d) => Process(d)'
  BY <1>1 DEF Process, Shape, Creation, Mutation, Emptied, Vacated, Live
<1>4. \A q \in Procs \ {p} : \A d \in Call : d = proc[q] => Process(d)'
  BY Zenon, <1>3 DEF LifecycleInv
<1> QED  BY Zenon, <1>2, <1>3, <1>4, StepKeeps DEF LifecycleInv, Typed

\* More listed repositories harm nobody.
LEMMA ListingGrows ==
    ASSUME LifecycleInv, NEW p \in Procs, NEW c \in Call, Set(p, c), Kept(proc[p], c), Process(c)',
           UNCHANGED <<ns, fence, repo, used, created, item, index>>,
           listed \subseteq listed', listed' \subseteq Repos
    PROVE  LifecycleInv'
<1>1. Rows' /\ IndexCovers' /\ NoOrphanItem'
  BY ZenonT(60) DEF LifecycleInv, Rows, Live, IndexCovers, NoOrphanItem
<1>2. \A d \in Call : Process(d) => Process(d)'
  BY DEF Process, Shape, Creation, Mutation, Emptied, Vacated, Live
<1>3. \A q \in Procs \ {p} : \A d \in Call : d = proc[q] => Process(d)'
  BY Zenon, <1>2 DEF LifecycleInv
<1> QED  BY Zenon, <1>1, <1>3, StepKeeps DEF LifecycleInv, Typed

\* A step that changes the fence, and no other row.
LEMMA FenceChanges ==
    ASSUME LifecycleInv, NEW p \in Procs, NEW c \in Call, Set(p, c), FenceExclusive', Process(c),
           fence' \in [epoch : Int, pending : {0, 1}], c.pc \notin Early \cup Late \cup Ending,
           UNCHANGED <<ns, repo, listed, used, created, item, index>>
    PROVE  LifecycleInv'
<1>1. \A q \in Procs \ {p} : \A d \in Call : d = proc[q] => Process(d)'
  BY Zenon, RowsUnchanged DEF LifecycleInv
<1>2. Process(c)'
  BY Zenon, RowsUnchanged
<1>3. \A q \in Procs \ {p} : Apart(c, proc[q]) /\ Apart(proc[q], c)
  BY Zenon DEF Apart
<1> QED  BY Zenon, <1>1, <1>2, <1>3, RowsUnchanged, Assemble

\* A step that gives up, and changes no row.
LEMMA QuietGiveUp ==
    ASSUME LifecycleInv, NEW p \in Procs, proc[p].pc \in InBody, Moves(p, {"give"}),
           UNCHANGED rowVars
    PROVE  LifecycleInv'
<1>1. {"give"} \in SUBSET Pcs
  BY Zenon DEF Pcs, InBody
<1>2. \A x \in {"give"}, y \in NewResults(proc[p]) : /\ Kept(proc[p], At2(proc[p], x, y))
                                                     /\ Process(At2(proc[p], x, y))
  BY Zenon, GivesUp
<1> QED  BY Zenon, <1>1, <1>2, QuietMove

\* A step from one place under the fence to another, outside the deletion of a
\* repository, that changes no row.
LEMMA QuietGoto ==
    ASSUME LifecycleInv, NEW p \in Procs, proc[p].pc \in InBody,
           NEW x \in InBody \ Ending, Goto(p, x), UNCHANGED rowVars,
           \A c \in Call : /\ c.pc = x /\ c.call = proc[p].call /\ c.r = proc[p].r
                           /\ c.i = proc[p].i /\ c.mark = proc[p].mark /\ c.from = proc[p].from
                           /\ c.now = proc[p].now /\ c.result = proc[p].result
                           => Process(c)
    PROVE  LifecycleInv'
<1> DEFINE c == At2(proc[p], x, proc[p].result)
<1>1. proc[p] \in Call
  BY Zenon DEF LifecycleInv, Typed
<1>2. Set(p, c)
  BY ZenonT(60), <1>1 DEF Goto, Set, At2, Call
<1>3. x \in Pcs /\ proc[p].result \in Results
  BY Zenon, <1>1 DEF Pcs, Call
<1>4. /\ c \in Call /\ c.pc = x /\ c.call = proc[p].call /\ c.r = proc[p].r /\ c.i = proc[p].i
      /\ c.mark = proc[p].mark /\ c.from = proc[p].from /\ c.now = proc[p].now
      /\ c.result = proc[p].result /\ c.epoch = proc[p].epoch
  BY <1>1, <1>3, MovedFields
<1> HIDE DEF c
<1>5. Kept(proc[p], c)
  BY Zenon, <1>4 DEF Kept, InBody, Early, Late, Ending
<1>6. Process(c)
  BY Zenon, <1>4
<1> QED  BY Zenon, <1>2, <1>4, <1>5, <1>6, QuietStep

\* A call that is about to take the fence knows nothing yet.
LEMMA BeginsQuietly ==
    ASSUME LifecycleInv, NEW p \in Procs, NEW c \in Call, Set(p, c), UNCHANGED rowVars,
           c.pc = "take", c.result = "ok",
           c.call \in {"write", "delete", "update", "complete", "mark"},
           c.call \in {"write", "delete"} => c.i \in Items,
           c.call = "write" => c.r \in created
    PROVE  LifecycleInv'
<1>1. Kept(proc[p], c)
  BY Zenon DEF Kept, Early, Late, Ending, InBody
<1>2. Process(c)
  BY Zenon DEF Process, Shape, Creation, Mutation, Emptied, Vacated, Early, Late, Ending, InBody,
         Writing, Touching, Removing
<1> QED  BY Zenon, <1>1, <1>2, QuietStep


-----------------------------------------------------------------------------
(* The calls begin                                                         *)

\* The calls that take the fence.
LEMMA CallsBegin ==
    ASSUME LifecycleInv, NEW p \in Procs,
           \/ WriteResource(p) \/ DeleteResource(p) \/ UpdateRepository(p)
           \/ CompleteRepositoryDeletion(p) \/ MarkNamespace(p)
    PROVE  LifecycleInv'
<1>1. Typed /\ Idle \in Call
  BY Zenon, IdleFacts DEF LifecycleInv
<1>2. CASE WriteResource(p)
  <2>1. PICK r \in created, i \in Items :
          Set(p, [Idle EXCEPT !.pc = "take", !.call = "write", !.r = r, !.i = i])
    BY ZenonT(60), <1>2 DEF WriteResource
  <2> DEFINE c == [Idle EXCEPT !.pc = "take", !.call = "write", !.r = r, !.i = i]
  <2>2. /\ c \in Call /\ c.pc = "take" /\ c.call = "write" /\ c.r = r /\ c.i = i
        /\ c.result = "ok"
    BY ZenonT(60), <1>1 DEF Typed, Idle, Call, Pcs
  <2> HIDE DEF c
  <2>3. UNCHANGED rowVars
    BY ZenonT(60), <1>2 DEF WriteResource, rowVars, nsVars, repoVars, itemVars, histVars
  <2> QED  BY ZenonT(60), <2>1, <2>2, <2>3, BeginsQuietly DEF c
<1>3. CASE DeleteResource(p)
  <2>1. PICK i \in Items :
          /\ item[i] # None
          /\ Set(p, [Idle EXCEPT !.pc = "take", !.call = "delete", !.r = item[i], !.i = i])
    BY ZenonT(60), <1>3 DEF DeleteResource
  <2> DEFINE c == [Idle EXCEPT !.pc = "take", !.call = "delete", !.r = item[i], !.i = i]
  <2>2. /\ c \in Call /\ c.pc = "take" /\ c.call = "delete" /\ c.i = i /\ c.result = "ok"
    <3>1. item[i] \in Repos
      BY Zenon, <1>1, <2>1 DEF Typed
    <3> QED  BY ZenonT(60), <1>1, <3>1 DEF Idle, Call, Pcs
  <2> HIDE DEF c
  <2>3. UNCHANGED rowVars
    BY ZenonT(60), <1>3 DEF DeleteResource, rowVars, nsVars, repoVars, itemVars, histVars
  <2> QED  BY ZenonT(60), <2>1, <2>2, <2>3, BeginsQuietly DEF c
<1>4. CASE UpdateRepository(p)
  <2>1. PICK r \in Repos, m \in {None, "intent", "deletion"} :
          Set(p, [Idle EXCEPT !.pc = "take", !.call = "update", !.r = r, !.mark = m,
                              !.rv = repo[r].rv])
    BY ZenonT(60), <1>4 DEF UpdateRepository
  <2> DEFINE c == [Idle EXCEPT !.pc = "take", !.call = "update", !.r = r, !.mark = m,
                               !.rv = repo[r].rv]
  <2>2. c \in Call /\ c.pc = "take" /\ c.call = "update" /\ c.result = "ok"
    <3>1. repo[r].rv \in Int
      BY Zenon, <1>1 DEF Typed, RepoRow
    <3> QED  BY ZenonT(60), <1>1, <3>1 DEF Idle, Call, Pcs
  <2> HIDE DEF c
  <2>3. UNCHANGED rowVars
    BY ZenonT(60), <1>4 DEF UpdateRepository, rowVars, nsVars, repoVars, itemVars, histVars
  <2> QED  BY ZenonT(60), <2>1, <2>2, <2>3, BeginsQuietly DEF c
<1>5. CASE CompleteRepositoryDeletion(p)
  <2>1. PICK r \in Repos :
          Set(p, [Idle EXCEPT !.pc = "take", !.call = "complete", !.r = r, !.rv = repo[r].rv])
    BY ZenonT(60), <1>5 DEF CompleteRepositoryDeletion
  <2> DEFINE c == [Idle EXCEPT !.pc = "take", !.call = "complete", !.r = r, !.rv = repo[r].rv]
  <2>2. c \in Call /\ c.pc = "take" /\ c.call = "complete" /\ c.result = "ok"
    <3>1. repo[r].rv \in Int
      BY Zenon, <1>1 DEF Typed, RepoRow
    <3> QED  BY ZenonT(60), <1>1, <3>1 DEF Idle, Call, Pcs
  <2> HIDE DEF c
  <2>3. UNCHANGED rowVars
    BY ZenonT(60), <1>5 DEF CompleteRepositoryDeletion, rowVars, nsVars, repoVars, itemVars, histVars
  <2> QED  BY ZenonT(60), <2>1, <2>2, <2>3, BeginsQuietly DEF c
<1>6. CASE MarkNamespace(p)
  <2>1. PICK m \in {"intent", "deletion"} :
          Set(p, [Idle EXCEPT !.pc = "take", !.call = "mark", !.mark = m, !.rv = ns.rv])
    BY ZenonT(60), <1>6 DEF MarkNamespace
  <2> DEFINE c == [Idle EXCEPT !.pc = "take", !.call = "mark", !.mark = m, !.rv = ns.rv]
  <2>2. c \in Call /\ c.pc = "take" /\ c.call = "mark" /\ c.result = "ok"
    <3>1. ns.rv \in Int
      BY Zenon, <1>1 DEF Typed, NsRow
    <3> QED  BY ZenonT(60), <1>1, <3>1 DEF Idle, Call, Pcs
  <2> HIDE DEF c
  <2>3. UNCHANGED rowVars
    BY Zenon, <1>6 DEF MarkNamespace, rowVars, nsVars, repoVars, itemVars, histVars
  <2> QED  BY ZenonT(60), <2>1, <2>2, <2>3, BeginsQuietly DEF c
<1> QED  BY Zenon, <1>2, <1>3, <1>4, <1>5, <1>6

-----------------------------------------------------------------------------
(* catalogMutation                                                         *)

\* The reads of a catalog write: what they find is true under the fence.
LEMMA ResourceReads ==
    ASSUME LifecycleInv, NEW p \in Procs,
           ParentNamespace(p) \/ ParentRepository(p) \/ ReadBefore(p) \/ ReadBack(p)
    PROVE  LifecycleInv'
<1> DEFINE b == proc[p]
<1>1. b \in Call /\ Process(b) /\ item \in [Items -> Repos \cup {None}]
  BY Zenon DEF LifecycleInv, Typed
<1>2. ASSUME b.pc \in InBody, Goto(p, "give"), UNCHANGED rowVars PROVE LifecycleInv'
  BY Zenon, <1>2, QuietGiveUp, MovesByGoto
<1>3. CASE ParentNamespace(p)
  <2>1. UNCHANGED rowVars /\ b.pc = "parentNs" /\ b.pc \in InBody
    BY Zenon, <1>3 DEF ParentNamespace, At, rowVars, nsVars, repoVars, itemVars, histVars, InBody
  <2>2. Goto(p, "give") \/ (Goto(p, "parentRepo") /\ ns.here /\ ~ Marked(ns))
    BY Zenon, <1>3 DEF ParentNamespace, Read
  <2>3. CASE Goto(p, "parentRepo") /\ ns.here /\ ~ Marked(ns)
    <3>1. "parentRepo" \in InBody \ Ending
      BY Zenon DEF InBody, Ending
    <3>2. ASSUME NEW c \in Call, c.pc = "parentRepo", c.call = b.call, c.r = b.r, c.i = b.i,
                 c.result = b.result
          PROVE  Process(c)
      BY Zenon, <1>1, <2>1, <2>3, <3>2
         DEF Process, Shape, Creation, Mutation, Emptied, Vacated, Early, Late, Ending, InBody,
             Writing, Touching, Removing
    <3> QED  BY Zenon, <2>1, <2>3, <3>1, <3>2, QuietGoto
  <2> QED  BY Zenon, <1>2, <2>1, <2>2, <2>3
<1>4. CASE ParentRepository(p)
  <2>1. UNCHANGED rowVars /\ b.pc = "parentRepo" /\ b.pc \in InBody
    BY Zenon, <1>4 DEF ParentRepository, At, rowVars, nsVars, repoVars, itemVars, histVars, InBody
  <2>2. Goto(p, "give") \/ (Goto(p, "before") /\ Live(b.r))
    BY Zenon, <1>4 DEF ParentRepository, Read, Live
  <2>3. CASE Goto(p, "before") /\ Live(b.r)
    <3>1. "before" \in InBody \ Ending
      BY Zenon DEF InBody, Ending
    <3>2. ASSUME NEW c \in Call, c.pc = "before", c.call = b.call, c.r = b.r, c.i = b.i,
                 c.result = b.result
          PROVE  Process(c)
      BY Zenon, <1>1, <2>1, <2>3, <3>2
         DEF Process, Shape, Creation, Mutation, Emptied, Vacated, Early, Late, Ending, InBody,
             Writing, Touching, Removing
    <3> QED  BY Zenon, <2>1, <2>3, <3>1, <3>2, QuietGoto
  <2> QED  BY Zenon, <1>2, <2>1, <2>2, <2>3
<1>5. CASE ReadBefore(p)
  <2>1. UNCHANGED rowVars /\ b.pc = "before" /\ b.pc \in InBody
    BY Zenon, <1>5 DEF ReadBefore, At, rowVars, nsVars, repoVars, itemVars, histVars, InBody
  <2> DEFINE x == IF b.call = "write" THEN "index" ELSE "operate"
             c == [b EXCEPT !.from = item[b.i], !.pc = x]
  <2>2. Goto(p, "give") \/ Set(p, c)
    BY Zenon, <1>5 DEF ReadBefore, Read
  <2>3. CASE Set(p, c)
    <3>1. b.call \in {"write", "delete"} /\ b.i \in Items
      BY Zenon, <1>1, <2>1 DEF Process, Shape, Touching
    <3>2. item[b.i] \in Repos \cup {None} /\ x \in Pcs
      BY Zenon, <1>1, <3>1 DEF Pcs, InBody
    <3>3. /\ c \in Call /\ c.pc = x /\ c.call = b.call /\ c.r = b.r /\ c.i = b.i
          /\ c.result = b.result /\ c.epoch = b.epoch
      BY ZenonT(60), <1>1, <3>2 DEF Call
    <3> HIDE DEF c
    <3>4. Kept(b, c)
      BY Zenon, <2>1, <3>3 DEF Kept, Early, Late, Ending, InBody
    <3>5. Process(c)
      BY Zenon, <1>1, <2>1, <3>1, <3>3
         DEF Process, Shape, Creation, Mutation, Emptied, Vacated, Early, Late, Ending, InBody,
             Writing, Touching, Removing
    <3> QED  BY Zenon, <2>1, <2>3, <3>3, <3>4, <3>5, QuietStep
  <2> QED  BY Zenon, <1>2, <2>1, <2>2, <2>3
<1>6. CASE ReadBack(p)
  <2>1. UNCHANGED rowVars /\ b.pc = "readBack" /\ b.pc \in InBody
    BY Zenon, <1>6 DEF ReadBack, At, rowVars, nsVars, repoVars, itemVars, histVars, InBody
  <2> DEFINE c == [b EXCEPT !.pc = "fixIndex", !.now = item[b.i]]
  <2>2. Return(p) \/ Goto(p, "give") \/ Set(p, c)
    BY Zenon, <1>6 DEF ReadBack, Read, End
  <2>3. CASE Set(p, c)
    <3>1. b.call \in {"write", "delete"} /\ b.i \in Items
      BY Zenon, <1>1, <2>1 DEF Process, Shape, Touching
    <3>2. item[b.i] \in Repos \cup {None} /\ "fixIndex" \in Pcs
      BY Zenon, <1>1, <3>1 DEF Pcs, InBody
    <3>3. /\ c \in Call /\ c.pc = "fixIndex" /\ c.call = b.call /\ c.r = b.r /\ c.i = b.i
          /\ c.result = b.result /\ c.epoch = b.epoch /\ c.now = item[b.i]
      BY ZenonT(60), <1>1, <3>2 DEF Call
    <3> HIDE DEF c
    <3>4. Kept(b, c)
      BY Zenon, <2>1, <3>3 DEF Kept, Early, Late, Ending, InBody
    <3>5. Process(c)
      BY Zenon, <1>1, <2>1, <3>1, <3>3
         DEF Process, Shape, Creation, Mutation, Emptied, Vacated, Early, Late, Ending, InBody,
             Writing, Touching, Removing
    <3> QED  BY Zenon, <2>1, <2>3, <3>3, <3>4, <3>5, QuietStep
  <2>4. CASE Return(p)
    BY Zenon, <2>1, <2>4, QuietReturn
  <2> QED  BY Zenon, <1>2, <2>1, <2>2, <2>3, <2>4
<1> QED  BY Zenon, <1>3, <1>4, <1>5, <1>6

\* The holder of the fence is the only process that knows anything about the
\* resources and the index.
LEMMA ItemStep ==
    ASSUME LifecycleInv, NEW p \in Procs, NEW c \in Call, Set(p, c), Kept(proc[p], c),
           proc[p].pc \in InBody, UNCHANGED <<ns, fence, repo, listed, used, created>>,
           item' \in [Items -> Repos \cup {None}],
           Rows', IndexCovers', NoOrphanItem', Process(c)'
    PROVE  LifecycleInv'
<1>1. ASSUME NEW q \in Procs \ {p}, NEW d \in Call, d = proc[q] PROVE Process(d)'
  <2>1. Process(d) /\ d.pc \notin InBody
    BY Zenon, <1>1, Other
  <2>2. d.pc \notin Ending \cup {"operate", "fixIndex", "unindex", "repoWrite", "markEmpty",
                                 "markWrite"}
    BY Zenon, <2>1 DEF InBody, Ending
  <2> QED  BY Zenon, <2>1, <2>2 DEF Process, Shape, Creation, Mutation, Emptied, Vacated, Live
<1> QED  BY Zenon, <1>1, StepKeeps DEF LifecycleInv, Typed

\* The index entry comes first.
LEMMA IndexFirstKeeps ==
    ASSUME LifecycleInv, NEW p \in Procs, IndexFirst(p)
    PROVE  LifecycleInv'
<1> DEFINE b == proc[p]
<1>1. b \in Call /\ Process(b)
  BY Zenon DEF LifecycleInv, Typed
<1>2. UNCHANGED <<ns, fence, repo, listed, used, created, item>> /\ b.pc = "index"
  BY Zenon DEF IndexFirst, At, nsVars, repoVars, histVars
<1>3. /\ index' = index \cup {<<b.r, b.i>>} \/ index' = index
      /\ Goto(p, "give") \/ (Goto(p, "operate") /\ index' = index \cup {<<b.r, b.i>>})
  BY Zenon DEF IndexFirst, Write
<1>4. PICK x \in {"give", "operate"} : /\ Goto(p, x)
                                       /\ x = "operate" => index' = index \cup {<<b.r, b.i>>}
  BY Zenon, <1>3
<1>5. PICK c \in Call : /\ Set(p, c) /\ c.pc = x /\ c.call = b.call /\ c.r = b.r /\ c.i = b.i
                        /\ c.result = b.result /\ c.epoch = b.epoch
  <2>1. x \in Pcs /\ b.result \in Results
    BY Zenon, <1>1 DEF Pcs, InBody, Call
  <2>2. Set(p, At2(b, x, b.result))
    BY ZenonT(60), <1>1, <1>4 DEF Goto, Set, At2, Call
  <2> QED  BY <1>1, <2>1, <2>2, MovedFields
<1>6. Kept(b, c) /\ b.pc \in InBody
  BY Zenon, <1>2, <1>5 DEF Kept, Early, Late, Ending, InBody
<1>7. Process(c)'
  BY Zenon, <1>1, <1>2, <1>4, <1>5
     DEF Process, Shape, Creation, Mutation, Emptied, Vacated, Early, Late, Ending, InBody,
         Writing, Touching, Removing, Live
<1>8. Rows' /\ IndexCovers' /\ NoOrphanItem'
  BY Zenon, <1>2, <1>3 DEF LifecycleInv, Rows, Live, IndexCovers, NoOrphanItem
<1>9. item' \in [Items -> Repos \cup {None}]
  BY Zenon, <1>2 DEF LifecycleInv, Typed
<1> QED  BY Zenon, <1>2, <1>5, <1>6, <1>7, <1>8, <1>9, ItemStep

\* The operation puts a resource where its parents are live and its index entry
\* is, or takes it away.
LEMMA OperateKeeps ==
    ASSUME LifecycleInv, NEW p \in Procs, Operate(p)
    PROVE  LifecycleInv'
<1> DEFINE b == proc[p]
           to == IF b.call = "write" THEN b.r ELSE None
<1>1. b \in Call /\ Process(b) /\ item \in [Items -> Repos \cup {None}]
  BY Zenon DEF LifecycleInv, Typed
<1>2. UNCHANGED <<ns, fence, repo, listed, used, created, index>> /\ b.pc = "operate"
  BY Zenon DEF Operate, At, nsVars, repoVars, histVars
<1>3. /\ item' = [item EXCEPT ![b.i] = to] \/ item' = item
      /\ Goto(p, "readBack") \/ Repair(p, "readBack")
  BY Zenon DEF Operate
<1>4. PICK c \in Call : /\ Set(p, c) /\ c.pc = "readBack" /\ c.call = b.call /\ c.r = b.r
                        /\ c.i = b.i /\ c.result \in NewResults(b) /\ c.epoch = b.epoch
  <2>1. "readBack" \in Pcs
    BY Zenon DEF Pcs, InBody
  <2>2. PICK y \in NewResults(b) : Set(p, At2(b, "readBack", y))
    <3>1. Goto(p, "readBack") => Set(p, At2(b, "readBack", b.result))
      BY ZenonT(60), <1>1 DEF Goto, Set, At2, Call
    <3>2. Repair(p, "readBack") => Set(p, At2(b, "readBack", "repair"))
      BY Zenon DEF Repair, At2
    <3> QED  BY Zenon, <1>3, <3>1, <3>2 DEF NewResults
  <2> QED  BY <1>1, <2>1, <2>2, MovedFields, ResultsTyped
<1>5. Kept(b, c) /\ b.pc \in InBody
  BY Zenon, <1>2, <1>4 DEF Kept, Early, Late, Ending, InBody
<1>6. /\ b.i \in Items /\ to \in Repos \cup {None}
      /\ b.call = "write" => /\ to \in created /\ ns.here /\ ~ Marked(ns) /\ Live(to)
                             /\ <<to, b.i>> \in index
      /\ to # None => b.call = "write"
  BY Zenon, <1>1, <1>2 DEF Process, Shape, Mutation, Touching, Call
<1> HIDE DEF to
<1>7. /\ item' \in [Items -> Repos \cup {None}]
      /\ \A i \in Items : item'[i] \in {item[i], to}
      /\ \A i \in Items \ {b.i} : item'[i] = item[i]
  BY Zenon, <1>1, <1>3, <1>6
<1>8. Process(c)'
  <2>1. c.result # "done"
    BY Zenon, <1>1, <1>2, <1>4 DEF NewResults, Process, Shape
  <2> QED  BY ZenonT(30), <1>1, <1>2, <1>4, <2>1
              DEF Process, Shape, Creation, Mutation, Emptied, Vacated, Early, Late, Ending, InBody,
                  Writing, Touching, Removing
<1>9. Rows'
  BY Zenon, <1>2, <1>6, <1>7 DEF LifecycleInv, Rows, Live
<1>10. IndexCovers'
  BY Zenon, <1>2, <1>6, <1>7 DEF LifecycleInv, IndexCovers
<1>11. NoOrphanItem'
  BY Zenon, <1>2, <1>6, <1>7 DEF LifecycleInv, NoOrphanItem, Live
<1> QED  BY Zenon, <1>2, <1>4, <1>5, <1>7, <1>8, <1>9, <1>10, <1>11, ItemStep

\* The index entries that are dropped are not the resource's own.
LEMMA IndexRepairKeeps ==
    ASSUME LifecycleInv, NEW p \in Procs, FixIndex(p) \/ Unindex(p)
    PROVE  LifecycleInv'
<1> DEFINE b == proc[p]
<1>1. b \in Call /\ Process(b) /\ item \in [Items -> Repos \cup {None}]
  BY Zenon DEF LifecycleInv, Typed
<1>2. /\ UNCHANGED <<ns, fence, repo, listed, used, created, item>>
      /\ b.pc \in {"fixIndex", "unindex"}
  BY ZenonT(30) DEF FixIndex, Unindex, At, nsVars, repoVars, histVars
<1>3. b.i \in Items /\ b.call \in {"write", "delete"} /\ b.now = item[b.i]
  BY Zenon, <1>1, <1>2 DEF Process, Shape, Mutation, Touching
<1>4. \A i \in Items : <<item[i], i>> \in index => <<item[i], i>> \in index'
  <2>1. CASE FixIndex(p)
    <3>1. \/ index' = index
          \/ b.now = b.r /\ index' = index \cup {<<b.r, b.i>>}
          \/ b.now # b.r /\ index' = index \ {<<b.r, b.i>>}
      BY ZenonT(30), <2>1 DEF FixIndex, Write
    <3> QED  BY Zenon, <1>3, <3>1
  <2>2. CASE Unindex(p)
    <3>1. b.from # b.now
      BY Zenon, <1>1, <2>2 DEF Unindex, At, Process, Mutation
    <3>2. index' = index \/ index' = index \ {<<b.from, b.i>>}
      BY Zenon, <2>2 DEF Unindex, Write
    <3> QED  BY Zenon, <1>3, <3>1, <3>2
  <2> QED  BY Zenon, <2>1, <2>2
<1>5. Rows' /\ IndexCovers' /\ NoOrphanItem'
  BY Zenon, <1>2, <1>4 DEF LifecycleInv, Rows, Live, IndexCovers, NoOrphanItem
<1>6. \/ Return(p)
      \/ Goto(p, "give")
      \/ b.from # b.now /\ Goto(p, "unindex")
  BY Zenon DEF FixIndex, Unindex, Write, End
<1>7. item' \in [Items -> Repos \cup {None}] /\ b.pc \in InBody
  BY Zenon, <1>1, <1>2 DEF InBody
<1>8. CASE Return(p)
  <2>1. Process(Idle)'
    BY ZenonT(60) DEF Idle, None, Process, Shape, Creation, Mutation, Emptied, Vacated, Early, Late, Ending,
           InBody, Writing, Touching, Removing
  <2> QED  BY Zenon, <1>2, <1>5, <1>7, <1>8, <2>1, IdleFacts, ItemStep DEF Return
<1>9. ASSUME NEW x \in {"give", "unindex"}, Goto(p, x), x = "unindex" => b.from # b.now
      PROVE  LifecycleInv'
  <2>1. PICK c \in Call : /\ Set(p, c) /\ c.pc = x /\ c.call = b.call /\ c.r = b.r /\ c.i = b.i
                          /\ c.result = b.result /\ c.epoch = b.epoch /\ c.from = b.from
                          /\ c.now = b.now
    <3>1. x \in Pcs /\ b.result \in Results
      BY Zenon, <1>1 DEF Pcs, InBody, Call
    <3>2. Set(p, At2(b, x, b.result))
      BY ZenonT(60), <1>1, <1>9 DEF Goto, Set, At2, Call
    <3> QED  BY SMTT(60), <1>1, <3>1, <3>2, MovedFields
  <2>2. Kept(b, c)
    BY Zenon, <1>2, <2>1 DEF Kept, Early, Late, Ending, InBody
  <2>3. Process(c)'
    BY ZenonT(60), <1>1, <1>2, <1>3, <1>9, <2>1
       DEF Process, Shape, Creation, Mutation, Emptied, Vacated, Early, Late, Ending, InBody,
           Writing, Touching, Removing
  <2> QED  BY ZenonT(30), <1>2, <1>5, <1>7, <2>1, <2>2, <2>3, ItemStep
<1> QED  BY Zenon, <1>6, <1>8, <1>9

\* Every step of a catalog write keeps the invariant.
LEMMA ResourceStepKeeps ==
    ASSUME LifecycleInv, NEW p \in Procs, ResourceStep(p)
    PROVE  LifecycleInv'
BY Zenon, CallsBegin, ResourceReads, IndexFirstKeeps, OperateKeeps, IndexRepairKeeps DEF ResourceStep

-----------------------------------------------------------------------------
(* UpdateRepository                                                        *)

\* A repository that is marked has no resources, nor has one without entries in
\* the index.
LEMMA NothingIn ==
    ASSUME LifecycleInv, NEW r \in Repos, Marked(repo[r]) \/ HasNoResources(r)
    PROVE  \A i \in Items : item[i] # r
BY ZenonT(60), LifecycleAssumption DEF LifecycleInv, NoOrphanItem, IndexCovers, HasNoResources

\* What an update finds before it marks.
LEMMA RepositoryReads ==
    ASSUME LifecycleInv, NEW p \in Procs, RepositoryRead(p) \/ RepositoryEmpty(p)
    PROVE  LifecycleInv'
<1> DEFINE b == proc[p]
           r == b.r
<1>1. b \in Call /\ Process(b) /\ r \in Repos
  BY Zenon DEF LifecycleInv, Typed, Call
<1>2. UNCHANGED rowVars /\ b.pc \in {"repoRead", "repoEmpty"}
  BY Zenon DEF RepositoryRead, RepositoryEmpty, At, rowVars, nsVars, repoVars, itemVars, histVars
<1>3. \/ Goto(p, "give")
      \/ Goto(p, "repoEmpty")
      \/ Goto(p, "repoWrite") /\ (b.mark # None => Marked(repo[r]) \/ HasNoResources(r))
  BY Zenon DEF RepositoryRead, RepositoryEmpty, Read
<1>4. CASE Goto(p, "give")
  BY Zenon, <1>2, <1>4, QuietGiveUp, MovesByGoto DEF InBody
<1>5. ASSUME NEW x \in {"repoEmpty", "repoWrite"}, Goto(p, x),
             x = "repoWrite" /\ b.mark # None => \A i \in Items : item[i] # r
      PROVE  LifecycleInv'
  <2>1. b.pc \in InBody /\ x \in InBody \ Ending
    BY Zenon, <1>2 DEF InBody, Ending
  <2>2. ASSUME NEW c \in Call, c.pc = x, c.call = b.call, c.r = b.r, c.i = b.i, c.mark = b.mark,
               c.result = b.result
        PROVE  Process(c)
    BY ZenonT(60), <1>1, <1>2, <1>5, <2>1, <2>2
       DEF Process, Shape, Creation, Mutation, Emptied, Vacated, Early, Late, Ending, InBody,
           Writing, Touching, Removing
  <2> QED  BY Zenon, <1>2, <1>5, <2>1, <2>2, QuietGoto
<1> QED  BY Zenon, <1>1, <1>3, <1>4, <1>5, NothingIn

\* The mark itself.  A repository that is marked here has no resources.
LEMMA RepositoryWriteKeeps ==
    ASSUME LifecycleInv, NEW p \in Procs, RepositoryWrite(p)
    PROVE  LifecycleInv'
<1> DEFINE b == proc[p]
           r == b.r
           row == Mark(repo[r], b.mark)
<1>1. b \in Call /\ Process(b) /\ r \in Repos /\ repo \in [Repos -> RepoRow]
  BY Zenon DEF LifecycleInv, Typed, Call
<1>2. UNCHANGED <<ns, fence, listed, used, created, item, index>> /\ b.pc = "repoWrite"
  BY Zenon DEF RepositoryWrite, At, nsVars, itemVars, histVars
<1>3. /\ Goto(p, "give")
      /\ repo' = repo \/ (repo[r].here /\ repo' = [repo EXCEPT ![r] = row])
  BY Zenon DEF RepositoryWrite, Cas, Write, Read, Unchanged
<1>4. CASE repo' = repo
  BY Zenon, <1>2, <1>3, <1>4, QuietGiveUp, MovesByGoto DEF InBody, rowVars
<1>5. CASE repo[r].here /\ repo' = [repo EXCEPT ![r] = row]
  <2>1. /\ row \in RepoRow /\ row.here = repo[r].here
        /\ Marked(repo[r]) => Marked(row)
        /\ b.mark = None => Marked(row) = Marked(repo[r])
    <3> DEFINE R == repo[r]
    <3>1. R \in RepoRow /\ R.rv + 1 \in Int /\ b.mark \in {None, "intent", "deletion"}
      BY <1>1 DEF RepoRow, Call
    <3>2. /\ row \in RepoRow /\ row.here = R.here
          /\ row.intent = (R.intent \/ b.mark = "intent")
          /\ row.deleting = (R.deleting \/ b.mark = "deletion")
      BY ZenonT(60), <3>1 DEF Mark, RepoRow
    <3> HIDE DEF row
    <3> QED  BY ZenonT(60), <3>1, <3>2 DEF Marked, None
  <2> HIDE DEF row
  <2>2. /\ repo' \in [Repos -> RepoRow] /\ \A s \in Repos \ {r} : repo'[s] = repo[s]
        /\ repo'[r] = row
    BY Zenon, <1>1, <1>5, <2>1
  <2>3. \A s \in Repos : /\ repo'[s].here = repo[s].here
                         /\ Marked(repo[s]) => Marked(repo'[s])
    <3>1. repo'[r].here = repo[r].here /\ (Marked(repo[r]) => Marked(repo'[r]))
      BY Zenon, <2>1, <2>2
    <3> QED  BY Zenon, <2>2, <3>1
  <2>4. \A i \in Items : item[i] = r => Marked(repo'[r]) = Marked(repo[r])
    BY Zenon, <1>1, <1>2, <2>1, <2>2 DEF Process, Emptied
  <2>5. Rows'
    BY Zenon, <1>2, <2>3 DEF LifecycleInv, Typed, Rows, Live, Marked
  <2>6. IndexCovers' /\ NoOrphanItem'
    <3>1. IndexCovers'
      BY Zenon, <1>2 DEF LifecycleInv, IndexCovers
    <3>2. NoOrphanItem'
      BY <1>2, <2>2, <2>3, <2>4 DEF LifecycleInv, Typed, NoOrphanItem, Marked
    <3> QED  BY Zenon, <3>1, <3>2
  <2>7. PICK c \in Call : Set(p, c) /\ Kept(b, c) /\ Process(c) /\ c.pc = "give"
    <3>1. "give" \in Pcs /\ b.result \in Results /\ b.result \in NewResults(b) /\ b.pc \in InBody
      BY Zenon, <1>1, <1>2 DEF Pcs, InBody, Call, NewResults
    <3>2. Set(p, At2(b, "give", b.result))
      BY ZenonT(60), <1>1, <1>3 DEF Goto, Set, At2, Call
    <3> QED  BY ZenonT(60), <1>1, <3>1, <3>2, MovedFields, GivesUp
  <2>8. Process(c)'
    BY ZenonT(60), <1>2, <2>7 DEF Process, Shape, Creation, Mutation, Emptied, Vacated, Early, Ending
  <2>9. \A q \in Procs \ {p} : \A d \in Call : d = proc[q] => Process(d)'
    <3> SUFFICES ASSUME NEW q \in Procs \ {p}, NEW d \in Call, d = proc[q] PROVE Process(d)'
      OBVIOUS
    <3>1. Process(d) /\ d.pc \notin InBody /\ d.r \in Repos
      BY Zenon, <1>2, Other DEF InBody, Call
    <3>2. d.pc \notin Ending \cup {"before", "index", "operate", "repoWrite"}
      BY Zenon, <3>1 DEF InBody, Ending
    <3>3. Live(d.r)' => Live(d.r)
      BY Zenon, <2>3, <3>1 DEF Live, Marked
    <3> QED  BY ZenonT(30), <1>2, <2>3, <3>1, <3>2, <3>3 DEF Process, Shape, Creation, Mutation, Emptied, Vacated
  <2> QED  BY Zenon, <1>2, <2>2, <2>5, <2>6, <2>7, <2>8, <2>9, StepKeeps DEF LifecycleInv, Typed
<1> QED  BY Zenon, <1>3, <1>4, <1>5

-----------------------------------------------------------------------------
(* CreateRepositoryInActiveNamespace                                       *)

\* The steps of a creation that change none of the rows the invariant is about.
LEMMA QuietCreation ==
    ASSUME LifecycleInv, NEW p \in Procs,
           \/ CreateCheckTomb(p) \/ CreatePath(p) \/ CreateUndoPath(p) \/ CreateReverse(p)
           \/ CreateReady(p) \/ FailReverse(p) \/ FailPath(p)
    PROVE  LifecycleInv'
<1> DEFINE b == proc[p]
<1>1. b \in Call /\ Process(b)
  BY Zenon DEF LifecycleInv, Typed
<1>2. ASSUME NEW S \in SUBSET ((Early \cup Late) \ {"ready"}), Moves(p, S), UNCHANGED rowVars,
             proc[p].pc \in (Early \cup Late) \ {"release"},
             \A x \in S : x \in Early => proc[p].pc \in Early
      PROVE  LifecycleInv'
  <2>1. S \in SUBSET Pcs
    BY Zenon DEF Early, Late, Pcs
  <2>2. \A x \in S, y \in NewResults(proc[p]) : /\ Kept(proc[p], At2(proc[p], x, y))
                                                /\ Process(At2(proc[p], x, y))
    BY Zenon, <1>2, <2>1, CreationGoesOn
  <2> QED  BY Zenon, <1>2, <2>1, <2>2, QuietMove
<1>3. CASE CreateCheckTomb(p)
  <2>1. Moves(p, {"path", "release"})
    BY Zenon, <1>3, MovesByGoto DEF CreateCheckTomb, Read
  <2>2. UNCHANGED rowVars /\ b.pc = "tomb"
    BY Zenon, <1>3 DEF CreateCheckTomb, At, rowVars, nsVars, repoVars, itemVars, histVars
  <2> QED  BY Zenon, <1>2, <2>1, <2>2 DEF Early, Late
<1>4. CASE CreatePath(p)
  <2>1. UNCHANGED rowVars /\ b.pc = "path"
    BY Zenon, <1>4 DEF CreatePath, At, rowVars, nsVars, itemVars, histVars
  <2>2. \/ Moves(p, {"row", "release"})
        \/ Set(p, [b EXCEPT !.pc = "row", !.own = {"path"}])
    BY Zenon, <1>4, MovesByGoto DEF CreatePath, Cas, Write, Read
  <2>3. CASE Moves(p, {"row", "release"})
    BY Zenon, <1>2, <2>1, <2>3 DEF Early, Late
  <2>4. CASE Set(p, [b EXCEPT !.pc = "row", !.own = {"path"}])
    <3> DEFINE c == [b EXCEPT !.pc = "row", !.own = {"path"}]
    <3>1. /\ c \in Call /\ c.pc = "row" /\ c.call = b.call /\ c.r = b.r /\ c.i = b.i
          /\ c.result = b.result
      BY ZenonT(60), <1>1 DEF Call, Pcs
    <3> HIDE DEF c
    <3>2. Kept(b, c)
      BY Zenon, <2>1, <3>1 DEF Kept, Early, Late, Ending, InBody
    <3>3. Process(c)
      BY Zenon, <1>1, <2>1, <3>1 DEF Process, Shape, Creation, Mutation, Emptied, Vacated, Early, Late,
                              Ending, InBody, Writing, Touching, Removing
    <3> QED  BY Zenon, <2>1, <2>4, <3>1, <3>2, <3>3, QuietStep DEF c
  <2> QED  BY Zenon, <2>2, <2>3, <2>4
<1>5. CASE CreateUndoPath(p)
  <2>1. Moves(p, {"release"})
    <3>1. Goto(p, "release") \/ Return(p)
      BY Zenon, <1>5 DEF CreateUndoPath, ReleasePath, Cas, Write, Read
    <3> QED  BY Zenon, <3>1, MovesByGoto, MovesByReturn
  <2>2. UNCHANGED rowVars /\ b.pc = "undo"
    BY Zenon, <1>5 DEF CreateUndoPath, At, rowVars, nsVars, itemVars, histVars
  <2>3. /\ {"release"} \in SUBSET ((Early \cup Late) \ {"ready"})
        /\ b.pc \in (Early \cup Late) \ {"release"}
        /\ "release" \in Early => b.pc \in Early
    BY Zenon, <2>2 DEF Early, Late
  <2> QED  BY Zenon, <1>2, <2>1, <2>2, <2>3
<1>6. CASE CreateReverse(p)
  <2>1. UNCHANGED rowVars /\ b.pc = "reverse"
    BY Zenon, <1>6 DEF CreateReverse, At, rowVars, nsVars, itemVars, histVars
  <2>2. \/ Moves(p, {"failRow"})
        \/ \E own \in SUBSET {"path", "reverse"} : Set(p, [b EXCEPT !.pc = "list", !.own = own])
    BY ZenonT(60), <1>1, <1>6, MovesByGoto DEF CreateReverse, Write, Call
  <2>3. CASE Moves(p, {"failRow"})
    BY <1>2, <2>1, <2>3 DEF Early, Late
  <2>4. ASSUME NEW own \in SUBSET {"path", "reverse"}, Set(p, [b EXCEPT !.pc = "list", !.own = own])
        PROVE  LifecycleInv'
    <3> DEFINE c == [b EXCEPT !.pc = "list", !.own = own]
    <3>1. /\ c \in Call /\ c.pc = "list" /\ c.call = b.call /\ c.r = b.r /\ c.i = b.i
          /\ c.result = b.result
      BY ZenonT(60), <1>1 DEF Call, Pcs
    <3> HIDE DEF c
    <3>2. Kept(b, c)
      BY Zenon, <2>1, <3>1 DEF Kept, Early, Late, Ending, InBody
    <3>3. Process(c)
      BY Zenon, <1>1, <2>1, <3>1 DEF Process, Shape, Creation, Mutation, Emptied, Vacated, Early, Late,
                              Ending, InBody, Writing, Touching, Removing
    <3> QED  BY Zenon, <2>1, <2>4, <3>1, <3>2, <3>3, QuietStep DEF c
  <2> QED  BY ZenonT(60), <2>2, <2>3, <2>4
<1>7. CASE CreateReady(p)
  <2>1. UNCHANGED rowVars /\ b.pc = "ready"
    BY Zenon, <1>7 DEF CreateReady, At, rowVars, nsVars, itemVars, histVars
  <2>2. Moves(p, {"failRow"}) \/ Set(p, At2(b, "release", "done"))
    BY Zenon, <1>7, MovesByGoto DEF CreateReady, Write, At2
  <2>3. CASE Moves(p, {"failRow"})
    BY <1>2, <2>1, <2>3 DEF Early, Late
  <2>4. CASE Set(p, At2(b, "release", "done"))
    <3> DEFINE c == At2(b, "release", "done")
    <3>1. /\ c \in Call /\ c.pc = "release" /\ c.call = b.call /\ c.r = b.r /\ c.i = b.i
          /\ c.result = "done"
      <4>1. "release" \in Pcs /\ "done" \in Results
        BY Zenon DEF Pcs, Results
      <4> QED  BY <1>1, <4>1, MovedFields
    <3> HIDE DEF c
    <3>2. Kept(b, c)
      BY Zenon, <2>1, <3>1 DEF Kept, Early, Late, Ending, InBody
    <3>3. Process(c)
      BY Zenon, <1>1, <2>1, <3>1 DEF Process, Shape, Creation, Mutation, Emptied, Vacated, Early, Late,
                              Ending, InBody, Writing, Touching, Removing
    <3> QED  BY Zenon, <2>1, <2>4, <3>1, <3>2, <3>3, QuietStep DEF c
  <2> QED  BY Zenon, <2>2, <2>3, <2>4
<1>8. CASE FailReverse(p)
  <2>1. Moves(p, {"failPath"})
    BY Zenon, <1>8, MovesByGoto, MovesByResult DEF FailReverse, Write
  <2>2. UNCHANGED rowVars /\ b.pc = "failReverse"
    BY Zenon, <1>8 DEF FailReverse, At, rowVars, nsVars, itemVars, histVars
  <2> QED  BY SMTT(60), <1>2, <2>1, <2>2 DEF Early, Late
<1>9. CASE FailPath(p)
  <2>1. Moves(p, {"release"})
    <3>1. Goto(p, "release") \/ Return(p)
      BY Zenon, <1>9 DEF FailPath, ReleasePath, Cas, Write, Read
    <3> QED  BY Zenon, <3>1, MovesByGoto, MovesByReturn
  <2>2. UNCHANGED rowVars /\ b.pc = "failPath"
    BY Zenon, <1>9 DEF FailPath, At, rowVars, nsVars, itemVars, histVars
  <2> QED  BY SMTT(60), <1>2, <2>1, <2>2 DEF Early, Late
<1> QED  BY Zenon, <1>3, <1>4, <1>5, <1>6, <1>7, <1>8, <1>9

\* The call begins with a uid nobody has used.
LEMMA CreateRepositoryKeeps ==
    ASSUME LifecycleInv, NEW p \in Procs, CreateRepository(p)
    PROVE  LifecycleInv'
<1>1. PICK r \in Repos \ used : /\ used' = used \cup {r}
                                /\ Set(p, [Idle EXCEPT !.pc = "reserve", !.r = r])
  BY ZenonT(60) DEF CreateRepository
<1>2. UNCHANGED <<ns, fence, repo, listed, created, item, index>>
  BY Zenon DEF CreateRepository, nsVars, repoVars, itemVars
<1> DEFINE c == [Idle EXCEPT !.pc = "reserve", !.r = r]
<1>3. /\ c \in Call /\ c.pc = "reserve" /\ c.call = None /\ c.r = r /\ c.result = "ok"
  BY ZenonT(60), IdleFacts DEF Idle, Call, Pcs, Results
<1> HIDE DEF c
<1>4. Typed /\ Rows
  BY Zenon DEF LifecycleInv
<1>5. FenceExclusive'
  BY ZenonT(60), <1>1, <1>2, <1>3, FenceKept DEF InBody, c
<1>6. Rows' /\ IndexCovers' /\ NoOrphanItem'
  BY Zenon, <1>1, <1>2 DEF LifecycleInv, Rows, Live, IndexCovers, NoOrphanItem
<1>7. r \notin created /\ ~ repo[r].here
  BY Zenon, <1>4 DEF Rows
<1>8. Process(c)'
  BY Zenon, <1>1, <1>2, <1>3, <1>7 DEF Process, Shape, Creation, Mutation, Emptied, Vacated, Early, Late,
                                Ending, InBody, Writing, Touching, Removing, None
<1>9. \A q \in Procs \ {p} : \A d \in Call : d = proc[q] => Process(d)'
  <2> SUFFICES ASSUME NEW q \in Procs \ {p}, NEW d \in Call, d = proc[q] PROVE Process(d)'
    OBVIOUS
  <2>1. Process(d)
    BY Zenon DEF LifecycleInv
  <2> QED  BY <1>1, <1>2, <2>1 DEF Process, Shape, Creation, Mutation, Emptied, Vacated, Live
<1>10. \A q \in Procs \ {p} : Apart(c, proc[q]) /\ Apart(proc[q], c)
  <2> SUFFICES ASSUME NEW q \in Procs \ {p} PROVE Apart(c, proc[q]) /\ Apart(proc[q], c)
    OBVIOUS
  <2>1. Process(proc[q])
    BY Zenon DEF LifecycleInv
  <2>2. proc[q].pc \in Early \cup Late \cup Ending => proc[q].r # r
    BY Zenon, <2>1 DEF Process, Creation, Emptied
  <2> QED  BY Zenon, <1>3, <2>2 DEF Apart, Early, Ending
<1> QED  BY Zenon, <1>1, <1>2, <1>3, <1>4, <1>5, <1>6, <1>8, <1>9, <1>10, Assemble DEF Typed, c

\* The namespace counts the creation.
LEMMA ReserveKeeps ==
    ASSUME LifecycleInv, NEW p \in Procs, ReserveNamespaceRepository(p)
    PROVE  LifecycleInv'
<1> DEFINE b == proc[p]
           n == [ns EXCEPT !.epoch = @ + 1, !.pending = @ + 1]
<1>1. b \in Call /\ Process(b) /\ ns \in NsRow
  BY Zenon DEF LifecycleInv, Typed
<1>2. UNCHANGED <<fence, repo, listed, used, created, item, index>> /\ b.pc = "reserve"
  BY Zenon DEF ReserveNamespaceRepository, At, repoVars, itemVars, histVars
<1>3. /\ ns' = n \/ ns' = ns
      /\ Goto(p, "tomb") \/ Return(p)
  BY Zenon DEF ReserveNamespaceRepository, Cas, Write, Read
<1>4. /\ ns' \in NsRow /\ ns'.here = ns.here /\ Marked(ns') = Marked(ns)
      /\ ns'.deleting = ns.deleting
  <2>1. n \in NsRow /\ n.here = ns.here /\ n.deleting = ns.deleting /\ n.intent = ns.intent
    <3>1. ns.epoch + 1 \in Int /\ ns.pending + 1 \in Int
      BY <1>1 DEF NsRow
    <3> QED  BY ZenonT(60), <1>1, <3>1 DEF NsRow
  <2> HIDE DEF n
  <2> QED  BY Zenon, <1>1, <1>3, <2>1 DEF Marked
<1>5. CASE Return(p)
  BY Zenon, <1>2, <1>4, <1>5, IdleFacts, CounterKeeps DEF Return
<1>6. CASE Goto(p, "tomb")
  <2> DEFINE c == At2(b, "tomb", b.result)
  <2>1. Set(p, c)
    BY ZenonT(60), <1>1, <1>6 DEF Goto, Set, At2, Call
  <2>2. c \in Call
    <3>1. "tomb" \in Pcs /\ b.result \in Results
      BY Zenon, <1>1 DEF Pcs, Call
    <3> QED  BY Zenon, <1>1, <3>1, MovedFields
  <2>3. Kept(b, c) /\ Process(c)
    <3>1. /\ "tomb" \in Pcs /\ "tomb" \in (Early \cup Late) \ {"ready"}
          /\ b.pc \in (Early \cup Late) \ {"release"} /\ b.pc \in Early
          /\ b.result \in NewResults(b)
      BY Zenon, <1>2 DEF Pcs, Early, Late, NewResults
    <3> QED  BY Zenon, <3>1, CreationGoesOn
  <2> HIDE DEF c
  <2> QED  BY Zenon, <1>2, <1>4, <2>1, <2>2, <2>3, CounterKeeps
<1> QED  BY Zenon, <1>3, <1>5, <1>6

\* A step of a creation within the creation, with the state it goes to.
LEMMA CreationMove ==
    ASSUME LifecycleInv, NEW p \in Procs, proc[p].pc \in (Early \cup Late) \ {"release"},
           NEW S \in SUBSET (Late \ {"ready"}), Moves(p, S)
    PROVE  \E c \in Call : /\ Set(p, c) /\ Kept(proc[p], c) /\ Process(c)
                           /\ c.pc \in S \cup {"idle"} /\ c.result # "done"
<1>1. CASE Return(p)
  BY Zenon, <1>1, IdleFacts DEF Return, Idle
<1>2. CASE \E x \in S, y \in NewResults(proc[p]) : Set(p, At2(proc[p], x, y))
  <2>1. PICK x \in S, y \in NewResults(proc[p]) : Set(p, At2(proc[p], x, y))
    BY Zenon, <1>2
  <2>2. /\ x \in Pcs /\ x \in (Early \cup Late) \ {"ready"} /\ x \notin Early
        /\ proc[p] \in Call
    BY Zenon DEF Pcs, Early, Late, LifecycleInv, Typed
  <2>3. At2(proc[p], x, y) \in Call /\ At2(proc[p], x, y).pc = x /\ At2(proc[p], x, y).result = y
    BY ZenonT(30), <2>2, MovedFields, ResultsTyped
  <2>4. y # "done"
    BY Zenon DEF NewResults, LifecycleInv, Process, Shape
  <2> QED  BY Zenon, <2>1, <2>2, <2>3, <2>4, CreationGoesOn
<1> QED  BY Zenon, <1>1, <1>2 DEF Moves

\* The row of a creation: no resource is in that repository, no other creation
\* is about it and no deletion has seen it.
LEMMA CreateRowKeeps ==
    ASSUME LifecycleInv, NEW p \in Procs, CreateRow(p)
    PROVE  LifecycleInv'
<1> DEFINE b == proc[p]
           r == b.r
<1>1. b \in Call /\ Process(b) /\ repo \in [Repos -> RepoRow] /\ r \in Repos
  BY Zenon DEF LifecycleInv, Typed, Call
<1>2. UNCHANGED <<ns, fence, listed, used, created, item, index>> /\ b.pc = "row"
  BY Zenon DEF CreateRow, At, nsVars, itemVars
<1>3. /\ repo' = [repo EXCEPT ![r] = NewRepo] \/ repo' = repo
      /\ Moves(p, {"reverse", "undo", "release"})
  BY Zenon, MovesByGoto DEF CreateRow, Cas, Write, Read
<1>4. PICK c \in Call : /\ Set(p, c) /\ Kept(b, c) /\ Process(c)
                         /\ c.pc \in {"reverse", "undo", "release", "idle"} /\ c.result # "done"
  <2>1. /\ {"reverse", "undo", "release"} \in SUBSET (Late \ {"ready"})
        /\ b.pc \in (Early \cup Late) \ {"release"}
    BY Zenon, <1>2 DEF Early, Late
  <2> QED  BY Zenon, <1>3, <2>1, CreationMove
<1>5. CASE repo' = repo
  BY Zenon, <1>2, <1>4, <1>5, QuietStep DEF rowVars
<1>6. CASE repo' = [repo EXCEPT ![r] = NewRepo]
  <2>1. r \in used \ created
    BY Zenon, <1>1, <1>2 DEF Process, Creation, Early
  <2>2. /\ repo' \in [Repos -> RepoRow] /\ \A s \in Repos \ {r} : repo'[s] = repo[s]
        /\ repo'[r].here /\ ~ Marked(repo'[r])
    <3>1. NewRepo \in RepoRow /\ NewRepo.here /\ ~ Marked(NewRepo)
      BY Zenon, FreshRows
    <3> QED  BY Zenon, <1>1, <1>6, <3>1
  <2>3. Rows' /\ IndexCovers' /\ NoOrphanItem'
    BY Zenon, <1>2, <2>1, <2>2 DEF LifecycleInv, Typed, Rows, Live, Marked, IndexCovers, NoOrphanItem
  <2>4. Process(c)'
    BY SMTT(60), <1>2, <1>4 DEF Process, Shape, Creation, Mutation, Emptied, Vacated, Early, Ending
  <2>5. \A q \in Procs \ {p} : \A d \in Call : d = proc[q] => Process(d)'
    <3> SUFFICES ASSUME NEW q \in Procs \ {p}, NEW d \in Call, d = proc[q] PROVE Process(d)'
      OBVIOUS
    <3>1. Process(d) /\ Apart(b, d) /\ Apart(d, b)
      BY Zenon, Other
    <3>2. d.pc \in Early \cup Late \cup Ending \/ d.call = "write" => d.r # r
      BY Zenon, <1>2, <2>1, <3>1 DEF Apart, Early, Process, Shape
    <3>3. d.r \in Repos
      BY Zenon DEF Call
    <3>4. Shape(d)' /\ Vacated(d)'
      BY Zenon, <1>2, <2>2, <3>1 DEF Process, Shape, Vacated, Marked
    <3>5. Creation(d)'
      BY Zenon, <1>2, <2>2, <3>1, <3>2, <3>3 DEF Process, Creation, Live, Late, Marked
    <3>6. Mutation(d)'
      BY Zenon, <1>2, <2>2, <3>1, <3>2, <3>3 DEF Process, Shape, Mutation, Live, Late, Marked
    <3>7. Emptied(d)'
      BY Zenon, <1>2, <2>2, <3>1, <3>2, <3>3 DEF Process, Emptied, Live, Late, Marked
    <3> QED  BY Zenon, <3>4, <3>5, <3>6, <3>7 DEF Process
  <2> QED  BY Zenon, <1>2, <1>4, <2>2, <2>3, <2>4, <2>5, StepKeeps DEF LifecycleInv, Typed
<1> QED  BY Zenon, <1>3, <1>5, <1>6

\* A row that a failing creation takes back had no resources.
LEMMA FailRowKeeps ==
    ASSUME LifecycleInv, NEW p \in Procs, FailRow(p)
    PROVE  LifecycleInv'
<1> DEFINE b == proc[p]
           r == b.r
<1>1. b \in Call /\ Process(b) /\ repo \in [Repos -> RepoRow] /\ r \in Repos
  BY Zenon DEF LifecycleInv, Typed, Call
<1>2. UNCHANGED <<ns, fence, listed, used, created, item, index>> /\ b.pc = "failRow"
  BY Zenon DEF FailRow, At, nsVars, itemVars, histVars
<1>3. /\ repo' = [repo EXCEPT ![r] = NoRepo] \/ repo' = repo
      /\ Moves(p, {"failReverse"})
  BY Zenon, MovesByGoto, MovesByResult DEF FailRow, Cas, Write, Read
<1>4. PICK c \in Call : /\ Set(p, c) /\ Kept(b, c) /\ Process(c)
                         /\ c.pc \in {"failReverse", "idle"} /\ c.result # "done"
  <2>1. /\ {"failReverse"} \in SUBSET (Late \ {"ready"})
        /\ b.pc \in (Early \cup Late) \ {"release"}
    BY Zenon, <1>2 DEF Early, Late
  <2> QED  BY Zenon, <1>3, <2>1, CreationMove
<1>5. CASE repo' = repo
  BY Zenon, <1>2, <1>4, <1>5, QuietStep DEF rowVars
<1>6. CASE repo' = [repo EXCEPT ![r] = NoRepo]
  <2>1. r \in used \ created
    BY Zenon, <1>1, <1>2 DEF Process, Creation, Late
  <2>2. /\ repo' \in [Repos -> RepoRow] /\ \A s \in Repos \ {r} : repo'[s] = repo[s]
        /\ ~ repo'[r].here
    BY Zenon, <1>1, <1>6, FreshRows
  <2>3. Rows' /\ IndexCovers' /\ NoOrphanItem'
    BY ZenonT(30), <1>2, <2>1, <2>2 DEF LifecycleInv, Typed, Rows, Live, Marked, IndexCovers, NoOrphanItem
  <2>4. Process(c)'
    BY SMTT(60), <1>2, <1>4 DEF Process, Shape, Creation, Mutation, Emptied, Vacated, Early, Ending
  <2>5. \A q \in Procs \ {p} : \A d \in Call : d = proc[q] => Process(d)'
    <3> SUFFICES ASSUME NEW q \in Procs \ {p}, NEW d \in Call, d = proc[q] PROVE Process(d)'
      OBVIOUS
    <3>1. Process(d)
      BY Zenon, Other
    <3>2. d.call = "write" => d.r # r
      BY Zenon, <2>1, <3>1 DEF Process, Shape
    <3>3. d.r \in Repos
      BY Zenon DEF Call
    <3>4. Shape(d)' /\ Vacated(d)'
      BY Zenon, <1>2, <2>2, <3>1 DEF Process, Shape, Vacated, Marked
    <3>5. Creation(d)'
      BY Zenon, <1>2, <2>2, <3>1, <3>2, <3>3 DEF Process, Creation, Live, Marked
    <3>6. Mutation(d)'
      BY Zenon, <1>2, <2>2, <3>1, <3>2, <3>3 DEF Process, Shape, Mutation, Live, Marked
    <3>7. Emptied(d)'
      BY Zenon, <1>2, <2>2, <3>1, <3>2, <3>3 DEF Process, Emptied, Live, Marked
    <3> QED  BY Zenon, <3>4, <3>5, <3>6, <3>7 DEF Process
  <2> QED  BY Zenon, <1>2, <1>4, <2>2, <2>3, <2>4, <2>5, StepKeeps DEF LifecycleInv, Typed
<1> QED  BY Zenon, <1>3, <1>5, <1>6

\* The creation lists its repository.
LEMMA CreateListKeeps ==
    ASSUME LifecycleInv, NEW p \in Procs, CreateList(p)
    PROVE  LifecycleInv'
<1> DEFINE b == proc[p]
           r == b.r
<1>1. b \in Call /\ Process(b) /\ r \in Repos /\ listed \subseteq Repos
  BY Zenon DEF LifecycleInv, Typed, Call
<1>2. UNCHANGED <<ns, fence, repo, used, created, item, index>> /\ b.pc = "list"
  BY Zenon DEF CreateList, At, nsVars, itemVars, histVars
<1>3. /\ listed' = listed \cup {r} \/ listed' = listed
      /\ (listed' = listed \cup {r} /\ Goto(p, "ready")) \/ Goto(p, "failRow")
  BY Zenon DEF CreateList, Write
<1>4. listed \subseteq listed' /\ listed' \subseteq Repos
  BY Zenon, <1>1, <1>3
<1>5. \A x \in Pcs : Goto(p, x) => Set(p, At2(b, x, b.result))
  BY ZenonT(60), <1>1 DEF Goto, Set, At2, Call
<1>6. b.result \in Results /\ b.result \in NewResults(b) /\ "failRow" \in Pcs /\ "ready" \in Pcs
  BY Zenon, <1>1 DEF Call, NewResults, Pcs
<1>7. CASE Goto(p, "failRow")
  <2>1. PICK c \in Call : c = At2(b, "failRow", b.result) /\ Set(p, c) /\ c.pc = "failRow"
    BY Zenon, <1>1, <1>5, <1>6, <1>7, MovedFields
  <2>2. Kept(b, c) /\ Process(c)
    <3>1. /\ "failRow" \in (Early \cup Late) \ {"ready"} /\ "failRow" \notin Early
          /\ b.pc \in (Early \cup Late) \ {"release"}
      BY Zenon, <1>2 DEF Early, Late
    <3> QED  BY Zenon, <1>6, <2>1, <3>1, CreationGoesOn
  <2>3. Process(c)'
    BY ZenonT(60), <1>2, <2>1, <2>2 DEF Process, Shape, Creation, Mutation, Emptied, Vacated
  <2> QED  BY Zenon, <1>2, <1>4, <2>1, <2>2, <2>3, ListingGrows
<1>8. CASE listed' = listed \cup {r} /\ Goto(p, "ready")
  <2>1. PICK c \in Call : /\ Set(p, c) /\ c.pc = "ready" /\ c.r = r /\ c.call = b.call
                          /\ c.i = b.i /\ c.result = b.result
    BY SMTT(60), <1>1, <1>5, <1>6, <1>8, MovedFields
  <2>2. Kept(b, c)
    BY Zenon, <1>2, <2>1 DEF Kept, Early, Late, Ending, InBody
  <2>3. Process(c)'
    <3>1. Shape(c)'
      BY Zenon, <1>1, <1>2, <2>1 DEF Process, Shape, InBody, Writing, Touching
    <3>2. Creation(c)'
      BY Zenon, <1>1, <1>2, <1>8, <2>1 DEF Process, Creation, Early, Late
    <3>3. Mutation(c)' /\ Emptied(c)' /\ Vacated(c)'
      BY Zenon, <2>1 DEF Mutation, Emptied, Vacated, Ending, Removing
    <3> QED  BY Zenon, <3>1, <3>2, <3>3 DEF Process
  <2> QED  BY Zenon, <1>2, <1>4, <2>1, <2>2, <2>3, ListingGrows
<1> QED  BY Zenon, <1>3, <1>7, <1>8

\* The counter goes back, and a successful creation is known to be listed.
LEMMA ReleaseKeeps ==
    ASSUME LifecycleInv, NEW p \in Procs, ReleaseNamespaceRepository(p)
    PROVE  LifecycleInv'
<1> DEFINE b == proc[p]
           r == b.r
           n == [ns EXCEPT !.pending = @ - 1]
<1>1. b \in Call /\ Process(b) /\ ns \in NsRow /\ r \in Repos
  BY Zenon DEF LifecycleInv, Typed, Call
<1>2. UNCHANGED <<fence, repo, listed, used, item, index>> /\ b.pc = "release"
  BY Zenon DEF ReleaseNamespaceRepository, At, repoVars, itemVars
<1>3. /\ ns' = n \/ ns' = ns
      /\ Return(p)
      /\ created' = created \/ (b.result = "done" /\ created' = created \cup {r})
  BY Zenon DEF ReleaseNamespaceRepository, Cas, Write, Read, Returned, RepairNeeded
<1>4. /\ ns' \in NsRow /\ ns'.here = ns.here /\ Marked(ns)' = Marked(ns)
      /\ ns'.deleting = ns.deleting
  <2>1. n \in NsRow /\ n.here = ns.here /\ n.deleting = ns.deleting /\ n.intent = ns.intent
    <3>1. ns.pending - 1 \in Int
      BY SMTT(60), <1>1 DEF NsRow
    <3> QED  BY Zenon, <1>1, <3>1 DEF NsRow
  <2> HIDE DEF n
  <2> QED  BY Zenon, <1>1, <1>3, <2>1 DEF Marked
<1>5. r \in used \ created /\ (b.result = "done" => (Live(r) => r \in listed))
  BY Zenon, <1>1, <1>2 DEF Process, Creation, Late
<1>6. Rows' /\ IndexCovers' /\ NoOrphanItem'
  BY Zenon, <1>2, <1>3, <1>4, <1>5 DEF LifecycleInv, Rows, Live, IndexCovers, NoOrphanItem
<1>7. \A q \in Procs \ {p} : \A d \in Call : d = proc[q] => Process(d)'
  <2> SUFFICES ASSUME NEW q \in Procs \ {p}, NEW d \in Call, d = proc[q] PROVE Process(d)'
    OBVIOUS
  <2>1. Process(d) /\ Apart(b, d)
    BY Zenon, Other
  <2>2. d.pc \in Early \cup Late => d.r # r
    BY Zenon, <1>2, <2>1 DEF Apart, Late
  <2> QED  BY <1>2, <1>3, <1>4, <2>1, <2>2 DEF Process, Shape, Creation, Mutation, Emptied,
                                            Vacated, Live
<1>8. Idle \in Call /\ Kept(b, Idle) /\ Process(Idle)' /\ Set(p, Idle)
  <2>1. Process(Idle)'
    BY ZenonT(60) DEF Idle, None, Process, Shape, Creation, Mutation, Emptied, Vacated, Early, Late, Ending,
           InBody, Writing, Touching, Removing
  <2> QED  BY Zenon, <1>3, <2>1, IdleFacts DEF Return
<1>9. created' \subseteq Repos
  BY Zenon, <1>1, <1>3 DEF LifecycleInv, Typed
<1> QED  BY Zenon, <1>2, <1>4, <1>6, <1>7, <1>8, <1>9, StepKeeps DEF LifecycleInv, Typed

\* Every step of a creation keeps the invariant.
LEMMA CreateStepKeeps ==
    ASSUME LifecycleInv, NEW p \in Procs, CreateStep(p)
    PROVE  LifecycleInv'
BY Zenon, QuietCreation, CreateRepositoryKeeps, ReserveKeeps, CreateRowKeeps, FailRowKeeps,
   CreateListKeeps, ReleaseKeeps DEF CreateStep

-----------------------------------------------------------------------------
(* The fence                                                               *)

\* Only who finds the fence free enters.
LEMMA TakeFenceKeeps ==
    ASSUME LifecycleInv, NEW p \in Procs, TakeFence(p)
    PROVE  LifecycleInv'
<1> DEFINE b == proc[p]
           taken == [epoch |-> fence.epoch + 1, pending |-> 1]
           next == [b EXCEPT !.pc = "parent", !.epoch = fence.epoch + 1]
<1>1. /\ proc \in [Procs -> Call] /\ b \in Call /\ Process(b)
      /\ fence \in [epoch : Int, pending : {0, 1}]
  BY Zenon DEF LifecycleInv, Typed
<1>2. UNCHANGED <<ns, repo, listed, used, created, item, index>> /\ b.pc = "take"
  BY Zenon DEF TakeFence, At, repoVars, itemVars, histVars
<1>3. \/ fence.pending = 0 /\ fence' = taken /\ Set(p, next)
      \/ fence.pending = 0 /\ fence' = taken /\ Return(p)
      \/ fence' = fence /\ Return(p)
  BY Zenon DEF TakeFence, Cas, Write, Read
<1>4. taken \in [epoch : Int, pending : {0, 1}]
  BY <1>1
<1>5. ASSUME fence.pending = 0 PROVE \A q \in Procs : proc[q].pc \notin InBody
  BY <1>5 DEF LifecycleInv, FenceExclusive, Holders
<1>6. CASE fence.pending = 0 /\ fence' = taken /\ Set(p, next)
  <2>1. PICK c \in Call : /\ c = next /\ c.pc = "parent" /\ c.epoch = fence.epoch + 1
                          /\ c.call = b.call /\ c.r = b.r /\ c.i = b.i /\ c.result = b.result
    <3>1. "parent" \in Pcs /\ fence.epoch + 1 \in Int
      BY <1>1 DEF Pcs, InBody
    <3>2. /\ next \in Call /\ next.pc = "parent" /\ next.epoch = fence.epoch + 1
          /\ next.call = b.call /\ next.r = b.r /\ next.i = b.i /\ next.result = b.result
      BY ZenonT(60), <1>1, <3>1 DEF Call
    <3> QED  BY ZenonT(60), <3>2
  <2>2. proc'[p] = c /\ \A q \in Procs \ {p} : proc'[q] = proc[q]
    BY Zenon, <1>1, <1>6, <2>1, Installed
  <2>3. FenceExclusive'
    <3>1. \A q \in Procs : proc'[q].pc \in InBody => q = p
      BY Zenon, <1>5, <1>6, <2>2
    <3>2. fence' = [epoch |-> proc'[p].epoch, pending |-> 1]
      BY Zenon, <1>6, <2>1, <2>2
    <3> QED  BY Zenon, <3>1, <3>2 DEF FenceExclusive, Holders
  <2>4. Process(c)
    BY Zenon, <1>1, <1>2, <2>1 DEF Process, Shape, Creation, Mutation, Emptied, Vacated, Early, Late,
                            Ending, InBody, Writing, Touching, Removing
  <2> QED  BY ZenonT(60), <1>2, <1>4, <1>6, <2>1, <2>3, <2>4, FenceChanges DEF Early, Late, Ending
<1>7. CASE fence.pending = 0 /\ fence' = taken /\ Return(p)
  <2>1. proc'[p] = Idle /\ \A q \in Procs \ {p} : proc'[q] = proc[q]
    BY Zenon, <1>1, <1>7, Installed, IdleFacts DEF Return
  <2>2. Idle.pc = "idle"
    BY Zenon DEF Idle
  <2>3. \A q \in Procs : proc'[q].pc \notin InBody
    BY Zenon, <1>5, <1>7, <2>1, <2>2 DEF InBody
  <2>4. FenceExclusive'
    BY Zenon, <2>3 DEF FenceExclusive, Holders
  <2> QED  BY Zenon, <1>2, <1>4, <1>7, <2>2, <2>4, IdleFacts, FenceChanges DEF Return, Early, Late, Ending
<1>8. CASE fence' = fence /\ Return(p)
  BY Zenon, <1>2, <1>8, QuietReturn DEF rowVars
<1> QED  BY Zenon, <1>3, <1>6, <1>7, <1>8

\* Whoever gives the fence back is the one that has it.
LEMMA GiveFenceKeeps ==
    ASSUME LifecycleInv, NEW p \in Procs, GiveFence(p)
    PROVE  LifecycleInv'
<1> DEFINE b == proc[p]
           given == [fence EXCEPT !.pending = 0]
<1>1. /\ proc \in [Procs -> Call] /\ b \in Call /\ Process(b)
      /\ fence \in [epoch : Int, pending : {0, 1}]
  BY Zenon DEF LifecycleInv, Typed
<1>2. UNCHANGED <<ns, repo, listed, used, created, item, index>> /\ b.pc = "give"
  BY Zenon DEF GiveFence, At, repoVars, itemVars, histVars
<1>3. fence' \in {given, fence} /\ (Return(p) \/ Set(p, At2(b, "take", "ok")))
  BY Zenon DEF GiveFence, Cas, Write, Read, At2
<1>4. fence' \in [epoch : Int, pending : {0, 1}]
  BY Zenon, <1>1, <1>3
<1>5. \A q \in Procs \ {p} : proc[q].pc \notin InBody
  BY Zenon, <1>2 DEF LifecycleInv, FenceExclusive, Holders, InBody
<1>6. PICK c \in Call : Set(p, c) /\ c.pc \in {"idle", "take"} /\ Process(c)
  <2>1. CASE Return(p)
    BY ZenonT(60), <2>1, IdleFacts DEF Return, Idle
  <2>2. CASE Set(p, At2(b, "take", "ok"))
    <3> DEFINE c == At2(b, "take", "ok")
    <3>1. /\ c \in Call /\ c.pc = "take" /\ c.call = b.call /\ c.r = b.r /\ c.i = b.i
          /\ c.result = "ok"
      <4>1. "take" \in Pcs /\ "ok" \in Results
        BY Zenon DEF Pcs, Results
      <4> QED  BY <1>1, <4>1, MovedFields
    <3> HIDE DEF c
    <3>2. Process(c)
      BY ZenonT(60), <1>1, <1>2, <3>1 DEF Process, Shape, Creation, Mutation, Emptied, Vacated, Early, Late,
                              Ending, InBody, Writing, Touching, Removing
    <3> QED  BY Zenon, <2>2, <3>1, <3>2 DEF c
  <2> QED  BY Zenon, <1>3, <2>1, <2>2
<1>7. proc'[p] = c /\ \A q \in Procs \ {p} : proc'[q] = proc[q]
  BY Zenon, <1>1, <1>6, Installed
<1>8. \A q \in Procs : proc'[q].pc \notin InBody
  BY Zenon, <1>5, <1>6, <1>7 DEF InBody
<1>9. FenceExclusive'
  BY Zenon, <1>8 DEF FenceExclusive, Holders
<1> QED  BY Zenon, <1>2, <1>4, <1>6, <1>9, FenceChanges DEF Early, Late, Ending

\* The body of a call begins where its kind begins.
LEMMA CheckParentKeeps ==
    ASSUME LifecycleInv, NEW p \in Procs, CheckParent(p)
    PROVE  LifecycleInv'
<1> DEFINE b == proc[p]
<1>1. b \in Call /\ Process(b)
  BY Zenon DEF LifecycleInv, Typed
<1>2. UNCHANGED rowVars /\ b.pc = "parent"
  BY Zenon DEF CheckParent, At, rowVars, nsVars, repoVars, itemVars, histVars
<1>3. Goto(p, "give") \/ Goto(p, Body(p)) \/ Set(p, At2(b, "give", "again"))
  BY Zenon DEF CheckParent, Read, At2
<1>4. CASE Goto(p, "give")
  BY Zenon, <1>2, <1>4, QuietGiveUp, MovesByGoto DEF InBody
<1>5. CASE Set(p, At2(b, "give", "again"))
  <2> DEFINE c == At2(b, "give", "again")
  <2>1. /\ c \in Call /\ c.pc = "give" /\ c.call = b.call /\ c.r = b.r /\ c.i = b.i
        /\ c.result = "again" /\ c.epoch = b.epoch
    <3>1. "give" \in Pcs /\ "again" \in Results
      BY Zenon DEF Pcs, InBody, Results
    <3> QED  BY <1>1, <3>1, MovedFields
  <2> HIDE DEF c
  <2>2. Kept(b, c)
    BY Zenon, <1>2, <2>1 DEF Kept, Early, Late, Ending, InBody
  <2>3. Process(c)
    BY Zenon, <1>1, <1>2, <2>1 DEF Process, Shape, Creation, Mutation, Emptied, Vacated, Early, Late,
                            Ending, InBody, Writing, Touching, Removing
  <2> QED  BY Zenon, <1>2, <1>5, <2>1, <2>2, <2>3, QuietStep DEF c
<1>6. CASE Goto(p, Body(p))
  <2>1. b.call \in {"write", "delete", "update", "complete", "mark"} /\ b.pc \in InBody
    BY Zenon, <1>1, <1>2 DEF Process, Shape, InBody
  <2>2. /\ b.call = "write" => Body(p) = "parentNs"
        /\ b.call = "delete" => Body(p) = "before"
        /\ b.call = "update" => Body(p) = "repoRead"
        /\ b.call = "complete" => Body(p) = "endRead"
        /\ b.call = "mark" => Body(p) = "markRead"
    BY SMTT(60) DEF Body
  <2>3. Body(p) \in InBody \ Ending
    BY Zenon, <2>1, <2>2 DEF InBody, Ending
  <2>4. ASSUME NEW c \in Call, c.pc = Body(p), c.call = b.call, c.r = b.r, c.i = b.i,
               c.result = b.result
        PROVE  Process(c)
    BY ZenonT(60), <1>1, <1>2, <2>1, <2>2, <2>4
       DEF Process, Shape, Creation, Mutation, Emptied, Vacated, Early, Late, Ending, InBody,
           Writing, Touching, Removing
  <2> QED  BY Zenon, <1>2, <1>6, <2>1, <2>3, <2>4, QuietGoto
<1> QED  BY Zenon, <1>3, <1>4, <1>5, <1>6

\* Every step on the fence keeps the invariant.
LEMMA FenceStepKeeps ==
    ASSUME LifecycleInv, NEW p \in Procs, FenceStep(p)
    PROVE  LifecycleInv'
BY Zenon, TakeFenceKeeps, CheckParentKeeps, GiveFenceKeeps DEF FenceStep

-----------------------------------------------------------------------------
(* CompleteRepositoryDeletion                                              *)

\* The deletion begins with a marked repository: nothing is in it, and nobody
\* is about to create it.
LEMMA EndReadKeeps ==
    ASSUME LifecycleInv, NEW p \in Procs, EndRead(p)
    PROVE  LifecycleInv'
<1> DEFINE b == proc[p]
           r == b.r
<1>1. b \in Call /\ Process(b) /\ r \in Repos
  BY Zenon DEF LifecycleInv, Typed, Call
<1>2. UNCHANGED rowVars /\ b.pc = "endRead" /\ b.pc \in InBody
  BY Zenon DEF EndRead, At, rowVars, nsVars, repoVars, itemVars, histVars, InBody
<1>3. Goto(p, "give") \/ (Goto(p, "endEmpty") /\ repo[r].here /\ repo[r].deleting)
  BY Zenon DEF EndRead, Read, Unchanged
<1>4. CASE Goto(p, "give")
  BY Zenon, <1>2, <1>4, QuietGiveUp, MovesByGoto
<1>5. CASE Goto(p, "endEmpty") /\ repo[r].here /\ repo[r].deleting
  <2>1. PICK c \in Call : /\ Set(p, c) /\ c.pc = "endEmpty" /\ c.call = b.call /\ c.r = b.r
                          /\ c.i = b.i /\ c.result = b.result /\ c.epoch = b.epoch
    <3>1. "endEmpty" \in Pcs /\ b.result \in Results
      BY Zenon, <1>1 DEF Pcs, InBody, Call
    <3>2. Set(p, At2(b, "endEmpty", b.result))
      BY ZenonT(60), <1>1, <1>5 DEF Goto, Set, At2, Call
    <3> QED  BY <1>1, <3>1, <3>2, MovedFields
  <2>2. /\ Marked(repo[r]) /\ r \in used
        /\ \A i \in Items : item[i] # r
    BY Zenon, <1>1, <1>5, NothingIn DEF Marked, LifecycleInv, Rows
  <2>3. Process(c)
    BY <1>1, <1>2, <2>1, <2>2
       DEF Process, Shape, Creation, Mutation, Emptied, Vacated, Early, Late, Ending, InBody,
           Writing, Touching, Removing
  <2>4. fence' = fence /\ UNCHANGED <<ns, repo, listed, used, created, item, index>>
    BY Zenon, <1>2 DEF rowVars
  <2>5. Process(c)' /\ \A q \in Procs \ {p} : \A d \in Call : d = proc[q] => Process(d)'
    BY Zenon, <2>3, <2>4, RowsUnchanged DEF LifecycleInv
  <2>6. \A q \in Procs \ {p} : Apart(c, proc[q]) /\ Apart(proc[q], c)
    <3> SUFFICES ASSUME NEW q \in Procs \ {p} PROVE Apart(c, proc[q]) /\ Apart(proc[q], c)
      OBVIOUS
    <3>1. proc[q].pc \in Early => proc[q].r # r
      BY Zenon, <1>5, Other DEF Process, Creation
    <3> QED  BY Zenon, <2>1, <3>1 DEF Apart, Early, Late
  <2>7. FenceExclusive'
    BY Zenon, <1>2, <2>1, <2>4, FenceKept
  <2>8. fence' \in [epoch : Int, pending : {0, 1}]
    BY Zenon, <2>4 DEF LifecycleInv, Typed
  <2> QED  BY Zenon, <2>1, <2>4, <2>5, <2>6, <2>7, <2>8, RowsUnchanged, Assemble
<1> QED  BY Zenon, <1>3, <1>4, <1>5

\* A step within the deletion, with the state it goes to.
LEMMA EndingMove ==
    ASSUME LifecycleInv, NEW p \in Procs, proc[p].pc \in Ending, Moves(p, Ending \cup {"give"})
    PROVE  \E c \in Call : /\ Set(p, c) /\ Kept(proc[p], c) /\ Process(c)
                           /\ c.pc \in Ending \cup {"give"} => c.r = proc[p].r
                           /\ c.pc \in Ending \cup {"give", "idle"}
<1>1. CASE Return(p)
  BY Zenon, <1>1, IdleFacts DEF Return, Idle, Ending
<1>2. CASE \E x \in Ending \cup {"give"}, y \in NewResults(proc[p]) : Set(p, At2(proc[p], x, y))
  <2>1. PICK x \in Ending \cup {"give"}, y \in NewResults(proc[p]) : Set(p, At2(proc[p], x, y))
    BY Zenon, <1>2
  <2>2. x \in Pcs /\ proc[p] \in Call
    BY Zenon DEF Pcs, InBody, Ending, LifecycleInv, Typed
  <2>3. At2(proc[p], x, y) \in Call /\ At2(proc[p], x, y).pc = x /\ At2(proc[p], x, y).r = proc[p].r
    BY Zenon, <2>2, MovedFields, ResultsTyped
  <2> QED  BY Zenon, <2>1, <2>2, <2>3, EndingGoesOn
<1> QED  BY Zenon, <1>1, <1>2 DEF Moves

\* The steps of the deletion that change only what the invariant is not about.
LEMMA QuietEnding ==
    ASSUME LifecycleInv, NEW p \in Procs,
           \/ EndEmpty(p) \/ EndPath(p) \/ EndReverse(p) \/ EndTomb(p) \/ EndConfirm(p)
           \/ BackPath(p) \/ BackReverse(p)
    PROVE  LifecycleInv'
<1>1. ASSUME Moves(p, Ending \cup {"give"}), UNCHANGED rowVars, proc[p].pc \in Ending
      PROVE  LifecycleInv'
  BY Zenon, <1>1, EndingMove, QuietStep
<1> DEFINE Open == Ending \cup {"give"}
<1>2. ASSUME NEW x \in Open, Goto(p, x) \/ Failed(p, x) \/ Repair(p, x) PROVE Moves(p, Open)
  BY Zenon, <1>2, MovesByGoto, MovesByResult
<1>3. CASE EndEmpty(p)
  <2>1. Goto(p, "endPath") \/ Goto(p, "give")
    BY Zenon, <1>3 DEF EndEmpty, Read
  <2>2. UNCHANGED rowVars /\ proc[p].pc \in Ending
    BY Zenon, <1>3 DEF EndEmpty, At, rowVars, nsVars, repoVars, itemVars, histVars, Ending
  <2> QED  BY Zenon, <1>1, <1>2, <2>1, <2>2 DEF Ending
<1>4. CASE EndPath(p)
  <2>1. Goto(p, "endReverse") \/ Failed(p, "endReverse")
    BY Zenon, <1>4 DEF EndPath, Cas, Write, Read
  <2>2. UNCHANGED rowVars /\ proc[p].pc \in Ending
    BY Zenon, <1>4 DEF EndPath, At, rowVars, nsVars, itemVars, histVars, Ending
  <2> QED  BY Zenon, <1>1, <1>2, <2>1, <2>2 DEF Ending
<1>5. CASE EndReverse(p)
  <2>1. Goto(p, "endList") \/ Failed(p, "endList")
    BY Zenon, <1>5 DEF EndReverse, Write
  <2>2. UNCHANGED rowVars /\ proc[p].pc \in Ending
    BY Zenon, <1>5 DEF EndReverse, At, rowVars, nsVars, itemVars, histVars, Ending
  <2> QED  BY Zenon, <1>1, <1>2, <2>1, <2>2 DEF Ending
<1>6. CASE EndTomb(p)
  <2>1. Goto(p, "endRow") \/ Goto(p, "backPath")
    BY Zenon, <1>6 DEF EndTomb, Write
  <2>2. UNCHANGED rowVars /\ proc[p].pc \in Ending
    BY Zenon, <1>6 DEF EndTomb, At, rowVars, nsVars, itemVars, histVars, Ending
  <2> QED  BY Zenon, <1>1, <1>2, <2>1, <2>2 DEF Ending
<1>7. CASE EndConfirm(p)
  <2>1. Goto(p, "backPath") \/ Goto(p, "give") \/ Return(p)
    BY Zenon, <1>7 DEF EndConfirm, Read
  <2>2. UNCHANGED rowVars /\ proc[p].pc \in Ending
    BY Zenon, <1>7 DEF EndConfirm, At, rowVars, nsVars, repoVars, itemVars, histVars, Ending
  <2> QED  BY Zenon, <1>1, <1>2, <2>1, <2>2, MovesByReturn DEF Ending
<1>8. CASE BackPath(p)
  <2>1. Goto(p, "backReverse") \/ Repair(p, "backReverse")
    BY Zenon, <1>8 DEF BackPath, Cas, Write, Read
  <2>2. UNCHANGED rowVars /\ proc[p].pc \in Ending
    BY Zenon, <1>8 DEF BackPath, At, rowVars, nsVars, itemVars, histVars, Ending
  <2> QED  BY Zenon, <1>1, <1>2, <2>1, <2>2 DEF Ending
<1>9. CASE BackReverse(p)
  <2>1. Goto(p, "backList") \/ Repair(p, "backList")
    BY Zenon, <1>9 DEF BackReverse, Write
  <2>2. UNCHANGED rowVars /\ proc[p].pc \in Ending
    BY Zenon, <1>9 DEF BackReverse, At, rowVars, nsVars, itemVars, histVars, Ending
  <2> QED  BY Zenon, <1>1, <1>2, <2>1, <2>2 DEF Ending
<1> QED  BY Zenon, <1>3, <1>4, <1>5, <1>6, <1>7, <1>8, <1>9

\* What is taken from the listings is marked or gone.
LEMMA EndListKeeps ==
    ASSUME LifecycleInv, NEW p \in Procs, EndList(p)
    PROVE  LifecycleInv'
<1> DEFINE b == proc[p]
           r == b.r
<1>1. Process(b) /\ listed \subseteq Repos
  BY Zenon DEF LifecycleInv, Typed
<1>2. /\ UNCHANGED <<ns, fence, repo, used, created, item, index>>
      /\ b.pc = "endList" /\ b.pc \in Ending
  BY Zenon DEF EndList, At, nsVars, itemVars, histVars, Ending
<1>3. /\ listed' = listed \/ listed' = listed \ {r}
      /\ Goto(p, "endTomb") \/ Goto(p, "backPath")
  BY Zenon DEF EndList, Write
<1>4. PICK c \in Call : Set(p, c) /\ Kept(b, c) /\ Process(c) /\ c.pc \in Ending \cup {"give", "idle"}
  <2>1. Moves(p, Ending \cup {"give"})
    BY Zenon, <1>3, MovesByGoto DEF Ending
  <2> QED  BY Zenon, <1>2, <2>1, EndingMove
<1>5. ~ Live(r)
  BY Zenon, <1>1, <1>2 DEF Process, Emptied, Live
<1>6. Rows' /\ IndexCovers' /\ NoOrphanItem'
  BY Zenon, <1>2, <1>3, <1>5 DEF LifecycleInv, Rows, Live, IndexCovers, NoOrphanItem
<1>7. Process(c)'
  BY Zenon, <1>2, <1>4 DEF Process, Shape, Creation, Mutation, Emptied, Vacated, Early, Late, Ending, Live
<1>8. \A q \in Procs \ {p} : \A d \in Call : d = proc[q] => Process(d)'
  <2> SUFFICES ASSUME NEW q \in Procs \ {p}, NEW d \in Call, d = proc[q] PROVE Process(d)'
    OBVIOUS
  <2>1. Process(d)
    BY Zenon, Other
  <2> QED  BY <1>2, <1>3, <1>5, <2>1 DEF Process, Shape, Creation, Mutation, Emptied, Vacated, Live
<1>9. listed' \subseteq Repos
  BY Zenon, <1>1, <1>3
<1> QED  BY Zenon, <1>2, <1>4, <1>6, <1>7, <1>8, <1>9, StepKeeps DEF LifecycleInv, Typed

\* The row goes; no resource was in it.
LEMMA EndRowKeeps ==
    ASSUME LifecycleInv, NEW p \in Procs, EndRow(p)
    PROVE  LifecycleInv'
<1> DEFINE b == proc[p]
           r == b.r
<1>1. b \in Call /\ Process(b) /\ r \in Repos /\ repo \in [Repos -> RepoRow]
  BY Zenon DEF LifecycleInv, Typed, Call
<1>2. /\ UNCHANGED <<ns, fence, listed, used, created, item, index>>
      /\ b.pc = "endRow" /\ b.pc \in Ending
  BY Zenon DEF EndRow, At, nsVars, itemVars, histVars, Ending
<1>3. /\ repo' = repo \/ repo' = [repo EXCEPT ![r] = NoRepo]
      /\ Goto(p, "give") \/ Goto(p, "endConfirm")
  BY Zenon DEF EndRow, Cas, Write, Read
<1>4. PICK c \in Call : /\ Set(p, c) /\ Kept(b, c) /\ Process(c)
                        /\ c.pc \in Ending \cup {"give"} => c.r = r
                        /\ c.pc \in Ending \cup {"give", "idle"}
  <2>1. Moves(p, Ending \cup {"give"})
    BY <1>3, MovesByGoto DEF Ending
  <2> QED  BY Zenon, <1>2, <2>1, EndingMove
<1>5. CASE repo' = repo
  BY Zenon, <1>2, <1>4, <1>5, QuietStep DEF rowVars
<1>6. CASE repo' = [repo EXCEPT ![r] = NoRepo]
  <2>1. /\ repo' \in [Repos -> RepoRow] /\ \A s \in Repos \ {r} : repo'[s] = repo[s]
        /\ ~ repo'[r].here
    BY Zenon, <1>1, <1>6, FreshRows
  <2>2. \A i \in Items : item[i] # r
    BY Zenon, <1>1, <1>2 DEF Process, Emptied
  <2>3. Rows'
    BY Zenon, <1>2, <2>1 DEF LifecycleInv, Typed, Rows, Live, Marked
  <2>4. IndexCovers' /\ NoOrphanItem'
    BY Zenon, <1>2, <2>1, <2>2 DEF LifecycleInv, Typed, IndexCovers, NoOrphanItem, Marked
  <2>5. Process(c)'
    BY Zenon, <1>2, <1>4, <2>1 DEF Process, Shape, Creation, Mutation, Emptied, Vacated, Early, Late, Ending
  <2>6. \A q \in Procs \ {p} : \A d \in Call : d = proc[q] => Process(d)'
    <3> SUFFICES ASSUME NEW q \in Procs \ {p}, NEW d \in Call, d = proc[q] PROVE Process(d)'
      OBVIOUS
    <3>1. Process(d) /\ d.pc \notin InBody /\ d.r \in Repos
      BY Zenon, <1>2, Other DEF InBody, Call
    <3>2. d.pc \notin Ending \cup {"before", "index", "operate", "repoWrite"}
      BY Zenon, <3>1 DEF InBody, Ending
    <3>3. Live(d.r)' => Live(d.r)
      BY Zenon, <2>1, <3>1 DEF Live, Marked
    <3> QED  BY Zenon, <1>2, <2>1, <3>1, <3>2, <3>3 DEF Process, Shape, Creation, Mutation, Emptied, Vacated
  <2> QED  BY Zenon, <1>2, <1>4, <2>1, <2>3, <2>4, <2>5, <2>6, StepKeeps DEF LifecycleInv, Typed
<1> QED  BY Zenon, <1>3, <1>5, <1>6

\* After a failure the listings are restored.
LEMMA BackListKeeps ==
    ASSUME LifecycleInv, NEW p \in Procs, BackList(p)
    PROVE  LifecycleInv'
<1> DEFINE b == proc[p]
           r == b.r
<1>1. r \in Repos /\ listed \subseteq Repos
  BY Zenon DEF LifecycleInv, Typed, Call
<1>2. /\ UNCHANGED <<ns, fence, repo, used, created, item, index>>
      /\ b.pc = "backList" /\ b.pc \in Ending
  BY Zenon DEF BackList, At, nsVars, itemVars, histVars, Ending
<1>3. /\ listed' = listed \/ listed' = listed \cup {r}
      /\ Goto(p, "give") \/ Return(p)
  BY Zenon DEF BackList, Write, End
<1>4. PICK c \in Call : Set(p, c) /\ Kept(b, c) /\ Process(c) /\ c.pc \in Ending \cup {"give", "idle"}
  <2>1. Moves(p, Ending \cup {"give"})
    BY Zenon, <1>3, MovesByGoto, MovesByReturn
  <2> QED  BY Zenon, <1>2, <2>1, EndingMove
<1>5. Process(c)'
  BY Zenon, <1>2, <1>4 DEF Process, Shape, Creation, Mutation, Emptied, Vacated, Early, Late, Ending, Live
<1> QED  BY Zenon, <1>1, <1>2, <1>3, <1>4, <1>5, ListingGrows

\* Every step of an update or a deletion of a repository keeps the invariant.
LEMMA RepositoryStepKeeps ==
    ASSUME LifecycleInv, NEW p \in Procs, RepositoryStep(p)
    PROVE  LifecycleInv'
BY Zenon, CallsBegin, RepositoryReads, RepositoryWriteKeeps, EndReadKeeps, QuietEnding, EndListKeeps,
   EndRowKeeps, BackListKeeps DEF RepositoryStep

-----------------------------------------------------------------------------
(* UpdateNamespace, MarkNamespaceDeletion and the deletion of a namespace  *)

\* Only the listed repositories may have resources.
LEMMA ItemsListed ==
    ASSUME LifecycleInv, NEW i \in Items, item[i] # None
    PROVE  item[i] \in Listing
BY Zenon DEF LifecycleInv, Typed, Rows, NoOrphanItem, Live, Listing

\* What a mark finds before it writes.
LEMMA MarkReads ==
    ASSUME LifecycleInv, NEW p \in Procs, MarkRead(p) \/ MarkList(p) \/ MarkEmpty(p)
    PROVE  LifecycleInv'
<1> DEFINE b == proc[p]
<1>1. b \in Call /\ Process(b) /\ ns \in NsRow
  BY Zenon DEF LifecycleInv, Typed
<1>2. UNCHANGED rowVars /\ b.pc \in {"markRead", "markList", "markEmpty"} /\ b.pc \in InBody
  BY Zenon DEF MarkRead, MarkList, MarkEmpty, At, rowVars, nsVars, repoVars, itemVars, histVars, InBody
<1>3. CASE Goto(p, "give")
  BY Zenon, <1>2, <1>3, QuietGiveUp, MovesByGoto
<1>4. ASSUME NEW x \in {"markEmpty", "markWrite"}, Goto(p, x),
             x = "markEmpty" => \A i \in Items : item[i] \in {System, None},
             x = "markWrite" => \A i \in Items : item[i] = None
      PROVE  LifecycleInv'
  <2>1. x \in InBody \ Ending
    BY Zenon DEF InBody, Ending
  <2>2. ASSUME NEW c \in Call, c.pc = x, c.call = b.call, c.r = b.r, c.i = b.i, c.result = b.result
        PROVE  Process(c)
    BY Zenon, <1>1, <1>2, <1>4, <2>1, <2>2
       DEF Process, Shape, Creation, Mutation, Emptied, Vacated, Early, Late, Ending, InBody,
           Writing, Touching, Removing
  <2> QED  BY Zenon, <1>2, <1>4, <2>1, <2>2, QuietGoto
<1>5. CASE MarkRead(p)
  <2> DEFINE c == [b EXCEPT !.pc = "markList", !.seen = ns.epoch]
  <2>1. Goto(p, "give") \/ Set(p, c)
    BY Zenon, <1>5 DEF MarkRead, Read
  <2>2. CASE Set(p, c)
    <3>1. ns.epoch \in Int /\ "markList" \in Pcs
      BY Zenon, <1>1 DEF NsRow, Pcs, InBody
    <3>2. /\ c \in Call /\ c.pc = "markList" /\ c.call = b.call /\ c.r = b.r /\ c.i = b.i
          /\ c.result = b.result /\ c.epoch = b.epoch
      BY ZenonT(60), <1>1, <3>1 DEF Call
    <3> HIDE DEF c
    <3>3. Kept(b, c)
      BY Zenon, <1>2, <3>2 DEF Kept, Early, Late, Ending, InBody
    <3>4. Process(c)
      BY Zenon, <1>1, <1>2, <3>2
         DEF Process, Shape, Creation, Mutation, Emptied, Vacated, Early, Late, Ending, InBody,
             Writing, Touching, Removing
    <3> QED  BY Zenon, <1>2, <2>2, <3>2, <3>3, <3>4, QuietStep
  <2> QED  BY Zenon, <1>3, <2>1, <2>2
<1>6. CASE MarkList(p)
  <2>1. \/ Goto(p, "give")
        \/ Goto(p, "markWrite") /\ Listing = {}
        \/ Goto(p, "markEmpty") /\ Listing = {System}
    BY Zenon, <1>6 DEF MarkList, Read
  <2>2. Listing = {} => \A i \in Items : item[i] = None
    BY Zenon, ItemsListed
  <2>3. Listing = {System} => \A i \in Items : item[i] \in {System, None}
    BY Zenon, ItemsListed
  <2> QED  BY Zenon, <1>3, <1>4, <2>1, <2>2, <2>3
<1>7. CASE MarkEmpty(p)
  <2>1. Goto(p, "give") \/ (Goto(p, "markWrite") /\ HasNoResources(System))
    BY Zenon, <1>7 DEF MarkEmpty, Read
  <2>2. \A i \in Items : item[i] \in {System, None}
    BY Zenon, <1>1, <1>7 DEF MarkEmpty, At, Process, Vacated
  <2>3. HasNoResources(System) => \A i \in Items : item[i] # System
    BY Zenon, NothingIn, LifecycleAssumption
  <2> QED  BY Zenon, <1>3, <1>4, <2>1, <2>2, <2>3
<1> QED  BY Zenon, <1>5, <1>6, <1>7

\* Marking a row keeps it there and marked.
LEMMA MarkedNamespace ==
    ASSUME ns \in NsRow, NEW m \in {None, "intent", "deletion"}
    PROVE  /\ Mark(ns, m) \in NsRow /\ Mark(ns, m).here = ns.here
           /\ ns.deleting => Mark(ns, m).deleting
           /\ m = None => Marked(Mark(ns, m)) = Marked(ns)
<1>1. ns.rv + 1 \in Int
  BY DEF NsRow
<1>2. /\ Mark(ns, m) \in NsRow /\ Mark(ns, m).here = ns.here
      /\ Mark(ns, m).intent = (ns.intent \/ m = "intent")
      /\ Mark(ns, m).deleting = (ns.deleting \/ m = "deletion")
  BY ZenonT(60), <1>1 DEF Mark, NsRow
<1> QED  BY Zenon, <1>2 DEF Marked, NsRow, None

\* The mark of a namespace, or its deletion: it has no resources.
LEMMA NamespaceChanges ==
    ASSUME LifecycleInv, NEW p \in Procs, NEW c \in Call, Set(p, c), Kept(proc[p], c), Process(c),
           UNCHANGED <<fence, repo, listed, used, created, item, index>>,
           ns' \in NsRow, ns.deleting => ns'.deleting, \A i \in Items : item[i] = None,
           \A q \in Procs \ {p} : proc[q].call = "write"
             => proc[q].pc \notin {"parentRepo", "before", "index", "operate"},
           c.pc \in {"give", "idle", "nsResolve", "backNsList"}
    PROVE  LifecycleInv'
<1>1. Rows' /\ IndexCovers' /\ NoOrphanItem'
  BY Zenon DEF LifecycleInv, Rows, Live, IndexCovers, NoOrphanItem
<1>2. Process(c)'
  BY Zenon DEF Process, Shape, Creation, Mutation, Emptied, Vacated, Early, Late, Ending, Live, Removing
<1>3. \A q \in Procs \ {p} : \A d \in Call : d = proc[q] => Process(d)'
  <2> SUFFICES ASSUME NEW q \in Procs \ {p}, NEW d \in Call, d = proc[q] PROVE Process(d)'
    OBVIOUS
  <2>1. Process(d)
    BY Zenon, Other
  <2> QED  BY ZenonT(60), <2>1 DEF Process, Shape, Creation, Mutation, Emptied, Vacated, Live
<1> QED  BY Zenon, <1>1, <1>2, <1>3, StepKeeps DEF LifecycleInv, Typed

\* The mark of a namespace: the holder of the fence found it empty.
LEMMA MarkWriteKeeps ==
    ASSUME LifecycleInv, NEW p \in Procs, MarkWrite(p)
    PROVE  LifecycleInv'
<1> DEFINE b == proc[p]
<1>1. b \in Call /\ Process(b) /\ ns \in NsRow
  BY ZenonT(30) DEF LifecycleInv, Typed
<1>2. /\ UNCHANGED <<fence, repo, listed, used, created, item, index>>
      /\ b.pc = "markWrite" /\ b.pc \in InBody
  BY Zenon DEF MarkWrite, At, repoVars, itemVars, histVars, InBody
<1>3. (ns' = ns \/ ns' = Mark(ns, b.mark)) /\ Goto(p, "give")
  BY Zenon DEF MarkWrite, Cas, Write, Read
<1>4. PICK c \in Call : Set(p, c) /\ Kept(b, c) /\ Process(c) /\ c.pc = "give"
  <2>1. "give" \in Pcs /\ b.result \in Results /\ b.result \in NewResults(b)
    BY Zenon, <1>1 DEF Pcs, InBody, Call, NewResults
  <2>2. Set(p, At2(b, "give", b.result))
    BY ZenonT(60), <1>1, <1>3 DEF Goto, Set, At2, Call
  <2> QED  BY Zenon, <1>1, <1>2, <2>1, <2>2, MovedFields, GivesUp
<1>5. ns' \in NsRow /\ (ns.deleting => ns'.deleting)
  <2>1. b.mark \in {None, "intent", "deletion"}
    BY Zenon, <1>1 DEF Call
  <2> QED  BY Zenon, <1>1, <1>3, <2>1, MarkedNamespace
<1>6. \A i \in Items : item[i] = None
  BY ZenonT(60), <1>1, <1>2 DEF Process, Vacated
<1>7. \A q \in Procs \ {p} : proc[q].pc \notin {"parentRepo", "before", "index", "operate"}
  BY ZenonT(60), <1>2, Other DEF InBody
<1> QED  BY Zenon, <1>2, <1>4, <1>5, <1>6, <1>7, NamespaceChanges

\* The deletion of a namespace, up to its row.
LEMMA QuietRemoving ==
    ASSUME LifecycleInv, NEW p \in Procs,
           \/ DeleteNamespace(p) \/ NamespaceEmpty(p) \/ NamespaceList(p) \/ NamespaceName(p)
           \/ NamespaceConfirm(p) \/ NamespaceResolve(p) \/ BackNamespaceList(p)
           \/ BackNamespaceName(p)
    PROVE  LifecycleInv'
<1> DEFINE b == proc[p]
           Before == Removing \cup {"nsResolve", "backNsList"}
<1>1. b \in Call /\ Process(b) /\ ns \in NsRow
  BY Zenon DEF LifecycleInv, Typed
<1>2. ASSUME NEW x \in Removing \cup {"nsResolve", "backNsList", "backNsName"},
             Goto(p, x) \/ Return(p), UNCHANGED rowVars, b.pc \in Before,
             x \in Removing => b.pc \in Removing
      PROVE  LifecycleInv'
  <2>1. {x} \in SUBSET Pcs
    BY Zenon DEF Removing, Pcs
  <2>2. Moves(p, {x})
    BY Zenon, <1>2, MovesByGoto, MovesByReturn
  <2>3. \A z \in {x}, y \in NewResults(proc[p]) : /\ Kept(proc[p], At2(proc[p], z, y))
                                                  /\ Process(At2(proc[p], z, y))
    BY ZenonT(60), <1>2, <2>1, RemovingGoesOn
  <2> QED  BY Zenon, <1>2, <2>1, <2>2, <2>3, QuietMove
<1>3. CASE DeleteNamespace(p)
  <2> DEFINE c == [Idle EXCEPT !.pc = "nsEmpty", !.call = "remove", !.rv = ns.rv]
  <2>1. Set(p, c) /\ ns.deleting /\ UNCHANGED rowVars
    BY Zenon, <1>3 DEF DeleteNamespace, rowVars, nsVars, repoVars, itemVars, histVars
  <2>2. c \in Call /\ c.pc = "nsEmpty" /\ c.call = "remove" /\ c.result = "ok"
    <3>1. ns.rv \in Int
      BY Zenon, <1>1 DEF NsRow
    <3> QED  BY ZenonT(60), <3>1, IdleFacts DEF Idle, Call, Pcs
  <2> HIDE DEF c
  <2>3. Kept(b, c)
    BY Zenon, <2>2 DEF Kept, Early, Late, Ending, InBody
  <2>4. Process(c)
    BY ZenonT(60), <2>1, <2>2 DEF Process, Shape, Creation, Mutation, Emptied, Vacated, Early, Late, Ending,
                      InBody, Writing, Touching, Removing
  <2> QED  BY Zenon, <2>1, <2>2, <2>3, <2>4, QuietStep
<1>4. CASE NamespaceEmpty(p)
  <2>1. Goto(p, "nsList") \/ Return(p)
    BY Zenon, <1>4 DEF NamespaceEmpty, Read
  <2>2. UNCHANGED rowVars /\ b.pc = "nsEmpty"
    BY Zenon, <1>4 DEF NamespaceEmpty, At, rowVars, nsVars, repoVars, itemVars, histVars
  <2> QED  BY Zenon, <1>2, <2>1, <2>2 DEF Removing
<1>5. CASE NamespaceList(p)
  <2>1. Goto(p, "nsName") /\ UNCHANGED rowVars /\ b.pc = "nsList"
    BY Zenon, <1>5 DEF NamespaceList, DropIndex, Write, At, rowVars, repoVars, itemVars, histVars
  <2> QED  BY Zenon, <1>2, <2>1 DEF Removing
<1>6. CASE NamespaceName(p)
  <2>1. Goto(p, "nsConfirm") /\ UNCHANGED rowVars /\ b.pc = "nsName"
    BY Zenon, <1>6 DEF NamespaceName, DropIndex, Write, At, rowVars, repoVars, itemVars, histVars
  <2> QED  BY Zenon, <1>2, <2>1 DEF Removing
<1>7. CASE NamespaceConfirm(p)
  <2>1. Goto(p, "nsRow") \/ Goto(p, "backNsList")
    BY Zenon, <1>7 DEF NamespaceConfirm, Read
  <2>2. UNCHANGED rowVars /\ b.pc = "nsConfirm"
    BY Zenon, <1>7 DEF NamespaceConfirm, At, rowVars, nsVars, repoVars, itemVars, histVars
  <2> QED  BY Zenon, <1>2, <2>1, <2>2 DEF Removing
<1>8. CASE NamespaceResolve(p)
  <2>1. Goto(p, "backNsList") \/ Return(p)
    BY Zenon, <1>8 DEF NamespaceResolve, Read
  <2>2. UNCHANGED rowVars /\ b.pc = "nsResolve"
    BY Zenon, <1>8 DEF NamespaceResolve, At, rowVars, nsVars, repoVars, itemVars, histVars
  <2> QED  BY Zenon, <1>2, <2>1, <2>2 DEF Removing
<1>9. CASE BackNamespaceList(p)
  <2>1. Goto(p, "backNsName") /\ UNCHANGED rowVars /\ b.pc = "backNsList"
    BY Zenon, <1>9 DEF BackNamespaceList, RestoreIndex, Write, At, rowVars, repoVars, itemVars, histVars
  <2> QED  BY Zenon, <1>2, <2>1 DEF Removing
<1>10. CASE BackNamespaceName(p)
  <2>1. Return(p) /\ UNCHANGED rowVars
    BY Zenon, <1>10 DEF BackNamespaceName, RestoreIndex, Write, rowVars, repoVars, itemVars, histVars
  <2> QED  BY Zenon, <2>1, QuietReturn
<1> QED  BY Zenon, <1>3, <1>4, <1>5, <1>6, <1>7, <1>8, <1>9, <1>10

\* The row of a namespace goes: it was marked, so it has no resources and no
\* catalog write has found it fit.
LEMMA NamespaceRowKeeps ==
    ASSUME LifecycleInv, NEW p \in Procs, NamespaceRow(p)
    PROVE  LifecycleInv'
<1> DEFINE b == proc[p]
           gone == [ns EXCEPT !.here = FALSE]
<1>1. b \in Call /\ Process(b) /\ ns \in NsRow
  BY Zenon DEF LifecycleInv, Typed
<1>2. UNCHANGED <<fence, repo, listed, used, created, item, index>> /\ b.pc = "nsRow"
  BY Zenon DEF NamespaceRow, At, repoVars, itemVars, histVars
<1>3. /\ ns' = ns \/ ns' = gone
      /\ Return(p) \/ Goto(p, "backNsList") \/ Goto(p, "nsResolve")
  BY Zenon DEF NamespaceRow, Cas, Write, Read
<1>4. ns.deleting /\ Marked(ns)
  BY Zenon, <1>1, <1>2 DEF Process, Vacated, Removing, Marked
<1>5. PICK c \in Call : /\ Set(p, c) /\ Kept(b, c) /\ Process(c)
                        /\ c.pc \in {"give", "idle", "nsResolve", "backNsList"}
  <2>1. CASE Return(p)
    BY ZenonT(60), <2>1, IdleFacts DEF Return, Idle
  <2>2. ASSUME NEW x \in {"nsResolve", "backNsList"}, Goto(p, x)
        PROVE  \E c \in Call : /\ Set(p, c) /\ Kept(b, c) /\ Process(c)
                               /\ c.pc \in {"give", "idle", "nsResolve", "backNsList"}
    <3>1. /\ x \in Pcs /\ b.result \in Results /\ b.result \in NewResults(b) /\ x \notin Removing
          /\ b.pc \in Removing
      BY Zenon, <1>1, <1>2 DEF Pcs, Call, NewResults, Removing
    <3>2. Set(p, At2(b, x, b.result))
      BY ZenonT(60), <1>1, <2>2 DEF Goto, Set, At2, Call
    <3>3. At2(b, x, b.result) \in Call /\ At2(b, x, b.result).pc = x
      BY Zenon, <1>1, <3>1, MovedFields
    <3>4. Kept(b, At2(b, x, b.result)) /\ Process(At2(b, x, b.result))
      BY Zenon, <3>1, RemovingGoesOn
    <3> QED  BY Zenon, <3>2, <3>3, <3>4
  <2> QED  BY Zenon, <1>3, <2>1, <2>2
<1>6. ns' \in NsRow /\ ns'.deleting = ns.deleting
  BY ZenonT(60), <1>1, <1>3 DEF NsRow
<1>7. \A i \in Items : item[i] = None
  BY Zenon, <1>4 DEF LifecycleInv, NoOrphanItem
<1>8. \A q \in Procs \ {p} : proc[q].call = "write"
        => proc[q].pc \notin {"parentRepo", "before", "index", "operate"}
  BY ZenonT(60), <1>4, Other DEF Process, Mutation
<1> QED  BY Zenon, <1>2, <1>5, <1>6, <1>7, <1>8, NamespaceChanges

\* Every step of a mark or a deletion of a namespace keeps the invariant.
LEMMA NamespaceStepKeeps ==
    ASSUME LifecycleInv, NEW p \in Procs, NamespaceStep(p)
    PROVE  LifecycleInv'
BY Zenon, CallsBegin, MarkReads, MarkWriteKeeps, QuietRemoving, NamespaceRowKeeps DEF NamespaceStep

\* An update without the fence puts no mark on an unmarked namespace.
LEMMA UpdateNamespaceKeeps ==
    ASSUME LifecycleInv, UpdateNamespace
    PROVE  LifecycleInv'
<1>1. Typed
  BY Zenon DEF LifecycleInv
<1>2. UNCHANGED <<fence, repo, listed, used, created, item, index, proc>>
  BY Zenon DEF UpdateNamespace, repoVars, itemVars, histVars
<1>3. PICK m \in {None, "deletion"} : (m = "deletion" => Marked(ns)) /\ ns' = Mark(ns, m)
  BY Zenon DEF UpdateNamespace, None
<1>4. /\ ns' \in NsRow /\ ns'.here = ns.here /\ (ns.deleting => ns'.deleting)
      /\ ~ Marked(ns) => ~ Marked(ns')
  BY Zenon, <1>1, <1>3, MarkedNamespace DEF Typed, None
<1>5. Rows' /\ IndexCovers' /\ NoOrphanItem'
  BY Zenon, <1>2, <1>4 DEF LifecycleInv, Rows, Live, IndexCovers, NoOrphanItem, Marked
<1>6. \A p \in Procs : Process(proc[p])'
  <2> SUFFICES ASSUME NEW p \in Procs PROVE Process(proc[p])'  OBVIOUS
  <2>1. Process(proc[p])
    BY Zenon DEF LifecycleInv
  <2>2. PICK c : c = proc[p]
    OBVIOUS
  <2>3. Process(c)'
    <3>1. Process(c)
      BY Zenon, <2>1, <2>2
    <3>2. Shape(c)' /\ Creation(c)' /\ Emptied(c)'
      BY Zenon, <1>2, <3>1 DEF Process, Shape, Creation, Emptied, Live
    <3>3. Mutation(c)'
      BY Zenon, <1>2, <1>4, <3>1 DEF Process, Mutation, Live
    <3>4. Vacated(c)'
      BY Zenon, <1>2, <1>4, <3>1 DEF Process, Vacated
    <3> QED  BY Zenon, <3>2, <3>3, <3>4 DEF Process
  <2> QED  BY Zenon, <1>2, <2>2, <2>3
<1>7. \A p, q \in Procs : p # q => Apart(proc[p], proc[q])'
  BY Zenon, <1>2 DEF LifecycleInv, Apart
<1>8. FenceExclusive'
  BY Zenon, <1>2 DEF LifecycleInv, FenceExclusive, Holders
<1>9. Typed'
  BY Zenon, <1>1, <1>2, <1>4 DEF Typed
<1> QED  BY Zenon, <1>5, <1>6, <1>7, <1>8, <1>9 DEF LifecycleInv

-----------------------------------------------------------------------------
(* The theorems                                                            *)

\* The invariant holds when CreateNamespace has run.
LEMMA InitialInv ==
    Init => LifecycleInv
<1> SUFFICES ASSUME Init PROVE LifecycleInv  OBVIOUS
<1>1. \A p \in Procs : proc[p] = Idle
  BY Zenon DEF Init
<1>2. Idle.pc = "idle"
  BY Zenon DEF Idle
<1>3. Typed
  <2>1. ns \in NsRow
    BY SMTT(60) DEF Init, NsRow
  <2>2. repo \in [Repos -> RepoRow]
    BY Zenon, FreshRows DEF Init
  <2>3. proc \in [Procs -> Call]
    BY Zenon, IdleFacts DEF Init
  <2> QED  BY SMTT(60), <2>1, <2>2, <2>3, LifecycleAssumption DEF Init, Typed
<1>4. FenceExclusive
  BY Zenon, <1>1, <1>2 DEF FenceExclusive, Holders, InBody
<1>5. Rows
  <2>1. \A r \in Repos : repo[r].here => r = System
    BY Zenon, FreshRows DEF Init
  <2> QED  BY Zenon, <2>1 DEF Init, Rows, Live
<1>6. IndexCovers /\ NoOrphanItem
  BY Zenon DEF Init, IndexCovers, NoOrphanItem
<1>7. \A p \in Procs : Process(proc[p])
  BY Zenon, <1>1, IdleFacts
<1>8. \A p, q \in Procs : p # q => Apart(proc[p], proc[q])
  BY Zenon, <1>1, <1>2 DEF Apart, Early, Late
<1> QED  BY Zenon, <1>3, <1>4, <1>5, <1>6, <1>7, <1>8 DEF LifecycleInv

\* Every step keeps the invariant.
LEMMA NextKeeps ==
    LifecycleInv /\ [Next]_vars => LifecycleInv'
<1> SUFFICES ASSUME LifecycleInv, [Next]_vars PROVE LifecycleInv'  OBVIOUS
<1>1. CASE UNCHANGED vars
  <2>1. UNCHANGED <<ns, fence, repo, listed, used, created, item, index, proc>>
    BY Zenon, <1>1 DEF vars, nsVars, repoVars, itemVars, histVars
  <2>2. Typed' /\ FenceExclusive'
    BY Zenon, <2>1 DEF LifecycleInv, Typed, FenceExclusive, Holders
  <2>3. Rows' /\ IndexCovers' /\ NoOrphanItem'
    BY Zenon, <2>1, RowsUnchanged
  <2>4. ASSUME NEW p \in Procs PROVE Process(proc[p])'
    <3>1. PICK c : c = proc[p]
      OBVIOUS
    <3>2. Process(c)
      BY Zenon, <3>1 DEF LifecycleInv
    <3>3. Process(c)'
      <4>1. Shape(c)' /\ Creation(c)' /\ Emptied(c)'
        BY ZenonT(30), <2>1, <3>2 DEF Process, Shape, Creation, Emptied, Live
      <4>2. Mutation(c)' /\ Vacated(c)'
        BY SMTT(60), <2>1, <3>2 DEF Process, Mutation, Vacated, Live
      <4> QED  BY Zenon, <4>1, <4>2 DEF Process
    <3> QED  BY Zenon, <2>1, <3>1, <3>3
  <2>5. \A p, q \in Procs : p # q => Apart(proc[p], proc[q])'
    BY Zenon, <2>1 DEF LifecycleInv, Apart
  <2> QED  BY Zenon, <2>2, <2>3, <2>4, <2>5 DEF LifecycleInv
<1>2. CASE UpdateNamespace
  BY Zenon, <1>2, UpdateNamespaceKeeps
<1>3. ASSUME NEW p \in Procs, CreateStep(p) PROVE LifecycleInv'
  BY Zenon, <1>3, CreateStepKeeps
<1>4. ASSUME NEW p \in Procs, FenceStep(p) PROVE LifecycleInv'
  BY Zenon, <1>4, FenceStepKeeps
<1>5. ASSUME NEW p \in Procs, ResourceStep(p) PROVE LifecycleInv'
  BY Zenon, <1>5, ResourceStepKeeps
<1>6. ASSUME NEW p \in Procs, RepositoryStep(p) PROVE LifecycleInv'
  BY Zenon, <1>6, RepositoryStepKeeps
<1>7. ASSUME NEW p \in Procs, NamespaceStep(p) PROVE LifecycleInv'
  BY Zenon, <1>7, NamespaceStepKeeps
<1>8. ASSUME NEW p \in Procs, Crash(p) PROVE LifecycleInv'
  <2>1. Return(p) /\ UNCHANGED rowVars
    BY Zenon, <1>8 DEF Crash, rowVars, nsVars, repoVars, itemVars, histVars
  <2> QED  BY Zenon, <2>1, QuietReturn
<1> QED  BY Zenon, <1>1, <1>2, <1>3, <1>4, <1>5, <1>6, <1>7, <1>8 DEF Next

=============================================================================
