------------------------ MODULE LifecycleReservations ------------------------
(*****************************************************************************)
(* Every step of LifecycleFences keeps ReservationInv, given that it keeps   *)
(* LifecycleInv.  What a step may do to the rows is said once (Fades,        *)
(* Advances, Entries, Passes, Grows); StepSettles shows that a step which    *)
(* does no more keeps the invariant, and the lemmas of the actions show that *)
(* they do no more.  The insert of a row is the one that does.               *)
(*****************************************************************************)
EXTENDS LifecycleState, FiniteSetTheorems, TLAPS

\* Two processes are apart, and not both in the body of the fence.
LEMMA OneApart ==
    ASSUME LifecycleInv, NEW p \in Procs, NEW q \in Procs \ {p}
    PROVE  /\ Process(proc[q])
           /\ Apart(proc[p], proc[q]) /\ Apart(proc[q], proc[p])
           /\ ~ (proc[p].pc \in InBody /\ proc[q].pc \in InBody)
BY Zenon DEF LifecycleInv, FenceExclusive, Holders

-----------------------------------------------------------------------------
(* A step of one process                                                   *)

\* A path that nobody has is taken, or that of s is given up.
LEMMA PathsKept ==
    ASSUME path \in [Names -> Repos \cup {None}], NEW s \in Repos, NEW v \in {s, None},
           path[NameOf[s]] \in {s, None}, path' = [path EXCEPT ![NameOf[s]] = v]
    PROVE  /\ path' \in [Names -> Repos \cup {None}]
           /\ \A r \in Repos \ {s} : path[NameOf[r]] = r => path'[NameOf[r]] = r
           /\ path'[NameOf[s]] = v
<1>1. \A r \in Repos : NameOf[r] \in Names
  BY Zenon DEF Names
<1> QED  BY Zenon, <1>1, LifecycleAssumption

Alone(p) == \A q \in Procs \ {p} : proc'[q] = proc[q]

\* p goes on to x with the result y.
Moved(p, x, y) ==
    /\ Alone(p)
    /\ proc'[p].pc = x /\ proc'[p].result = y
    /\ proc'[p].r = proc[p].r /\ proc'[p].own = proc[p].own /\ proc'[p].seen = proc[p].seen

\* The forms a step has
LEMMA StepForms ==
    ASSUME LifecycleInv, NEW p \in Procs
    PROVE  /\ \A x : Goto(p, x) => Moved(p, x, proc[p].result)
           /\ \A x : Failed(p, x) => Moved(p, x, "failed")
           /\ \A x : Repair(p, x) => Moved(p, x, "repair")
           /\ Return(p) => Alone(p) /\ proc'[p].pc = "idle"
           /\ \A c : Set(p, c) => Alone(p) /\ proc'[p] = c
<1>1. proc \in [Procs -> Call] /\ proc[p] \in Call
  BY Zenon DEF LifecycleInv, Typed
<1>2. ASSUME NEW c, Set(p, c) PROVE Alone(p) /\ proc'[p] = c
  BY Zenon, <1>1, <1>2 DEF Set, Alone
<1>3. ASSUME NEW x, Goto(p, x) PROVE Moved(p, x, proc[p].result)
  BY Zenon, <1>1, <1>3 DEF Goto, Moved, Alone, Call
<1>4. ASSUME NEW x, Failed(p, x) PROVE Moved(p, x, "failed")
  BY Zenon, <1>1, <1>4 DEF Failed, Set, Moved, Alone, Call
<1>5. ASSUME NEW x, Repair(p, x) PROVE Moved(p, x, "repair")
  BY Zenon, <1>1, <1>5 DEF Repair, Set, Moved, Alone, Call
<1>6. Idle.pc = "idle"
  BY Zenon DEF Idle
<1> QED  BY Zenon, <1>2, <1>3, <1>4, <1>5, <1>6 DEF Return

\* Calls begin.
Begun(p) == Alone(p) /\ proc'[p].pc \in {"reserve", "take", "nsEmpty"}

\* What a call sets as it begins.
LEMMA Beginnings ==
    ASSUME LifecycleInv, NEW p \in Procs
    PROVE  /\ \A r : Set(p, [Idle EXCEPT !.pc = "reserve", !.r = r]) => Begun(p)
           /\ \A r, i : Set(p, [Idle EXCEPT !.pc = "take", !.call = "write", !.r = r, !.i = i]) => Begun(p)
           /\ \A r, i : Set(p, [Idle EXCEPT !.pc = "take", !.call = "delete", !.r = r, !.i = i]) => Begun(p)
           /\ \A r, m, v : Set(p, [Idle EXCEPT !.pc = "take", !.call = "update", !.r = r, !.mark = m, !.rv = v])
                            => Begun(p)
           /\ \A r, v : Set(p, [Idle EXCEPT !.pc = "take", !.call = "complete", !.r = r, !.rv = v]) => Begun(p)
           /\ \A m, v : Set(p, [Idle EXCEPT !.pc = "take", !.call = "mark", !.mark = m, !.rv = v]) => Begun(p)
           /\ \A v : Set(p, [Idle EXCEPT !.pc = "nsEmpty", !.call = "remove", !.rv = v]) => Begun(p)
<1>1. ASSUME NEW r PROVE Set(p, [Idle EXCEPT !.pc = "reserve", !.r = r]) => Begun(p)
  <2> DEFINE c == [Idle EXCEPT !.pc = "reserve", !.r = r]
  <2>1. c.pc \in {"reserve", "take", "nsEmpty"}
    BY Zenon DEF Idle
  <2> HIDE DEF c
  <2> QED  BY Zenon, <2>1, StepForms DEF Begun, c
<1>2. ASSUME NEW r, NEW i PROVE Set(p, [Idle EXCEPT !.pc = "take", !.call = "write", !.r = r, !.i = i]) => Begun(p)
  <2> DEFINE c == [Idle EXCEPT !.pc = "take", !.call = "write", !.r = r, !.i = i]
  <2>1. c.pc \in {"reserve", "take", "nsEmpty"}
    BY Zenon DEF Idle
  <2> HIDE DEF c
  <2> QED  BY Zenon, <2>1, StepForms DEF Begun, c
<1>3. ASSUME NEW r, NEW i PROVE Set(p, [Idle EXCEPT !.pc = "take", !.call = "delete", !.r = r, !.i = i]) => Begun(p)
  <2> DEFINE c == [Idle EXCEPT !.pc = "take", !.call = "delete", !.r = r, !.i = i]
  <2>1. c.pc \in {"reserve", "take", "nsEmpty"}
    BY Zenon DEF Idle
  <2> HIDE DEF c
  <2> QED  BY Zenon, <2>1, StepForms DEF Begun, c
<1>4. ASSUME NEW r, NEW m, NEW v PROVE Set(p, [Idle EXCEPT !.pc = "take", !.call = "update", !.r = r, !.mark = m, !.rv = v]) => Begun(p)
  <2> DEFINE c == [Idle EXCEPT !.pc = "take", !.call = "update", !.r = r, !.mark = m, !.rv = v]
  <2>1. c.pc \in {"reserve", "take", "nsEmpty"}
    BY Zenon DEF Idle
  <2> HIDE DEF c
  <2> QED  BY Zenon, <2>1, StepForms DEF Begun, c
<1>5. ASSUME NEW r, NEW v PROVE Set(p, [Idle EXCEPT !.pc = "take", !.call = "complete", !.r = r, !.rv = v]) => Begun(p)
  <2> DEFINE c == [Idle EXCEPT !.pc = "take", !.call = "complete", !.r = r, !.rv = v]
  <2>1. c.pc \in {"reserve", "take", "nsEmpty"}
    BY Zenon DEF Idle
  <2> HIDE DEF c
  <2> QED  BY Zenon, <2>1, StepForms DEF Begun, c
<1>6. ASSUME NEW m, NEW v PROVE Set(p, [Idle EXCEPT !.pc = "take", !.call = "mark", !.mark = m, !.rv = v]) => Begun(p)
  <2> DEFINE c == [Idle EXCEPT !.pc = "take", !.call = "mark", !.mark = m, !.rv = v]
  <2>1. c.pc \in {"reserve", "take", "nsEmpty"}
    BY Zenon DEF Idle
  <2> HIDE DEF c
  <2> QED  BY Zenon, <2>1, StepForms DEF Begun, c
<1>7. ASSUME NEW v PROVE Set(p, [Idle EXCEPT !.pc = "nsEmpty", !.call = "remove", !.rv = v]) => Begun(p)
  <2> DEFINE c == [Idle EXCEPT !.pc = "nsEmpty", !.call = "remove", !.rv = v]
  <2>1. c.pc \in {"reserve", "take", "nsEmpty"}
    BY Zenon DEF Idle
  <2> HIDE DEF c
  <2> QED  BY Zenon, <2>1, StepForms DEF Begun, c
<1> QED  BY Zenon, <1>1, <1>2, <1>3, <1>4, <1>5, <1>6, <1>7

\* Calls go on.
LEMMA Continuations ==
    ASSUME LifecycleInv, NEW p \in Procs, NEW x, NEW y
    PROVE  /\ Set(p, [proc[p] EXCEPT !.pc = x, !.epoch = y]) => Alone(p) /\ proc'[p].pc = x
           /\ Set(p, [proc[p] EXCEPT !.pc = x, !.result = y]) => Alone(p) /\ Moved(p, x, y)
           /\ Set(p, [proc[p] EXCEPT !.pc = x, !.seen = y]) => Alone(p) /\ proc'[p].pc = x /\ proc'[p].seen = y
           /\ Set(p, [proc[p] EXCEPT !.from = y, !.pc = x]) => Alone(p) /\ proc'[p].pc = x
           /\ Set(p, [proc[p] EXCEPT !.pc = x, !.now = y]) => Alone(p) /\ proc'[p].pc = x
           /\ Set(p, [proc[p] EXCEPT !.pc = x, !.own = y]) => Alone(p) /\ proc'[p].pc = x /\ proc'[p].r = proc[p].r /\ proc'[p].result = proc[p].result
<1>0. proc[p] \in Call
  BY Zenon DEF LifecycleInv, Typed
<1>1. Set(p, [proc[p] EXCEPT !.pc = x, !.epoch = y]) => Alone(p) /\ proc'[p].pc = x
  <2> DEFINE c == [proc[p] EXCEPT !.pc = x, !.epoch = y]
  <2>1. c.pc = x
    BY ZenonT(60), <1>0 DEF Call
  <2> HIDE DEF c
  <2> QED  BY Zenon, <2>1, StepForms DEF c
<1>2. Set(p, [proc[p] EXCEPT !.pc = x, !.result = y]) => Alone(p) /\ Moved(p, x, y)
  <2> DEFINE c == [proc[p] EXCEPT !.pc = x, !.result = y]
  <2>1. c.pc = x /\ c.result = y /\ c.r = proc[p].r /\ c.own = proc[p].own /\ c.seen = proc[p].seen
    BY ZenonT(60), <1>0 DEF Call
  <2> HIDE DEF c
  <2> QED  BY Zenon, <2>1, StepForms DEF c, Moved
<1>3. Set(p, [proc[p] EXCEPT !.pc = x, !.seen = y]) => Alone(p) /\ proc'[p].pc = x /\ proc'[p].seen = y
  <2> DEFINE c == [proc[p] EXCEPT !.pc = x, !.seen = y]
  <2>1. c.pc = x /\ c.seen = y
    BY ZenonT(60), <1>0 DEF Call
  <2> HIDE DEF c
  <2> QED  BY Zenon, <2>1, StepForms DEF c
<1>4. Set(p, [proc[p] EXCEPT !.from = y, !.pc = x]) => Alone(p) /\ proc'[p].pc = x
  <2> DEFINE c == [proc[p] EXCEPT !.from = y, !.pc = x]
  <2>1. c.pc = x
    BY ZenonT(60), <1>0 DEF Call
  <2> HIDE DEF c
  <2> QED  BY Zenon, <2>1, StepForms DEF c
<1>5. Set(p, [proc[p] EXCEPT !.pc = x, !.now = y]) => Alone(p) /\ proc'[p].pc = x
  <2> DEFINE c == [proc[p] EXCEPT !.pc = x, !.now = y]
  <2>1. c.pc = x
    BY ZenonT(60), <1>0 DEF Call
  <2> HIDE DEF c
  <2> QED  BY Zenon, <2>1, StepForms DEF c
<1>6. Set(p, [proc[p] EXCEPT !.pc = x, !.own = y]) => Alone(p) /\ proc'[p].pc = x /\ proc'[p].r = proc[p].r /\ proc'[p].result = proc[p].result
  <2> DEFINE c == [proc[p] EXCEPT !.pc = x, !.own = y]
  <2>1. c.pc = x /\ c.r = proc[p].r /\ c.result = proc[p].result
    BY ZenonT(60), <1>0 DEF Call
  <2> HIDE DEF c
  <2> QED  BY Zenon, <2>1, StepForms DEF c
<1> QED  BY Zenon, <1>1, <1>2, <1>3, <1>4, <1>5, <1>6

\* The reservations in flight are finitely many.
LEMMA CreatingFinite ==
    /\ Creating = {p \in Procs : proc[p].pc \in Reserved}
    /\ IsFiniteSet(Creating) /\ Cardinality(Creating) \in Nat
<1>1. Creating = {p \in Procs : proc[p].pc \in Reserved}
  BY Zenon DEF Creating, Reserved, Late
<1>2. Creating \in SUBSET Procs
  BY Zenon DEF Creating
<1> QED  BY Zenon, <1>1, <1>2, LifecycleAssumption, FS_Subset, FS_CardinalityType

\* How a step changes their number
LEMMA CreatingChanges ==
    ASSUME NEW p \in Procs, Alone(p)
    PROVE  /\ (proc'[p].pc \in Reserved <=> proc[p].pc \in Reserved)
                => Cardinality(Creating)' = Cardinality(Creating)
           /\ proc'[p].pc \in Reserved /\ proc[p].pc \notin Reserved
                => Cardinality(Creating)' = Cardinality(Creating) + 1
           /\ proc'[p].pc \notin Reserved /\ proc[p].pc \in Reserved
                => Cardinality(Creating)' = Cardinality(Creating) - 1
           /\ Cardinality(Creating)' \in Nat
<1>1. Creating' = {q \in Procs : proc'[q].pc \in Reserved}
  BY Zenon DEF Creating, Reserved, Late
<1>2. \A q \in Procs \ {p} : q \in Creating' <=> q \in Creating
  BY Zenon, <1>1, CreatingFinite DEF Alone
<1>3. /\ p \in Creating' <=> proc'[p].pc \in Reserved
      /\ p \in Creating <=> proc[p].pc \in Reserved
      /\ Creating \subseteq Procs /\ Creating' \subseteq Procs
  BY Zenon, <1>1, CreatingFinite
<1>4. CASE proc'[p].pc \in Reserved <=> proc[p].pc \in Reserved
  <2>1. Creating' = Creating
    BY <1>2, <1>3, <1>4
  <2> QED  BY Zenon, <1>4, <2>1, CreatingFinite
<1>5. CASE proc'[p].pc \in Reserved /\ proc[p].pc \notin Reserved
  <2>1. Creating' = Creating \cup {p} /\ p \notin Creating
    BY Zenon, <1>2, <1>3, <1>5
  <2>2. Cardinality(Creating \cup {p}) = Cardinality(Creating) + 1
    BY Zenon, <2>1, CreatingFinite, FS_AddElement
  <2> QED  BY <1>5, <2>1, <2>2, CreatingFinite
<1>6. CASE proc'[p].pc \notin Reserved /\ proc[p].pc \in Reserved
  <2>1. Creating' = Creating \ {p} /\ p \in Creating
    BY Zenon, <1>2, <1>3, <1>6
  <2>2. Cardinality(Creating \ {p}) = Cardinality(Creating) - 1 /\ IsFiniteSet(Creating \ {p})
    BY Zenon, <2>1, CreatingFinite, FS_RemoveElement
  <2>3. Cardinality(Creating \ {p}) \in Nat
    BY Zenon, <2>2, FS_CardinalityType
  <2> QED  BY Zenon, <1>6, <2>1, <2>2, <2>3
<1> QED  BY Zenon, <1>4, <1>5, <1>6

Faulty == faults' \in {faults, faults + 1}

\* A step outside of reservations keeps them counted.
LEMMA CountKept ==
    ASSUME Counted, LifecycleInv, NEW p \in Procs, Alone(p), Faulty,
           proc'[p].pc \in Reserved <=> proc[p].pc \in Reserved,
           proc'[p].pc \in Undoing => proc[p].pc \in Undoing \/ faults' = faults + 1,
           ns'.pending = ns.pending, ns.pending > 0 => ns'.here /\ ~ Marked(ns')
    PROVE  Counted' /\ (Leaked => Leaked')
<1>1. Cardinality(Creating)' = Cardinality(Creating)
  BY Zenon, CreatingChanges
<1>2. faults \in Nat /\ faults' \in Nat /\ (faults' = 0 => faults' = faults)
  BY DEF Counted, Faulty
<1>3. PendingCovers'
  BY Zenon, <1>1, <1>2 DEF Counted, PendingCovers, Marked
<1>4. ASSUME faults' = 0, NEW q \in Procs PROVE proc'[q].pc \notin Undoing
  <2>1. faults' = faults /\ faults' # faults + 1
    BY <1>2, <1>4
  <2> QED  BY Zenon, <1>2, <1>4, <2>1 DEF Counted, Alone
<1>5. Counted'
  BY Zenon, <1>2, <1>3, <1>4 DEF Counted
<1> QED  BY Zenon, <1>1, <1>5 DEF Leaked

\* A reservation is given up: it is never given back.
LEMMA CountLeaks ==
    ASSUME Counted, LifecycleInv, NEW p \in Procs, Alone(p), Faulty,
           faults' = faults + 1 \/ proc[p].pc \in Undoing,
           proc'[p].pc \notin Reserved, proc[p].pc \in Reserved, ns' = ns
    PROVE  Counted' /\ Leaked'
<1>1. Cardinality(Creating)' = Cardinality(Creating) - 1 /\ Cardinality(Creating)' \in Nat
  BY Zenon, CreatingChanges
<1>2. faults' \in Nat /\ faults' # 0
  BY DEF Counted, Faulty
<1>3. ns.pending \in Int /\ Cardinality(Creating) \in Nat
  BY Zenon, CreatingFinite DEF LifecycleInv, Typed, NsRow
<1>4. PendingCovers' /\ Leaked'
  BY <1>1, <1>2, <1>3 DEF Counted, PendingCovers, Leaked, Marked
<1> QED  BY Zenon, <1>2, <1>4 DEF Counted

\* The rows of repositories only fade: they are marked or deleted.
Fades ==
    \A r \in Repos : /\ repo'[r].here => repo[r].here
                     /\ repo'[r].here /\ repo[r].deleting => repo'[r].deleting
                     /\ Live(r)' => Live(r)

\* The row of the namespace: an epoch has one count, and a mark or the end come
\* when they may.
Advances ==
    /\ ns.epoch <= ns'.epoch
    /\ ns'.epoch = ns.epoch /\ ns.pending = 0 => ns'.pending = 0
    /\ Marked(ns') => Marked(ns) \/ OnlySystem
    /\ ns'.here \/ ~ ns.here \/ SystemEnds

\* The entries of a repository, in its name, its uid and the listings
Keeps(r) ==
    /\ path[NameOf[r]] = r => path'[NameOf[r]] = r
    /\ r \in reverse => r \in reverse'
    /\ r \in listed => r \in listed'
    /\ r \in ready => r \in ready'

\* Who takes them away is undoing its creation or deleting it.
Entries(p) ==
    \A r \in Repos : Keeps(r) \/ (r = proc[p].r /\ proc[p].pc \in Undoing \cup Ending)

\* What p was working on, or has taken from the listings, it works on still, or
\* something else accounts for it.
Passes(p) ==
    /\ Working(proc[p]) => \/ Working(proc'[p]) /\ proc'[p].r = proc[p].r
                           \/ proc[p].r \in listed' \/ ~ repo'[proc[p].r].here
                           \/ Leaked' \/ Stuck'
    /\ proc[p].r \in listed => \/ proc[p].r \in listed'
                               \/ Working(proc'[p]) /\ proc'[p].r = proc[p].r

\* A creation is acknowledged when it is made.
Grows(p) == created' = created \/ (Made(proc[p]) /\ created' = created \cup {proc[p].r})

\* What the other processes know stays true.
LEMMA OthersKnow ==
    ASSUME LifecycleInv, ReservationInv, NEW p \in Procs, NEW q \in Procs \ {p}, NEW d,
           d = proc[q], Fades, Advances, Entries(p), unsettled' = unsettled, ns' \in NsRow
    PROVE  Judged(d)' /\ Found(d)'
<1>1. /\ d \in Call /\ d.r \in Repos /\ d.seen \in Int /\ System \in Repos
      /\ Judged(d) /\ Found(d)
      /\ Judged(proc[p]) /\ Apart(proc[p], d) /\ Apart(d, proc[p])
      /\ ns.epoch \in Int /\ ns'.epoch \in Int
  BY Zenon, LifecycleAssumption, OneApart DEF LifecycleInv, Typed, ReservationInv, Call, NsRow
<1>2. OnlySystem => OnlySystem'
  BY Zenon DEF OnlySystem, Fades
<1>3. SystemEnds => SystemEnds'
  BY Zenon, <1>1 DEF SystemEnds, Fades
<1>4. Judged(d)'
  <2>1. d.pc \in Marking => d.seen <= ns'.epoch /\ (d.seen = ns'.epoch => ns'.pending = 0 /\ d.seen = ns.epoch)
    BY <1>1 DEF Judged, Advances
  <2>2. d.pc \in {"markEmpty", "markWrite"} => d.pc \in Marking
    BY Zenon DEF Marking
  <2>3. d.pc \in Ending => (repo'[d.r].here => repo'[d.r].deleting)
    BY Zenon, <1>1 DEF Judged, Fades
  <2> QED  BY Zenon, <1>1, <1>2, <1>3, <2>1, <2>2, <2>3 DEF Judged
<1>5. Found(d)'
  <2>1. d.pc = "row" => Keeps(d.r)
    <3>1. d.pc = "row" => d.r # proc[p].r \/ proc[p].pc \notin Undoing \cup Ending
      BY Zenon, <1>1 DEF Apart, Early, Late, Undoing, Ending
    <3> QED  BY Zenon, <1>1, <3>1 DEF Entries
  <2>2. Live(d.r) /\ d.pc \in Late => Keeps(d.r)
    <3>1. d.pc \in Late => d.r # proc[p].r \/ proc[p].pc \notin Undoing
      BY Zenon, <1>1 DEF Apart, Late, Undoing
    <3>2. Live(d.r) => d.r # proc[p].r \/ proc[p].pc \notin Ending
      BY Zenon, <1>1 DEF Judged, Live, Marked
    <3> QED  BY Zenon, <1>1, <3>1, <3>2 DEF Entries
  <2>3. Live(d.r)' => Live(d.r)
    BY Zenon, <1>1 DEF Fades
  <2>4. d.pc \in {"reverse", "list", "ready"} \/ Made(d) => d.pc \in Late
    BY Zenon DEF Late, Made
  <2> QED  BY Zenon, <1>1, <2>1, <2>2, <2>3, <2>4 DEF Found, Keeps, Made
<1> QED  BY Zenon, <1>4, <1>5

\* Every row stays accounted for.
LEMMA RowsAccounted ==
    ASSUME LifecycleInv, ReservationInv, NEW p \in Procs, Alone(p), Fades, Entries(p), Passes(p),
           unsettled' = unsettled, Leaked => Leaked', Stuck => Stuck'
    PROVE  \A r \in Repos \ {System} : repo'[r].here => Accounted(r)'
<1> SUFFICES ASSUME NEW r \in Repos \ {System}, repo'[r].here PROVE Accounted(r)'
  OBVIOUS
<1>1. Accounted(r)
  BY Zenon DEF ReservationInv, Fades
<1>2. CASE r \in listed
  BY Zenon, <1>2 DEF Accounted, Entries, Passes, Keeps, Working
<1>3. CASE r \in unsettled \/ Leaked \/ Stuck
  BY Zenon, <1>3 DEF Accounted
<1>4. ASSUME NEW q \in Procs, proc[q].r = r, Working(proc[q]) PROVE Accounted(r)'
  <2>1. CASE q = p
    BY Zenon, <1>4, <2>1 DEF Passes, Accounted, Working
  <2>2. CASE q # p
    BY Zenon, <1>4, <2>2 DEF Alone, Accounted, Working
  <2> QED  BY Zenon, <2>1, <2>2
<1> QED  BY Zenon, <1>1, <1>2, <1>3, <1>4 DEF Accounted

\* Whoever was reachable stays so.
LEMMA ReachableKept ==
    ASSUME LifecycleInv, ReservationInv, NEW p \in Procs, Fades, Entries(p), Grows(p)
    PROVE  /\ Reachable'
           /\ repo'[System].here => System \in listed' \/ repo'[System].deleting
<1>1. /\ proc[p].pc \in Undoing => proc[p].r \notin created
      /\ proc[p].pc \in Ending /\ repo[proc[p].r].here => repo[proc[p].r].deleting
      /\ created \subseteq Repos /\ System \in created
  BY Zenon DEF LifecycleInv, Typed, Process, Creation, ReservationInv, Judged, Undoing, Late
<1>2. ASSUME NEW r \in created, repo[r].here, ~ repo[r].deleting PROVE Keeps(r)
  BY Zenon, <1>1, <1>2 DEF Entries
<1>3. Reachable'
  <2> SUFFICES ASSUME NEW r \in created', Live(r)'
               PROVE  path'[NameOf[r]] = r /\ r \in reverse' \cap listed' \cap ready'
    BY Zenon DEF Reachable, Live
  <2>1. CASE r \in created
    <3>1. Live(r)
      BY Zenon, <1>1, <2>1 DEF Fades
    <3> QED  BY Zenon, <1>2, <2>1, <3>1 DEF ReservationInv, Reachable, Live, Marked, Keeps
  <2>2. CASE r \notin created
    <3>1. r = proc[p].r /\ Made(proc[p]) /\ r \in Repos
      BY <2>2 DEF Grows, LifecycleInv, Typed, Call
    <3>2. Keeps(r)
      BY Zenon, <3>1 DEF Entries, Made, Undoing, Ending
    <3>3. Live(r) /\ Found(proc[p]) /\ Creation(proc[p])
      BY Zenon, <3>1 DEF Fades, ReservationInv, LifecycleInv, Process
    <3> QED  BY Zenon, <3>1, <3>2, <3>3 DEF Found, Creation, Made, Keeps
  <2> QED  BY Zenon, <2>1, <2>2
<1>4. repo'[System].here => System \in listed' \/ repo'[System].deleting
  BY Zenon, <1>1, <1>2 DEF Fades, ReservationInv, Keeps
<1> QED  BY Zenon, <1>3, <1>4

\* A step of p keeps the invariant.
LEMMA StepSettles ==
    ASSUME LifecycleInv, LifecycleInv', ReservationInv, NEW p \in Procs, Alone(p), Counted',
           Leaked => Leaked', Stuck => Stuck', path' \in [Names -> Repos \cup {None}],
           Fades, Advances, Entries(p), Passes(p), Grows(p), unsettled' = unsettled,
           Judged(proc[p])', Found(proc[p])'
    PROVE  ReservationInv'
<1>1. ns' \in NsRow
  BY Zenon DEF LifecycleInv, Typed
<1>2. ASSUME NEW q \in Procs PROVE Judged(proc[q])' /\ Found(proc[q])'
  <2>1. CASE q = p
    BY Zenon, <2>1
  <2>2. CASE q # p
    <3>1. PICK d : d = proc[q]
      OBVIOUS
    <3>2. Judged(d)' /\ Found(d)' /\ proc'[q] = d
      BY Zenon, <1>1, <2>2, <3>1, OthersKnow DEF Alone
    <3> QED  BY Zenon, <3>2 DEF Judged, Found, Made, Live
  <2> QED  BY Zenon, <2>1, <2>2
<1>3. (OnlySystem => OnlySystem') /\ (SystemEnds => SystemEnds')
  BY Zenon, LifecycleAssumption DEF OnlySystem, SystemEnds, Fades
<1>4. (Marked(ns') => OnlySystem') /\ (~ ns'.here => SystemEnds')
  BY Zenon, <1>3 DEF Advances, ReservationInv
<1>5. System \in created'
  BY Zenon DEF ReservationInv, Grows
<1> QED  BY Zenon, <1>2, <1>4, <1>5, RowsAccounted, ReachableKept DEF ReservationInv, Marked

settleVars == <<ns, fence, repo, path, reverse, listed, ready, created, unsettled>>

\* Rows that a step leaves alone
LEMMA StillRows ==
    ASSUME LifecycleInv, NEW p \in Procs
    PROVE  /\ repo' = repo => Fades
           /\ ns' = ns => Advances
           /\ UNCHANGED <<path, reverse, listed, ready>> => Entries(p)
           /\ created' = created => Grows(p)
<1>1. ns.epoch \in Int
  BY Zenon DEF LifecycleInv, Typed, NsRow
<1> QED  BY <1>1 DEF Fades, Live, Advances, Entries, Keeps, Grows

\* A fence that nobody holds stays so if nobody enters.
LEMMA StuckStays ==
    ASSUME NEW p \in Procs, Alone(p), fence' = fence,
           proc'[p].pc \in InBody => proc[p].pc \in InBody
    PROVE  Stuck => Stuck'
BY Zenon DEF Stuck, Holders, Alone

\* Who holds the fence and leaves without giving it back leaves it stuck.
LEMMA HolderGone ==
    ASSUME LifecycleInv, NEW p \in Procs, Alone(p), fence' = fence,
           proc[p].pc \in InBody, proc'[p].pc \notin InBody
    PROVE  Stuck'
<1>1. fence.pending = 1 /\ \A q \in Procs \ {p} : proc[q].pc \notin InBody
  BY DEF LifecycleInv, FenceExclusive, Holders
<1> QED  BY Zenon, <1>1 DEF Stuck, Holders, Alone

\* A process goes on and changes none of the rows.
LEMMA CalmStep ==
    ASSUME LifecycleInv, LifecycleInv', ReservationInv, NEW p \in Procs, Alone(p), Faulty,
           UNCHANGED settleVars,
           proc'[p].pc \in Reserved <=> proc[p].pc \in Reserved,
           proc'[p].pc \in Undoing => proc[p].pc \in Undoing \/ faults' = faults + 1,
           proc'[p].pc \in InBody => proc[p].pc \in InBody,
           Working(proc[p]) => Working(proc'[p]) /\ proc'[p].r = proc[p].r,
           Judged(proc'[p]), Found(proc'[p])
    PROVE  ReservationInv'
<1>1. /\ ns' = ns /\ fence' = fence /\ repo' = repo /\ created' = created /\ unsettled' = unsettled
      /\ UNCHANGED <<path, reverse, listed, ready>> /\ path' = path /\ listed' = listed
  BY Zenon DEF settleVars
<1>2. Counted /\ path \in [Names -> Repos \cup {None}] /\ (ns.pending > 0 => ns.here /\ ~ Marked(ns))
  BY Zenon DEF ReservationInv, Counted, PendingCovers
<1>3. Counted' /\ (Leaked => Leaked')
  BY Zenon, <1>1, <1>2, CountKept
<1>4. Fades /\ Advances /\ Entries(p) /\ Grows(p)
  BY Zenon, <1>1, StillRows
<1>5. Stuck => Stuck'
  BY Zenon, <1>1, StuckStays
<1>6. Passes(p)
  BY Zenon, <1>1 DEF Passes
<1>7. Judged(proc[p])' /\ Found(proc[p])'
  BY Zenon, <1>1 DEF settleVars, Judged, Found, OnlySystem, SystemEnds, Made, Live
<1> QED  BY Zenon, <1>1, <1>2, <1>3, <1>4, <1>5, <1>6, <1>7, StepSettles

\* Where a process has nothing to account for
Plain == {"idle", "reserve", "take", "parent", "give", "parentNs", "parentRepo", "before", "index",
          "operate", "readBack", "fixIndex", "unindex", "repoRead", "repoEmpty", "repoWrite",
          "endRead", "markRead", "nsEmpty", "nsResolve", "backNsList", "backNsName"}

\* Nothing is known and nothing is owed there.
LEMMA PlainFacts ==
    ASSUME NEW c, c.pc \in Plain
    PROVE  /\ c.pc \notin Reserved /\ c.pc \notin Undoing /\ ~ Working(c)
           /\ Judged(c) /\ Found(c) /\ Judged(c)' /\ Found(c)'
<1>1. /\ c.pc \notin Reserved /\ c.pc \notin Undoing /\ c.pc \notin Ending /\ c.pc \notin Unlisting
      /\ c.pc \notin Marking /\ c.pc \notin Leaving
      /\ c.pc \notin {"row", "reverse", "list", "ready", "release", "failRow", "failReverse", "failPath"}
      /\ c.pc \notin {"markEmpty", "markWrite"}
  BY Zenon DEF Plain, Reserved, Late, Undoing, Ending, Unlisting, Marking, Leaving
<1> QED  BY Zenon, <1>1 DEF Working, Judged, Found, Made

\* A process that owed nothing comes to such a place.
LEMMA PlainChange ==
    ASSUME LifecycleInv, LifecycleInv', ReservationInv, NEW p \in Procs, Alone(p), Faulty,
           UNCHANGED <<path, reverse, listed, ready, created, unsettled>>, Fades, Advances,
           ns'.pending = ns.pending, ns.pending > 0 => ns'.here /\ ~ Marked(ns'),
           Stuck => Stuck', proc[p].pc \notin Reserved, ~ Working(proc[p]), proc'[p].pc \in Plain
    PROVE  ReservationInv'
<1>1. /\ proc'[p].pc \notin Reserved /\ proc'[p].pc \notin Undoing
      /\ Judged(proc[p])' /\ Found(proc[p])'
  <2>1. PICK c : c = proc'[p]
    OBVIOUS
  <2>2. c.pc \notin Reserved /\ c.pc \notin Undoing /\ Judged(c)' /\ Found(c)'
    BY Zenon, <2>1, PlainFacts
  <2> QED  BY Zenon, <2>1, <2>2 DEF Judged, Found, OnlySystem, SystemEnds, Made, Live
<1>2. Counted /\ path' \in [Names -> Repos \cup {None}]
  BY Zenon DEF ReservationInv
<1>3. Counted' /\ (Leaked => Leaked')
  BY Zenon, <1>1, <1>2, CountKept
<1>4. Entries(p) /\ Grows(p) /\ Passes(p) /\ unsettled' = unsettled
  BY Zenon, StillRows DEF Passes
<1> QED  BY Zenon, <1>1, <1>2, <1>3, <1>4, StepSettles

\* A process goes from one such place to another.
LEMMA PlainStep ==
    ASSUME LifecycleInv, LifecycleInv', ReservationInv, NEW p \in Procs, Alone(p), Faulty,
           UNCHANGED settleVars, proc[p].pc \in Plain, proc'[p].pc \in Plain,
           proc'[p].pc \in InBody => proc[p].pc \in InBody
    PROVE  ReservationInv'
<1>1. /\ UNCHANGED <<path, reverse, listed, ready, created, unsettled>>
      /\ ns' = ns /\ fence' = fence /\ repo' = repo
  BY Zenon DEF settleVars
<1>2. Fades /\ Advances /\ (Stuck => Stuck')
  BY Zenon, <1>1, StillRows, StuckStays
<1>3. proc[p].pc \notin Reserved /\ ~ Working(proc[p])
  BY Zenon, PlainFacts
<1>4. ns.pending > 0 => ns'.here /\ ~ Marked(ns')
  BY Zenon, <1>1 DEF ReservationInv, Counted, PendingCovers
<1> QED  BY Zenon, <1>1, <1>2, <1>3, <1>4, PlainChange

\* A process that dies leaves its reservation or the fence behind.
LEMMA DyingStep ==
    ASSUME LifecycleInv, LifecycleInv', ReservationInv, NEW p \in Procs, Alone(p),
           faults' = faults + 1, UNCHANGED settleVars, proc'[p].pc = "idle"
    PROVE  ReservationInv'
<1>1. /\ ns' = ns /\ fence' = fence /\ repo' = repo /\ created' = created /\ unsettled' = unsettled
      /\ UNCHANGED <<path, reverse, listed, ready>> /\ path' = path /\ listed' = listed
  BY Zenon DEF settleVars
<1>2. Counted /\ path \in [Names -> Repos \cup {None}] /\ (ns.pending > 0 => ns.here /\ ~ Marked(ns))
  BY Zenon DEF ReservationInv, Counted, PendingCovers
<1>3. /\ "idle" \notin Reserved /\ "idle" \notin Undoing /\ "idle" \notin InBody /\ "idle" \in Plain
      /\ Faulty
  BY Zenon DEF Reserved, Late, Undoing, InBody, Plain, Faulty
<1>4. Judged(proc[p])' /\ Found(proc[p])'
  <2>1. PICK c : c = proc'[p]
    OBVIOUS
  <2>2. Judged(c)' /\ Found(c)'
    BY Zenon, <1>3, <2>1, PlainFacts
  <2> QED  BY Zenon, <2>1, <2>2 DEF Judged, Found, OnlySystem, SystemEnds, Made, Live
<1>5. Counted' /\ (Leaked => Leaked') /\ (proc[p].pc \in Reserved => Leaked')
  <2>1. CASE proc[p].pc \in Reserved
    BY Zenon, <1>1, <1>2, <1>3, <2>1, CountLeaks
  <2>2. CASE proc[p].pc \notin Reserved
    BY Zenon, <1>1, <1>2, <1>3, <2>2, CountKept
  <2> QED  BY Zenon, <2>1, <2>2
<1>6. (Stuck => Stuck') /\ (proc[p].pc \in Unlisting => Stuck')
  <2>1. Stuck => Stuck'
    BY Zenon, <1>1, <1>3, StuckStays
  <2>2. proc[p].pc \in Unlisting => proc[p].pc \in InBody
    BY Zenon DEF Unlisting, InBody
  <2> QED  BY Zenon, <1>1, <1>3, <2>1, <2>2, HolderGone
<1>7. Passes(p)
  <2>1. Working(proc[p]) => proc[p].pc \in Reserved \/ proc[p].pc \in Unlisting
    BY Zenon DEF Working, Reserved, Late
  <2> QED  BY Zenon, <1>1, <1>5, <1>6, <2>1 DEF Passes
<1>8. Fades /\ Advances /\ Entries(p) /\ Grows(p)
  BY Zenon, <1>1, StillRows
<1> QED  BY Zenon, <1>1, <1>2, <1>4, <1>5, <1>6, <1>7, <1>8, StepSettles

-----------------------------------------------------------------------------
(* Steps that change none of the rows                                      *)

\* Calls begin.
LEMMA BeginningsSettle ==
    ASSUME LifecycleInv, LifecycleInv', ReservationInv, NEW p \in Procs,
           \/ CreateRepository(p) \/ WriteResource(p) \/ DeleteResource(p) \/ UpdateRepository(p)
           \/ CompleteRepositoryDeletion(p) \/ MarkNamespace(p) \/ DeleteNamespace(p)
    PROVE  ReservationInv'
<1>1. Begun(p)
  BY ZenonT(30), Beginnings DEF CreateRepository, WriteResource, DeleteResource, UpdateRepository,
     CompleteRepositoryDeletion, MarkNamespace, DeleteNamespace
<1>2. UNCHANGED <<settleVars, faults>> /\ proc[p].pc = "idle"
  BY ZenonT(30) DEF CreateRepository, WriteResource, DeleteResource, UpdateRepository,
         CompleteRepositoryDeletion, MarkNamespace, DeleteNamespace, Begins, At, settleVars, nsVars, repoVars, itemVars, histVars
<1>3. Alone(p) /\ proc'[p].pc \in {"reserve", "take", "nsEmpty"}
  BY Zenon, <1>1 DEF Begun
<1>4. /\ proc[p].pc \in Plain /\ proc'[p].pc \in Plain /\ proc'[p].pc \notin InBody
      /\ UNCHANGED settleVars /\ Faulty
  BY Zenon, <1>2, <1>3 DEF Plain, InBody, Faulty
<1> QED  BY Zenon, <1>3, <1>4, PlainStep

\* Catalog writes
LEMMA ResourcesSettle ==
    ASSUME LifecycleInv, LifecycleInv', ReservationInv, NEW p \in Procs,
           ParentNamespace(p) \/ ParentRepository(p) \/ ReadBefore(p) \/ IndexFirst(p) \/ Operate(p) \/ ReadBack(p) \/ FixIndex(p) \/ Unindex(p)
    PROVE  ReservationInv'
<1>1. CASE ParentNamespace(p)
  <2>1. Alone(p) /\ proc'[p].pc \in {"parentRepo", "give"}
    BY Zenon, <1>1, StepForms DEF ParentNamespace, Read, Moved
  <2>2. UNCHANGED settleVars /\ Faulty /\ proc[p].pc = "parentNs"
    BY Zenon, <1>1 DEF ParentNamespace, Read, Answered, Fails, Faulty, At, settleVars, nsVars, repoVars, itemVars, histVars
  <2> QED  BY Zenon, <2>1, <2>2, PlainStep DEF Plain, InBody
<1>2. CASE ParentRepository(p)
  <2>1. Alone(p) /\ proc'[p].pc \in {"before", "give"}
    BY Zenon, <1>2, StepForms DEF ParentRepository, Read, Moved
  <2>2. UNCHANGED settleVars /\ Faulty /\ proc[p].pc = "parentRepo"
    BY Zenon, <1>2 DEF ParentRepository, Read, Answered, Fails, Faulty, At, settleVars, nsVars, repoVars, itemVars, histVars
  <2> QED  BY Zenon, <2>1, <2>2, PlainStep DEF Plain, InBody
<1>3. CASE ReadBefore(p)
  <2>1. Alone(p) /\ proc'[p].pc \in {"index", "operate", "give"}
    BY ZenonT(60), <1>3, StepForms, Continuations DEF ReadBefore, Read, Moved
  <2>2. UNCHANGED settleVars /\ Faulty /\ proc[p].pc = "before"
    BY Zenon, <1>3 DEF ReadBefore, Read, Answered, Fails, Faulty, At, settleVars, nsVars, repoVars, itemVars, histVars
  <2> QED  BY Zenon, <2>1, <2>2, PlainStep DEF Plain, InBody
<1>4. CASE IndexFirst(p)
  <2>1. Alone(p) /\ proc'[p].pc \in {"operate", "give"}
    BY Zenon, <1>4, StepForms DEF IndexFirst, Write, Moved
  <2>2. UNCHANGED settleVars /\ Faulty /\ proc[p].pc = "index"
    BY Zenon, <1>4 DEF IndexFirst, Write, Answered, Fails, Faulty, At, settleVars, nsVars, repoVars, itemVars, histVars
  <2> QED  BY Zenon, <2>1, <2>2, PlainStep DEF Plain, InBody
<1>5. CASE Operate(p)
  <2>1. Alone(p) /\ proc'[p].pc \in {"readBack"}
    BY Zenon, <1>5, StepForms DEF Operate, Moved
  <2>2. UNCHANGED settleVars /\ Faulty /\ proc[p].pc = "operate"
    BY Zenon, <1>5 DEF Operate, Answered, Fails, Faulty, At, settleVars, nsVars, repoVars, itemVars, histVars
  <2> QED  BY Zenon, <2>1, <2>2, PlainStep DEF Plain, InBody
<1>6. CASE ReadBack(p)
  <2>1. Alone(p) /\ proc'[p].pc \in {"fixIndex", "give", "idle"}
    BY ZenonT(60), <1>6, StepForms, Continuations DEF ReadBack, Read, End, Moved
  <2>2. UNCHANGED settleVars /\ Faulty /\ proc[p].pc = "readBack"
    BY Zenon, <1>6 DEF ReadBack, Read, Answered, Fails, Faulty, At, settleVars, nsVars, repoVars, itemVars, histVars
  <2> QED  BY Zenon, <2>1, <2>2, PlainStep DEF Plain, InBody
<1>7. CASE FixIndex(p)
  <2>1. Alone(p) /\ proc'[p].pc \in {"unindex", "give", "idle"}
    BY Zenon, <1>7, StepForms DEF FixIndex, Write, End, Moved
  <2>2. UNCHANGED settleVars /\ Faulty /\ proc[p].pc = "fixIndex"
    BY Zenon, <1>7 DEF FixIndex, Write, Answered, Fails, Faulty, At, settleVars, nsVars, repoVars, itemVars, histVars
  <2> QED  BY Zenon, <2>1, <2>2, PlainStep DEF Plain, InBody
<1>8. CASE Unindex(p)
  <2>1. Alone(p) /\ proc'[p].pc \in {"give", "idle"}
    BY Zenon, <1>8, StepForms DEF Unindex, Write, End, Moved
  <2>2. UNCHANGED settleVars /\ Faulty /\ proc[p].pc = "unindex"
    BY Zenon, <1>8 DEF Unindex, Write, Answered, Fails, Faulty, At, settleVars, nsVars, repoVars, itemVars, histVars
  <2> QED  BY Zenon, <2>1, <2>2, PlainStep DEF Plain, InBody
<1> QED  BY Zenon, <1>1, <1>2, <1>3, <1>4, <1>5, <1>6, <1>7, <1>8

\* Reads that lead to nothing that is owed
LEMMA ReadsSettle ==
    ASSUME LifecycleInv, LifecycleInv', ReservationInv, NEW p \in Procs,
           RepositoryRead(p) \/ RepositoryEmpty(p) \/ NamespaceResolve(p) \/ BackNamespaceList(p) \/ BackNamespaceName(p)
    PROVE  ReservationInv'
<1>1. CASE RepositoryRead(p)
  <2>1. Alone(p) /\ proc'[p].pc \in {"repoEmpty", "repoWrite", "give"}
    BY Zenon, <1>1, StepForms DEF RepositoryRead, Read, Moved
  <2>2. UNCHANGED settleVars /\ Faulty /\ proc[p].pc = "repoRead"
    BY Zenon, <1>1 DEF RepositoryRead, Read, Answered, Fails, Faulty, At, settleVars, nsVars, repoVars, itemVars, histVars
  <2> QED  BY Zenon, <2>1, <2>2, PlainStep DEF Plain, InBody
<1>2. CASE RepositoryEmpty(p)
  <2>1. Alone(p) /\ proc'[p].pc \in {"repoWrite", "give"}
    BY Zenon, <1>2, StepForms DEF RepositoryEmpty, Read, Moved
  <2>2. UNCHANGED settleVars /\ Faulty /\ proc[p].pc = "repoEmpty"
    BY Zenon, <1>2 DEF RepositoryEmpty, Read, Answered, Fails, Faulty, At, settleVars, nsVars, repoVars, itemVars, histVars
  <2> QED  BY Zenon, <2>1, <2>2, PlainStep DEF Plain, InBody
<1>3. CASE NamespaceResolve(p)
  <2>1. Alone(p) /\ proc'[p].pc \in {"backNsList", "idle"}
    BY Zenon, <1>3, StepForms DEF NamespaceResolve, Read, Moved
  <2>2. UNCHANGED settleVars /\ Faulty /\ proc[p].pc = "nsResolve"
    BY Zenon, <1>3 DEF NamespaceResolve, Read, Answered, Fails, Faulty, At, settleVars, nsVars, repoVars, itemVars, histVars
  <2> QED  BY Zenon, <2>1, <2>2, PlainStep DEF Plain, InBody
<1>4. CASE BackNamespaceList(p)
  <2>1. Alone(p) /\ proc'[p].pc \in {"backNsName"}
    BY Zenon, <1>4, StepForms DEF BackNamespaceList, RestoreIndex, Write, Moved
  <2>2. UNCHANGED settleVars /\ Faulty /\ proc[p].pc = "backNsList"
    BY Zenon, <1>4 DEF BackNamespaceList, RestoreIndex, Write, Answered, Fails, Faulty, At, settleVars, nsVars, repoVars, itemVars, histVars
  <2> QED  BY Zenon, <2>1, <2>2, PlainStep DEF Plain, InBody
<1>5. CASE BackNamespaceName(p)
  <2>1. Alone(p) /\ proc'[p].pc \in {"idle"}
    BY Zenon, <1>5, StepForms DEF BackNamespaceName, RestoreIndex, Write, Moved
  <2>2. UNCHANGED settleVars /\ Faulty /\ proc[p].pc = "backNsName"
    BY Zenon, <1>5 DEF BackNamespaceName, RestoreIndex, Write, Answered, Fails, Faulty, At, settleVars, nsVars, repoVars, itemVars, histVars
  <2> QED  BY Zenon, <2>1, <2>2, PlainStep DEF Plain, InBody
<1> QED  BY Zenon, <1>1, <1>2, <1>3, <1>4, <1>5

-----------------------------------------------------------------------------
(* The fence and the namespace                                             *)

\* Who holds the fence is not the last who left it behind.
LEMMA FenceSettles ==
    ASSUME LifecycleInv, LifecycleInv', ReservationInv, NEW p \in Procs, FenceStep(p)
    PROVE  ReservationInv'
<1>1. Process(proc[p]) /\ proc[p].pc \in InBody => proc[p].call \in {"write", "delete", "update", "complete", "mark"}
  BY Zenon DEF Process, Shape
<1>2. CASE CheckParent(p)
  <2>1. Body(p) \in {"parentNs", "before", "repoRead", "endRead", "markRead"}
    <3>1. proc[p].call \in {"write", "delete", "update", "complete", "mark"}
      BY Zenon, <1>1, <1>2 DEF LifecycleInv, CheckParent, At, InBody
    <3> QED  BY <3>1 DEF Body
  <2>2. Alone(p) /\ proc'[p].pc \in {"give", "parentNs", "before", "repoRead", "endRead", "markRead"}
    <3>1. CASE \E x \in {"give", Body(p)} : Goto(p, x)
      BY Zenon, <2>1, <3>1, StepForms DEF Moved
    <3>2. CASE Set(p, [proc[p] EXCEPT !.pc = "give", !.result = "again"])
      BY Zenon, <3>2, Continuations DEF Moved
    <3> QED  BY Zenon, <1>2, <3>1, <3>2 DEF CheckParent, Read
  <2>3. UNCHANGED settleVars /\ Faulty /\ proc[p].pc = "parent"
    BY Zenon, <1>2 DEF CheckParent, Read, Answered, Fails, Faulty, At, settleVars, nsVars, repoVars, histVars
  <2> QED  BY Zenon, <2>2, <2>3, PlainStep DEF Plain, InBody
<1>3. ASSUME TakeFence(p) \/ GiveFence(p) PROVE ReservationInv'
  <2>1. /\ UNCHANGED <<path, reverse, listed, ready, created, unsettled>>
        /\ ns' = ns /\ repo' = repo
        /\ Faulty /\ proc[p].pc \in {"take", "give"}
    BY Zenon, <1>3 DEF TakeFence, GiveFence, Cas, Read, Write, Answered, Fails, Faulty, At, repoVars, histVars
  <2>2. Alone(p) /\ proc'[p].pc \in {"parent", "take", "idle"}
    <3>1. CASE Return(p)
      BY Zenon, <3>1, StepForms
    <3>2. CASE Set(p, [proc[p] EXCEPT !.pc = "parent", !.epoch = fence.epoch + 1])
      BY Zenon, <3>2, Continuations
    <3>3. CASE Set(p, [proc[p] EXCEPT !.pc = "take", !.result = "ok"])
      BY Zenon, <3>3, Continuations DEF Moved
    <3> QED  BY Zenon, <1>3, <3>1, <3>2, <3>3 DEF TakeFence, GiveFence, Cas, Read, Write
  <2>3. Stuck => Stuck'
    <3>1. CASE fence' = fence /\ proc'[p].pc # "parent"
      BY Zenon, <2>2, <3>1, StuckStays DEF InBody
    <3>2. CASE TakeFence(p) /\ (fence' # fence \/ proc'[p].pc = "parent")
      <4>1. fence.pending = 0
        <5>1. Return(p) => proc'[p].pc = "idle"
          BY Zenon, StepForms
        <5> QED  BY Zenon, <3>2, <5>1 DEF TakeFence, Cas, Read, Write
      <4> QED  BY <4>1 DEF Stuck
    <3>3. CASE GiveFence(p)
      BY Zenon, <3>3 DEF GiveFence, At, Stuck, Holders, InBody
    <3> QED  BY Zenon, <1>3, <3>1, <3>2, <3>3
  <2>4. proc[p].pc \notin Reserved /\ ~ Working(proc[p]) /\ proc'[p].pc \in Plain
    BY <2>1, <2>2, PlainFacts DEF Plain
  <2>5. ns.pending > 0 => ns'.here /\ ~ Marked(ns')
    BY Zenon, <2>1 DEF ReservationInv, Counted, PendingCovers
  <2>6. Fades /\ Advances
    BY Zenon, <2>1, StillRows
  <2> QED  BY Zenon, <2>1, <2>2, <2>3, <2>4, <2>5, <2>6, PlainChange
<1> QED  BY Zenon, <1>2, <1>3 DEF FenceStep

\* Looking at a namespace without repositories: nothing is in flight, so all rows
\* that are not listed were given up.
LEMMA MarkListFinds ==
    ASSUME LifecycleInv, ReservationInv, NEW p \in Procs, proc[p].pc = "markList",
           Listing \subseteq {System}, ns.pending = 0
    PROVE  OnlySystem
<1> SUFFICES ASSUME NEW r \in Repos \ {System}, repo[r].here PROVE r \in unsettled
  BY Zenon DEF OnlySystem
<1>1. Accounted(r)
  BY Zenon DEF ReservationInv
<1>2. r \notin listed
  BY Zenon DEF Listing
<1>3. Cardinality(Creating) <= 0 /\ ~ Leaked
  BY CreatingFinite DEF ReservationInv, Counted, PendingCovers, Leaked
<1>4. Creating = {}
  BY <1>3, CreatingFinite, FS_EmptySet
<1>5. ~ Stuck
  BY Zenon DEF Stuck, Holders, InBody
<1>6. ASSUME NEW q \in Procs, Working(proc[q]) PROVE FALSE
  <2>1. proc[q].pc \notin Reserved
    BY Zenon, <1>4, CreatingFinite
  <2>2. proc[q].pc \in Unlisting
    BY Zenon, <1>6, <2>1 DEF Working, Reserved, Late
  <2>3. q # p /\ proc[q].pc \in InBody /\ proc[p].pc \in InBody
    BY Zenon, <2>2 DEF Unlisting, InBody
  <2> QED  BY Zenon, <2>3, OneApart
<1> QED  BY Zenon, <1>1, <1>2, <1>3, <1>5, <1>6 DEF Accounted

\* The reads of a mark
LEMMA MarkReadsSettle ==
    ASSUME LifecycleInv, LifecycleInv', ReservationInv, NEW p \in Procs,
           MarkRead(p) \/ MarkList(p) \/ MarkEmpty(p)
    PROVE  ReservationInv'
<1>1. UNCHANGED settleVars /\ Faulty /\ proc[p].pc \in {"markRead", "markList", "markEmpty"}
  BY Zenon DEF MarkRead, MarkList, MarkEmpty, Read, Answered, Fails, Faulty, At, settleVars, nsVars,
         repoVars, histVars
<1>2. /\ proc[p] \in Call /\ Judged(proc[p]) /\ ns.epoch \in Int
      /\ proc[p].seen \in Int
  BY Zenon DEF LifecycleInv, Typed, ReservationInv, NsRow, Call
<1>3. /\ Alone(p)
      /\ \/ proc'[p].pc = "give"
         \/ proc'[p].pc = "markList" /\ proc'[p].seen = ns.epoch /\ ns.pending = 0
         \/ /\ proc'[p].pc \in {"markEmpty", "markWrite"} /\ proc'[p].seen = proc[p].seen
            /\ proc[p].pc \in {"markList", "markEmpty"}
            /\ proc[p].pc = "markList" => Listing \subseteq {System}
  <2>1. CASE Goto(p, "give")
    BY Zenon, <2>1, StepForms DEF Moved
  <2>2. CASE MarkRead(p) /\ ~ Goto(p, "give")
    <3>1. Set(p, [proc[p] EXCEPT !.pc = "markList", !.seen = ns.epoch]) /\ ns.pending = 0
      BY Zenon, <2>2 DEF MarkRead, Read
    <3>2. Alone(p) /\ proc'[p].pc = "markList" /\ proc'[p].seen = ns.epoch
      BY Zenon, <3>1, Continuations
    <3> QED  BY Zenon, <3>1, <3>2
  <2>3. CASE MarkList(p) /\ ~ Goto(p, "give")
    <3>1. /\ Listing \subseteq {System} /\ proc[p].pc = "markList"
          /\ Goto(p, "markWrite") \/ Goto(p, "markEmpty")
      BY Zenon, <2>3 DEF MarkList, Read, At
    <3> QED  BY Zenon, <3>1, StepForms DEF Moved
  <2>4. CASE MarkEmpty(p) /\ ~ Goto(p, "give")
    <3>1. proc[p].pc = "markEmpty" /\ Goto(p, "markWrite")
      BY Zenon, <2>4 DEF MarkEmpty, Read, At
    <3> QED  BY Zenon, <3>1, StepForms DEF Moved
  <2> QED  BY Zenon, <2>1, <2>2, <2>3, <2>4
<1>4. /\ proc'[p].pc \in {"give"} \cup Marking
      /\ proc[p].pc \notin Reserved /\ ~ Working(proc[p]) /\ proc'[p].pc \notin Reserved
      /\ proc'[p].pc \notin Undoing /\ proc[p].pc \in InBody /\ Found(proc'[p])
      /\ proc'[p].pc \notin Leaving /\ proc'[p].pc \notin Ending
  BY Zenon, <1>1, <1>3 DEF Marking, Reserved, Late, Working, Unlisting, Undoing, InBody, Found, Made, Leaving, Ending
<1>5. Judged(proc'[p])
  <2>1. CASE proc'[p].pc = "give"
    BY Zenon, <1>4, <2>1 DEF Judged, Marking
  <2>2. CASE proc'[p].pc = "markList" /\ proc'[p].seen = ns.epoch /\ ns.pending = 0
    <3>1. proc'[p].pc \notin {"markEmpty", "markWrite"} /\ proc'[p].seen <= ns.epoch
      BY <1>2, <2>2
    <3> QED  BY Zenon, <1>4, <2>2, <3>1 DEF Judged
  <2>3. CASE /\ proc'[p].pc \in {"markEmpty", "markWrite"} /\ proc'[p].seen = proc[p].seen
             /\ proc[p].pc \in {"markList", "markEmpty"}
             /\ proc[p].pc = "markList" => Listing \subseteq {System}
    <3>1. proc[p].seen <= ns.epoch /\ (proc[p].seen = ns.epoch => ns.pending = 0)
      BY Zenon, <1>2, <2>3 DEF Judged, Marking
    <3>2. proc[p].seen = ns.epoch => OnlySystem
      BY Zenon, <1>2, <2>3, <3>1, MarkListFinds DEF Judged
    <3> QED  BY Zenon, <1>4, <2>3, <3>1, <3>2 DEF Judged
  <2> QED  BY Zenon, <1>3, <2>1, <2>2, <2>3
<1> QED  BY Zenon, <1>1, <1>3, <1>4, <1>5, CalmStep

\* The mark itself compares the epoch and the count.
LEMMA MarkWriteSettles ==
    ASSUME LifecycleInv, LifecycleInv', ReservationInv, NEW p \in Procs, MarkWrite(p)
    PROVE  ReservationInv'
<1>1. /\ UNCHANGED <<path, reverse, listed, ready, created, unsettled>>
      /\ fence' = fence /\ repo' = repo /\ Faulty /\ proc[p].pc = "markWrite"
  BY Zenon DEF MarkWrite, Cas, Read, Write, Answered, Fails, Faulty, At, repoVars, histVars
<1>2. Alone(p) /\ proc'[p].pc = "give"
  BY Zenon, StepForms DEF MarkWrite, Cas, Read, Write, Moved
<1>3. ns' = ns \/ (ns' = Mark(ns, proc[p].mark) /\ ns.epoch = proc[p].seen /\ ns.pending = 0)
  BY Zenon DEF MarkWrite, Cas, Write
<1>4. ns \in NsRow /\ Judged(proc[p]) /\ (ns.pending > 0 => ns.here /\ ~ Marked(ns))
  BY Zenon DEF LifecycleInv, Typed, ReservationInv, Counted, PendingCovers
<1>5. ns' # ns => /\ ns'.epoch = ns.epoch /\ ns'.pending = ns.pending /\ ns'.here = ns.here
                  /\ OnlySystem
  BY Zenon, <1>1, <1>3, <1>4 DEF Mark, NsRow, Judged
<1>6. Advances /\ ns'.pending = ns.pending /\ (ns.pending > 0 => ns'.here /\ ~ Marked(ns'))
  <2>1. CASE ns' = ns
    BY <1>4, <2>1, StillRows
  <2>2. CASE ns' # ns
    BY <1>3, <1>4, <1>5, <2>2 DEF Advances, NsRow
  <2> QED  BY Zenon, <2>1, <2>2
<1>7. proc[p].pc \notin Reserved /\ ~ Working(proc[p]) /\ proc'[p].pc \in Plain /\ proc[p].pc \in InBody
  BY Zenon, <1>1, <1>2 DEF Reserved, Late, Working, Unlisting, Plain, InBody
<1>8. Fades /\ (Stuck => Stuck')
  BY Zenon, <1>1, <1>2, <1>7, StillRows, StuckStays
<1> QED  BY Zenon, <1>1, <1>2, <1>6, <1>7, <1>8, PlainChange

\* The removal of a namespace: an empty listing means that the system repository
\* is gone or being deleted.
LEMMA RemovalSettles ==
    ASSUME LifecycleInv, LifecycleInv', ReservationInv, NEW p \in Procs,
           NamespaceEmpty(p) \/ NamespaceList(p) \/ NamespaceName(p) \/ NamespaceConfirm(p)
    PROVE  ReservationInv'
<1>1. UNCHANGED settleVars /\ Faulty /\ proc[p].pc \in {"nsEmpty", "nsList", "nsName", "nsConfirm"}
  BY Zenon DEF NamespaceEmpty, NamespaceList, NamespaceName, NamespaceConfirm, DropIndex, Write, Read,
         Answered, Fails, Faulty, At, settleVars, nsVars, repoVars, histVars
<1>2. Alone(p) /\ proc'[p].pc \in {"idle", "backNsList"} \cup Leaving
  <2>1. CASE NamespaceEmpty(p)
    BY Zenon, <2>1, StepForms DEF NamespaceEmpty, Read, Moved, Leaving
  <2>2. CASE NamespaceList(p)
    BY Zenon, <2>2, StepForms DEF NamespaceList, DropIndex, Write, Moved, Leaving
  <2>3. CASE NamespaceName(p)
    BY Zenon, <2>3, StepForms DEF NamespaceName, DropIndex, Write, Moved, Leaving
  <2>4. CASE NamespaceConfirm(p)
    BY Zenon, <2>4, StepForms DEF NamespaceConfirm, Read, Moved, Leaving
  <2> QED  BY Zenon, <2>1, <2>2, <2>3, <2>4
<1>3. proc'[p].pc \in Leaving => SystemEnds
  <2>1. CASE NamespaceEmpty(p)
    <3>1. Listing = {} \/ Return(p)
      BY Zenon, <2>1 DEF NamespaceEmpty, Read
    <3>2. Listing = {} => SystemEnds
      BY Zenon, LifecycleAssumption DEF Listing, SystemEnds, ReservationInv
    <3>3. Return(p) => proc'[p].pc \notin Leaving
      BY Zenon, StepForms DEF Leaving
    <3> QED  BY Zenon, <3>1, <3>2, <3>3
  <2>2. CASE ~ NamespaceEmpty(p)
    <3>1. proc[p].pc \in Leaving
      BY Zenon, <2>2 DEF NamespaceList, NamespaceName, NamespaceConfirm, DropIndex, At, Leaving
    <3> QED  BY Zenon, <3>1 DEF ReservationInv, Judged
  <2> QED  BY Zenon, <2>1, <2>2
<1>4. /\ proc[p].pc \notin Reserved /\ ~ Working(proc[p]) /\ proc'[p].pc \notin Reserved
      /\ proc'[p].pc \notin Undoing /\ proc'[p].pc \notin InBody /\ Found(proc'[p])
      /\ proc'[p].pc \notin Marking /\ proc'[p].pc \notin Ending
      /\ proc'[p].pc \notin {"markEmpty", "markWrite"}
  BY Zenon, <1>1, <1>2 DEF Marking, Reserved, Late, Working, Unlisting, Undoing, InBody, Found, Made, Leaving,
                    Ending
<1>5. Judged(proc'[p])
  BY Zenon, <1>3, <1>4 DEF Judged
<1> QED  BY Zenon, <1>1, <1>2, <1>4, <1>5, CalmStep

\* The row of the namespace goes: it was marked, so nothing is in flight.
LEMMA NamespaceRowSettles ==
    ASSUME LifecycleInv, LifecycleInv', ReservationInv, NEW p \in Procs, NamespaceRow(p)
    PROVE  ReservationInv'
<1>1. /\ UNCHANGED <<path, reverse, listed, ready, created, unsettled>>
      /\ fence' = fence /\ repo' = repo /\ Faulty /\ proc[p].pc = "nsRow"
  BY Zenon DEF NamespaceRow, Cas, Read, Write, Answered, Fails, Faulty, At, repoVars, histVars
<1>2. Alone(p) /\ proc'[p].pc \in {"idle", "backNsList", "nsResolve"}
  BY StepForms DEF NamespaceRow, Cas, Read, Write, Moved
<1>3. ns' = ns \/ ns' = [ns EXCEPT !.here = FALSE]
  BY Zenon DEF NamespaceRow, Cas, Write
<1>4. /\ ns \in NsRow /\ Marked(ns) /\ SystemEnds /\ (ns.pending > 0 => ns.here /\ ~ Marked(ns))
  BY Zenon, <1>1 DEF LifecycleInv, Typed, ReservationInv, Counted, PendingCovers, Judged, Leaving, Process,
              Vacated, Removing, Marked
<1>5. Advances /\ ns'.pending = ns.pending /\ (ns.pending > 0 => ns'.here /\ ~ Marked(ns'))
  BY <1>3, <1>4 DEF Advances, NsRow, Marked
<1>6. proc[p].pc \notin Reserved /\ ~ Working(proc[p]) /\ proc'[p].pc \in Plain /\ proc'[p].pc \notin InBody
  BY Zenon, <1>1, <1>2 DEF Reserved, Late, Working, Unlisting, Plain, InBody
<1>7. Fades /\ (Stuck => Stuck')
  BY Zenon, <1>1, <1>2, <1>6, StillRows, StuckStays
<1> QED  BY Zenon, <1>1, <1>2, <1>5, <1>6, <1>7, PlainChange

\* An update outside of the fence neither counts nor marks.
LEMMA UpdateNamespaceSettles ==
    ASSUME LifecycleInv, ReservationInv, UpdateNamespace
    PROVE  ReservationInv'
<1>1. /\ UNCHANGED <<fence, repo, path, reverse, listed, ready, created, unsettled, faults, proc>>
      /\ repo' = repo /\ proc' = proc
  BY Zenon DEF UpdateNamespace, repoVars, histVars
<1>2. ns \in NsRow
  BY Zenon DEF LifecycleInv, Typed
<1>3. /\ ns'.epoch = ns.epoch /\ ns'.pending = ns.pending /\ ns'.here = ns.here
      /\ Marked(ns') => Marked(ns)
  BY Zenon, <1>2 DEF UpdateNamespace, Mark, NsRow, Marked, None
<1>4. Counted' /\ (\A r \in Repos : Accounted(r) => Accounted(r)')
  <2>1. Creating' = Creating /\ Holders' = Holders
    BY Zenon, <1>1 DEF Creating, Holders
  <2> QED  BY <1>1, <1>3, <2>1 DEF ReservationInv, Counted, PendingCovers, Marked, Accounted, Leaked, Stuck,
                               Working
<1>5. ASSUME NEW q \in Procs PROVE Judged(proc[q])' /\ Found(proc[q])'
  BY Zenon, <1>1, <1>3 DEF ReservationInv, Judged, Found, OnlySystem, SystemEnds, Made, Live
<1>6. (OnlySystem => OnlySystem') /\ (SystemEnds => SystemEnds') /\ Reachable'
  BY Zenon, <1>1 DEF ReservationInv, OnlySystem, SystemEnds, Reachable
<1> QED  BY Zenon, <1>1, <1>3, <1>4, <1>5, <1>6 DEF ReservationInv, Marked

-----------------------------------------------------------------------------
(* Updates and deletions of repositories                                   *)

\* An update of a row marks it or leaves its marks.
LEMMA RepositoryWriteSettles ==
    ASSUME LifecycleInv, LifecycleInv', ReservationInv, NEW p \in Procs, RepositoryWrite(p)
    PROVE  ReservationInv'
<1>1. /\ UNCHANGED <<path, reverse, listed, ready, created, unsettled>>
      /\ fence' = fence /\ ns' = ns /\ Faulty /\ proc[p].pc = "repoWrite"
  BY Zenon DEF RepositoryWrite, Cas, Read, Write, Answered, Fails, Faulty, At, nsVars, histVars
<1>2. Alone(p) /\ proc'[p].pc = "give"
  BY Zenon, StepForms DEF RepositoryWrite, Cas, Read, Write, Moved
<1>3. repo' = repo \/ repo' = [repo EXCEPT ![proc[p].r] = Mark(@, proc[p].mark)]
  BY Zenon DEF RepositoryWrite, Cas, Write
<1>4. repo \in [Repos -> RepoRow]
  BY Zenon DEF LifecycleInv, Typed
<1>5. Fades
  <2>1. ASSUME NEW r \in Repos, NEW m, NEW x, x = Mark(repo[r], m)
        PROVE  /\ x.here = repo[r].here /\ (repo[r].deleting => x.deleting)
               /\ Marked(repo[r]) => Marked(x)
    <3>1. repo[r] \in RepoRow
      BY Zenon, <1>4
    <3>2. /\ x.here = repo[r].here /\ x.deleting = (repo[r].deleting \/ m = "deletion")
          /\ x.intent = (repo[r].intent \/ m = "intent")
      BY ZenonT(60), <2>1, <3>1 DEF Mark, RepoRow
    <3> QED  BY Zenon, <3>2 DEF Marked
  <2>2. ASSUME NEW r \in Repos
        PROVE  \/ repo'[r] = repo[r] \/ repo'[r] = Mark(repo[r], proc[p].mark)
    BY Zenon, <1>3, <1>4
  <2>3. ASSUME NEW r \in Repos
        PROVE  /\ repo'[r].here => repo[r].here
               /\ repo'[r].here /\ repo[r].deleting => repo'[r].deleting
               /\ Live(r)' => Live(r)
    BY Zenon, <2>1, <2>2 DEF Live, Marked
  <2> QED  BY Zenon, <2>3 DEF Fades
<1>6. proc[p].pc \in Plain /\ proc'[p].pc \in Plain /\ proc[p].pc \in InBody
  BY Zenon, <1>1, <1>2 DEF Plain, InBody
<1>7. Advances /\ (Stuck => Stuck') /\ proc[p].pc \notin Reserved /\ ~ Working(proc[p])
  BY Zenon, <1>1, <1>2, <1>6, StillRows, StuckStays, PlainFacts
<1>8. ns.pending > 0 => ns'.here /\ ~ Marked(ns')
  BY Zenon, <1>1 DEF ReservationInv, Counted, PendingCovers
<1> QED  BY Zenon, <1>1, <1>2, <1>5, <1>6, <1>7, <1>8, PlainChange

\* Who deletes a repository makes no claim on it, but that it is being deleted.
LEMMA EndingFacts ==
    ASSUME NEW c, c.pc \in Ending
    PROVE  /\ c.pc \in InBody /\ c.pc \notin Reserved /\ c.pc \notin Undoing /\ c.pc \notin Plain
           /\ Found(c) /\ Found(c)'
           /\ (repo[c.r].here => repo[c.r].deleting) => Judged(c)
           /\ (repo'[c.r].here => repo'[c.r].deleting) => Judged(c)'
           /\ Working(c) <=> c.pc \in Unlisting
<1>1. /\ c.pc \in InBody /\ c.pc \notin Reserved /\ c.pc \notin Undoing /\ c.pc \notin Plain
      /\ c.pc \notin Marking /\ c.pc \notin Leaving /\ c.pc \notin {"markEmpty", "markWrite"}
      /\ c.pc \notin {"row", "reverse", "list", "ready", "release", "failRow", "failReverse", "failPath"}
  BY Zenon DEF Plain, Reserved, Late, Undoing, Ending, InBody, Marking, Leaving
<1> QED  BY Zenon, <1>1 DEF Working, Judged, Found, Made

\* A deletion begins with a row that is marked.
LEMMA EndReadSettles ==
    ASSUME LifecycleInv, LifecycleInv', ReservationInv, NEW p \in Procs, EndRead(p)
    PROVE  ReservationInv'
<1>1. UNCHANGED settleVars /\ Faulty /\ proc[p].pc = "endRead"
  BY Zenon DEF EndRead, Read, Answered, Fails, Faulty, At, settleVars, nsVars, repoVars, histVars
<1>2. CASE Goto(p, "give")
  <2>1. Alone(p) /\ proc'[p].pc = "give"
    BY Zenon, <1>2, StepForms DEF Moved
  <2> QED  BY Zenon, <1>1, <2>1, PlainStep DEF Plain, InBody
<1>3. CASE ~ Goto(p, "give")
  <2>1. Goto(p, "endEmpty") /\ repo[proc[p].r].deleting
    BY Zenon, <1>3 DEF EndRead, Read
  <2>2. Alone(p) /\ proc'[p].pc = "endEmpty" /\ proc'[p].r = proc[p].r
    BY Zenon, <2>1, StepForms DEF Moved
  <2>3. /\ proc[p].pc \in InBody /\ proc[p].pc \notin Reserved /\ ~ Working(proc[p])
        /\ proc'[p].pc \notin Reserved /\ proc'[p].pc \notin Undoing
    BY Zenon, <1>1, <2>2 DEF InBody, Reserved, Late, Undoing, Working, Unlisting
  <2>4. Judged(proc'[p]) /\ Found(proc'[p])
    <3>1. PICK c : c = proc'[p]
      OBVIOUS
    <3>2. c.pc \in Ending /\ repo[c.r].deleting
      BY Zenon, <2>1, <2>2, <3>1 DEF Ending
    <3> QED  BY Zenon, <3>1, <3>2, EndingFacts
  <2> QED  BY Zenon, <1>1, <2>2, <2>3, <2>4, CalmStep
<1> QED  BY Zenon, <1>2, <1>3

\* A deletion goes on.
LEMMA EndingSettles ==
    ASSUME LifecycleInv, LifecycleInv', ReservationInv, NEW p \in Procs, Alone(p), Faulty,
           ns' = ns, fence' = fence, created' = created, unsettled' = unsettled,
           path' \in [Names -> Repos \cup {None}], Fades,
           \A r \in Repos \ {proc[p].r} : Keeps(r), Passes(p),
           proc[p].pc \in Ending,
           \/ proc'[p].pc \in Ending /\ proc'[p].r = proc[p].r
           \/ proc'[p].pc \in {"give", "idle"}
    PROVE  ReservationInv'
<1>1. /\ proc[p].pc \in InBody /\ proc[p].pc \notin Reserved /\ proc[p].r \in Repos
      /\ proc'[p].pc \notin Reserved /\ proc'[p].pc \notin Undoing
      /\ Judged(proc[p])' /\ Found(proc[p])'
  <2>1. PICK c : c = proc'[p]
    BY Zenon
  <2>2. proc[p].pc \in InBody /\ proc[p].pc \notin Reserved /\ proc[p].r \in Repos
    BY Zenon, EndingFacts DEF LifecycleInv, Typed, Call
  <2>3. c.pc \notin Reserved /\ c.pc \notin Undoing /\ Judged(c)' /\ Found(c)'
    <3>1. CASE c.pc \in Ending /\ c.r = proc[p].r
      <4>1. repo'[c.r].here => repo'[c.r].deleting
        BY Zenon, <2>2, <3>1 DEF ReservationInv, Judged, Fades
      <4> QED  BY ZenonT(30), <3>1, <4>1, EndingFacts
    <3>2. CASE c.pc \in {"give", "idle"}
      <4>1. c.pc \in Plain
        BY Zenon, <3>2 DEF Plain
      <4> QED  BY Zenon, <4>1, PlainFacts
    <3> QED  BY Zenon, <2>1, <3>1, <3>2
  <2>4. Judged(proc[p])' /\ Found(proc[p])'
    BY Zenon, <2>1, <2>3 DEF Judged, Found, OnlySystem, SystemEnds, Made, Live
  <2> QED  BY Zenon, <2>1, <2>2, <2>3, <2>4
<1>2. Counted /\ (ns.pending > 0 => ns.here /\ ~ Marked(ns))
  BY Zenon DEF ReservationInv, Counted, PendingCovers
<1>3. Counted' /\ (Leaked => Leaked')
  BY Zenon, <1>1, <1>2, CountKept
<1>4. Advances /\ Grows(p) /\ (Stuck => Stuck')
  BY Zenon, <1>1, StillRows, StuckStays
<1>5. Entries(p)
  BY Zenon DEF Entries
<1> QED  BY Zenon, <1>1, <1>3, <1>4, <1>5, StepSettles

\* Where a deletion goes that takes away or puts back entries; it works on what it
\* has taken from the listings.
LEMMA EntriesEnd ==
    ASSUME LifecycleInv, LifecycleInv', ReservationInv, NEW p \in Procs,
           EndPath(p) \/ EndReverse(p) \/ EndList(p) \/ EndTomb(p) \/ BackPath(p) \/ BackReverse(p)
    PROVE  ReservationInv'
<1>1. /\ Alone(p) /\ proc[p].pc \in Ending /\ proc'[p].pc \in Ending /\ proc'[p].r = proc[p].r
      /\ Working(proc[p]) \/ EndList(p) => Working(proc'[p])
  <2>1. CASE EndPath(p)
    <3>1. Alone(p) /\ proc[p].pc = "endPath" /\ proc'[p].pc = "endReverse" /\ proc'[p].r = proc[p].r
      BY Zenon, <2>1, StepForms DEF EndPath, Cas, Read, Write, At, Moved
    <3>2. ~ EndList(p)
      BY Zenon, <3>1 DEF EndList, At
    <3> QED  BY Zenon, <3>1, <3>2 DEF Ending, Working, Unlisting
  <2>2. CASE EndReverse(p)
    <3>1. Alone(p) /\ proc[p].pc = "endReverse" /\ proc'[p].pc = "endList" /\ proc'[p].r = proc[p].r
      BY Zenon, <2>2, StepForms DEF EndReverse, Write, At, Moved
    <3>2. ~ EndList(p)
      BY Zenon, <3>1 DEF EndList, At
    <3> QED  BY Zenon, <3>1, <3>2 DEF Ending, Working, Unlisting
  <2>3. CASE EndList(p)
    BY Zenon, <2>3, StepForms DEF EndList, Write, At, Moved, Ending, Working, Unlisting
  <2>4. CASE EndTomb(p)
    BY Zenon, <2>4, StepForms DEF EndTomb, Write, At, Moved, Ending, Working, Unlisting
  <2>5. CASE BackPath(p)
    BY Zenon, <2>5, StepForms DEF BackPath, Cas, Read, Write, At, Moved, Ending, Working, Unlisting
  <2>6. CASE BackReverse(p)
    BY Zenon, <2>6, StepForms DEF BackReverse, Write, At, Moved, Ending, Working, Unlisting
  <2> QED  BY Zenon, <2>1, <2>2, <2>3, <2>4, <2>5, <2>6
<1>2. /\ ns' = ns /\ fence' = fence /\ repo' = repo /\ created' = created /\ unsettled' = unsettled
      /\ Faulty
  BY Zenon DEF EndPath, EndReverse, EndList, EndTomb, BackPath, BackReverse, Cas, Read, Write, Answered, Fails,
         Faulty, nsVars, histVars
<1>3. path \in [Names -> Repos \cup {None}] /\ None \notin Repos /\ proc[p].r \in Repos
  BY Zenon, LifecycleAssumption DEF ReservationInv, LifecycleInv, Typed, Call
<1>4. /\ path' \in [Names -> Repos \cup {None}]
      /\ \A r \in Repos \ {proc[p].r} : path[NameOf[r]] = r => path'[NameOf[r]] = r
  <2>1. \/ path' = path
        \/ path[NameOf[proc[p].r]] = proc[p].r /\ path' = [path EXCEPT ![NameOf[proc[p].r]] = None]
        \/ path[NameOf[proc[p].r]] \in {proc[p].r, None} /\ path' = [path EXCEPT ![NameOf[proc[p].r]] = proc[p].r]
    BY Zenon DEF EndPath, EndReverse, EndList, EndTomb, BackPath, BackReverse, Cas, Write
  <2> QED  BY Zenon, <1>3, <2>1, PathsKept
<1>5. /\ \A r \in Repos \ {proc[p].r} : /\ r \in reverse => r \in reverse'
                                        /\ r \in listed => r \in listed'
                                        /\ r \in ready => r \in ready'
      /\ EndList(p) \/ listed' = listed
  BY Zenon DEF EndPath, EndReverse, EndList, EndTomb, BackPath, BackReverse, Cas, Write
<1>6. \A r \in Repos \ {proc[p].r} : Keeps(r)
  BY Zenon, <1>4, <1>5 DEF Keeps
<1>7. Passes(p)
  BY Zenon, <1>1, <1>5 DEF Passes
<1>8. Fades
  BY Zenon, <1>2, StillRows
<1> QED  BY Zenon, <1>1, <1>2, <1>4, <1>6, <1>7, <1>8, EndingSettles

\* The last look for resources
LEMMA EndEmptySettles ==
    ASSUME LifecycleInv, LifecycleInv', ReservationInv, NEW p \in Procs, EndEmpty(p)
    PROVE  ReservationInv'
<1>1. UNCHANGED settleVars /\ Faulty /\ proc[p].pc = "endEmpty"
  BY Zenon DEF EndEmpty, Read, Answered, Fails, Faulty, At, settleVars, nsVars, repoVars, histVars
<1>2. Alone(p) /\ proc'[p].pc \in {"endPath", "give"} /\ proc'[p].r = proc[p].r
  BY Zenon, StepForms DEF EndEmpty, Read, Moved
<1>3. /\ ns' = ns /\ fence' = fence /\ repo' = repo /\ created' = created /\ unsettled' = unsettled
      /\ path' = path /\ listed' = listed /\ path' \in [Names -> Repos \cup {None}]
      /\ \A r \in Repos \ {proc[p].r} : Keeps(r)
  BY Zenon, <1>1 DEF settleVars, Keeps, ReservationInv
<1>4. Passes(p) /\ Fades
  BY Zenon, <1>1, <1>3, StillRows DEF Passes, Working, Unlisting
<1>5. proc[p].pc \in Ending /\ (proc'[p].pc \in Ending \/ proc'[p].pc \in {"give", "idle"})
  BY Zenon, <1>1, <1>2 DEF Ending
<1> QED  BY Zenon, <1>1, <1>2, <1>3, <1>4, <1>5, EndingSettles

\* The row is deleted, or looked at again.
LEMMA EndRowSettles ==
    ASSUME LifecycleInv, LifecycleInv', ReservationInv, NEW p \in Procs, EndRow(p)
    PROVE  ReservationInv'
<1>1. /\ UNCHANGED <<path, reverse, listed, ready>> /\ path' = path /\ listed' = listed
      /\ ns' = ns /\ fence' = fence /\ created' = created /\ unsettled' = unsettled
      /\ Faulty /\ proc[p].pc = "endRow"
  BY Zenon DEF EndRow, Cas, Read, Write, Answered, Fails, Faulty, At, nsVars, histVars
<1>2. /\ Alone(p) /\ proc'[p].pc \in {"endConfirm", "give"} /\ proc'[p].r = proc[p].r
      /\ proc'[p].pc = "give" => repo' = [repo EXCEPT ![proc[p].r] = NoRepo]
  <2>1. /\ Goto(p, "give") => Alone(p) /\ proc'[p].pc = "give" /\ proc'[p].r = proc[p].r
        /\ Goto(p, "endConfirm") => Alone(p) /\ proc'[p].pc = "endConfirm" /\ proc'[p].r = proc[p].r
    BY Zenon, StepForms DEF Moved
  <2>2. \/ Goto(p, "give") /\ repo' = [repo EXCEPT ![proc[p].r] = NoRepo]
        \/ Goto(p, "endConfirm")
    BY Zenon DEF EndRow, Cas, Read, Write
  <2> QED  BY Zenon, <2>1, <2>2
<1>3. repo' = repo \/ repo' = [repo EXCEPT ![proc[p].r] = NoRepo]
  BY Zenon DEF EndRow, Cas, Write
<1>4. repo \in [Repos -> RepoRow] /\ proc[p].r \in Repos
  BY Zenon DEF LifecycleInv, Typed, Call
<1>5. Fades
  BY <1>3, <1>4 DEF Fades, Live, NoRepo
<1>6. proc'[p].pc = "give" => ~ repo'[proc[p].r].here
  BY <1>2, <1>4 DEF NoRepo
<1>7. Passes(p)
  BY Zenon, <1>1, <1>2, <1>6 DEF Passes, Working, Unlisting
<1>8. (\A r \in Repos \ {proc[p].r} : Keeps(r)) /\ path' \in [Names -> Repos \cup {None}]
  BY Zenon, <1>1 DEF Keeps, ReservationInv
<1>9. proc[p].pc \in Ending /\ (proc'[p].pc \in Ending \/ proc'[p].pc \in {"give", "idle"})
  BY Zenon, <1>1, <1>2 DEF Ending
<1> QED  BY Zenon, <1>1, <1>2, <1>5, <1>7, <1>8, <1>9, EndingSettles

\* Whether the row is still there
LEMMA EndConfirmSettles ==
    ASSUME LifecycleInv, LifecycleInv', ReservationInv, NEW p \in Procs, EndConfirm(p)
    PROVE  ReservationInv'
<1>1. UNCHANGED settleVars /\ Faulty /\ proc[p].pc = "endConfirm"
  BY Zenon DEF EndConfirm, Read, Answered, Fails, Faulty, At, settleVars, nsVars, repoVars, histVars
<1>2. /\ Alone(p)
      /\ \/ proc'[p].pc = "idle" /\ faults' = faults + 1
         \/ proc'[p].pc = "give" /\ ~ repo[proc[p].r].here
         \/ proc'[p].pc = "backPath" /\ proc'[p].r = proc[p].r
  BY Zenon, StepForms DEF EndConfirm, Read, Fails, Moved
<1>3. /\ ns' = ns /\ fence' = fence /\ repo' = repo /\ created' = created /\ unsettled' = unsettled
      /\ path' = path /\ listed' = listed /\ path' \in [Names -> Repos \cup {None}]
      /\ \A r \in Repos \ {proc[p].r} : Keeps(r)
  BY Zenon, <1>1 DEF settleVars, Keeps, ReservationInv
<1>4. CASE proc'[p].pc = "idle" /\ faults' = faults + 1
  BY Zenon, <1>1, <1>2, <1>4, DyingStep
<1>5. CASE proc'[p].pc # "idle"
  <2>1. Passes(p) /\ Fades
    BY Zenon, <1>2, <1>3, <1>5, StillRows DEF Passes, Working, Unlisting
  <2>2. /\ proc[p].pc \in Ending
        /\ \/ proc'[p].pc \in Ending /\ proc'[p].r = proc[p].r
           \/ proc'[p].pc \in {"give", "idle"}
    BY Zenon, <1>1, <1>2, <1>5 DEF Ending
  <2> QED  BY Zenon, <1>1, <1>2, <1>3, <2>1, <2>2, EndingSettles
<1> QED  BY Zenon, <1>2, <1>4, <1>5

\* The listings have the repository again, or the fence is left behind.
LEMMA BackListSettles ==
    ASSUME LifecycleInv, LifecycleInv', ReservationInv, NEW p \in Procs, BackList(p)
    PROVE  ReservationInv'
<1>1. /\ UNCHANGED <<path, reverse, ready>> /\ path' = path
      /\ ns' = ns /\ fence' = fence /\ created' = created /\ unsettled' = unsettled /\ repo' = repo
      /\ Faulty /\ proc[p].pc = "backList" /\ listed \subseteq listed'
  BY Zenon DEF BackList, Write, Answered, Fails, Faulty, At, nsVars, histVars
<1>2. Alone(p) /\ proc'[p].pc \in {"give", "idle"}
  BY Zenon, StepForms DEF BackList, Write, End, Moved
<1>3. proc[p].r \in listed' \/ Stuck'
  <2>1. CASE proc'[p].pc = "idle"
    BY Zenon, <1>1, <1>2, <2>1, HolderGone DEF InBody
  <2>2. CASE proc'[p].pc = "give"
    <3>1. ~ Return(p)
      BY Zenon, <2>2, StepForms
    <3> QED  BY Zenon, <3>1 DEF BackList, Write
  <2> QED  BY Zenon, <1>2, <2>1, <2>2
<1>4. Passes(p) /\ Fades
  BY Zenon, <1>1, <1>3, StillRows DEF Passes
<1>5. (\A r \in Repos \ {proc[p].r} : Keeps(r)) /\ path' \in [Names -> Repos \cup {None}]
  BY Zenon, <1>1 DEF Keeps, ReservationInv
<1>6. proc[p].pc \in Ending
  BY Zenon, <1>1 DEF Ending
<1> QED  BY Zenon, <1>1, <1>2, <1>4, <1>5, <1>6, EndingSettles

-----------------------------------------------------------------------------
(* Creations                                                               *)

\* A creation knows nothing of marks.
LEMMA ReservedFacts ==
    ASSUME NEW c, c.pc \in Reserved
    PROVE  c.pc \notin InBody /\ Judged(c) /\ Judged(c)'
<1>1. /\ c.pc \notin InBody /\ c.pc \notin Marking /\ c.pc \notin Leaving /\ c.pc \notin Ending
      /\ c.pc \notin {"markEmpty", "markWrite"}
  BY Zenon DEF Reserved, Late, Ending, InBody, Marking, Leaving
<1> QED  BY Zenon, <1>1 DEF Judged

\* A creation goes on.
LEMMA ReservedStep ==
    ASSUME LifecycleInv, LifecycleInv', ReservationInv, NEW p \in Procs, Alone(p), Faulty,
           ns' = ns, fence' = fence, created' = created, unsettled' = unsettled,
           path' \in [Names -> Repos \cup {None}], Fades, Entries(p), Passes(p),
           proc[p].pc \in Reserved, proc'[p].pc \in Reserved,
           proc'[p].pc \in Undoing => proc[p].pc \in Undoing \/ faults' = faults + 1,
           Found(proc[p])'
    PROVE  ReservationInv'
<1>1. proc'[p].pc \notin InBody /\ Judged(proc[p])'
  <2>1. PICK c : c = proc'[p]
    BY Zenon
  <2>2. c.pc \notin InBody /\ Judged(c)'
    BY Zenon, <2>1, ReservedFacts
  <2> QED  BY Zenon, <2>1, <2>2 DEF Judged, OnlySystem, SystemEnds
<1>2. Counted /\ (ns.pending > 0 => ns.here /\ ~ Marked(ns))
  BY Zenon DEF ReservationInv, Counted, PendingCovers
<1>3. Counted' /\ (Leaked => Leaked')
  BY Zenon, <1>2, CountKept
<1>4. Advances /\ Grows(p) /\ (Stuck => Stuck')
  BY Zenon, <1>1, StillRows, StuckStays
<1> QED  BY Zenon, <1>1, <1>3, <1>4, StepSettles

\* A creation is given up, and its reservation with it.
LEMMA AbandonStep ==
    ASSUME LifecycleInv, LifecycleInv', ReservationInv, NEW p \in Procs, Alone(p), Faulty,
           faults' = faults + 1 \/ proc[p].pc \in Undoing,
           ns' = ns, fence' = fence, repo' = repo, listed' = listed,
           created' = created, unsettled' = unsettled,
           path' \in [Names -> Repos \cup {None}], Entries(p),
           proc[p].pc \in Reserved, proc'[p].pc = "idle"
    PROVE  ReservationInv'
<1>1. proc'[p].pc \notin Reserved /\ proc'[p].pc \notin InBody /\ Judged(proc[p])' /\ Found(proc[p])'
  <2>1. PICK c : c = proc'[p]
    BY Zenon
  <2>2. c.pc \in Plain /\ c.pc \notin InBody
    BY Zenon, <2>1 DEF Plain, InBody
  <2>3. c.pc \notin Reserved /\ Judged(c)' /\ Found(c)'
    BY Zenon, <2>2, PlainFacts
  <2> QED  BY Zenon, <2>1, <2>2, <2>3 DEF Judged, Found, OnlySystem, SystemEnds, Made, Live
<1>2. Counted' /\ Leaked'
  BY Zenon, <1>1, CountLeaks DEF ReservationInv
<1>3. Advances /\ Fades /\ Grows(p) /\ (Stuck => Stuck') /\ Passes(p)
  BY Zenon, <1>1, <1>2, StillRows, StuckStays DEF Passes
<1> QED  BY Zenon, <1>1, <1>2, <1>3, StepSettles

\* The reservation is counted with its epoch.
LEMMA ReserveSettles ==
    ASSUME LifecycleInv, LifecycleInv', ReservationInv, NEW p \in Procs,
           ReserveNamespaceRepository(p)
    PROVE  ReservationInv'
<1> DEFINE more == [ns EXCEPT !.epoch = @ + 1, !.pending = @ + 1]
<1>1. /\ UNCHANGED <<path, reverse, listed, ready>> /\ path' = path /\ listed' = listed
      /\ fence' = fence /\ repo' = repo /\ created' = created /\ unsettled' = unsettled
      /\ Faulty /\ proc[p].pc = "reserve"
  BY Zenon DEF ReserveNamespaceRepository, Cas, Read, Write, Answered, Fails, Faulty, At, repoVars, histVars
<1>2. /\ Alone(p)
      /\ \/ ns' = ns /\ proc'[p].pc = "idle"
         \/ /\ ns' = more /\ ns.here /\ ~ Marked(ns)
            /\ \/ proc'[p].pc = "tomb" /\ faults' = faults
               \/ proc'[p].pc = "idle" /\ faults' = faults + 1
  BY Zenon, StepForms DEF ReserveNamespaceRepository, Cas, Read, Write, Answered, Fails, Moved
<1>3. ns \in NsRow /\ Counted /\ path' \in [Names -> Repos \cup {None}]
  BY Zenon, <1>1 DEF LifecycleInv, Typed, ReservationInv
<1>4. CASE ns' = ns /\ proc'[p].pc = "idle"
  <2>1. UNCHANGED settleVars
    BY Zenon, <1>1, <1>4 DEF settleVars
  <2> QED  BY Zenon, <1>1, <1>2, <1>4, <2>1, PlainStep DEF Plain, InBody
<1>5. CASE /\ ns' = more /\ ns.here /\ ~ Marked(ns)
           /\ \/ proc'[p].pc = "tomb" /\ faults' = faults
              \/ proc'[p].pc = "idle" /\ faults' = faults + 1
  <2>1. /\ ns'.epoch = ns.epoch + 1 /\ ns'.pending = ns.pending + 1 /\ ns'.here
        /\ ~ Marked(ns') /\ ns.epoch \in Int /\ ns.pending \in Int
    BY Zenon, <1>3, <1>5 DEF NsRow, Marked
  <2>2. /\ proc[p].pc \notin Reserved /\ ~ Working(proc[p])
        /\ proc'[p].pc \in Reserved <=> proc'[p].pc = "tomb"
        /\ proc'[p].pc \notin InBody /\ proc'[p].pc \notin Undoing
    BY Zenon, <1>1, <1>5 DEF Reserved, Late, Working, Unlisting, InBody, Undoing
  <2>3. /\ Cardinality(Creating)' = Cardinality(Creating) + (IF proc'[p].pc = "tomb" THEN 1 ELSE 0)
        /\ Cardinality(Creating) \in Nat
    BY <1>2, <2>2, CreatingChanges, CreatingFinite
  <2>4. Counted' /\ (Leaked => Leaked')
    <3>1. faults \in Nat /\ faults' \in Nat /\ (faults' = 0 => faults = 0 /\ proc'[p].pc = "tomb")
      BY <1>3, <1>5 DEF Counted
    <3>2. PendingCovers' /\ (Leaked => Leaked')
      BY <1>3, <1>5, <2>1, <2>3, <3>1 DEF Counted, PendingCovers, Leaked, Marked
    <3>3. faults' = 0 => \A q \in Procs : proc'[q].pc \notin Undoing
      BY Zenon, <1>2, <1>3, <2>2, <3>1 DEF Counted, Alone
    <3> QED  BY Zenon, <3>1, <3>2, <3>3 DEF Counted
  <2>5. Advances
    BY <2>1 DEF Advances
  <2>6. Fades /\ Entries(p) /\ Grows(p) /\ (Stuck => Stuck') /\ Passes(p)
    BY Zenon, <1>1, <1>2, <2>2, StillRows, StuckStays DEF Passes
  <2>7. Judged(proc[p])' /\ Found(proc[p])'
    BY Zenon, <1>5 DEF Judged, Found, Marking, Leaving, Ending, Made
  <2> QED  BY Zenon, <1>1, <1>2, <1>3, <2>4, <2>5, <2>6, <2>7, StepSettles
<1> QED  BY Zenon, <1>2, <1>4, <1>5

\* The reservation is given back; without an error the repository is created.
LEMMA ReleaseSettles ==
    ASSUME LifecycleInv, LifecycleInv', ReservationInv, NEW p \in Procs,
           ReleaseNamespaceRepository(p)
    PROVE  ReservationInv'
<1> DEFINE less == [ns EXCEPT !.pending = @ - 1]
<1>1. /\ UNCHANGED <<path, reverse, listed, ready>> /\ path' = path /\ listed' = listed
      /\ fence' = fence /\ repo' = repo /\ unsettled' = unsettled
      /\ Faulty /\ proc[p].pc = "release"
  BY Zenon DEF ReleaseNamespaceRepository, Cas, Read, Write, Answered, Fails, Faulty, At, repoVars, histVars
<1>2. Alone(p) /\ proc'[p].pc = "idle"
  BY Zenon, StepForms DEF ReleaseNamespaceRepository, Cas, Read, Write, Returned, RepairNeeded
<1>3. /\ ns \in NsRow /\ Counted /\ path' \in [Names -> Repos \cup {None}]
      /\ ns.pending \in Int /\ ns.epoch \in Int
  BY Zenon, <1>1 DEF LifecycleInv, Typed, ReservationInv, NsRow
<1>4. /\ proc[p].pc \in Reserved /\ ~ Working(proc[p])
      /\ proc'[p].pc \notin Reserved /\ proc'[p].pc \notin InBody /\ proc'[p].pc \notin Undoing
      /\ Judged(proc[p])' /\ Found(proc[p])'
  BY Zenon, <1>1, <1>2 DEF Reserved, Late, Working, Unlisting, InBody, Undoing, Judged, Found, Marking, Leaving,
                    Ending, Made
<1>5. /\ Cardinality(Creating)' = Cardinality(Creating) - 1 /\ Cardinality(Creating)' \in Nat
      /\ Cardinality(Creating) \in Nat
  BY Zenon, <1>2, <1>4, CreatingChanges, CreatingFinite
<1>6. ns.pending > 0 /\ ns.here /\ ~ Marked(ns)
  BY <1>3, <1>5 DEF Counted, PendingCovers
<1>7. \/ ns' = less /\ Grows(p)
      \/ ns' = ns /\ created' = created /\ faults' = faults + 1
  BY Zenon, <1>1, <1>6 DEF ReleaseNamespaceRepository, Cas, Write, Returned, RepairNeeded, Grows, Made, Fails
<1>8. CASE ns' = less /\ Grows(p)
  <2>1. /\ ns'.epoch = ns.epoch /\ ns'.pending = ns.pending - 1 /\ ns'.here /\ ~ Marked(ns')
    BY Zenon, <1>3, <1>6, <1>8 DEF NsRow, Marked
  <2>2. Counted' /\ (Leaked => Leaked')
    <3>1. faults \in Nat /\ faults' \in Nat /\ (faults' = 0 => faults = 0)
      BY <1>1, <1>3 DEF Counted, Faulty
    <3>2. PendingCovers' /\ (Leaked => Leaked')
      BY <1>3, <1>5, <2>1, <3>1 DEF Counted, PendingCovers, Leaked, Marked
    <3>3. faults' = 0 => \A q \in Procs : proc'[q].pc \notin Undoing
      BY Zenon, <1>2, <1>3, <1>4, <3>1 DEF Counted, Alone
    <3> QED  BY Zenon, <3>1, <3>2, <3>3 DEF Counted
  <2>3. Advances
    BY <1>3, <1>6, <2>1 DEF Advances
  <2>4. Fades /\ Entries(p) /\ (Stuck => Stuck') /\ Passes(p)
    BY Zenon, <1>1, <1>2, <1>4, StillRows, StuckStays DEF Passes
  <2> QED  BY Zenon, <1>1, <1>2, <1>3, <1>4, <1>8, <2>2, <2>3, <2>4, StepSettles
<1>9. CASE ns' = ns /\ created' = created /\ faults' = faults + 1
  BY Zenon, <1>1, <1>2, <1>3, <1>4, <1>9, StillRows, AbandonStep
<1> QED  BY Zenon, <1>7, <1>8, <1>9

\* What every step of a creation knows
LEMMA CreationFacts ==
    ASSUME LifecycleInv, ReservationInv, NEW p \in Procs
    PROVE  /\ proc[p] \in Call /\ proc[p].r \in Repos /\ Creation(proc[p]) /\ Found(proc[p])
           /\ proc[p].result = "done" => proc[p].pc = "release"
           /\ path \in [Names -> Repos \cup {None}] /\ None \notin Repos
           /\ repo \in [Repos -> RepoRow]
BY LifecycleAssumption DEF LifecycleInv, Typed, Process, Shape, ReservationInv, Call

\* Releasing a path takes it from the repository of the call alone.
LEMMA PathReleased ==
    ASSUME LifecycleInv, ReservationInv, NEW p \in Procs,
           \/ path' = path
           \/ /\ path[NameOf[proc[p].r]] = proc[p].r
              /\ path' = [path EXCEPT ![NameOf[proc[p].r]] = None],
           UNCHANGED <<reverse, listed, ready>>, proc[p].pc \in Undoing
    PROVE  path' \in [Names -> Repos \cup {None}] /\ Entries(p)
<1>1. /\ path' \in [Names -> Repos \cup {None}]
      /\ \A r \in Repos \ {proc[p].r} : path[NameOf[r]] = r => path'[NameOf[r]] = r
  BY Zenon, CreationFacts, PathsKept
<1> QED  BY Zenon, <1>1 DEF Entries, Keeps

\* The uid and the path
LEMMA PathSettles ==
    ASSUME LifecycleInv, LifecycleInv', ReservationInv, NEW p \in Procs,
           CreateCheckTomb(p) \/ CreatePath(p)
    PROVE  ReservationInv'
<1> DEFINE r == proc[p].r
<1>1. /\ UNCHANGED <<reverse, listed, ready>> /\ listed' = listed
      /\ ns' = ns /\ fence' = fence /\ repo' = repo /\ created' = created /\ unsettled' = unsettled
      /\ Faulty /\ proc[p].pc \in {"tomb", "path"}
  BY Zenon DEF CreateCheckTomb, CreatePath, Cas, Read, Write, Answered, Fails, Faulty, At, nsVars, repoVars,
         histVars
<1>2. /\ Alone(p) /\ proc'[p].pc \in {"path", "row", "release"} /\ proc'[p].r = r
      /\ proc'[p].result = proc[p].result
  <2>1. CASE \E x \in {"path", "row", "release"} : Goto(p, x)
    BY Zenon, <2>1, StepForms DEF Moved
  <2>2. CASE Set(p, [proc[p] EXCEPT !.pc = "row", !.own = {"path"}])
    BY Zenon, <2>2, Continuations
  <2> QED  BY Zenon, <2>1, <2>2 DEF CreateCheckTomb, CreatePath, Cas, Read, Write
<1>3. \/ path' = path /\ (proc'[p].pc = "row" => path[NameOf[r]] = r)
      \/ path[NameOf[r]] = None /\ path' = [path EXCEPT ![NameOf[r]] = r]
  <2>1. CASE CreateCheckTomb(p)
    <3>1. \E x \in {"release", "path"} : Goto(p, x)
      BY Zenon, <2>1 DEF CreateCheckTomb, Read
    <3>2. proc'[p].pc # "row"
      BY Zenon, <3>1, StepForms DEF Moved
    <3> QED  BY Zenon, <2>1, <3>2 DEF CreateCheckTomb, repoVars
  <2>2. CASE CreatePath(p) /\ path[NameOf[r]] = None
    <3>1. Goto(p, "release") => proc'[p].pc = "release"
      BY Zenon, StepForms DEF Moved
    <3> QED  BY Zenon, <2>2, <3>1 DEF CreatePath, Cas, Write
  <2>3. CASE CreatePath(p) /\ path[NameOf[r]] # None
    <3>1. Goto(p, "release") => proc'[p].pc = "release"
      BY Zenon, StepForms DEF Moved
    <3> QED  BY Zenon, <2>3, <3>1 DEF CreatePath, Cas, Read
  <2> QED  BY Zenon, <2>1, <2>2, <2>3
<1>4. /\ r \in Repos /\ path \in [Names -> Repos \cup {None}] /\ None \notin Repos
      /\ ~ repo[r].here
  BY Zenon, <1>1, CreationFacts DEF Creation, Early
<1>5. /\ path' \in [Names -> Repos \cup {None}]
      /\ \A s \in Repos : path[NameOf[s]] = s => path'[NameOf[s]] = s
      /\ proc'[p].pc = "row" => path'[NameOf[r]] = r
  BY Zenon, <1>3, <1>4, PathsKept
<1>6. Entries(p) /\ Fades
  BY Zenon, <1>1, <1>5, StillRows DEF Entries, Keeps
<1>7. /\ proc[p].pc \in Reserved /\ proc'[p].pc \in Reserved /\ proc'[p].pc \notin Undoing
      /\ ~ Working(proc[p])
  BY Zenon, <1>1, <1>2 DEF Reserved, Late, Undoing, Working, Unlisting
<1>8. Found(proc[p])' /\ Passes(p)
  BY Zenon, <1>1, <1>2, <1>4, <1>5, <1>7 DEF Found, Live, Passes
<1> QED  BY Zenon, <1>1, <1>2, <1>5, <1>6, <1>7, <1>8, ReservedStep

\* The path is released after a failed insert.
LEMMA UndoPathSettles ==
    ASSUME LifecycleInv, LifecycleInv', ReservationInv, NEW p \in Procs, CreateUndoPath(p)
    PROVE  ReservationInv'
<1>1. /\ UNCHANGED <<reverse, listed, ready>> /\ listed' = listed
      /\ ns' = ns /\ fence' = fence /\ repo' = repo /\ created' = created /\ unsettled' = unsettled
      /\ Faulty /\ proc[p].pc = "undo"
  BY Zenon DEF CreateUndoPath, ReleasePath, Cas, Read, Write, Answered, Fails, Faulty, At, nsVars, histVars
<1>2. /\ Alone(p)
      /\ \/ proc'[p].pc = "release" /\ proc'[p].result = proc[p].result
         \/ proc'[p].pc = "idle"
  BY Zenon, StepForms DEF CreateUndoPath, ReleasePath, Cas, Read, Write, Moved
<1>3. /\ proc[p].pc \in Undoing /\ proc[p].pc \in Reserved /\ ~ Working(proc[p])
      /\ proc'[p].pc = "release" => proc'[p].pc \in Reserved /\ proc'[p].pc \notin Undoing
  BY Zenon, <1>1 DEF Undoing, Reserved, Late, Working, Unlisting
<1>4. path' \in [Names -> Repos \cup {None}] /\ Entries(p)
  <2>1. \/ path' = path
        \/ /\ path[NameOf[proc[p].r]] = proc[p].r
           /\ path' = [path EXCEPT ![NameOf[proc[p].r]] = None]
    BY Zenon DEF CreateUndoPath, ReleasePath, Cas, Write
  <2> QED  BY Zenon, <1>1, <1>3, <2>1, PathReleased
<1>5. CASE proc'[p].pc = "idle"
  BY Zenon, <1>1, <1>2, <1>3, <1>4, <1>5, AbandonStep
<1>6. CASE proc'[p].pc = "release" /\ proc'[p].result = proc[p].result
  <2>1. Found(proc[p])'
    BY Zenon, <1>1, <1>6, CreationFacts DEF Found, Made
  <2>2. Passes(p) /\ Fades
    BY Zenon, <1>1, <1>3, StillRows DEF Passes
  <2> QED  BY Zenon, <1>1, <1>2, <1>3, <1>4, <1>6, <2>1, <2>2, ReservedStep
<1> QED  BY Zenon, <1>2, <1>5, <1>6

\* The row is inserted; should the answer be lost, the path is given back all
\* the same and the row is there.
LEMMA RowSettles ==
    ASSUME LifecycleInv, LifecycleInv', ReservationInv, NEW p \in Procs, CreateRow(p)
    PROVE  ReservationInv'
<1> DEFINE r == proc[p].r
<1>1. /\ UNCHANGED <<path, reverse, listed, ready>> /\ path' = path /\ listed' = listed
      /\ ns' = ns /\ fence' = fence /\ created' = created
      /\ Faulty /\ proc[p].pc = "row"
  BY Zenon DEF CreateRow, Cas, Read, Write, Answered, Fails, Faulty, At, nsVars
<1>2. /\ r \in Repos /\ ~ repo[r].here /\ path \in [Names -> Repos \cup {None}]
      /\ repo \in [Repos -> RepoRow] /\ r \notin created /\ path[NameOf[r]] = r
      /\ proc[p].result # "done"
  BY Zenon, <1>1, CreationFacts DEF Creation, Early, Found
<1>3. /\ Alone(p) /\ proc'[p].r = r /\ proc'[p].result = proc[p].result
      /\ \/ proc'[p].pc = "reverse" /\ repo' = [repo EXCEPT ![r] = NewRepo]
         \/ /\ proc'[p].pc \in {"undo", "release"} /\ faults' = faults + 1
            /\ repo' = repo \/ repo' = [repo EXCEPT ![r] = NewRepo]
  BY Zenon, <1>2, StepForms DEF CreateRow, Cas, Write, Answered, Fails, Moved
<1>4. unsettled' = IF repo'[r] # repo[r] /\ proc'[p].pc # "reverse" THEN unsettled \cup {r} ELSE unsettled
  BY Zenon DEF CreateRow
<1>5. /\ proc[p].pc \in Reserved /\ proc'[p].pc \in Reserved /\ ~ Working(proc[p])
      /\ proc'[p].pc \in Undoing => faults' = faults + 1
      /\ proc'[p].pc \notin InBody
  BY Zenon, <1>1, <1>3 DEF Reserved, Late, Undoing, Working, Unlisting, InBody
<1>6. CASE repo' = repo
  <2>1. Found(proc[p])' /\ Passes(p) /\ unsettled' = unsettled
    <3>1. NewRepo # repo[r]
      <4>1. NewRepo.here
        BY Zenon DEF NewRepo
      <4> QED  BY Zenon, <1>2, <4>1
    <3>2. proc'[p].pc # "reverse"
      BY Zenon, <1>2, <1>3, <1>6, <3>1
    <3> QED  BY Zenon, <1>1, <1>2, <1>3, <1>4, <1>5, <1>6, <3>2 DEF Found, Made, Passes
  <2> QED  BY Zenon, <1>1, <1>2, <1>3, <1>5, <1>6, <2>1, StillRows, ReservedStep
<1>7. CASE repo' = [repo EXCEPT ![r] = NewRepo]
  <2>1. /\ Counted /\ System \in created /\ System \in Repos /\ System # r
        /\ ns \in NsRow /\ ns.pending \in Int
    BY Zenon, <1>2, LifecycleAssumption DEF LifecycleInv, Typed, ReservationInv, NsRow
  <2>2. ns.pending > 0 /\ ns.here /\ ~ Marked(ns)
    <3>1. p \in Creating /\ Creating # {}
      BY Zenon, <1>5, CreatingFinite
    <3>2. Cardinality(Creating) # 0 /\ Cardinality(Creating) \in Nat
      BY Zenon, <3>1, CreatingFinite, FS_EmptySet
    <3> QED  BY <2>1, <3>2 DEF Counted, PendingCovers
  <2>3. /\ Counted' /\ (Leaked => Leaked')
    BY Zenon, <1>1, <1>3, <1>5, <2>1, <2>2, CountKept
  <2>4. Stuck => Stuck'
    BY Zenon, <1>1, <1>3, <1>5, StuckStays
  <2>5. /\ repo'[r].here /\ r \in Repos
        /\ \A s \in Repos \ {r} : repo'[s] = repo[s]
        /\ unsettled \subseteq unsettled'
        /\ proc'[p].pc # "reverse" => r \in unsettled'
    <3>1. NewRepo.here
      BY Zenon DEF NewRepo
    <3>2. repo'[r] = NewRepo /\ \A s \in Repos \ {r} : repo'[s] = repo[s]
      BY Zenon, <1>2, <1>7
    <3> QED  BY Zenon, <1>2, <1>4, <3>1, <3>2
  <2>6. Judged(proc[p])' /\ Found(proc[p])'
    BY Zenon, <1>1, <1>2, <1>3 DEF Judged, Found, Marking, Leaving, Ending, Made
  <2>7. ASSUME NEW q \in Procs \ {p} PROVE Judged(proc[q])' /\ Found(proc[q])'
    <3>1. PICK d : d = proc[q]
      OBVIOUS
    <3>2. /\ d.r \in Repos /\ Judged(d) /\ Found(d) /\ Apart(proc[p], d)
      BY Zenon, <3>1, CreationFacts, OneApart DEF ReservationInv
    <3>3. /\ d.pc \in Ending \cup Late => d.r # r
      BY Zenon, <1>1, <3>2 DEF Apart, Early
    <3>4. Judged(d)'
      <4>1. d.pc \in Marking => d.seen <= ns.epoch /\ d.seen # ns.epoch
        <5>1. ns.pending # 0
          BY <2>1, <2>2
        <5> QED  BY Zenon, <3>2, <5>1 DEF Judged
      <4>2. d.pc \in {"markEmpty", "markWrite"} => d.pc \in Marking
        BY Zenon DEF Marking
      <4>3. d.pc \in Leaving => SystemEnds'
        BY Zenon, <2>1, <2>5, <3>2 DEF Judged, SystemEnds
      <4>4. d.pc \in Ending => (repo'[d.r].here => repo'[d.r].deleting)
        BY Zenon, <2>5, <3>2, <3>3 DEF Judged
      <4> QED  BY Zenon, <1>1, <4>1, <4>2, <4>3, <4>4 DEF Judged
    <3>5. Found(d)'
      <4>1. d.pc \in {"reverse", "list", "ready"} \/ Made(d) => d.pc \in Late
        BY Zenon DEF Late, Made
      <4>2. d.pc \in Late => (Live(d.r)' => Live(d.r))
        BY Zenon, <2>5, <3>2, <3>3 DEF Live
      <4> QED  BY Zenon, <1>1, <3>2, <4>1, <4>2 DEF Found, Made
    <3> QED  BY Zenon, <1>3, <3>1, <3>4, <3>5 DEF Alone, Judged, Found, OnlySystem, SystemEnds, Made, Live
  <2>8. ASSUME NEW s \in Repos \ {System}, repo'[s].here PROVE Accounted(s)'
    <3>1. CASE s = r
      BY Zenon, <1>3, <2>5, <3>1 DEF Accounted, Working
    <3>2. CASE s # r
      <4>1. Accounted(s)
        BY Zenon, <2>5, <2>8, <3>2 DEF ReservationInv
      <4>2. ASSUME NEW q \in Procs, proc[q].r = s, Working(proc[q]) PROVE Accounted(s)'
        BY Zenon, <1>3, <1>5, <4>2 DEF Alone, Accounted, Working
      <4> QED  BY Zenon, <1>1, <2>3, <2>4, <2>5, <4>1, <4>2 DEF Accounted
    <3> QED  BY Zenon, <3>1, <3>2
  <2>9. /\ repo'[System].here => System \in listed' \/ repo'[System].deleting
        /\ Reachable'
    BY Zenon, <1>1, <1>2, <2>1, <2>5 DEF ReservationInv, Reachable, Marked, LifecycleInv, Typed
  <2> QED  BY Zenon, <1>1, <1>2, <2>1, <2>2, <2>3, <2>6, <2>7, <2>8, <2>9 DEF ReservationInv, Marked
<1> QED  BY Zenon, <1>3, <1>6, <1>7

\* The reverse mapping, the listings and the membership index of a new
\* repository
LEMMA EntriesSettle ==
    ASSUME LifecycleInv, LifecycleInv', ReservationInv, NEW p \in Procs,
           CreateReverse(p) \/ CreateList(p) \/ CreateReady(p)
    PROVE  ReservationInv'
<1> DEFINE r == proc[p].r
<1>1. /\ path' = path
      /\ ns' = ns /\ fence' = fence /\ repo' = repo /\ created' = created /\ unsettled' = unsettled
      /\ Faulty /\ proc[p].pc \in {"reverse", "list", "ready"}
      /\ reverse' = reverse \/ reverse' = reverse \cup {r}
      /\ listed' = listed \/ listed' = listed \cup {r}
      /\ ready' = ready \/ ready' = ready \cup {r}
  BY Zenon DEF CreateReverse, CreateList, CreateReady, Write, Answered, Fails, Faulty, At, nsVars, histVars
<1>2. /\ Alone(p) /\ proc'[p].r = r
      /\ \/ proc[p].pc = "reverse" /\ proc'[p].pc = "list" /\ r \in reverse'
         \/ proc[p].pc = "list" /\ proc'[p].pc = "ready" /\ r \in listed'
         \/ proc[p].pc = "ready" /\ proc'[p].pc = "release" /\ r \in ready'
         \/ proc'[p].pc = "failRow" /\ faults' = faults + 1
  <2>1. CASE CreateReverse(p)
    <3>1. Goto(p, "failRow") => Moved(p, "failRow", proc[p].result)
      BY Zenon, StepForms
    <3>2. \A y : Set(p, [proc[p] EXCEPT !.pc = "list", !.own = y])
                   => Alone(p) /\ proc'[p].pc = "list" /\ proc'[p].r = proc[p].r
      BY Zenon, Continuations
    <3> QED  BY Zenon, <2>1, <3>1, <3>2 DEF CreateReverse, Write, Answered, Fails, At, Moved
  <2>2. CASE CreateList(p)
    BY Zenon, <2>2, StepForms DEF CreateList, Write, Answered, Fails, At, Moved
  <2>3. CASE CreateReady(p)
    <3>1. Goto(p, "failRow") => Moved(p, "failRow", proc[p].result)
      BY Zenon, StepForms
    <3>2. Set(p, [proc[p] EXCEPT !.pc = "release", !.result = "done"]) => Moved(p, "release", "done")
      BY Zenon, Continuations
    <3> QED  BY Zenon, <2>3, <3>1, <3>2 DEF CreateReady, Write, Answered, Fails, At, Moved
  <2> QED  BY Zenon, <2>1, <2>2, <2>3
<1>3. /\ r \in Repos /\ path \in [Names -> Repos \cup {None}] /\ Found(proc[p]) /\ Creation(proc[p])
  BY Zenon, CreationFacts
<1>4. /\ proc[p].pc \in Reserved /\ proc'[p].pc \in Reserved
      /\ proc'[p].pc \in Undoing => faults' = faults + 1
  BY Zenon, <1>1, <1>2 DEF Reserved, Late, Undoing
<1>5. Entries(p) /\ Fades
  BY Zenon, <1>1, StillRows DEF Entries, Keeps
<1>6. Passes(p)
  BY Zenon, <1>1, <1>2 DEF Passes, Working, Unlisting
<1>7. Found(proc[p])'
  BY Zenon, <1>1, <1>2, <1>3 DEF Found, Live, Made
<1> QED  BY Zenon, <1>1, <1>2, <1>3, <1>4, <1>5, <1>6, <1>7, ReservedStep

\* What a failed creation takes back: its row first
LEMMA FailRowSettles ==
    ASSUME LifecycleInv, LifecycleInv', ReservationInv, NEW p \in Procs, FailRow(p)
    PROVE  ReservationInv'
<1> DEFINE r == proc[p].r
<1>1. /\ UNCHANGED <<path, reverse, listed, ready>> /\ path' = path /\ listed' = listed
      /\ ns' = ns /\ fence' = fence /\ created' = created /\ unsettled' = unsettled
      /\ Faulty /\ proc[p].pc = "failRow"
      /\ repo' = repo \/ repo' = [repo EXCEPT ![r] = NoRepo]
  BY Zenon DEF FailRow, Cas, Read, Write, Answered, Fails, Faulty, At, nsVars, histVars
<1>2. /\ r \in Repos /\ path \in [Names -> Repos \cup {None}] /\ repo \in [Repos -> RepoRow]
  BY Zenon, CreationFacts
<1>3. /\ Alone(p) /\ proc'[p].r = r /\ proc'[p].pc = "failReverse"
      /\ proc'[p].result = "repair" \/ ~ repo'[r].here
  <2>1. [repo EXCEPT ![r] = NoRepo][r].here = FALSE
    BY Zenon, <1>2 DEF NoRepo
  <2> QED  BY Zenon, <2>1, StepForms DEF FailRow, Cas, Read, Write, Moved
<1>4. Fades
  <2>1. ~ NoRepo.here
    BY Zenon DEF NoRepo
  <2>2. \A s \in Repos : repo'[s] = repo[s] \/ repo'[s] = NoRepo
    BY Zenon, <1>1, <1>2
  <2> QED  BY Zenon, <2>1, <2>2 DEF Fades, Live
<1>5. /\ proc[p].pc \in Reserved /\ proc'[p].pc \in Reserved /\ proc[p].pc \in Undoing
      /\ proc[p].pc \in Undoing
  BY Zenon, <1>1, <1>3 DEF Reserved, Late, Undoing
<1>6. Passes(p) /\ Found(proc[p])'
  BY Zenon, <1>1, <1>3 DEF Passes, Working, Found, Made
<1> QED  BY Zenon, <1>1, <1>2, <1>3, <1>4, <1>5, <1>6, StillRows, ReservedStep

\* then its reverse mapping
LEMMA FailReverseSettles ==
    ASSUME LifecycleInv, LifecycleInv', ReservationInv, NEW p \in Procs, FailReverse(p)
    PROVE  ReservationInv'
<1> DEFINE r == proc[p].r
<1>1. /\ path' = path /\ listed' = listed /\ ready' = ready
      /\ reverse' = reverse \/ reverse' = reverse \ {r}
      /\ ns' = ns /\ fence' = fence /\ repo' = repo /\ created' = created /\ unsettled' = unsettled
      /\ Faulty /\ proc[p].pc = "failReverse"
  BY Zenon DEF FailReverse, Write, Answered, Fails, Faulty, At, nsVars, histVars
<1>2. path \in [Names -> Repos \cup {None}]
  BY Zenon, CreationFacts
<1>3. /\ Alone(p) /\ proc'[p].r = r /\ proc'[p].pc = "failPath"
      /\ proc'[p].result = "repair" \/ proc'[p].result = proc[p].result
  BY Zenon, StepForms DEF FailReverse, Write, Moved
<1>4. /\ proc[p].pc \in Reserved /\ proc'[p].pc \in Reserved /\ proc[p].pc \in Undoing
  BY Zenon, <1>1, <1>3 DEF Reserved, Late, Undoing
<1>5. Entries(p) /\ Fades
  BY Zenon, <1>1, <1>4, StillRows DEF Entries, Keeps
<1>6. Passes(p) /\ Found(proc[p])'
  BY Zenon, <1>1, <1>3 DEF Passes, Working, Unlisting, Found, Made
<1> QED  BY Zenon, <1>1, <1>2, <1>3, <1>4, <1>5, <1>6, ReservedStep

\* and its path; unless all of it was taken back the reservation stays.
LEMMA FailPathSettles ==
    ASSUME LifecycleInv, LifecycleInv', ReservationInv, NEW p \in Procs, FailPath(p)
    PROVE  ReservationInv'
<1>1. /\ UNCHANGED <<reverse, listed, ready>> /\ listed' = listed
      /\ ns' = ns /\ fence' = fence /\ repo' = repo /\ created' = created /\ unsettled' = unsettled
      /\ Faulty /\ proc[p].pc = "failPath"
  BY Zenon DEF FailPath, ReleasePath, Cas, Read, Write, Answered, Fails, Faulty, At, nsVars, histVars
<1>2. /\ Alone(p)
      /\ \/ /\ proc'[p].pc = "release" /\ proc'[p].result = proc[p].result
            /\ proc[p].result # "repair"
         \/ proc'[p].pc = "idle"
  BY Zenon, StepForms DEF FailPath, ReleasePath, Cas, Read, Write, Moved
<1>3. /\ proc[p].pc \in Undoing /\ proc[p].pc \in Reserved
      /\ proc'[p].pc = "release" => proc'[p].pc \in Reserved /\ proc'[p].pc \notin Undoing
  BY Zenon, <1>1 DEF Undoing, Reserved, Late
<1>4. path' \in [Names -> Repos \cup {None}] /\ Entries(p)
  <2>1. \/ path' = path
        \/ /\ path[NameOf[proc[p].r]] = proc[p].r
           /\ path' = [path EXCEPT ![NameOf[proc[p].r]] = None]
    BY Zenon DEF FailPath, ReleasePath, Cas, Write
  <2> QED  BY Zenon, <1>1, <1>3, <2>1, PathReleased
<1>5. CASE proc'[p].pc = "idle"
  BY Zenon, <1>1, <1>2, <1>3, <1>4, <1>5, AbandonStep
<1>6. CASE /\ proc'[p].pc = "release" /\ proc'[p].result = proc[p].result
           /\ proc[p].result # "repair"
  <2>1. Found(proc[p])'
    BY Zenon, <1>1, <1>6, CreationFacts DEF Found, Made
  <2>2. Passes(p) /\ Fades
    BY Zenon, <1>1, <1>6, StillRows DEF Passes, Working, Unlisting
  <2> QED  BY Zenon, <1>1, <1>2, <1>3, <1>4, <1>6, <2>1, <2>2, ReservedStep
<1> QED  BY Zenon, <1>2, <1>5, <1>6

-----------------------------------------------------------------------------
(* All steps                                                               *)

\* The steps of a creation
LEMMA CreateStepSettles ==
    ASSUME LifecycleInv, LifecycleInv', ReservationInv, NEW p \in Procs, CreateStep(p)
    PROVE  ReservationInv'
BY Zenon, BeginningsSettle, ReserveSettles, PathSettles, RowSettles, UndoPathSettles, EntriesSettle,
   FailRowSettles, FailReverseSettles, FailPathSettles, ReleaseSettles DEF CreateStep

\* The steps of a catalog write
LEMMA ResourceStepSettles ==
    ASSUME LifecycleInv, LifecycleInv', ReservationInv, NEW p \in Procs, ResourceStep(p)
    PROVE  ReservationInv'
BY Zenon, BeginningsSettle, ResourcesSettle DEF ResourceStep

\* The steps of an update or a deletion of a repository
LEMMA RepositoryStepSettles ==
    ASSUME LifecycleInv, LifecycleInv', ReservationInv, NEW p \in Procs, RepositoryStep(p)
    PROVE  ReservationInv'
BY Zenon, BeginningsSettle, ReadsSettle, RepositoryWriteSettles, EndReadSettles, EndEmptySettles,
   EntriesEnd, EndRowSettles, EndConfirmSettles, BackListSettles DEF RepositoryStep

\* The steps of a mark or a deletion of the namespace
LEMMA NamespaceStepSettles ==
    ASSUME LifecycleInv, LifecycleInv', ReservationInv, NEW p \in Procs, NamespaceStep(p)
    PROVE  ReservationInv'
BY Zenon, BeginningsSettle, MarkReadsSettle, MarkWriteSettles, RemovalSettles, NamespaceRowSettles,
   ReadsSettle DEF NamespaceStep

\* A process dies.
LEMMA CrashSettles ==
    ASSUME LifecycleInv, LifecycleInv', ReservationInv, NEW p \in Procs, Crash(p)
    PROVE  ReservationInv'
<1>1. Alone(p) /\ proc'[p].pc = "idle" /\ faults' = faults + 1
  BY Zenon, StepForms DEF Crash, Fails
<1>2. UNCHANGED settleVars
  BY Zenon DEF Crash, settleVars, nsVars, repoVars, itemVars, histVars
<1> QED  BY Zenon, <1>1, <1>2, DyingStep

\* Nothing happens.
LEMMA StutterSettles ==
    ASSUME ReservationInv, UNCHANGED vars
    PROVE  ReservationInv'
<1>1. /\ UNCHANGED <<ns, fence, repo, path, reverse, listed, ready, created, unsettled, faults>>
      /\ proc' = proc
  BY Zenon DEF vars, nsVars, repoVars, itemVars, histVars
<1>2. Counted' /\ (Leaked <=> Leaked') /\ (Stuck <=> Stuck')
  <2>1. Creating' = Creating /\ Holders' = Holders
    BY Zenon, <1>1 DEF Creating, Holders
  <2> QED  BY Zenon, <1>1, <2>1 DEF ReservationInv, Counted, PendingCovers, Leaked, Stuck, Marked
<1>3. ASSUME NEW p \in Procs PROVE Judged(proc[p])' /\ Found(proc[p])'
  <2>1. Judged(proc[p]) /\ Found(proc[p])
    BY Zenon DEF ReservationInv
  <2> QED  BY Zenon, <1>1, <2>1 DEF Judged, Found, OnlySystem, SystemEnds, Made, Live, Marked
<1>4. ASSUME NEW r \in Repos \ {System}, repo'[r].here PROVE Accounted(r)'
  <2>1. Accounted(r)
    BY Zenon, <1>1, <1>4 DEF ReservationInv
  <2> QED  BY Zenon, <1>1, <1>2, <2>1 DEF Accounted, Working
<1>5. /\ (Marked(ns) => OnlySystem)' /\ (~ ns.here => SystemEnds)'
      /\ Reachable'
  BY Zenon, <1>1 DEF ReservationInv, OnlySystem, SystemEnds, Reachable, Marked
<1> QED  BY Zenon, <1>1, <1>2, <1>3, <1>4, <1>5 DEF ReservationInv

\* At the start the namespace has its system repository and nobody is at work.
LEMMA InitialReservations == Init => ReservationInv
<1> SUFFICES ASSUME Init PROVE ReservationInv  OBVIOUS
<1>1. /\ \A p \in Procs : proc[p].pc = "idle" /\ proc[p].result = "ok"
      /\ \A r \in Repos \ {System} : ~ repo[r].here
      /\ repo[System].here /\ ~ repo[System].deleting /\ System \in Repos /\ NameOf[System] \in Names
  BY Zenon, LifecycleAssumption DEF Init, Idle, NoRepo, NewRepo, Names
<1>2. Counted
  <2>1. Creating = {}
    BY Zenon, <1>1, CreatingFinite DEF Reserved, Late
  <2>2. Cardinality(Creating) = 0
    BY Zenon, <2>1, FS_EmptySet
  <2>3. faults = 0 /\ ns.pending = 0 /\ ns.here
    BY Zenon DEF Init
  <2>4. PendingCovers
    BY <2>2, <2>3 DEF PendingCovers
  <2>5. \A p \in Procs : proc[p].pc \notin Undoing
    BY Zenon, <1>1 DEF Undoing
  <2> QED  BY Zenon, <2>3, <2>4, <2>5 DEF Counted
<1>3. \A p \in Procs : Judged(proc[p]) /\ Found(proc[p])
  BY Zenon, <1>1 DEF Judged, Found, Marking, Leaving, Ending, Made
<1>4. path \in [Names -> Repos \cup {None}] /\ path[NameOf[System]] = System
  BY Zenon, <1>1 DEF Init
<1>5. /\ System \in created /\ ~ Marked(ns) /\ ns.here /\ System \in listed /\ Reachable
  BY Zenon, <1>1, <1>4 DEF Init, Marked, Reachable
<1> QED  BY Zenon, <1>1, <1>2, <1>3, <1>4, <1>5 DEF ReservationInv

\* Every step
LEMMA NextSettles == LifecycleInv /\ LifecycleInv' /\ ReservationInv /\ [Next]_vars => ReservationInv'
<1> SUFFICES ASSUME LifecycleInv, LifecycleInv', ReservationInv, [Next]_vars PROVE ReservationInv'
  OBVIOUS
<1>1. CASE UNCHANGED vars
  BY Zenon, <1>1, StutterSettles
<1>2. CASE UpdateNamespace
  BY Zenon, <1>2, UpdateNamespaceSettles
<1>3. ASSUME NEW p \in Procs,
             \/ CreateStep(p) \/ FenceStep(p) \/ ResourceStep(p)
             \/ RepositoryStep(p) \/ NamespaceStep(p) \/ Crash(p)
      PROVE  ReservationInv'
  BY Zenon, <1>3, CreateStepSettles, FenceSettles, ResourceStepSettles, RepositoryStepSettles,
     NamespaceStepSettles, CrashSettles
<1> QED  BY Zenon, <1>1, <1>2, <1>3 DEF Next

=============================================================================
