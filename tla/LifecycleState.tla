--------------------------- MODULE LifecycleState ----------------------------
(*****************************************************************************)
(* The two inductive invariants of LifecycleFences.                          *)
(*                                                                           *)
(* LifecycleInv is about resources: what a call has found out about parents  *)
(* and children before it writes stays true until it does, because it holds  *)
(* the fence, and it sees every child, because the index and the listings    *)
(* cover them.                                                               *)
(*                                                                           *)
(* ReservationInv is about repositories, whose creations do not take the     *)
(* fence: they are counted, and a mark of the namespace compares the epoch   *)
(* of the count.  A row that the listings do not show belongs to a call that *)
(* is at work on it, or is guarded by a reservation or a fence that nobody   *)
(* will give back.                                                           *)
(*****************************************************************************)
EXTENDS LifecycleFences

-----------------------------------------------------------------------------
(* Resources                                                                *)

RepoRow == [here : BOOLEAN, rv : Int, deleting : BOOLEAN, intent : BOOLEAN]

NsRow == [here : BOOLEAN, rv : Int, deleting : BOOLEAN, intent : BOOLEAN,
          epoch : Int, pending : Int]

Pcs == {"idle", "reserve", "tomb", "path", "row", "undo", "reverse", "list", "ready", "failRow",
        "failReverse", "failPath", "release", "take", "nsEmpty", "nsList", "nsName", "nsConfirm",
        "nsRow", "nsResolve", "backNsList", "backNsName"} \cup InBody

Results == {"ok", "done", "again", "failed", "repair"}

Call == [pc : Pcs,
         call : {None, "write", "delete", "update", "complete", "mark", "remove"},
         r : Repos, i : Items \cup {None}, mark : {None, "intent", "deletion"},
         rv : Int, epoch : Int, seen : Int, own : SUBSET {"path", "reverse"},
         from : Repos \cup {None}, now : Repos \cup {None}, result : Results]

\* The types the proof needs; the bounds of TypeOK play no part in it.
Typed ==
    /\ ns \in NsRow
    /\ fence \in [epoch : Int, pending : {0, 1}]
    /\ repo \in [Repos -> RepoRow]
    /\ listed \subseteq Repos /\ used \subseteq Repos /\ created \subseteq Repos
    /\ item \in [Items -> Repos \cup {None}]
    /\ proc \in [Procs -> Call]

\* What the rows say of each other.  Resources are in repositories that were
\* created; the listings have every such repository that is not being deleted.
Live(r) == repo[r].here /\ ~ Marked(repo[r])

Rows ==
    /\ created \subseteq used
    /\ \A r \in Repos : repo[r].here => r \in used
    /\ \A r \in created : Live(r) => r \in listed
    /\ \A i \in Items : item[i] # None => item[i] \in created

Early == {"reserve", "tomb", "path", "row"}
Late == {"undo", "reverse", "list", "ready", "failRow", "failReverse", "failPath", "release"}
Ending == {"endEmpty", "endPath", "endReverse", "endList", "endTomb", "endRow", "endConfirm",
           "backPath", "backReverse", "backList"}
Writing == {"parentNs", "parentRepo", "index"}
Touching == {"before", "operate", "readBack", "fixIndex", "unindex"}
Removing == {"nsEmpty", "nsList", "nsName", "nsConfirm", "nsRow"}

\* Where each call may be, and what it works on.
Shape(c) ==
    /\ c.pc \in {"take"} \cup InBody
         => c.call \in {"write", "delete", "update", "complete", "mark"}
    /\ c.pc \in Writing => c.call = "write"
    /\ c.pc \in Touching => c.call \in {"write", "delete"}
    /\ c.call \in {"write", "delete"} => c.i \in Items
    /\ c.call = "write" => c.r \in created
    /\ c.result = "done" => c.pc = "release"

\* A creation has a repository of its own, without a row until it inserts it;
\* once it has listed it the listings have it.
Creation(c) ==
    /\ c.pc \in Early \cup Late => c.r \in used \ created
    /\ c.pc \in Early => ~ repo[c.r].here
    /\ c.pc = "ready" \/ (c.pc = "release" /\ c.result = "done") => (Live(c.r) => c.r \in listed)

\* A catalog write has found its parents, and has the index ahead of the row.
Mutation(c) ==
    /\ c.call = "write" /\ c.pc \in {"parentRepo", "before", "index", "operate"}
         => ns.here /\ ~ Marked(ns)
    /\ c.call = "write" /\ c.pc \in {"before", "index", "operate"} => Live(c.r)
    /\ c.call = "write" /\ c.pc = "operate" => <<c.r, c.i>> \in index
    /\ c.pc \in {"fixIndex", "unindex"} => c.now = item[c.i]
    /\ c.pc = "unindex" => c.from # c.now

\* A call that marks or deletes a repository has found it empty.
Emptied(c) ==
    /\ c.pc = "repoWrite" /\ c.mark # None => \A i \in Items : item[i] # c.r
    /\ c.pc \in Ending => /\ \A i \in Items : item[i] # c.r
                          /\ c.r \in used
                          /\ repo[c.r].here => Marked(repo[c.r])

\* A call that marks a namespace has found it empty, and one that deletes it
\* has found it marked.
Vacated(c) ==
    /\ c.pc = "markEmpty" => \A i \in Items : item[i] \in {System, None}
    /\ c.pc = "markWrite" => \A i \in Items : item[i] = None
    /\ c.pc \in Removing => ns.deleting

Process(c) == Shape(c) /\ Creation(c) /\ Mutation(c) /\ Emptied(c) /\ Vacated(c)

\* Two creations never share a repository, and one that has no row yet shares
\* it with no deletion.
Apart(c, d) ==
    /\ c.pc \in Early \cup Late /\ d.pc \in Early \cup Late => c.r # d.r
    /\ c.pc \in Early /\ d.pc \in Ending => c.r # d.r

LifecycleInv ==
    /\ Typed /\ FenceExclusive /\ Rows /\ IndexCovers /\ NoOrphanItem
    /\ \A p \in Procs : Process(proc[p])
    /\ \A p, q \in Procs : p # q => Apart(proc[p], proc[q])

-----------------------------------------------------------------------------
(* Reservations and what is reachable                                      *)

Reserved == {"tomb", "path", "row"} \cup Late
Undoing == {"undo", "failRow", "failReverse", "failPath"}
Unlisting == {"endTomb", "endRow", "endConfirm", "backPath", "backReverse", "backList"}
Marking == {"markList", "markEmpty", "markWrite"}
Leaving == {"nsList", "nsName", "nsConfirm", "nsRow"}

\* A creation that succeeded and has only its reservation to give back
Made(c) == c.pc = "release" /\ c.result = "done"

OnlySystem == \A r \in Repos \ {System} : repo[r].here => r \in unsettled
SystemEnds == repo[System].here => repo[System].deleting

\* Reservations are counted; what a creation undoes without a failure it never did.
Counted ==
    /\ faults \in Nat
    /\ PendingCovers
    /\ faults = 0 => \A p \in Procs : proc[p].pc \notin Undoing

\* A reservation, or the fence, that nobody will give back
Leaked == Cardinality(Creating) < ns.pending
Stuck == fence.pending = 1 /\ Holders = {}

\* A call that knows of a repository without an entry in the listings, and will
\* not be done before the entry or the row has changed
Working(c) ==
    \/ c.pc \in {"reverse", "list", "failRow"} \cup Unlisting
    \/ c.pc \in {"failReverse", "failPath"} /\ c.result = "repair"

\* Every row is listed, or something keeps the namespace from being marked.
Accounted(r) ==
    \/ r \in listed \cup unsettled \/ Leaked \/ Stuck
    \/ \E p \in Procs : proc[p].r = r /\ Working(proc[p])

\* What a call has found out for a mark or a deletion
Judged(c) ==
    /\ c.pc \in Marking => c.seen <= ns.epoch /\ (c.seen = ns.epoch => ns.pending = 0)
    /\ c.pc \in {"markEmpty", "markWrite"} => (c.seen = ns.epoch => OnlySystem)
    /\ c.pc \in Leaving => SystemEnds
    /\ c.pc \in Ending => (repo[c.r].here => repo[c.r].deleting)

\* What a creation has already put down for its repository
Found(c) ==
    /\ c.pc = "row" => path[NameOf[c.r]] = c.r
    /\ Live(c.r) =>
         /\ c.pc \in {"reverse", "list", "ready"} \/ Made(c) => path[NameOf[c.r]] = c.r
         /\ c.pc \in {"list", "ready"} \/ Made(c) => c.r \in reverse
         /\ Made(c) => c.r \in ready

ReservationInv ==
    /\ Counted
    /\ path \in [Names -> Repos \cup {None}]
    /\ System \in created
    /\ \A p \in Procs : Judged(proc[p]) /\ Found(proc[p])
    /\ \A r \in Repos \ {System} : repo[r].here => Accounted(r)
    /\ Marked(ns) => OnlySystem
    /\ ~ ns.here => SystemEnds
    /\ repo[System].here => System \in listed \/ repo[System].deleting
    /\ Reachable

=============================================================================
