-------------------------- MODULE LifecycleFences --------------------------
(***************************************************************************)
(* The fences that keep a parent from disappearing under a child           *)
(* (gitstore-api/internal/datastore/scylla/repository.go, namespace_       *)
(* catalog.go and backend.go), for one namespace, its repositories and the *)
(* catalog resources in them.                                              *)
(*                                                                         *)
(* API processes run the calls of the datastore concurrently.  Every       *)
(* statement is one step: it is applied and answered, applied without an   *)
(* answer, or not applied and answered with an error; a process may also   *)
(* die between two statements.  A read and the conditional update that     *)
(* compares all it has read are one step, because the update is applied    *)
(* only if the read would still return the same.  Offline repair, renaming *)
(* and moving a repository, and the unconditional deletions are left out.  *)
(*                                                                         *)
(* Two fences protect the namespace.  The row of the namespace counts the  *)
(* repository creations in flight (pending) and all there ever were        *)
(* (epoch).  A row of its own is a lock that catalog writes, repository    *)
(* updates and lifecycle marks take in turn (fence).                       *)
(***************************************************************************)
EXTENDS Integers, FiniteSets

CONSTANTS
    Procs,       \* concurrent calls of the API replicas
    Repos,       \* repository uids
    System,      \* the repository "gitstore-system" of the namespace
    NameOf,      \* the name of a repository
    Items,       \* catalog resources
    Calls,       \* the calls of the workload
    MaxVersion,  \* bound on resource versions
    MaxEpoch,    \* bound on the epochs of the two fences
    MaxFaults    \* bound on lost replies, failed statements and crashes

None == "none"

ASSUME LifecycleAssumption ==
    /\ System \in Repos
    /\ None \notin Repos
    /\ IsFiniteSet(Procs)
    /\ Calls \subseteq {"create", "write", "delete", "update", "complete", "mark", "remove"}
    /\ MaxVersion \in Nat \ {0} /\ MaxEpoch \in Nat /\ MaxFaults \in Nat

Names == {NameOf[r] : r \in Repos}

VARIABLES
    ns,        \* namespaces_by_uid: the row with its repository fence
    fence,     \* namespace_catalog_fences_by_uid
    nsIndex,   \* the rows of namespaces_by_bucket and namespaces_by_name
    repo,      \* repositories_by_uid
    path,      \* namespace_mappings: the repository a name belongs to
    reverse,   \* namespace_mappings_by_repository
    listed,    \* repositories_by_namespace and repositories_by_bucket
    ready,     \* repository_catalog_projection_state.membership_ready
    tomb,      \* repository_catalog_projection_state.deleted
    item,      \* the authoritative catalog rows: the repository of a resource
    index,     \* resources_by_repository
    proc,      \* the call a process is in
    used,      \* repository uids that were handed out
    created,   \* repositories whose creation returned without an error
    unsettled, \* history: inserts whose answer was lost and that were given up
    faults

nsVars == <<ns, fence, nsIndex>>
repoVars == <<repo, path, reverse, listed, ready, tomb>>
itemVars == <<item, index>>
histVars == <<used, created, unsettled>>
vars == <<nsVars, repoVars, itemVars, proc, histVars, faults>>

NoRepo == [here |-> FALSE, rv |-> 0, deleting |-> FALSE, intent |-> FALSE]
NewRepo == [here |-> TRUE, rv |-> 1, deleting |-> FALSE, intent |-> FALSE]

\* A lifecycle fence: the deletion timestamp or a deletion intent in the status
Marked(x) == x.deleting \/ x.intent

Idle == [pc |-> "idle", call |-> None, r |-> System, i |-> None, mark |-> None, rv |-> 0,
         epoch |-> 0, seen |-> 0,
         own |-> {}, from |-> None, now |-> None, result |-> "ok"]

\* CreateNamespace has run, and its system repository has been provisioned.
Init ==
    /\ ns = [here |-> TRUE, rv |-> 1, deleting |-> FALSE, intent |-> FALSE,
             epoch |-> 0, pending |-> 0]
    /\ fence = [epoch |-> 0, pending |-> 0]
    /\ nsIndex = {"list", "name"}
    /\ repo = [r \in Repos |-> IF r = System THEN NewRepo ELSE NoRepo]
    /\ path = [n \in Names |-> IF n = NameOf[System] THEN System ELSE None]
    /\ reverse = {System} /\ listed = {System} /\ ready = {System} /\ tomb = {}
    /\ item = [i \in Items |-> None]
    /\ index = {}
    /\ proc = [p \in Procs |-> Idle]
    /\ used = {System} /\ created = {System} /\ unsettled = {}
    /\ faults = 0

Set(p, c) == proc' = [proc EXCEPT ![p] = c]
Goto(p, pc) == proc' = [proc EXCEPT ![p].pc = pc]
At(p, pc) == proc[p].pc = pc
Return(p) == Set(p, Idle)
Begins(p, call) == At(p, "idle") /\ call \in Calls

Answered == UNCHANGED faults
Fails == faults < MaxFaults /\ faults' = faults + 1

\* A write: answered, or failed with or without having been applied.
Write(applied, skipped, ok, failed) ==
    \/ applied /\ Answered /\ ok
    \/ (applied \/ skipped) /\ Fails /\ failed

Read(ok, failed) == (Answered /\ ok) \/ (Fails /\ failed)

\* A conditional write
Cas(condition, applied, skipped, ok, refused, failed) ==
    IF condition THEN Write(applied, skipped, ok, failed)
                 ELSE skipped /\ Read(refused, failed)

-----------------------------------------------------------------------------
(* CreateRepositoryInActiveNamespace                                       *)

\* The namespace is looked up; every creation has a new uid.
CreateRepository(p) ==
    /\ Begins(p, "create")
    /\ "name" \in nsIndex /\ ns.here /\ ~ Marked(ns)
    /\ \E r \in Repos \ used :
         /\ used' = used \cup {r}
         /\ Set(p, [Idle EXCEPT !.pc = "reserve", !.r = r])
    /\ UNCHANGED <<nsVars, repoVars, itemVars, created, unsettled, faults>>

\* reserveNamespaceRepository.  An unanswered reservation is kept for repair.
\* Giving up after too many lost races is one of the faults, here and in the release.
ReserveNamespaceRepository(p) ==
    /\ At(p, "reserve")
    /\ ns.epoch < MaxEpoch
    /\ Cas(ns.here /\ ~ Marked(ns),
           ns' = [ns EXCEPT !.epoch = @ + 1, !.pending = @ + 1], UNCHANGED ns,
           Goto(p, "tomb"), Return(p), Return(p))
    /\ UNCHANGED <<fence, nsIndex, repoVars, itemVars, histVars>>

\* createRepository refuses the uid of a repository whose deletion completed.
CreateCheckTomb(p) ==
    /\ At(p, "tomb")
    /\ Read(Goto(p, IF proc[p].r \in tomb THEN "release" ELSE "path"), Goto(p, "release"))
    /\ UNCHANGED <<nsVars, repoVars, itemVars, histVars>>

\* Mutant: the path is taken from whoever has it.
CreatePath_Upsert(p) ==
    LET r == proc[p].r IN
    /\ At(p, "path")
    /\ Write(path' = [path EXCEPT ![NameOf[r]] = r], UNCHANGED path,
             Set(p, [proc[p] EXCEPT !.pc = "row", !.own = {"path"}]), Goto(p, "release"))
    /\ UNCHANGED <<nsVars, repo, reverse, listed, ready, tomb, itemVars, histVars>>

\* reserveRepositoryPathOwned, INSERT ... IF NOT EXISTS
CreatePath(p) ==
    LET r == proc[p].r
        n == NameOf[r]
    IN  /\ At(p, "path")
        /\ Cas(path[n] = None, path' = [path EXCEPT ![n] = r], UNCHANGED path,
               Set(p, [proc[p] EXCEPT !.pc = "row", !.own = {"path"}]),
               Goto(p, IF path[n] = r THEN "row" ELSE "release"),
               Goto(p, "release"))
        /\ UNCHANGED <<nsVars, repo, reverse, listed, ready, tomb, itemVars, histVars>>

\* INSERT ... IF NOT EXISTS of the authoritative row.  Whatever the error was,
\* the path is released and the creation counts as failed.
CreateRow(p) ==
    LET r == proc[p].r
        undo == IF "path" \in proc[p].own THEN "undo" ELSE "release"
    IN  /\ At(p, "row")
        /\ Cas(~ repo[r].here, repo' = [repo EXCEPT ![r] = NewRepo], UNCHANGED repo,
               Goto(p, "reverse"), Goto(p, undo), Goto(p, undo))
        /\ unsettled' = IF repo'[r] # repo[r] /\ proc'[p].pc # "reverse"
                        THEN unsettled \cup {r} ELSE unsettled
        /\ UNCHANGED <<nsVars, path, reverse, listed, ready, tomb, itemVars, used, created>>

\* deleteRepositoryPath, DELETE ... IF repository_id: that somebody else owns
\* the path is an error, like a failed statement.
ReleasePath(p, ok, failed) ==
    LET r == proc[p].r
        n == NameOf[r]
    IN  Cas(path[n] = r, path' = [path EXCEPT ![n] = None], UNCHANGED path,
            ok, IF path[n] = None THEN ok ELSE failed, failed)

\* After a failed insert: a release that fails needs repair, and the
\* reservation is kept.
CreateUndoPath(p) ==
    /\ At(p, "undo")
    /\ ReleasePath(p, Goto(p, "release"), Return(p))
    /\ UNCHANGED <<nsVars, repo, reverse, listed, ready, tomb, itemVars, histVars>>

\* reserveRepositoryReverseMappingOwned
CreateReverse(p) ==
    LET r == proc[p].r IN
    /\ At(p, "reverse")
    /\ Write(reverse' = reverse \cup {r}, UNCHANGED reverse,
             Set(p, [proc[p] EXCEPT !.pc = "list",
                                    !.own = IF r \in reverse THEN @ ELSE @ \cup {"reverse"}]),
             Goto(p, "failRow"))
    /\ UNCHANGED <<nsVars, repo, path, listed, ready, tomb, itemVars, histVars>>

\* insertRepositoryProjections
CreateList(p) ==
    /\ At(p, "list")
    /\ Write(listed' = listed \cup {proc[p].r}, UNCHANGED listed,
             Goto(p, "ready"), Goto(p, "failRow"))
    /\ UNCHANGED <<nsVars, repo, path, reverse, ready, tomb, itemVars, histVars>>

\* The membership index of the new repository is complete: it is empty.
CreateReady(p) ==
    /\ At(p, "ready")
    /\ Write(ready' = ready \cup {proc[p].r}, UNCHANGED ready,
             Set(p, [proc[p] EXCEPT !.pc = "release", !.result = "done"]),
             Goto(p, "failRow"))
    /\ UNCHANGED <<nsVars, repo, path, reverse, listed, tomb, itemVars, histVars>>

\* failRepositoryCreate undoes what this call did, all of it whatever fails;
\* then a failure means repair, and the reservation is kept.
Repair(p, pc) == Set(p, [proc[p] EXCEPT !.pc = pc, !.result = "repair"])

FailRow(p) ==
    LET r == proc[p].r IN
    /\ At(p, "failRow")
    /\ Cas(repo[r].here /\ repo[r].rv = 1, repo' = [repo EXCEPT ![r] = NoRepo], UNCHANGED repo,
           Goto(p, "failReverse"), Repair(p, "failReverse"), Repair(p, "failReverse"))
    /\ UNCHANGED <<nsVars, path, reverse, listed, ready, tomb, itemVars, histVars>>

FailReverse(p) ==
    /\ At(p, "failReverse")
    /\ IF "reverse" \in proc[p].own
       THEN Write(reverse' = reverse \ {proc[p].r}, UNCHANGED reverse,
                  Goto(p, "failPath"), Repair(p, "failPath"))
       ELSE Goto(p, "failPath") /\ UNCHANGED <<reverse, faults>>
    /\ UNCHANGED <<nsVars, repo, path, listed, ready, tomb, itemVars, histVars>>

FailPath(p) ==
    LET done == IF proc[p].result = "repair" THEN Return(p) ELSE Goto(p, "release") IN
    /\ At(p, "failPath")
    /\ IF "path" \in proc[p].own
       THEN ReleasePath(p, done, Return(p))
       ELSE done /\ UNCHANGED <<path, faults>>
    /\ UNCHANGED <<nsVars, repo, reverse, listed, ready, tomb, itemVars, histVars>>

\* The creation returns; only without an error does the API go on to create the
\* git storage of the repository.
Returned(p) ==
    Return(p) /\ created' = IF proc[p].result = "done" THEN created \cup {proc[p].r} ELSE created

RepairNeeded(p) == Return(p) /\ UNCHANGED created

\* releaseNamespaceRepository: when it fails the counter needs repair.
ReleaseNamespaceRepository(p) ==
    /\ At(p, "release")
    /\ Cas(ns.here /\ ns.pending > 0, ns' = [ns EXCEPT !.pending = @ - 1], UNCHANGED ns,
           Returned(p), Returned(p), RepairNeeded(p))
    /\ UNCHANGED <<fence, nsIndex, repoVars, itemVars, used, unsettled>>

-----------------------------------------------------------------------------
(* withNamespaceCatalogFence: the lock the other calls run under           *)

\* The body of each call
Body(p) == [write |-> "parentNs", delete |-> "before", update |-> "repoRead",
            complete |-> "endRead", mark |-> "markRead"][proc[p].call]

\* Mutant: the update compares the epoch alone.
TakeFence_NoPending(p) ==
    /\ At(p, "take")
    /\ fence.epoch < MaxEpoch
    /\ Write(fence' = [epoch |-> fence.epoch + 1, pending |-> 1], UNCHANGED fence,
             Set(p, [proc[p] EXCEPT !.pc = "parent", !.epoch = fence.epoch + 1]), Return(p))
    /\ UNCHANGED <<ns, nsIndex, repoVars, itemVars, histVars>>

\* reserveNamespaceCatalog waits for the fence until its timeout.  A failed
\* update needs repair: it may have been applied.
TakeFence(p) ==
    /\ At(p, "take")
    /\ fence.epoch < MaxEpoch \/ fence.pending = 1
    /\ Cas(fence.pending = 0, fence' = [epoch |-> fence.epoch + 1, pending |-> 1], UNCHANGED fence,
           Set(p, [proc[p] EXCEPT !.pc = "parent", !.epoch = fence.epoch + 1]),
           Return(p), Return(p))
    /\ UNCHANGED <<ns, nsIndex, repoVars, itemVars, histVars>>

\* The namespace is read again under the fence.  While a repository is being
\* created the fence is given back and taken anew.
CheckParent(p) ==
    LET refused == ~ ns.here \/ (proc[p].call = "write" /\ Marked(ns)) IN
    /\ At(p, "parent")
    /\ Read(\/ refused /\ Goto(p, "give")
            \/ ~ refused /\ ns.pending = 0 /\ Goto(p, Body(p))
            \/ ~ refused /\ ns.pending > 0
               /\ Set(p, [proc[p] EXCEPT !.pc = "give", !.result = "again"]),
            Goto(p, "give"))
    /\ UNCHANGED <<nsVars, repoVars, itemVars, histVars>>

\* releaseNamespaceCatalog; a failed release needs repair
GiveFence(p) ==
    LET done == IF proc[p].result = "again"
                THEN Set(p, [proc[p] EXCEPT !.pc = "take", !.result = "ok"])
                ELSE Return(p)
    IN  /\ At(p, "give")
        /\ Cas(fence = [epoch |-> proc[p].epoch, pending |-> 1],
               fence' = [fence EXCEPT !.pending = 0], UNCHANGED fence, done, done, Return(p))
        /\ UNCHANGED <<ns, nsIndex, repoVars, itemVars, histVars>>

\* The end of a body: the fence is given back unless the call needs repair.
End(p) == IF proc[p].result = "repair" THEN Return(p) ELSE Goto(p, "give")

-----------------------------------------------------------------------------
(* catalogMutation: creating, updating and deleting a catalog resource     *)

\* Resources come from commits, so from repositories that have git storage.
WriteResource(p) ==
    /\ Begins(p, "write") /\ "name" \in nsIndex
    /\ \E r \in created, i \in Items :
         Set(p, [Idle EXCEPT !.pc = "take", !.call = "write", !.r = r, !.i = i])
    /\ UNCHANGED <<nsVars, repoVars, itemVars, histVars, faults>>

DeleteResource(p) ==
    /\ Begins(p, "delete") /\ "name" \in nsIndex
    /\ \E i \in Items :
         /\ item[i] # None
         /\ Set(p, [Idle EXCEPT !.pc = "take", !.call = "delete", !.r = item[i], !.i = i])
    /\ UNCHANGED <<nsVars, repoVars, itemVars, histVars, faults>>

\* catalogParentsActive
ParentNamespace(p) ==
    /\ At(p, "parentNs")
    /\ Read(Goto(p, IF "name" \in nsIndex /\ ns.here /\ ~ Marked(ns)
                    THEN "parentRepo" ELSE "give"),
            Goto(p, "give"))
    /\ UNCHANGED <<nsVars, repoVars, itemVars, histVars>>

\* Mutant: a repository that is being deleted still accepts resources.
ParentRepository_Present(p) ==
    /\ At(p, "parentRepo")
    /\ Read(Goto(p, IF repo[proc[p].r].here THEN "before" ELSE "give"), Goto(p, "give"))
    /\ UNCHANGED <<nsVars, repoVars, itemVars, histVars>>

ParentRepository(p) ==
    LET r == repo[proc[p].r] IN
    /\ At(p, "parentRepo")
    /\ Read(Goto(p, IF r.here /\ ~ Marked(r) THEN "before" ELSE "give"), Goto(p, "give"))
    /\ UNCHANGED <<nsVars, repoVars, itemVars, histVars>>

ReadBefore(p) ==
    /\ At(p, "before")
    /\ Read(Set(p, [proc[p] EXCEPT !.from = item[proc[p].i],
                                   !.pc = IF proc[p].call = "write" THEN "index" ELSE "operate"]),
            Goto(p, "give"))
    /\ UNCHANGED <<nsVars, repoVars, itemVars, histVars>>

\* Mutant: the index entry is left to the step behind the write.
IndexFirst_Later(p) ==
    /\ At(p, "index") /\ Goto(p, "operate")
    /\ UNCHANGED <<nsVars, repoVars, itemVars, histVars, faults>>

\* The conservative index entry, before the authoritative write
IndexFirst(p) ==
    /\ At(p, "index")
    /\ Write(index' = index \cup {<<proc[p].r, proc[p].i>>}, UNCHANGED index,
             Goto(p, "operate"), Goto(p, "give"))
    /\ UNCHANGED <<nsVars, repoVars, item, histVars>>

\* The operation on the rows of the resource, of which only the authoritative
\* one is modelled: done, refused (the version, the name), or failed with or
\* without effect and with or without need of repair.
Operate(p) ==
    LET done == item' = [item EXCEPT ![proc[p].i] =
                           IF proc[p].call = "write" THEN proc[p].r ELSE None]
    IN  /\ At(p, "operate")
        /\ \/ (done \/ UNCHANGED item) /\ Answered /\ Goto(p, "readBack")
           \/ (done \/ UNCHANGED item) /\ Fails /\ (Goto(p, "readBack") \/ Repair(p, "readBack"))
        /\ UNCHANGED <<nsVars, repoVars, index, histVars>>

ReadBack(p) ==
    /\ At(p, "readBack")
    /\ Read(Set(p, [proc[p] EXCEPT !.pc = "fixIndex", !.now = item[proc[p].i]]), End(p))
    /\ UNCHANGED <<nsVars, repoVars, itemVars, histVars>>

\* The entry follows the row that was read back; then the entry of the
\* repository the resource was in before.
FixIndex(p) ==
    LET c == proc[p] IN
    /\ At(p, "fixIndex")
    /\ Write(index' = IF c.now = c.r THEN index \cup {<<c.r, c.i>>} ELSE index \ {<<c.r, c.i>>},
             UNCHANGED index,
             IF c.from \notin {None, c.now} THEN Goto(p, "unindex") ELSE End(p), End(p))
    /\ UNCHANGED <<nsVars, repoVars, item, histVars>>

Unindex(p) ==
    /\ At(p, "unindex")
    /\ Write(index' = index \ {<<proc[p].from, proc[p].i>>}, UNCHANGED index, End(p), End(p))
    /\ UNCHANGED <<nsVars, repoVars, item, histVars>>

-----------------------------------------------------------------------------
(* UpdateRepository                                                        *)

\* The status of a repository is patched, or it is marked for deletion.
Mark(x, mark) == [x EXCEPT !.rv = @ + 1, !.intent = @ \/ mark = "intent",
                           !.deleting = @ \/ mark = "deletion"]

Visible(r) == repo[r].here /\ (r \in listed \/ path[NameOf[r]] = r)

UpdateRepository(p) ==
    /\ Begins(p, "update") /\ "name" \in nsIndex
    /\ \E r \in Repos, m \in {None, "intent", "deletion"} :
         /\ Visible(r) /\ repo[r].rv < MaxVersion
         /\ Set(p, [Idle EXCEPT !.pc = "take", !.call = "update", !.r = r, !.mark = m,
                                !.rv = repo[r].rv])
    /\ UNCHANGED <<nsVars, repoVars, itemVars, histVars, faults>>

\* HasCatalogResources fails while the membership index is not complete.
HasNoResources(r) == r \in ready /\ \A i \in Items : <<r, i>> \notin index

Unchanged(r, p) == repo[r].here /\ repo[r].rv = proc[p].rv

RepositoryRead(p) ==
    LET r == proc[p].r IN
    /\ At(p, "repoRead")
    /\ Read(Goto(p, IF ~ Unchanged(r, p) THEN "give"
                    ELSE IF proc[p].mark # None /\ ~ Marked(repo[r]) THEN "repoEmpty"
                    ELSE "repoWrite"),
            Goto(p, "give"))
    /\ UNCHANGED <<nsVars, repoVars, itemVars, histVars>>

RepositoryEmpty(p) ==
    /\ At(p, "repoEmpty")
    /\ Read(Goto(p, IF HasNoResources(proc[p].r) THEN "repoWrite" ELSE "give"), Goto(p, "give"))
    /\ UNCHANGED <<nsVars, repoVars, itemVars, histVars>>

RepositoryWrite(p) ==
    LET r == proc[p].r IN
    /\ At(p, "repoWrite")
    /\ Cas(Unchanged(r, p), repo' = [repo EXCEPT ![r] = Mark(@, proc[p].mark)], UNCHANGED repo,
           Goto(p, "give"), Goto(p, "give"), Goto(p, "give"))
    /\ UNCHANGED <<nsVars, path, reverse, listed, ready, tomb, itemVars, histVars>>

-----------------------------------------------------------------------------
(* CompleteRepositoryDeletion                                              *)

CompleteRepositoryDeletion(p) ==
    /\ Begins(p, "complete") /\ "name" \in nsIndex
    /\ \E r \in Repos :
         /\ Visible(r) /\ repo[r].deleting
         /\ Set(p, [Idle EXCEPT !.pc = "take", !.call = "complete", !.r = r, !.rv = repo[r].rv])
    /\ UNCHANGED <<nsVars, repoVars, itemVars, histVars, faults>>

EndRead(p) ==
    LET r == proc[p].r IN
    /\ At(p, "endRead")
    /\ Read(Goto(p, IF Unchanged(r, p) /\ repo[r].deleting THEN "endEmpty" ELSE "give"),
            Goto(p, "give"))
    /\ UNCHANGED <<nsVars, repoVars, itemVars, histVars>>

EndEmpty(p) ==
    /\ At(p, "endEmpty")
    /\ Read(Goto(p, IF HasNoResources(proc[p].r) THEN "endPath" ELSE "give"), Goto(p, "give"))
    /\ UNCHANGED <<nsVars, repoVars, itemVars, histVars>>

\* The projections are deleted, all of them whatever fails; after a failure
\* they are restored.
Failed(p, pc) == Set(p, [proc[p] EXCEPT !.pc = pc, !.result = "failed"])

EndPath(p) ==
    LET r == proc[p].r
        n == NameOf[r]
    IN  /\ At(p, "endPath")
        /\ Cas(path[n] = r, path' = [path EXCEPT ![n] = None], UNCHANGED path,
               Goto(p, "endReverse"), Goto(p, "endReverse"), Failed(p, "endReverse"))
        /\ UNCHANGED <<nsVars, repo, reverse, listed, ready, tomb, itemVars, histVars>>

EndReverse(p) ==
    /\ At(p, "endReverse")
    /\ Write(reverse' = reverse \ {proc[p].r}, UNCHANGED reverse,
             Goto(p, "endList"), Failed(p, "endList"))
    /\ UNCHANGED <<nsVars, repo, path, listed, ready, tomb, itemVars, histVars>>

EndList(p) ==
    /\ At(p, "endList")
    /\ Write(listed' = listed \ {proc[p].r}, UNCHANGED listed,
             Goto(p, IF proc[p].result = "failed" THEN "backPath" ELSE "endTomb"),
             Goto(p, "backPath"))
    /\ UNCHANGED <<nsVars, repo, path, reverse, ready, tomb, itemVars, histVars>>

EndTomb(p) ==
    /\ At(p, "endTomb")
    /\ Write(tomb' = tomb \cup {proc[p].r} /\ ready' = ready \cup {proc[p].r},
             UNCHANGED <<tomb, ready>>, Goto(p, "endRow"), Goto(p, "backPath"))
    /\ UNCHANGED <<nsVars, repo, path, reverse, listed, itemVars, histVars>>

EndRow(p) ==
    LET r == proc[p].r IN
    /\ At(p, "endRow")
    /\ Cas(Unchanged(r, p), repo' = [repo EXCEPT ![r] = NoRepo], UNCHANGED repo,
           Goto(p, "give"), Goto(p, "endConfirm"), Goto(p, "endConfirm"))
    /\ UNCHANGED <<nsVars, path, reverse, listed, ready, tomb, itemVars, histVars>>

\* The row is read before anything is restored; not knowing needs repair.
EndConfirm(p) ==
    /\ At(p, "endConfirm")
    /\ Read(Goto(p, IF repo[proc[p].r].here THEN "backPath" ELSE "give"), Return(p))
    /\ UNCHANGED <<nsVars, repoVars, itemVars, histVars>>

BackPath(p) ==
    LET r == proc[p].r
        n == NameOf[r]
    IN  /\ At(p, "backPath")
        /\ Cas(path[n] \in {r, None}, path' = [path EXCEPT ![n] = r], UNCHANGED path,
               Goto(p, "backReverse"), Repair(p, "backReverse"), Repair(p, "backReverse"))
        /\ UNCHANGED <<nsVars, repo, reverse, listed, ready, tomb, itemVars, histVars>>

BackReverse(p) ==
    /\ At(p, "backReverse")
    /\ Write(reverse' = reverse \cup {proc[p].r}, UNCHANGED reverse,
             Goto(p, "backList"), Repair(p, "backList"))
    /\ UNCHANGED <<nsVars, repo, path, listed, ready, tomb, itemVars, histVars>>

BackList(p) ==
    /\ At(p, "backList")
    /\ Write(listed' = listed \cup {proc[p].r}, UNCHANGED listed, End(p), Return(p))
    /\ UNCHANGED <<nsVars, repo, path, reverse, ready, tomb, itemVars, histVars>>

-----------------------------------------------------------------------------
(* UpdateNamespace and MarkNamespaceDeletion                               *)

\* An update that sets no new mark is one conditional write.  A deletion
\* timestamp may follow an intent this way.
UpdateNamespace ==
    /\ ns.here /\ ns.rv < MaxVersion
    /\ \E m \in IF Marked(ns) THEN {None, "deletion"} ELSE {None} : ns' = Mark(ns, m)
    /\ UNCHANGED <<fence, nsIndex, repoVars, itemVars, proc, histVars, faults>>

\* markNamespaceLifecycle: a namespace with anything in flight is not empty.
MarkNamespace(p) ==
    /\ Begins(p, "mark") /\ "name" \in nsIndex
    /\ ns.here /\ ns.pending = 0 /\ fence.pending = 0 /\ ns.rv < MaxVersion
    /\ \E m \in {"intent", "deletion"} :
         Set(p, [Idle EXCEPT !.pc = "take", !.call = "mark", !.mark = m, !.rv = ns.rv])
    /\ UNCHANGED <<nsVars, repoVars, itemVars, histVars, faults>>

MarkRead(p) ==
    /\ At(p, "markRead")
    /\ Read(IF ns.here /\ ns.rv = proc[p].rv /\ ~ ns.deleting /\ ns.pending = 0
            THEN Set(p, [proc[p] EXCEPT !.pc = "markList", !.seen = ns.epoch])
            ELSE Goto(p, "give"),
            Goto(p, "give"))
    /\ UNCHANGED <<nsVars, repoVars, itemVars, histVars>>

\* A listing skips the entries that have no authoritative row.
Listing == {r \in listed : repo[r].here}

\* NamespaceDeletionBlocked: only an empty system repository may remain.
MarkList(p) ==
    /\ At(p, "markList")
    /\ Read(Goto(p, CASE Listing = {} -> "markWrite"
                      [] Listing = {System} -> "markEmpty"
                      [] OTHER -> "give"),
            Goto(p, "give"))
    /\ UNCHANGED <<nsVars, repoVars, itemVars, histVars>>

MarkEmpty(p) ==
    /\ At(p, "markEmpty")
    /\ Read(Goto(p, IF HasNoResources(System) THEN "markWrite" ELSE "give"), Goto(p, "give"))
    /\ UNCHANGED <<nsVars, repoVars, itemVars, histVars>>

\* Mutant: like any other update, the mark compares the version alone.
MarkWrite_VersionOnly(p) ==
    /\ At(p, "markWrite")
    /\ Cas(ns.here /\ ns.rv = proc[p].rv, ns' = Mark(ns, proc[p].mark), UNCHANGED ns,
           Goto(p, "give"), Goto(p, "give"), Goto(p, "give"))
    /\ UNCHANGED <<fence, nsIndex, repoVars, itemVars, histVars>>

\* Mutant: the mark does not compare the epoch of the creations.
MarkWrite_NoEpoch(p) ==
    /\ At(p, "markWrite")
    /\ Cas(ns.here /\ ns.rv = proc[p].rv /\ ns.pending = 0 /\ ~ ns.deleting,
           ns' = Mark(ns, proc[p].mark), UNCHANGED ns,
           Goto(p, "give"), Goto(p, "give"), Goto(p, "give"))
    /\ UNCHANGED <<fence, nsIndex, repoVars, itemVars, histVars>>

MarkWrite(p) ==
    /\ At(p, "markWrite")
    /\ Cas(/\ ns.here /\ ns.rv = proc[p].rv /\ ns.epoch = proc[p].seen
           /\ ns.pending = 0 /\ ~ ns.deleting,
           ns' = Mark(ns, proc[p].mark), UNCHANGED ns,
           Goto(p, "give"), Goto(p, "give"), Goto(p, "give"))
    /\ UNCHANGED <<fence, nsIndex, repoVars, itemVars, histVars>>

-----------------------------------------------------------------------------
(* DeleteNamespaceWithResourceVersion, which takes no fence                *)

\* The caller has found no system repository by its path.
DeleteNamespace(p) ==
    /\ Begins(p, "remove") /\ "name" \in nsIndex /\ path[NameOf[System]] = None
    /\ ns.here /\ ns.deleting
    /\ Set(p, [Idle EXCEPT !.pc = "nsEmpty", !.call = "remove", !.rv = ns.rv])
    /\ UNCHANGED <<nsVars, repoVars, itemVars, histVars, faults>>

NamespaceEmpty(p) ==
    /\ At(p, "nsEmpty")
    /\ Read(IF Listing = {} THEN Goto(p, "nsList") ELSE Return(p), Return(p))
    /\ UNCHANGED <<nsVars, repoVars, itemVars, histVars>>

\* deleteNamespaceIndexesAndConfirm: what counts is what is read afterwards.
DropIndex(p, at, row, next) ==
    /\ At(p, at)
    /\ Write(nsIndex' = nsIndex \ {row}, UNCHANGED nsIndex, Goto(p, next), Goto(p, next))
    /\ UNCHANGED <<ns, fence, repoVars, itemVars, histVars>>

NamespaceList(p) == DropIndex(p, "nsList", "list", "nsName")
NamespaceName(p) == DropIndex(p, "nsName", "name", "nsConfirm")

NamespaceConfirm(p) ==
    /\ At(p, "nsConfirm")
    /\ Read(Goto(p, IF nsIndex = {} THEN "nsRow" ELSE "backNsList"), Goto(p, "backNsList"))
    /\ UNCHANGED <<nsVars, repoVars, itemVars, histVars>>

NamespaceRow(p) ==
    /\ At(p, "nsRow")
    /\ Cas(ns.here /\ ns.rv = proc[p].rv, ns' = [ns EXCEPT !.here = FALSE], UNCHANGED ns,
           Return(p), Goto(p, "backNsList"), Goto(p, "nsResolve"))
    /\ UNCHANGED <<fence, nsIndex, repoVars, itemVars, histVars>>

\* resolveNamespaceDeleteCommit
NamespaceResolve(p) ==
    /\ At(p, "nsResolve")
    /\ Read(IF ns.here THEN Goto(p, "backNsList") ELSE Return(p), Return(p))
    /\ UNCHANGED <<nsVars, repoVars, itemVars, histVars>>

RestoreIndex(p, at, row, next) ==
    /\ At(p, at)
    /\ Write(nsIndex' = nsIndex \cup {row}, UNCHANGED nsIndex, next, next)
    /\ UNCHANGED <<ns, fence, repoVars, itemVars, histVars>>

BackNamespaceList(p) == RestoreIndex(p, "backNsList", "list", Goto(p, "backNsName"))
BackNamespaceName(p) == RestoreIndex(p, "backNsName", "name", Return(p))

-----------------------------------------------------------------------------
\* A process dies: what it had reserved stays reserved.
Crash(p) ==
    /\ ~ At(p, "idle")
    /\ Fails /\ Return(p)
    /\ UNCHANGED <<nsVars, repoVars, itemVars, histVars>>

CreateStep(p) ==
    \/ CreateRepository(p) \/ ReserveNamespaceRepository(p) \/ CreateCheckTomb(p)
    \/ CreatePath(p) \/ CreateRow(p) \/ CreateUndoPath(p) \/ CreateReverse(p)
    \/ CreateList(p) \/ CreateReady(p) \/ FailRow(p) \/ FailReverse(p) \/ FailPath(p)
    \/ ReleaseNamespaceRepository(p)

FenceStep(p) == TakeFence(p) \/ CheckParent(p) \/ GiveFence(p)

ResourceStep(p) ==
    \/ WriteResource(p) \/ DeleteResource(p) \/ ParentNamespace(p) \/ ParentRepository(p)
    \/ ReadBefore(p) \/ IndexFirst(p) \/ Operate(p) \/ ReadBack(p) \/ FixIndex(p) \/ Unindex(p)

RepositoryStep(p) ==
    \/ UpdateRepository(p) \/ RepositoryRead(p) \/ RepositoryEmpty(p) \/ RepositoryWrite(p)
    \/ CompleteRepositoryDeletion(p) \/ EndRead(p) \/ EndEmpty(p) \/ EndPath(p)
    \/ EndReverse(p) \/ EndList(p) \/ EndTomb(p) \/ EndRow(p) \/ EndConfirm(p)
    \/ BackPath(p) \/ BackReverse(p) \/ BackList(p)

NamespaceStep(p) ==
    \/ MarkNamespace(p) \/ MarkRead(p) \/ MarkList(p) \/ MarkEmpty(p) \/ MarkWrite(p)
    \/ DeleteNamespace(p) \/ NamespaceEmpty(p) \/ NamespaceList(p) \/ NamespaceName(p)
    \/ NamespaceConfirm(p) \/ NamespaceRow(p) \/ NamespaceResolve(p)
    \/ BackNamespaceList(p) \/ BackNamespaceName(p)

Next ==
    \/ UpdateNamespace
    \/ \E p \in Procs :
         \/ CreateStep(p) \/ FenceStep(p) \/ ResourceStep(p)
         \/ RepositoryStep(p) \/ NamespaceStep(p) \/ Crash(p)

Spec == Init /\ [][Next]_vars

-----------------------------------------------------------------------------
\* The processes that have reserved a creation, and those that hold the fence
Creating == {p \in Procs : proc[p].pc \in {"tomb", "path", "row", "undo", "reverse", "list",
                                           "ready", "failRow", "failReverse", "failPath",
                                           "release"}}

InBody == {"parent", "give", "parentNs", "parentRepo", "before", "index", "operate", "readBack",
           "fixIndex", "unindex", "repoRead", "repoEmpty", "repoWrite", "endRead", "endEmpty",
           "endPath", "endReverse", "endList", "endTomb", "endRow", "endConfirm", "backPath",
           "backReverse", "backList", "markRead", "markList", "markEmpty", "markWrite"}

Holders == {p \in Procs : proc[p].pc \in InBody}

\* The rows keep their types; the fence is free or taken once
\* (readNamespaceCatalogFence reports any other value as damage).
TypeOK ==
    /\ ns \in [here : BOOLEAN, rv : 1..MaxVersion, deleting : BOOLEAN, intent : BOOLEAN,
               epoch : 0..MaxEpoch, pending : 0..MaxEpoch]
    /\ fence \in [epoch : 0..MaxEpoch, pending : 0..1]
    /\ nsIndex \subseteq {"list", "name"}
    /\ repo \in [Repos -> [here : BOOLEAN, rv : 0..MaxVersion,
                           deleting : BOOLEAN, intent : BOOLEAN]]
    /\ path \in [Names -> Repos \cup {None}]
    /\ reverse \subseteq Repos /\ listed \subseteq Repos
    /\ ready \subseteq Repos /\ tomb \subseteq Repos
    /\ item \in [Items -> Repos \cup {None}]
    /\ index \subseteq Repos \X Items
    /\ used \subseteq Repos /\ created \subseteq Repos /\ unsettled \subseteq Repos
    /\ faults \in 0..MaxFaults

\* The lock of reserveNamespaceCatalog and releaseNamespaceCatalog excludes:
\* whatever replies are lost and whoever dies, at most one process is between
\* the two, and the row carries its epoch.
FenceExclusive ==
    \A p \in Holders : /\ fence = [epoch |-> proc[p].epoch, pending |-> 1]
                       /\ \A q \in Holders : q = p

\* Every creation in flight is counted in pending_repository_creations, and
\* without failures nothing else is; a namespace with a creation in flight is
\* there and carries no deletion mark (reserveNamespaceRepository against
\* markNamespaceLifecycleFenced).
PendingCovers ==
    /\ Cardinality(Creating) <= ns.pending
    /\ faults = 0 => Cardinality(Creating) = ns.pending
    /\ ns.pending > 0 => ns.here /\ ~ Marked(ns)

\* A namespace that is marked for deletion or gone has no repository of a user
\* (the epoch and the counter in the mark of markNamespaceLifecycleFenced), and
\* its system repository does not outlive it unless that is being deleted.
\* Excepted are the rows of inserts that createRepository took for failed.
NoOrphanRepository ==
    /\ Marked(ns) => \A r \in Repos \ {System} : repo[r].here => r \in unsettled
    /\ ~ ns.here /\ repo[System].here => repo[System].deleting

\* A catalog resource is in a repository and a namespace that are there and
\* not marked for deletion: catalogMutation admits it, and updateRepository and
\* markNamespaceLifecycle set their marks, under the same fence.
NoOrphanItem ==
    \A i \in Items : item[i] # None => /\ ns.here /\ ~ Marked(ns)
                                       /\ repo[item[i]].here /\ ~ Marked(repo[item[i]])

\* "Failure may leave a blocker, never an invisible admitted child"
\* (catalogMutation): every resource is in the index of its repository.
IndexCovers == \A i \in Items : item[i] # None => <<item[i], i>> \in index

\* A repository whose creation succeeded and that nobody deletes is found by
\* its name, by its uid and in the listings (createRepository and the
\* compensations of failRepositoryCreate and completeRepositoryDeletion).
Reachable ==
    \A r \in created : repo[r].here /\ ~ Marked(repo[r])
                         => path[NameOf[r]] = r /\ r \in reverse \cap listed \cap ready
=============================================================================
