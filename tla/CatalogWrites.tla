--------------------------- MODULE CatalogWrites ---------------------------
(***************************************************************************)
(* How the Scylla datastore writes a catalog resource                      *)
(* (gitstore-api/internal/datastore/scylla/backend.go, recovery.go and     *)
(* category_ancestor_index.go).  A resource is one authoritative row and   *)
(* the lookup rows that lead to it, each in a table of its own, and there  *)
(* are no transactions over several tables: a call is a chain of           *)
(* statements that a mutationExecutor runs, undoes or rolls forward.       *)
(*                                                                         *)
(* Creations, updates and deletions run one at a time, under the catalog   *)
(* fence of the namespace (LifecycleFences models the fence).  A call that *)
(* needs repair, or dies, leaves the fence taken until an operator repairs *)
(* the namespace, which is not modelled.  Status writes take no fence.     *)
(*                                                                         *)
(* A statement is one step.  A write of the ancestor index is a read and a *)
(* statement that compares the version it returned, but not the uid; other *)
(* steps come in between.  Losing that race too often is one of the        *)
(* faults.                                                                 *)
(***************************************************************************)
EXTENDS Integers, Sequences, SequencesExt

CONSTANTS
    Uids,     \* the uids the API hands out, one for each creation
    NameOf,   \* the name a creation asks for
    Skus,     \* ProductVariant.SKU
    Refs,     \* ProductVariant.ProductRefName
    Paths,    \* root-to-self paths the controller resolves for a category
    Writers,  \* concurrent status writes
    Loads     \* the workloads, see the assumption

NoUid == 0
None == ""

KindNames == {"Product", "CategoryTaxonomy", "Collection", "ProductVariant"}

ASSUME CatalogAssumption ==
    /\ Uids \subseteq Nat \ {NoUid}
    /\ None \notin Skus /\ None \notin Refs
    /\ Loads \subseteq [kind : KindNames, uids : SUBSET Uids,
                        calls : Nat,              \* bound on creations, updates and deletions
                        version : [Uids -> Nat],  \* bound on resource versions
                        faults : Nat]             \* bound on failures

VARIABLES
    load,      \* the workload, one of Loads
    row,       \* the authoritative rows
    lookup,    \* the lookup rows: the uid each one holds
    index,     \* category_ancestor_index
    fence,     \* the catalog fence of the namespace: free, held, or left for repair
    call,      \* the call that holds the fence
    stale,     \* the resource a deletion has read before it takes the fence
    writer,    \* the status writes in flight
    used,      \* uids handed out
    calls,     \* calls so far
    faults,    \* failures so far
    doubt,     \* history: uids of statements that were applied but answered with an error,
               \* and of categories whose removal was undone after they were gone
    astray,    \* history: uids whose index rows a failure or a removal left behind, or a
               \* status write of another uid took
    forgotten  \* history: the index rows an update has made the category forget

tables == <<row, lookup, index>>
history == <<doubt, astray, forgotten>>
vars == <<load, tables, fence, call, stale, writer, used, calls, faults, history>>

\* Lookup rows, each with its primary key: by name, by uid, the listing, by sku,
\* by product reference, the owner references and the category memberships, which
\* the reconciler of products writes and only a deletion touches here
NameRow(u) == <<"name", NameOf[u]>>
UidRow(u) == <<"uid", u>>
ListRow(u) == <<"list", u>>
SkuRow(s) == <<"sku", s>>
RefRow(r, u) == <<"ref", r, u>>
OwnRow(u) == <<"own", u>>
MemberRow(u) == <<"member", u>>

LookupRows ==
    UNION {{NameRow(u), UidRow(u), ListRow(u), OwnRow(u), MemberRow(u)} : u \in Uids}
      \cup {SkuRow(s) : s \in Skus} \cup {RefRow(r, u) : r \in Refs, u \in Uids}

\* CategoryAncestorRows: the index rows of a path, from the root to itself.  The
\* key also has the name of the category: those of a workload share one.
AncestorRows(path) == [i \in 1..Len(path) |-> <<path[i], Len(path) - i>>]

IndexRows == UNION {ToSet(AncestorRows(p)) : p \in Paths}

NoRow == [rv |-> 0, sku |-> None, ref |-> None, path |-> <<>>, term |-> FALSE]
NoEntry == [uid |-> NoUid, rv |-> 0]
Unread == [uid |-> NoUid, rv |-> -1]

\* The rows a resource has when its authoritative row is x
Owned(u, x) ==
    {NameRow(u), UidRow(u), OwnRow(u)}
      \cup (IF load.kind = "Product" THEN {ListRow(u)} ELSE {})
      \cup {SkuRow(s) : s \in {x.sku} \ {None}}
      \cup {RefRow(r, u) : r \in {x.ref} \ {None}}

NoCall == [uid |-> NoUid, old |-> NoRow, new |-> NoRow, mode |-> "none", todo |-> <<>>,
           undo |-> <<>>, made |-> {}, tries |-> 0, stuck |-> FALSE, seen |-> Unread]

NoWrite == [pc |-> "idle", uid |-> NoUid, rv |-> 0, path |-> <<>>, gone |-> <<>>,
            at |-> 0, todo |-> <<>>, tries |-> 0, seen |-> Unread]

Init ==
    /\ load \in Loads
    /\ row = [u \in Uids |-> NoRow]
    /\ lookup = [r \in LookupRows |-> NoUid]
    /\ index = [k \in IndexRows |-> NoEntry]
    /\ fence = "free" /\ call = NoCall /\ stale = NoCall
    /\ writer = [w \in Writers |-> NoWrite]
    /\ used = {} /\ calls = 0 /\ faults = 0
    /\ doubt = {} /\ astray = {} /\ forgotten = [u \in Uids |-> {}]

Fault == faults < load.faults /\ faults' = faults + 1
NoFault == UNCHANGED faults

-----------------------------------------------------------------------------
(* The steps of a chain                                                    *)

Reserve(r) == [do |-> "reserve", row |-> r, needs |-> {}]
Release(r) == [do |-> "release", row |-> r, needs |-> {}]
Authoritative == [do |-> "row", row |-> None, needs |-> {}]

\* "new sku reservation has not converged": the old row goes after the new one
ReleaseAfter(r, new) == [do |-> "release", row |-> r, needs |-> new]

When(condition, steps) == IF condition THEN steps ELSE <<>>

\* Mutant: an unconditional DELETE
ReleaseOwned_Any(r, u) == [lookup EXCEPT ![r] = NoUid]

\* releaseOwned, DELETE ... IF uid
ReleaseOwned(r, u) == IF lookup[r] = u THEN [lookup EXCEPT ![r] = NoUid] ELSE lookup

\* What upsertCategoryAncestorRow writes, unless it has read a row of the same
\* uid that is no older
Upsert(k, u, rv) == [index EXCEPT ![k] = [uid |-> u, rv |-> rv]]
UpToDate(seen, u, rv) == seen.uid = u /\ seen.rv >= rv

\* What deleteObsoleteCategoryAncestorRow deletes, unless it has read no row, one
\* of another uid or one that is no older
DeleteObsolete(k) == [index EXCEPT ![k] = NoEntry]
Kept(seen, u, rv) == seen.uid # u \/ seen.rv >= rv

\* The condition of both: IF NOT EXISTS after no row, else IF resource_version
SameVersion(k, seen) == index[k].rv = seen.rv

\* reserveOwnedColumn, INSERT ... IF NOT EXISTS: somebody else's row is refused.
\* insertAuthoritative meets a uid that is new.  The authoritative updates and
\* deletions compare the version the call has read.
Accepts(s, c) ==
    CASE s.do = "reserve" -> lookup[s.row] \in {NoUid, c.uid}
      [] s.do = "release" -> s.needs \subseteq c.made
      [] s.do = "row" -> row[c.uid].rv = c.old.rv
      [] s.do = "remove" -> row[c.uid].rv = c.new.rv
      [] s.do = "reindex" -> SameVersion(s.row, c.seen)
      [] OTHER -> TRUE

\* What an accepted step does to the tables
Takes(s, c) ==
    /\ lookup' = CASE s.do = "reserve" -> [lookup EXCEPT ![s.row] = c.uid]
                   [] s.do = "release" -> ReleaseOwned(s.row, c.uid)
                   [] OTHER -> lookup
    /\ row' = CASE s.do = "row" -> [row EXCEPT ![c.uid] = c.new]
                [] s.do = "remove" -> [row EXCEPT ![c.uid] = NoRow]
                [] OTHER -> row
    /\ index' = CASE s.do = "unindex" /\ index[s.row].uid = c.uid ->
                     [index EXCEPT ![s.row] = NoEntry]
                  [] s.do = "reindex" -> Upsert(s.row, c.uid, c.old.rv)
                  [] OTHER -> index

-----------------------------------------------------------------------------
(* The chains of each kind, for a resource u that is to have the row x     *)

CreateProduct(u, x) ==
    <<Reserve(NameRow(u)), Reserve(UidRow(u)), Reserve(ListRow(u)), Authoritative,
      Reserve(OwnRow(u))>>

CreateCategoryTaxonomy(u, x) ==
    <<Reserve(NameRow(u)), Reserve(UidRow(u)), Authoritative, Reserve(OwnRow(u))>>

CreateCollection(u, x) ==
    <<Reserve(NameRow(u)), Reserve(UidRow(u)), Authoritative, Reserve(OwnRow(u))>>

CreateProductVariant(u, x) ==
    <<Reserve(NameRow(u)), Reserve(UidRow(u))>>
      \o When(x.sku # None, <<Reserve(SkuRow(x.sku))>>)
      \o <<Authoritative>>
      \o When(x.ref # None, <<Reserve(RefRow(x.ref, u))>>)
      \o <<Reserve(OwnRow(u))>>

Create(u, x) == CASE load.kind = "Product" -> CreateProduct(u, x)
                  [] load.kind = "CategoryTaxonomy" -> CreateCategoryTaxonomy(u, x)
                  [] load.kind = "Collection" -> CreateCollection(u, x)
                  [] load.kind = "ProductVariant" -> CreateProductVariant(u, x)

\* The projections of an update; the authoritative row has been written.
UpdateProduct(u, o, x) ==
    <<Reserve(NameRow(u)), Reserve(UidRow(u)), Reserve(ListRow(u)), Reserve(OwnRow(u))>>

UpdateCategoryTaxonomy(u, o, x) ==
    <<Reserve(NameRow(u)), Reserve(UidRow(u)), Reserve(OwnRow(u))>>

UpdateCollection(u, o, x) ==
    <<Reserve(NameRow(u)), Reserve(UidRow(u)), Reserve(OwnRow(u))>>

UpdateProductVariant(u, o, x) ==
    LET newSku == {SkuRow(s) : s \in {x.sku} \ {None}}
        newRef == {RefRow(r, u) : r \in {x.ref} \ {None}}
    IN  <<Reserve(NameRow(u)), Reserve(UidRow(u))>>
          \o When(x.sku # None, <<Reserve(SkuRow(x.sku))>>)
          \o When(o.sku \notin {None, x.sku}, <<ReleaseAfter(SkuRow(o.sku), newSku)>>)
          \o When(x.ref # None, <<Reserve(RefRow(x.ref, u))>>)
          \o When(o.ref \notin {None, x.ref}, <<ReleaseAfter(RefRow(o.ref, u), newRef)>>)
          \o <<Reserve(OwnRow(u))>>

Update(u, o, x) == CASE load.kind = "Product" -> UpdateProduct(u, o, x)
                     [] load.kind = "CategoryTaxonomy" -> UpdateCategoryTaxonomy(u, o, x)
                     [] load.kind = "Collection" -> UpdateCollection(u, o, x)
                     [] load.kind = "ProductVariant" -> UpdateProductVariant(u, o, x)

\* removeCategoryAncestorRows, which only a later step's failure undoes
Unindex(path) ==
    LET keys == AncestorRows(path)
    IN  [i \in 1..Len(keys) |-> [do |-> "unindex", row |-> keys[i], needs |-> {},
                                 restores |-> IF i = Len(keys) THEN keys ELSE <<>>]]

\* The authoritative row goes first, except for a category.  The forms without
\* a resource version, which delete it last, have no caller.
DeleteProduct(u, o) ==
    <<Release(ListRow(u)), Release(MemberRow(u)), Release(OwnRow(u)), Release(NameRow(u)),
      Release(UidRow(u))>>

DeleteCategoryTaxonomy(u, o) ==
    <<Release(OwnRow(u))>> \o Unindex(o.path)
      \o <<Release(NameRow(u)), Release(UidRow(u)), Authoritative>>

DeleteCollection(u, o) ==
    <<Release(OwnRow(u)), Release(NameRow(u)), Release(UidRow(u))>>

DeleteProductVariant(u, o) ==
    <<Release(OwnRow(u)), Release(NameRow(u)), Release(UidRow(u))>>
      \o When(o.sku # None, <<Release(SkuRow(o.sku))>>)
      \o When(o.ref # None, <<Release(RefRow(o.ref, u))>>)

Delete(u, o) == CASE load.kind = "Product" -> DeleteProduct(u, o)
                  [] load.kind = "CategoryTaxonomy" -> DeleteCategoryTaxonomy(u, o)
                  [] load.kind = "Collection" -> DeleteCollection(u, o)
                  [] load.kind = "ProductVariant" -> DeleteProductVariant(u, o)

\* The Compensate function of a step that was completed.  restoreCategoryAncestorRows
\* writes the rows back with the version that was to be deleted.
Undoing(s) ==
    CASE s.do = "reserve" -> <<Release(s.row)>>
      [] s.do = "release" -> <<Reserve(s.row)>>
      [] s.do = "row" -> <<[Authoritative EXCEPT !.do = "remove"]>>
      [] s.do = "unindex" -> [i \in DOMAIN s.restores |->
                               [do |-> "reindex", row |-> s.restores[i], needs |-> {}]]

-----------------------------------------------------------------------------
(* The calls: the fence is taken, and what the call needs is read          *)

Calling(c) ==
    /\ fence = "free" /\ fence' = "held"
    /\ calls < load.calls /\ calls' = calls + 1
    /\ call' = c

\* Every creation has a new uid; two creations may ask for one name.
BeginCreate ==
    \E u \in load.uids \ used :
      \E sku \in Skus \cup {None}, ref \in Refs \cup {None} :
        LET x == [NoRow EXCEPT !.rv = 1, !.sku = sku, !.ref = ref] IN
        /\ load.kind # "ProductVariant" => x.sku = None /\ x.ref = None
        /\ Calling([NoCall EXCEPT !.uid = u, !.new = x, !.mode = "execute", !.todo = Create(u, x)])
        /\ used' = used \cup {u}
        /\ UNCHANGED <<load, tables, stale, writer, faults, history>>

\* What the caller found by name is read again under the fence.  An update by
\* admission stores a status without the resolved path.
BeginUpdate ==
    \E u \in load.uids :
      \E sku \in Skus \cup {None}, ref \in Refs \cup {None} :
        LET o == row[u]
            x == [o EXCEPT !.rv = @ + 1, !.sku = sku, !.ref = ref, !.path = <<>>]
        IN  /\ lookup[NameRow(u)] = u /\ o # NoRow /\ o.rv < load.version[u]
            /\ load.kind # "ProductVariant" => x.sku = None /\ x.ref = None
            /\ Calling([NoCall EXCEPT !.uid = u, !.old = o, !.new = x, !.mode = "commit",
                                      !.todo = Update(u, o, x)])
            /\ UNCHANGED <<load, tables, stale, writer, used, faults, history>>

\* A deletion reads the resource before it takes the fence.
ReadForDelete ==
    \E u \in load.uids :
        /\ stale = NoCall /\ calls < load.calls
        /\ lookup[NameRow(u)] = u /\ lookup[UidRow(u)] = u /\ row[u] # NoRow
        /\ load.kind = "CategoryTaxonomy" => row[u].term
        /\ stale' = [NoCall EXCEPT !.uid = u, !.old = row[u],
                       !.mode = IF load.kind = "CategoryTaxonomy" THEN "execute" ELSE "commit",
                       !.todo = Delete(u, row[u])]
        /\ UNCHANGED <<load, tables, fence, call, writer, used, calls, faults, history>>

BeginDelete ==
    /\ stale # NoCall /\ Calling(stale) /\ stale' = NoCall
    /\ UNCHANGED <<load, tables, writer, used, faults, history>>

-----------------------------------------------------------------------------
(* mutationExecutor                                                        *)

\* An update of a category drops the path its index rows are known by.
Forgets(s, c) ==
    forgotten' = IF s.do = "row" /\ c.mode = "commit" /\ row'[c.uid] # NoRow
                 THEN [forgotten EXCEPT ![c.uid] = @ \cup ToSet(AncestorRows(row[c.uid].path))]
                 ELSE forgotten

\* A removal that meets a status write in flight may miss its rows, and one that
\* is undone puts back those of the path it has read.
Strays(c) ==
    astray' = IF /\ c.mode \in {"execute", "undo"} /\ c.new = NoRow
                 /\ \/ call'.mode = "undo"
                    \/ \E w \in Writers : writer[w].uid = c.uid /\ writer[w].pc # "commit"
              THEN astray \cup {c.uid} ELSE astray

\* The executor does not know of a statement that was applied with an error, nor
\* that the category is gone whose removal it undoes.
Doubts(c, lost) ==
    doubt' = IF \/ lost /\ c.mode \in {"execute", "commit"}
                \/ c.new = NoRow /\ row[c.uid] = NoRow /\ c.mode = "execute" /\ call'.mode = "undo"
             THEN doubt \cup {c.uid} ELSE doubt

\* A statement: answered, refused, or failed with or without being applied.
Attempt(s, ok, failed) ==
    LET c == call IN
    /\ \/ Accepts(s, c) /\ Takes(s, c) /\ call' = ok /\ NoFault /\ Doubts(c, FALSE)
       \/ ~ Accepts(s, c) /\ UNCHANGED tables /\ call' = failed /\ NoFault /\ Doubts(c, FALSE)
       \/ UNCHANGED tables /\ call' = failed /\ Fault /\ Doubts(c, FALSE)
       \/ Accepts(s, c) /\ Takes(s, c) /\ call' = failed /\ Fault /\ Doubts(c, TRUE)
    /\ Forgets(s, c) /\ Strays(c)
    /\ UNCHANGED <<load, fence, stale, writer, used, calls>>

\* execute, and executeDelete with the authoritative row as its last step:
\* the step that fails is not undone itself.
Execute ==
    /\ call.mode = "execute" /\ call.todo # <<>>
    /\ LET s == Head(call.todo) IN
        Attempt(s, [call EXCEPT !.todo = Tail(@), !.undo = Undoing(s) \o @],
                   [call EXCEPT !.mode = "undo", !.todo = <<>>])

Restores == call.mode = "undo" /\ call.undo # <<>> /\ Head(call.undo).do = "reindex"

\* compensate goes on after an error, which means repair.  A failed restore of
\* index rows leaves out the others.
Compensate ==
    /\ call.mode = "undo" /\ call.undo # <<>>
    /\ Restores => call.seen # Unread /\ SameVersion(Head(call.undo).row, call.seen)
    /\ LET s == Head(call.undo)
            next == [call EXCEPT !.undo = Tail(@), !.seen = Unread]
        IN  Attempt(s, next,
                    [next EXCEPT !.stuck = TRUE,
                                 !.undo = IF s.do = "reindex"
                                          THEN SelectSeq(@, LAMBDA t : t.do # "reindex")
                                          ELSE @])

\* The row to restore is read, and read again when the statement was refused.
ReadRestored ==
    LET k == Head(call.undo).row
        next == [call EXCEPT !.undo = Tail(@)]
    IN  /\ Restores
        /\ IF call.seen = Unread
           THEN call' = IF UpToDate(index[k], call.uid, call.old.rv) THEN next
                        ELSE [call EXCEPT !.seen = index[k]]
           ELSE ~ SameVersion(k, call.seen) /\ call' = [call EXCEPT !.seen = Unread]
        /\ UNCHANGED <<load, tables, fence, stale, writer, used, calls, faults, history>>

\* executeUpdate and executeConditionalDelete: the authoritative row first.
\* Any error of it ends the call.
Commit ==
    /\ call.mode = "commit"
    /\ Attempt(Authoritative, [call EXCEPT !.mode = "forward"],
                              [call EXCEPT !.mode = "undo", !.todo = <<>>])

\* Then the projections, twice if need be; one that fails twice means repair.
Project ==
    /\ call.mode = "forward" /\ call.todo # <<>>
    /\ LET s == Head(call.todo)
            next == [call EXCEPT !.todo = Tail(@), !.tries = 0]
        IN  Attempt(s, [next EXCEPT !.made = @ \cup {s.row}],
                       IF call.tries = 0 THEN [call EXCEPT !.tries = 1]
                                         ELSE [next EXCEPT !.stuck = TRUE])

\* Mutant: the fence is given back although the call needs repair
Finish_Anyway ==
    /\ fence = "held"
    /\ call.mode \in {"execute", "undo", "forward"} /\ call.todo = <<>>
    /\ call.mode = "undo" => call.undo = <<>>
    /\ \/ fence' = "free" /\ NoFault
       \/ fence' = "repair" /\ Fault
    /\ call' = NoCall
    /\ UNCHANGED <<load, tables, stale, writer, used, calls, history>>

\* executeNamespaceRepositoryReservation gives the fence back unless the call
\* needs repair.  Failing to give it back means repair too.
Finish ==
    /\ fence = "held"
    /\ call.mode \in {"execute", "undo", "forward"} /\ call.todo = <<>>
    /\ call.mode = "undo" => call.undo = <<>>
    /\ \/ fence' = (IF call.stuck THEN "repair" ELSE "free") /\ NoFault
       \/ fence' = "repair" /\ Fault
    /\ call' = NoCall
    /\ UNCHANGED <<load, tables, stale, writer, used, calls, history>>

\* The process dies in the call: the fence stays taken.
Crash ==
    /\ fence = "held" /\ Fault
    /\ fence' = "repair" /\ call' = NoCall
    /\ UNCHANGED <<load, tables, stale, writer, used, calls, history>>

-----------------------------------------------------------------------------
(* Writes of a category's row without the fence                            *)

\* GetCategoryTaxonomyByName.  A bound keeps the versions small.
Found(u) ==
    /\ load.kind = "CategoryTaxonomy"
    /\ lookup[NameRow(u)] = u /\ row[u] # NoRow /\ row[u].rv < load.version[u]

Writes(w, x) == writer' = [writer EXCEPT ![w] = x]

\* ObsoleteCategoryAncestorRows
Obsolete(previous, current) == SelectSeq(previous, LAMBDA k : k \notin ToSet(current))

\* UpdateCategoryTaxonomyStatus with a resolved path, up to the conditional write
PatchStatus(w) ==
    /\ writer[w] = NoWrite
    /\ \E u \in load.uids, p \in Paths :
         /\ Found(u)
         /\ Writes(w, [NoWrite EXCEPT !.pc = "commit", !.uid = u, !.rv = row[u].rv + 1, !.path = p,
                          !.gone = Obsolete(AncestorRows(row[u].path), AncestorRows(p))])
    /\ UNCHANGED <<load, tables, fence, call, stale, used, calls, faults, history>>

\* syncCategoryAncestorRows: first the rows to write, then those to delete
SyncSteps(x) ==
    [i \in DOMAIN AncestorRows(x.path) |-> [do |-> "put", row |-> AncestorRows(x.path)[i]]]
      \o [i \in DOMAIN x.gone |-> [do |-> "cut", row |-> x.gone[i]]]

Syncing(x) == [x EXCEPT !.pc = "sync", !.at = x.rv, !.todo = SyncSteps(x)]

CommitStatus(w) ==
    LET x == writer[w] IN
    /\ x.pc = "commit"
    /\ \/ /\ row[x.uid].rv + 1 = x.rv
          /\ row' = [row EXCEPT ![x.uid].rv = x.rv, ![x.uid].path = x.path]
          /\ \/ Writes(w, Syncing(x)) /\ NoFault /\ UNCHANGED astray
             \/ Writes(w, NoWrite) /\ Fault /\ astray' = astray \cup {x.uid}
       \/ /\ \/ row[x.uid].rv + 1 # x.rv /\ NoFault
             \/ Fault
          /\ Writes(w, NoWrite) /\ UNCHANGED <<row, astray>>
    /\ UNCHANGED <<load, lookup, index, fence, call, stale, used, calls, doubt, forgotten>>

\* executeUpdate runs the whole sync twice if need be, and then asks for repair.
Again(x) ==
    IF x.tries = 0 THEN [Syncing(x) EXCEPT !.tries = 1, !.seen = Unread] ELSE NoWrite

\* A row is read; one that needs no write is passed over.
SyncRead(w) ==
    LET x == writer[w]
        s == Head(x.todo)
        seen == index[s.row]
        skip == IF s.do = "put" THEN UpToDate(seen, x.uid, x.rv) ELSE Kept(seen, x.uid, x.at)
    IN  /\ x.pc \in {"sync", "fence"} /\ x.todo # <<>> /\ x.seen = Unread
        /\ Writes(w, IF skip THEN [x EXCEPT !.todo = Tail(@)] ELSE [x EXCEPT !.seen = seen])
        /\ UNCHANGED <<load, tables, fence, call, stale, used, calls, faults, history>>

\* Then it is written, or read again when the statement was refused.  The
\* version may meanwhile be that of a row of another uid, whose category took the
\* name after this one was removed: it loses the row.
SyncStep(w) ==
    LET x == writer[w]
        s == Head(x.todo)
        same == SameVersion(s.row, x.seen)
        next == IF s.do = "put" THEN Upsert(s.row, x.uid, x.rv) ELSE DeleteObsolete(s.row)
        other == {index[s.row].uid} \ {NoUid, x.uid}
    IN  /\ x.pc \in {"sync", "fence"} /\ x.todo # <<>> /\ x.seen # Unread
        /\ index' = IF same THEN next ELSE index
        /\ \/ /\ Writes(w, [x EXCEPT !.todo = IF same THEN Tail(@) ELSE @, !.seen = Unread])
              /\ NoFault
           \/ same /\ Writes(w, Again(x)) /\ Fault
        /\ astray' = astray \cup (IF writer'[w] = NoWrite THEN {x.uid} ELSE {})
                            \cup (IF same THEN other ELSE {})
        /\ UNCHANGED <<load, row, lookup, fence, call, stale, used, calls, doubt, forgotten>>

\* The read or the statement fails.  The sync that gives up leaves rows behind.
SyncFails(w) ==
    LET x == writer[w]
    IN  /\ x.pc \in {"sync", "fence"} /\ x.todo # <<>>
        /\ Writes(w, Again(x)) /\ Fault
        /\ astray' = IF x.tries = 0 THEN astray ELSE astray \cup {x.uid}
        /\ UNCHANGED <<load, tables, fence, call, stale, used, calls, doubt, forgotten>>

\* Mutant: the row is not read again
FenceRows_Skip(x, latest) == NoWrite

\* fenceCategoryAncestorRows reads the row again, through its uid, and deletes
\* what it wrote that a newer path does not have, with the newer version.
FenceRows(x, latest) ==
    LET extra == Obsolete(AncestorRows(x.path), AncestorRows(latest.path))
    IN  IF latest.rv = x.rv THEN NoWrite
        ELSE [x EXCEPT !.pc = "fence", !.at = latest.rv,
                       !.todo = [i \in DOMAIN extra |-> [do |-> "cut", row |-> extra[i]]]]

ReadFence(w) ==
    LET x == writer[w]
        found == lookup[UidRow(x.uid)] = x.uid /\ row[x.uid] # NoRow
    IN  /\ x.pc = "sync" /\ x.todo = <<>>
        /\ \/ found /\ Writes(w, FenceRows(x, row[x.uid])) /\ NoFault /\ UNCHANGED astray
           \/ ~ found /\ Writes(w, NoWrite) /\ NoFault /\ astray' = astray \cup {x.uid}
           \/ /\ Writes(w, Again(x)) /\ Fault
              /\ astray' = IF x.tries = 0 THEN astray ELSE astray \cup {x.uid}
        /\ UNCHANGED <<load, tables, fence, call, stale, used, calls, doubt, forgotten>>

EndFence(w) ==
    /\ writer[w].pc = "fence" /\ writer[w].todo = <<>>
    /\ Writes(w, NoWrite)
    /\ UNCHANGED <<load, tables, fence, call, stale, used, calls, faults, history>>

CrashWriter(w) ==
    /\ writer[w] # NoWrite /\ Fault /\ Writes(w, NoWrite)
    /\ astray' = IF writer[w].pc = "commit" THEN astray ELSE astray \cup {writer[w].uid}
    /\ UNCHANGED <<load, tables, fence, call, stale, used, calls, doubt, forgotten>>

\* recordCategoryAdmissionDenied patches the conditions only.
PatchConditions ==
    /\ \E u \in load.uids : Found(u) /\ row' = [row EXCEPT ![u].rv = @ + 1]
    /\ UNCHANGED <<load, lookup, index, fence, call, stale, writer, used, calls, faults, history>>

\* MarkCategoryTaxonomyDeletion keeps the resolved path.
MarkDeletion ==
    /\ \E u \in load.uids : /\ Found(u) /\ ~ row[u].term
                           /\ row' = [row EXCEPT ![u].rv = @ + 1, ![u].term = TRUE]
    /\ UNCHANGED <<load, lookup, index, fence, call, stale, writer, used, calls, faults, history>>

Next ==
    \/ BeginCreate \/ BeginUpdate \/ ReadForDelete \/ BeginDelete
    \/ Execute \/ Compensate \/ ReadRestored \/ Commit \/ Project \/ Finish \/ Crash
    \/ \E w \in Writers : \/ PatchStatus(w) \/ CommitStatus(w) \/ SyncRead(w) \/ SyncStep(w)
                          \/ SyncFails(w) \/ ReadFence(w) \/ EndFence(w) \/ CrashWriter(w)
    \/ PatchConditions \/ MarkDeletion

Spec == Init /\ [][Next]_vars

-----------------------------------------------------------------------------
(* Properties                                                              *)

\* When the fence is free again a resource that exists has all its lookup rows
\* and one that does not exist has none, whatever failed in between: every call
\* was completed or undone, or the fence is left for repair (recovery.go).
\* Excepted are the resources of a statement that was applied although it
\* returned an error, which the executor takes for one that was not, and a
\* category that is removed twice at once: the later removal fails and puts
\* back the rows of a category that is gone.
Indexed ==
    fence = "free" =>
      \A u \in Uids \ doubt :
        {r \in LookupRows : lookup[r] = u} = IF row[u] = NoRow THEN {} ELSE Owned(u, row[u])

\* A lookup row is taken from a resource only by a call for that resource, even
\* where a lost answer has left a row with a SKU somebody else holds (releaseOwned).
OwnReservations ==
    [][\A r \in LookupRows : lookup[r] # NoUid /\ lookup'[r] # lookup[r] => call.uid = lookup[r]]_vars

\* When nobody is writing, the index holds the rows of the path a category has,
\* and no others but those an update by admission made it forget: whichever
\* status write finishes last, in whatever order the others' rows arrived
\* (fenceCategoryAncestorRows).  Excepted are a category whose sync failed twice
\* or met its removal, one with a lost answer, and one whose row a delayed status
\* write of a removed category of the same name overwrote or deleted: that
\* statement compares the version it has read and not the uid.
Quiet == fence = "free" /\ \A w \in Writers : writer[w] = NoWrite

IndexedAt(u) == {k \in IndexRows : index[k].uid = u}

AncestorsConverged ==
    Quiet => \A u \in Uids \ (astray \cup doubt) :
               /\ ToSet(AncestorRows(row[u].path)) \subseteq IndexedAt(u)
               /\ IndexedAt(u) \subseteq ToSet(AncestorRows(row[u].path)) \cup forgotten[u]

\* The ancestor index contract of a re-parented category, "old rows removed":
\* once the controller has resolved its path and nobody is writing, the index
\* holds the rows of that path and no others (UpdateCategoryTaxonomyStatus).
OldRowsRemoved ==
    Quiet => \A u \in Uids \ (astray \cup doubt) :
               row[u].path # <<>> => IndexedAt(u) = ToSet(AncestorRows(row[u].path))

=============================================================================
