# GitStore: specifications, model checking and proofs

This directory holds TLA+ specifications of GitStore, the TLC configurations
that check them on small instances, and TLAPS proofs of what matters most for
every instance. `PROJECT.json` is the index: which definition models which
lines, which run checks which property, which hazards of the code are covered
and which theorems are proved.

## 1. The system

GitStore is a catalog that is written through Git and read through GraphQL.

| part | where | what it does |
|---|---|---|
| API | `gitstore-api` (Go) | GraphQL for administrators and the storefront, admission of pushed commits, the datastore on ScyllaDB, the watch journal |
| controller manager | `gitstore-controller-manager` (Go) | lists and watches resources through the API, keeps a durable projection and work queue, reconciles |
| git service | `gitstore-git-service` (Rust) | bare repositories, receive-pack with quarantine and hooks, file commits |
| OIDC bridge | `gitstore-oidc-bridge` (Go) | token exchange in front of the API |
| shared | `shared` | protocol definitions, the CDC reader library |

A push goes to the git service, whose hooks call the API: once to validate the
proposed commit, and once, after the branch has moved, to admit it. Admission
writes catalog rows, each resource in several tables. Deleting a Namespace or a Repository
through the API removes its manifest from Git first, and the row follows. ScyllaDB's change data
capture (CDC) reports these writes; one API replica, the leader, reads the CDC
streams, merges them into one order and appends them to the *watch journal*.
Every replica serves watches from the journal. Controllers list resources,
follow the journal by watch subscriptions, and store what they see in a local
LevelDB together with the work still to be done. Reconcilers write back through
the API. Namespaces, repositories and catalog resources form a hierarchy, in
which a parent must not disappear under a child.

The modules follow that path:

| on the path | modules | status |
|---|---|---|
| a push becomes rows: hooks, `AdmitResources` | `PushAdmission` | partly |
| a row and its lookup rows: multi-table writes, the category ancestor index | `CatalogWrites` | partly: four kinds |
| a manifest is removed and its row follows: intents, receipts, markers | `ManifestDeletion`, proofs in `ManifestDeletionProofs` | partly: Namespaces and Repositories |
| parents and children: fences and reservations | `LifecycleFences`; `LifecycleState`, `LifecycleInvariant`, `LifecycleReservations`, `LifecycleProofs` | partly: no rename, no repair |
| CDC streams become one order | `CdcSequencer` | partly |
| the order becomes the journal | `WatchJournal`, `WatchJournalProofs` | partly: no retention |
| the journal becomes streams and client caches | `WatchFeed` (abstract), `WatchStream`, `WatchStreamProofs` | modelled |
| streams become a durable projection, work and reconciliations | `DiskStore`, `FanoutCoverage`, `RelatedDelivery`, `DiskController`, `DiskStoreProofs`, `DiskStoreTheorems` | modelled for the durable path |

`PROJECT.json` lists all components with status and reason, those that are not
modelled included; section 6 gives the reasons in short.

## 2. How the modules correspond to the code

A module states in its header what a step is. In the modules of the datastore
(`WatchJournal`, `LifecycleFences`, `CatalogWrites`) a step is one statement of the
database, which may be applied and answered, applied and *not* answered, or not
applied and answered with an error. A read followed by a conditional write that
compares everything read is one step, since the write is applied only where the
read is still true; losing that race too often counts as a failed statement. The rows
of the category ancestor index are written under a condition on part of what was read,
the version without the uid: there the read and the statement are two steps. A
write whose answer was lost takes effect at once or never; it does not surface
later. Everywhere a process may die between two steps.

### PushAdmission (`cataloggrpc/server.go`, git hooks)

One repository and one branch. `tree`, `pushed` and `reflog` are the git side:
receive-pack proposes a commit, the pre-receive hook asks `ValidateResources`, one ref
transaction moves the branch, and the post-receive call is made once and never
repeated. `call[i]` is the `AdmitResources` call of push `i`, in the steps of its
handler: derive the operations from the trees of the old, the pushed and the current
tip; read the branch again; for each operation read the row, read the branch again where
that kind's handler does, and write conditionally, with the attempts the code allows.
`row[p]` is the resource of the manifest at `p`. Product stands for CategoryTaxonomy and
Collection for ProductVariant, whose handlers have the same steps; File and Namespace
have handlers of their own. A policy may deny any manifest after the branch has moved
(`Deny`), because it reads other rows and grants: a denied Product keeps its row, on which
`RecordDenied` and `PatchDenied` set `AdmissionAccepted` to False (`row.accepted`), and a
denied resource of another kind is only logged. Faults are a lost call and a failed
statement. `missed`, `denied` and `row.tip` are history.

### CatalogWrites (`scylla/backend.go`, `recovery.go`, `category_ancestor_index.go`)

`row` holds the authoritative rows, `lookup` the rows of the tables by name, uid, list, sku,
product reference and owner, `index` the ancestor index, `fence` the namespace's catalog
fence. `call` is the call that holds it: a chain of statements (`todo`) with the statements
that undo them (`undo`), run by the `mutationExecutor` in one of its modes: `execute` and
`undo` (creations; deletions with the authoritative row last), `commit` and `forward`
(updates and conditional deletions, the authoritative row first and the projections
retried once). The chains of Product, CategoryTaxonomy, Collection and ProductVariant are
operators. Status writes of a category (`writer`) take no fence: they commit, write and
delete index rows, read the category again and remove what a newer path does not have.
Each index row is read (`seen`), then written if its version is still the same.
`doubt`, `astray` and `forgotten` are history: they record that a statement was applied with
an error, that a removal met a status write or a status write took the row of another uid,
and that an update dropped the path by which index rows are found.

### ManifestDeletion (`resolver/infrastructure_deletion.go`, `committed_manifest.go`, `grpc/server.rs`)

One manifest and the row of its Namespace or Repository, until the row is gone. The git
side is `commits`, `tip`, and per expected commit the `receipt`, which names the commit of
the removal, and the `marker` that allows it to be resumed; `lock` is the lock file of the
branch and `job[s]` the write a process is at under its own write lock. The steps of
`delete_file` are the look-up, the check of a completed receipt, the resumption, the
preparation of commit and receipt, the marker, and `publish_delete_ref` in three: it locks the
branch, consumes the marker, moves the branch. `row` has the admitted commit, the intent
(expected commit and removal) and the mark; `call` are the request of a user, the repeated
completion by the controller and the admission of a pushed removal, step by step between
their reads of Git and their conditional writes. `fresh` stands for the resource version: it is
true while nobody has written the row since the call read it. Owners push changes, removals
and forced resets; a process of either service may die anywhere, and a dead process may
leave the lock file. `LookUp` reads receipt and branch in one step: what another process
does between the two reads it may also do before `Prepare`. The check for children is in
`LifecycleFences`, and admission of a changed manifest (`AdmitUpdate`) is one step here,
since its races are those of `PushAdmission`. `past`, `published`, `twins`, `asked` and
`stranded` are history.

### LifecycleFences (`scylla/repository.go`, `namespace_catalog.go`, `namespace_mapping.go`, `backend.go`)

One namespace row with its counter of repository creations and the epoch
(`ns`), the catalog fence (`fence`), the index rows of the namespace
(`nsIndex`), repository rows and their projections (`repo`, `path`, `reverse`,
`listed`, `ready`, `tomb`), catalog resources and their repository index
(`item`, `index`), and per process the call it is in (`proc`). The calls are
CreateRepositoryInActiveNamespace, catalogMutation (write and delete),
UpdateRepository, CompleteRepositoryDeletion, UpdateNamespace,
MarkNamespaceDeletion and DeleteNamespaceWithResourceVersion.

### CdcSequencer (`shared/scylla-cdc-go`, `scylla/namespace_cdc.go`)

`log` is the change log, a set of changes with stream and time; `gen` and `rd` are
`Reader.Run` and its batch readers, which poll windows of their streams; `seq` is the
sequencer with its watermarks, pending changes and the batch it publishes; `saved` is what
is durable: generation, published frontier with its manifest, position of each stream.
Publishing, saving the frontier and saving each position are separate steps, and a
crash, a failed query or a reader that gives up may come between any two. Time is a
natural number per generation; `Horizon` is all the time after the last change. Only
the namespace table keeps a frontier, so `source` distinguishes it from the others.

### WatchJournal (`scylla/namespace_watch.go`, `watchjournal/*.go`, leadership loop of `app/server.go`)

`holder`, `token` and `water` are the clock row, `events` the journal rows,
`progress` the saved frontier of the CDC thread, `node[r]` the append a replica
is in. Time is left out: any replica may take over the lease at any moment, so
that nothing rests on clocks. `adopted` is history; it records the flaw of section 4.

### WatchFeed and WatchStream (`watchjournal/subscriber*.go`, GraphQL watch resolvers, list/watch clients)

`WatchFeed` is the promise of a durable watch: a stream moves through the journal one
published entry at a time, from where it was opened until it is closed.
`WatchStream` is how the code does it. `log`, `water`, `rows` and `oldest` are source and
journal, whose rows expire in any order; `tailer` and `live` are the shared tailers
with their rings; `conn[c]` is the server side of a subscription (check of the cursor,
replay, registration with a tailer, delivery with a bounded buffer, waiting, return to
replay when the ring has moved on); `client[c]` takes a bootstrap cursor, lists, watches,
resumes after a broken stream and lists again after an expired one, through the
selector projection of the resolvers. The refinement mapping takes `published` to
`water` and `at[c]` to the epoch of the stream and the last entry it has handed over.

### DiskStore (`internal/checkpoint/filesystem.go`)

The LevelDB of one controller kind. A *generation* is a complete set of rows; a
listing writes a new one (`staging`) while the old one (`active`) serves, and
`FinishSnapshot` publishes it.

| variable | rows of the store |
|---|---|
| `rows[g]` | `d/` projected resource, `w/` work token, `s/` schedule, `q/` ready index, `p/` quarantine, `i/` relation index, `ic/` its counters, `r/` related work, and the two counts |
| `active`, `staging`, `garbage`, `generation`, `sequence`, `cursor` | the metadata keys of the same names |
| `fanout` | `fanout/` range tasks |
| `op`, `handle` | the call in progress, which writes several batches, and the snapshot its caller holds; both die in a crash |
| `now` | the clock, for the due times of work |

One action is one LevelDB batch, which is atomic. Calls that write several
batches (`BeginSnapshot`, `FinishSnapshot`, `DiscardStaging`, `CollectGarbage`)
are one action per batch; `Interrupt` is a crash or a cancelled context between
two of them. Resources are a version and an owner; encodings and size limits
are left out. The token and generation counters keep their overflow checks.

`FanoutCoverage` adds a history variable, what a range task still owes, and
`RelatedDelivery` adds the loop of `maintainDiskPage`, which delivers related
work to another kind's store. `MCDiskStore` runs both as two loads of one
instance.

### DiskController (`internal/listwatch/runner.go`, `internal/cache/cache.go`, `internal/manager/manager.go`)

It extends `DiskStore` and composes the API (a log of changes, external), the
runner (`pc`, `listed`, `listCursor`, `rv`), the recovery gate (`recovering`,
`synced`), the dispatch loop (`loop`, `page`) and one worker per leased key
(`lease`, `phase`, `saw`). `seen` is history: what the last successful
reconciliation had read. A reconciler is abstracted to its outcome: success,
requeue, failure with retry or with quarantine. A kind may filter updates
(`AcceptUpdate`, `ShouldEnqueueUpdate`). Faults are a crash, an expired or broken
watch, a failed listing, a failed store call and a failed reconcile attempt.

## 3. What the runs check

All runs exhaust the reachable states of their instance. `CHECK_DEADLOCK` is off
where a run ends because its bounds (pushes, versions, tokens, epochs, faults) are
used up, or because a quiet system may stop.

| run | instance | properties |
|---|---|---|
| `push_admission` | 2 or 3 pushes (commits, forced resets, branch deletions) to a branch with 1 or 2 manifests of each kind, any of them denied, 1 fault | `Converged`, `InOrder`, `CreateOnly` |
| `admission_overwrite` | 1 Collection, 3 pushes, no fault | `OnlySurvivors` is violated |
| `catalog_writes` | 4 calls on 2 resources that share a name or a SKU, 1 or 2 faults, for each kind; a category under 2 possible parents with 2 status writers, also while the name is used again | `Indexed`, `OwnReservations`, `AncestorsConverged` |
| `ancestor_reparent` | a category, 2 status writes and an update, no fault | `OldRowsRemoved` is violated |
| `manifest_deletion` | a Namespace with 1 git process and a Repository with 2, 2 contents, 1 request, 2 pushes or faults, receipts searched 2 commits deep, with fairness | `PublishedOnce`, `OnlyTheRequested`, `Evident`, `Settles` |
| `lifecycle` | 2 concurrent calls of all seven kinds, the system repository and 2 user repositories that want one name, 1 resource, 3 versions, 3 epochs, 1 fault | `FenceExclusive`, `PendingCovers`, `NoOrphanRepository`, `NoOrphanItem`, `IndexCovers`, `Reachable` |
| `cdc_sequencer` | 2 generations of 2 streams, in separate and in one batch, 6 tables, 1 fault, with fairness | `NothingPassed`, `HaltsOnlyForAReader`, `OrderKept`, `EverythingPublished` |
| `watch_journal` | 2 replicas, 3 leaderships, 2 changes, batches of 2, 3 rows | `NoOtherGaps`, `TermsOrdered`, `SourceOrder`, `NothingSkipped`, `PublishedForever` |
| `watch_journal_gap` | 2 replicas, 3 leaderships, 1 change | `NoGaps` is violated |
| `watch_stream` | 7 scopes: 1 client with a cache, or 1 or 2 streams on up to 4 entries; a lost row, a new epoch, a fault; with fairness | `NobodyForgotten`, `FilteredView`, `FeedImplemented` (the refinement of `WatchFeed`), `Converges` |
| `disk_store` | 2 generations, 2 cursors; one load with 2 resources of one owner, 3 tokens, a clock tick and range tasks for the owner and for everything, one with a resource that moves between 2 owners, 5 tokens | `TypeOK`, `WorkIndexExact`, `RelationIndexExact`, `NoLeakedGeneration`, `FanoutCovers`, `RelatedDelivered`, `PublishExact` |
| `controller` | 2 resources of a plain kind, 1 of a filtering kind, 3 changes, 1 worker, 1 fault, with fairness | `ProjectionCurrent`, `NoLostWork`, `RelistDrained`, `Reconciled` |

What they show, in the order of the questions they ask:

* *Does the catalog say what the branch says?* Whatever the order in which the admissions
  of overlapping pushes run, a Product or a Namespace is replaced only by an admission
  that looked at the branch no earlier, a delayed create overwrites nothing, and once
  every call has ended their rows are those of the tip, except where a call was lost
  or gave up, a manifest was removed, or an old content came back, and except where a
  policy denied what the tip says. A denied Product goes on saying what was accepted
  before and its condition `AdmissionAccepted` is False; no late record of a denial marks a
  Product whose newer manifest was accepted. Collections and
  variants do not have this property (section 4).
* *Do the lookup rows agree with the resources?* When the fence is given back, every call
  has been completed or undone, whatever failed, or the fence is kept for repair;
  nobody loses a reservation to somebody else's compensation; status writes may
  finish in any order and the ancestor index follows the last one, up to the
  exceptions of section 4.
* *Is a deletion done once, and to the end?* However often it is requested and resumed, and
  wherever a process dies, the removal of a manifest is published once, it removes what
  the user asked to delete and nothing that was pushed since, a row is marked only with
  evidence that the manifest is gone, and the controller finishes, unless the runbook
  calls for an operator: a stale lock file, a manifest that was changed or
  restored, a publication that was interrupted after its marker was consumed, or evidence
  out of the bounded history. `NeedsOperator` is that list. Both safety properties
  have an exception, in section 4.
* *Can a child outlive or miss its parent?* The catalog fence excludes, creations
  in flight are counted, no resource is in a parent that is marked or gone, every
  resource blocks the deletion of its repository through the index, and a
  repository that was created stays reachable under its name.
* *Is the source in order?* Changes are published in the order of the table, across
  quiet streams, generations and crashes; no durable position passes an unpublished
  change; and no crash leads to the halt that takes an operator to clear.
* *Is the journal a log?* Published rows never change, leaders publish one after
  the other, changes keep their order, a change is repeated at most by another
  leader, and none is skipped, up to the flaw of section 4.
* *Does a watch deliver the log?* Every stream is the gap-free feed of `WatchFeed`, no
  stream waits for a wake-up that will not come, a filtered cache holds what the
  selector matches at its cursor, and every client ends up watching with the current
  state.
* *Does the store lose or invent work?* Whatever the order of listings, watch
  events, acknowledgements and crashes between batches, the ready index, the
  schedules, the relation index and the counters of a complete generation are
  exactly what its rows say; a publication keeps all
  unfinished work and adds work exactly for what the listing changed; no generation is
  leaked; and a fanout or resync sweep is deleted only when every resource of its
  range was enqueued or had work; and an owner is told of every resource it has or has lost.
* *Does the controller converge?* The projection is the API's state at some
  position not before the durable cursor, so that a restart replays what is
  missing; a resource without work has been reconciled in such a state; and once
  changes and faults end, every resource is reconciled in its last state or
  quarantined.

**Why the bounds are enough to be of interest.** Three pushes are a change, a later
change and an admission that meets both. Two faults in a chain are a failed statement
and a failed compensation. Four versions of a category are two status writes, an update or a
mark, and another; with a fault three of them are in the run, and four were checked as well. Two troubles in a deletion are a death between two
steps and a forced reset after it, or a restored manifest and a removal that is pushed; with
one git process three troubles were checked as well. In the lifecycle two processes suffice for every race of two
calls, three epochs allow a creation to begin and end between two statements of a mark,
and one fault reaches every single lost reply or crash; `MCLifecycle` starts from two
states the program reaches, a namespace updated once and one being retired, which makes
room for a whole retirement within three versions. Two generations of CDC streams, one
with a batch per stream and one with a shared batch, make a watermark wait for another
reader and for a stream of the same reader. Three leaderships are what a leader, its
successor and a row left by both need: the flaw of the journal does not exist with two.
Four journal entries outrun a ring of one and a replay limit of three. Two generations of
the store are one publication over a previous one; a third adds only repetition, since a
generation is forgotten before the next listing begins. Two resources make pages, page
boundaries and the order of keys matter. Three tokens and cursors allow a change, an
acknowledgement with an old token and another change. What the bounds leave out: three
concurrent calls, two independent faults in the large lifecycle instance, a client with a
cache that shares a tailer with another, and pages of more than one row. Symmetry is used
for replicas, processes and status writers only; no liveness property is checked in a run
with symmetry.

**Fairness.** All of it is weak fairness, of steps that a goroutine takes by itself.
`controller`: the runner, the dispatch loop and each worker, which the Go scheduler does
not starve and whose waits are on tickers or on locks that are given back, and the bookmark,
which the API sends at an interval. `cdc_sequencer`: the reader and sequencer goroutines,
which poll by timers, and the leader loop that starts the next run. `watch_stream`: the
materializer's next publication, each stream's and each tailer's goroutine, and each
client, which reads its stream and retries. `manifest_deletion`: the jobs a git process has
begun, which run to their end in a blocking task, and the controller, which repeats the
completion by its retries and resync; none of users, of pushes and of their admission. No fairness is assumed of anybody who changes
the catalog, of expiry, of bookmarks of the journal or of faults.

## 4. Disagreements between the code and its documentation

Each of the first three is a run that TLC ends with a counterexample.

1. **The journal can publish a sequence without a row**
   (`namespace_watch.go:272`, run `watch_journal_gap`). `Append` finds the row of an
   older leader in its way and deletes it under the condition that its token is
   older. If the deletion is not applied because another leader has already
   deleted the row, the code goes on with the copy it has read, takes it for its own
   because the deduplication key is the same, and publishes the sequence. The
   comments promise that the clock advances "without gaps". `NoOtherGaps` and the
   proofs show that this is the only way.
2. **A delayed admission overwrites a later one for Collections and variants**
   (`cataloggrpc/server.go:2845`, run `admission_overwrite`). Their handlers do not read the
   branch between the row and the conditional update, as those of Products and Namespaces
   do. `push-validation.md`: "If a newer push has already advanced the ref, the stale
   admission is skipped."
3. **A re-parented category stays listed below its former ancestors**
   (`backend.go:1161`, run `ancestor_reparent`). The rows to delete are taken from the path
   in the status; an admission update has dropped that path. The contract lists
   "re-parent (old rows removed)".

Four more are described here and excepted in the properties, by `stranded`, `twins`, `astray`
and `missed`:

4. **A pushed removal that meets the intent of a Namespace loses its evidence**
   (`scylla/backend.go:2835`, and the same in `memdb/backend.go`; `Evident`). An API deletion has
   written its intent and waits, or has died; an owner pushes the removal of the manifest.
   `markPushedInfrastructureDeletion` puts the removal into the intent and marks the row, but the
   mark goes through `PreserveDeletionStatus`, which keeps the intent that is stored. The row is
   marked without a removal, and every completion fails with `DELETION_REPAIR_REQUIRED`.
   `MergeInfrastructureStatus` says of itself that it "permits core lifecycle CAS writes to
   advance an intent's expected tip or attach its receipt", and that "Controller status patches
   must use PreserveDeletionStatus instead"; the runbook says "Controllers resume that work
   after API replacement." Repositories are marked through `UpdateRepository`, which merges.
5. **Two processes of the git service can publish one removal twice**
   (`grpc/server.rs`, `delete_file`; `PublishedOnce`). `commit_file` takes a lock file that all
   processes share, `delete_file` only a lock of its process. Two processes that write the same
   commit in the same second share its receipt; the second recreates the marker the first has
   consumed, and after a forced reset to the original tip a retry is taken for one that
   was never published. The comment in `publish_delete_ref`: "A later force-reset to the
   original tip must not look like a never-published prepared receipt."
6. **A delayed status write takes an index row of a new category**
   (`category_ancestor_index.go:128`; `AncestorsConverged`). `deleteObsoleteCategoryAncestorRow`
   reads a row of its category and deletes it under the condition `resource_version`. In between
   the category may be removed and another of the same name may have taken over the row, at the
   same version: the new category loses a row of its path and nothing restores it. The comment
   says of the deletion "It is skipped when the row belongs to another UID", which holds of the row
   that was read only. The update of `upsertCategoryAncestorRow` has the same condition. Without
   the exception TLC ends the run `catalog_writes` with this trace, which needs no fault.
7. **A denial is not recorded once the branch has moved on** (`server.go:2802`; `Converged`).
   `recordProductAdmissionDenied` goes on only while the branch is at the pushed commit itself,
   while the admission of the same manifest also goes on when a later push left the manifest as
   it was. A denied update that meets such a push uses up the attempts of its call: the row keeps
   the old specification with `AdmissionAccepted` True. `product-spec.md`: "For a rejected Product
   update, the previously accepted specification remains served and `status.conditions` records
   `AdmissionAccepted=False`". Without the exception for calls that ran out of attempts TLC finds
   this too, with three pushes and no fault.

Behaviour met while modelling that the properties except, each named by a history variable
or a condition in the property:

* Lifecycle. An insert of a repository row whose answer is lost is compensated as if it
  had failed (`repository.go:418`; `unsettled`): the row exists without path or listing and
  is no longer counted. Of two completions of one namespace the loser restores the name and
  listing of a namespace that is gone (`backend.go:2967`). Completing a repository deletes
  its listing before its row, while the removal of a namespace checks the listing only.
* CDC. A reader that gives up unregisters its streams, which lets later changes of the others
  pass (`broken`). A stream that shares a batch with a busy one moves only when the busy one
  is quiet (`stream_batch.go:154`). At the limit of pending changes the run restarts.
* Admission. Contents that go back and forth (`Restored`), and removals: a deletion that meets
  a conflict, or is stale, is dropped (`Removed`). A conflict on a Collection ends the whole
  call with an error, and the rest of the push with it. Of a manifest that is denied before
  it has a row nothing is recorded, although a delayed admission of an older push may create
  the row afterwards.
* Catalog writes. A statement that was applied and answered with an error is not undone or
  completed (`doubt`). The second of two removals of one category puts back lookup rows of a
  category that is gone. A variant's row gets its new SKU before the SKU is reserved, so a
  duplicate is found only afterwards and ends in repair with the fence kept. A status write
  that is under way while its category is removed leaves index rows behind (`astray`).

## 5. What is proved

The proofs are for every value of the constants that meets the named assumptions
of the modules, checked by tlapm with Z3, Zenon and LS4.

**`DiskStoreProofs`** (assumption `ConstantsAssumption`: keys and owners are
positive integers, the bounds are natural numbers).

* `TypeCorrect`: `Spec => []TypeOK`. `TypeOK` is inductive by itself once the calls
  in progress are typed; one lemma per group of rows says that the operators on
  them (`PutWork`, `DropWork`, `Reindex`, the batches of a publication) keep the type.
* `NothingLeaks`: `Spec => []NoLeakedGeneration`. A generation with rows is the
  active one, the one being built, the one to be reclaimed, or the one the call in
  progress is about to reclaim. Alone this is not inductive: a new generation
  could be one that still has rows. `MetaInv` adds that all generations named by the
  metadata are at most the counter `generation` and those above it are empty,
  what a call in progress has already reclaimed, and that a snapshot held by a
  listing is the one in `staging` with nothing in `garbage`.

**`DiskStoreTheorems`** (the same assumption) has what follows from the invariant
`StoreInv` (`StoreInvariant`: `Spec => []StoreInv`), whose steps `DiskStoreProofs` proves call by
call.

* `WorkIndexesExact` and `RelationIndexesExact`: the ready queue, the quarantine, the counters and
  both directions of the relations say the same as the rows they index. Alone they
  are not inductive, because the calls write one generation from what they find in another.
  `StoreInv` is `TypeOK`, `MetaInv`, exact indexes in every generation that is not being
  reclaimed, and for a listing under way `Listed` (what is listed has work, until the merge finds
  it unchanged), `Merged` (what the merge has passed is as `PublishExact` wants it) and `Unlisted`
  (before the first listing there are no resources).
* `PublicationExact`: the step that makes a listing visible carries all unfinished work over, adds work for
  what the listing changed or no longer contains, and none for the rest.
* `FanoutsCover`: a fanout task is deleted only when it owes nothing, and what it still owes lies
  ahead of it. `FanoutInv` adds to `StoreInv` that what is owed is in the range of the task, that a
  task was last moved in a generation that is or was published, and that the generation being
  filled is newer, so that a publication makes every task start over.
* `RelatedWorkDelivered`: a relation without a pending row was told of exactly the members it
  has. `RelatedInv` adds that tokens are fresh (`TokenInv`): the page of related work which
  maintenance holds while the store goes on (`PageInv`) is acknowledged by token, so a row
  that was renewed in between is not removed.

TLC has checked `FanoutInv` and `RelatedInv` on the instance of the run `disk_store` (2,045,607 states).

**`WatchJournalProofs`** (assumption `JournalAssumption`: the bounds are natural
numbers, the batch is not empty, nobody is not a replica).

* `OneWayToAGap`: `Spec => []NoOtherGaps`, and `PublishedStays`:
  `Spec => PublishedForever`. Both follow from `JournalInv`: types; no row carries a
  token above the clock's; per replica `Bounds` (it knows at most the published
  position, and its token is at most the clock's) and `Fenced` (a replica whose
  token is the clock's holds the lease and knows the published position exactly; the
  rows it is about to publish are there with its token); and published rows
  carry a token. A deposed replica has an older token than the clock, so its
  statements on the clock are refused, and since it only deletes rows with older
  tokens above the position it knows, what it can still delete or overwrite is
  not published. `Fencing` states `Spec => []JournalInv`.
* `TermsInOrder`, `SourceInOrder` and `NoChangeSkipped`: leaders publish one after the other, changes are
  published in the order of the source, and the checkpoint passes no change that is not
  published. The properties except what follows a row that a leader adopted from another
  leadership (`adopted`, the case of the run `watch_journal_gap`), and so does the invariant
  `SourceInv`. Until then it says of each replica what it knows of the source where it is: the change it appends
  next comes after all that is published (`Ahead`), and all before it is published (`Prior`).
  This holds of the leader only; of a deposed replica it says that its token is older, which
  `JournalInv` turns into "its statements are refused".

**`LifecycleProofs`** (assumption `LifecycleAssumption`: the system repository is one of the
repositories, there are finitely many processes, the bounds are natural numbers). The invariants
are defined in `LifecycleState`; `LifecycleInvariant` and `LifecycleReservations` prove their steps.

* `LifecycleHolds`: `Spec => []LifecycleInv`, and from it `Exclusion`
  (`Spec => []FenceExclusive`), `NoInvisibleChild` (`Spec => []IndexCovers`) and
  `NoOrphans` (`Spec => []NoOrphanItem`). That no resource is in a parent that is marked or
  gone rests on what a call has read before it writes, so it is not inductive alone.
  `LifecycleInv` adds the types; `Rows`, what the rows say of each other (resources are in
  repositories that were created, and the listings have all of these that are not being
  deleted); and for each process what it may rely on where it is: a creation has a
  repository of its own (`Creation`), a catalog write has found its parents live and has
  its index entry ahead of its row (`Mutation`), a call that marks or deletes a repository
  has found it empty (`Emptied`), one that removes a namespace has found it vacated
  (`Vacated`), and two creations never work on one repository (`Apart`). What a process in
  the body of the fence relies on is not disturbed by the others because they are not in
  theirs, which is `FenceExclusive`. There is one lemma per action or group of actions. The proof holds
  for any number of processes, repositories, resources, versions, epochs and faults.
* `ReservationsHold`: `Spec => []ReservationInv`, and from it `AllCounted`
  (`Spec => []PendingCovers`), `NoOrphanRepositories` (`Spec => []NoOrphanRepository`) and
  `StaysReachable` (`Spec => []Reachable`). A creation of a repository does not take the fence; what
  keeps a mark from overtaking it is the count of reservations and the epoch that moves with it.
  So the invariant says of a call that marks the namespace that, if the epoch it has read is still the
  one in the row, nothing is reserved and the listings it has read were right (`Judged`). They were
  right because a row which is not in the listings has a call at work on it (`Working`), or a reservation
  or fence that nobody will ever give back, which blocks the mark (`Accounted`), or is an insert whose answer
  was lost (`unsettled`, the exception that the property makes too). `Found` says what a creation
  has put down so far, which becomes `Reachable` with its last step. `ReservationInv` is inductive
  relative to `LifecycleInv`. That a reservation is counted uses the cardinality theorems
  of the library.

TLC has checked `LifecycleInv` and `ReservationInv` on the instance of the run `lifecycle` (2,084,725 states).

**`WatchStreamProofs`** (assumption `StreamConstants`).

* `StreamsImplementFeed`: `Safe => FeedImplemented`, and `NoLostWakeUp`:
  `Safe => []NobodyForgotten`, where `Safe` is the specification without its fairness.
  Both follow from `StreamInv` (`StreamsHold`), which has three parts. `JournalTyped` is the
  type of the journal. `Tables` says that each cursor, each batch under way and each entry
  of a ring is reached by the journal of its epoch, so that nothing a stream sends
  lies ahead of what was published. `Attending` says that a stream which was
  not told of a failure is attached to the tailer that is running, and that one that waits is
  either woken or has seen all that tailer has read. The step mapping: `Publish` and
  `Bookmark` are the feed's `Publish`, `Reset` its `Restart`, `Register` its `Open`,
  `Deliver` its `Advance`, `Terminate` and `Cancel` its `Close`, and everything else,
  the ring, the reads of the tailer, wake-ups and faults, is a stutter.

**`ManifestDeletionProofs`** (assumption `DeletionConstants`: processes and contents
are positive integers, the processes finitely many, the first manifest has content 1).

* `DeletionInvariant`: `Spec => []DeletionInv`, and from it `RemovedOnce`
  (`Spec => []PublishedOnce`), `RemovesTheRequested` (`Spec => []OnlyTheRequested`),
  `MarkedWithEvidence` (`Spec => []Evident`) and `NoPushOverwritten`
  (`Spec => [][OntoExpected]_vars`). None of the three invariants is inductive. For the
  first, `Token` says where the permission to publish the removal on a commit is: with the process
  that is about to write the marker, in the marker, with the process that has consumed it
  under the lock, or spent; commits that two processes made alike in the same second
  (`twins`) are excepted, in the property as in the proof. `Working` ties a process to the lock, the tip and the receipt
  it has seen. For the second, `Intended` and `Calling` say that every commit an intent,
  a call or a write names has the content that was asked for. For the third, `Calling`
  says that a commit the git service has answered was once the tip and has no manifest,
  and that a row read with `fresh` is still the row. `Sized` counts: every commit is
  the first, was pushed, or is the one removal of a commit with a manifest, so the
  commits never outgrow `Ids`, the commits that receipts and markers are kept for; this
  uses the cardinality theorems of the library.
  The look at the history (`Walk`) is a set of paths to the parents and
  not a recursion; the proofs need only that what it finds was once the tip.

**Only model-checked.** Of the safety properties: `ProjectionCurrent`, `NoLostWork` and
`RelistDrained` of the controller, where a proof would have to carry the invariants of the store
through the composition; `FilteredView`, what a client with a filter sees; and the properties of the
sequencer, of admission and of the catalog writes, for which no inductive invariant has been
worked out. Liveness (`Reconciled`, `EverythingPublished`, `Converges`, `Settles`), and with it
`ENABLED` and fairness, is out of the prover's reach, and so is induction over data: what a recursively
defined operator computes for every input stays with TLC.

## 6. What is not modelled

* Encodings, schemas, GraphQL queries, configuration, logging, metrics, authentication:
  no state of their own, pure I/O, or decisions on one request.
* Size and count limits of the disk store other than the counters: they refuse
  a call before it changes anything.
* Clocks. Leases may be lost at any time; due times are compared with a clock that
  only moves forward.
* ScyllaDB itself. A statement is atomic on its partition and reads see the last
  acknowledged write, as the consistency levels in the code ask for.
* The offline repair of fences and projections, which runs with the API stopped. A fence
  left for repair stays taken.
* Code without a production caller: the move of a repository, deletions of catalog
  resources without a version, the in-memory queue and checkpoints of the controller (every
  kind is registered with a durable store).
* Files and service accounts, whose rows are written by the executor of `CatalogWrites` in
  chains of their own; the category product index, whose generations are activated
  by one conditional write; the in-memory datastore, where an operation is one step behind
  a mutex.
* Packs, quarantine, unguarded file commits, tags and the storage of repositories with its
  tombstones in the git service; the bodies of the reconcilers; CreateNamespace. Of
  `admitRepository` only what concerns a deletion is modelled, as one step.

## 7. Running it

    tlc -workers 2 -config DiskController.cfg MCDiskController
    tlc -workers 2 -config CatalogWrites.cfg MCCatalogWrites
    tlapm LifecycleProofs.tla      # and likewise the other *Proofs, DiskStoreTheorems,
                                   # LifecycleInvariant, LifecycleReservations

`PROJECT.json` names the module and configuration of each run, and for every property
a mutation of a mapped definition (`Name_Variant`, beside the original) that
violates it.
