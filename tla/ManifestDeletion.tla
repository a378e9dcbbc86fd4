-------------------------- MODULE ManifestDeletion --------------------------
(***************************************************************************)
(* The deletion of a Namespace or a Repository by the removal of its       *)
(* manifest: one operation over two services.                              *)
(*                                                                         *)
(* The API (internal/admin/graph/resolver/infrastructure_deletion.go)      *)
(* writes an intent into the status of the row, asks the git service for a *)
(* removal that is conditional on the commit of the intent, writes the     *)
(* commit it gets into the intent, and then marks the row.  The controller *)
(* repeats that from the intent, and at last completes the deletion.       *)
(*                                                                         *)
(* The git service (gitstore-git-service/src/grpc/server.rs) keeps per     *)
(* requested removal a receipt, a ref to the commit of the removal, and a  *)
(* marker, which allows a prepared removal to be resumed and is consumed   *)
(* before the branch moves.  Several processes may serve one repository.   *)
(*                                                                         *)
(* Meanwhile owners push changes, removals and forced resets, admission    *)
(* follows the pushes, and processes of either service die anywhere.       *)
(***************************************************************************)
EXTENDS Integers, Sequences, FiniteSets

CONSTANTS
    Services,      \* processes of the git service, numbered from 1
    Contents,      \* contents of the manifest, 1 is the first
    HistoryLimit,  \* DELETE_RECEIPT_HISTORY_LIMIT
    MaxRequests,   \* requests of users
    MaxTrouble,    \* pushes and faults
    Loads          \* kinds of resource, each with a number of git processes

ASSUME DeletionConstants ==
    /\ Services \subseteq Nat \ {0} /\ IsFiniteSet(Services)
    /\ Contents \subseteq Nat \ {0} /\ 1 \in Contents
    /\ HistoryLimit \in Nat /\ MaxRequests \in Nat /\ MaxTrouble \in Nat
    /\ Loads \subseteq [kind : {"Namespace", "Repository"}, processes : Nat]

VARIABLES
    load,      \* "Namespace" or "Repository", and how many processes serve git
    commits,   \* the objects: per commit its parent and the manifest, 0 if absent
    tip,       \* refs/heads/main
    receipt,   \* per expected commit: the commit of its removal
    marker,    \* per expected commit: the "-prepared" ref
    lock,      \* the lock file of the branch
    job,       \* per process: the write it is at, under its write lock
    row,       \* the row of the resource
    call,      \* the calls on the row
    requests, trouble,
    past,      \* history: every commit the branch was at
    published, \* history: per expected commit, how often its removal was published
    twins,     \* history: expected commits whose removal two processes prepared alike
    asked,     \* history: the content whose deletion was requested
    stranded   \* history: evidence of a pushed removal was dropped

gitVars == <<commits, tip, receipt, marker, lock, past, published, twins>>
rowVars == <<row, asked, stranded>>
budgets == <<requests, trouble>>
vars == <<load, gitVars, job, rowVars, call, budgets>>

Callers == {"user", "controller", "push"}
MaxCommits == 2 * (MaxTrouble + 1)
Ids == 1..MaxCommits
File(c) == commits[c].file
Free == 0
Stale == -1
None == [c \in Ids |-> 0]

NoJob == [pc |-> "idle", expected |-> 0, commit |-> 0, caller |-> "none"]
NoRow == [here |-> FALSE, commit |-> 0, expected |-> 0, removal |-> 0, deleting |-> FALSE]
NoCall == [pc |-> "idle", row |-> NoRow, fresh |-> FALSE, head |-> 0, removed |-> 0,
           code |-> "none"]

\* An admitted resource whose manifest is at the tip.
Init ==
    /\ load \in Loads
    /\ commits = <<[parent |-> 0, file |-> 1]>>
    /\ tip = 1 /\ receipt = None /\ marker = None /\ lock = Free
    /\ job = [s \in Services |-> NoJob]
    /\ row = [NoRow EXCEPT !.here = TRUE, !.commit = 1]
    /\ call = [c \in Callers |-> NoCall]
    /\ requests = 0 /\ trouble = 0
    /\ past = {1} /\ published = None /\ twins = {} /\ asked = 0 /\ stranded = FALSE

-----------------------------------------------------------------------------
(* The guarded DeleteFile of the git service.                              *)

\* The caller, if it still waits, gets the answer; the write lock is released.
Answer(s, code, d) ==
    LET c == job[s].caller IN
    /\ job' = [job EXCEPT ![s] = NoJob]
    /\ call' = IF c \in Callers /\ call[c].pc = "wait"
               THEN [call EXCEPT ![c].pc = "answer", ![c].code = code, ![c].removed = d]
               ELSE call

\* The process that takes the next write: they are alike, so it is the first idle one.
Idle(s) ==
    /\ s <= load.processes /\ job[s].pc = "idle"
    /\ \A t \in Services : t < s => job[t].pc # "idle"

Proceed(s, pc, d) ==
    /\ job' = [job EXCEPT ![s].pc = pc, ![s].commit = d]
    /\ UNCHANGED call

\* Reads receipt and branch.
LookUp(s) ==
    LET e == job[s].expected IN
    /\ job[s].pc = "look"
    /\ IF tip # e THEN Proceed(s, "completed", tip)
       ELSE IF receipt[e] # 0 THEN Proceed(s, "resume", 0)
       ELSE IF File(e) = 0 THEN Answer(s, "aborted", 0)
       ELSE Proceed(s, "prepare", 0)
    /\ UNCHANGED <<load, gitVars, rowVars, budgets>>

\* The first n commits of the walk from c to the parents
Walk(c, n) ==
    {d \in DOMAIN commits : \E k \in 1..n : \E w \in [1..k -> DOMAIN commits] :
                              /\ w[1] = c /\ w[k] = d
                              /\ \A i \in 2..k : w[i] = commits[w[i - 1]].parent}

\* Mutant: only the tip itself is accepted.
Completed_Tip(s) ==
    LET e == job[s].expected
        t == job[s].commit IN
    /\ job[s].pc = "completed"
    /\ IF receipt[e] = 0 THEN Answer(s, "aborted", 0)
       ELSE IF receipt[e] = t THEN Answer(s, "ok", receipt[e])
       ELSE Answer(s, "failed", 0)
    /\ UNCHANGED <<load, gitVars, rowVars, budgets>>

\* completed_delete_receipt, with the tip that was read
Completed(s) ==
    LET e == job[s].expected
        t == job[s].commit IN
    /\ job[s].pc = "completed"
    /\ IF receipt[e] = 0 THEN Answer(s, "aborted", 0)
       ELSE IF File(t) = 0 /\ receipt[e] \in Walk(t, HistoryLimit)
            THEN Answer(s, "ok", receipt[e])
            ELSE Answer(s, "failed", 0)
    /\ UNCHANGED <<load, gitVars, rowVars, budgets>>

\* resume_prepared_delete_receipt up to publication
Resume(s) ==
    LET e == job[s].expected IN
    /\ job[s].pc = "resume"
    /\ IF marker[e] = receipt[e] THEN Proceed(s, "publish", receipt[e])
       ELSE Answer(s, "failed", 0)
    /\ UNCHANGED <<load, gitVars, rowVars, budgets>>

\* Writes the commit and its receipt.  Commits of one parent that are written in
\* the same second are the same object; else another process's receipt differs.
Prepare(s) ==
    LET e == job[s].expected
        d == IF receipt[e] = 0 THEN Len(commits) + 1 ELSE receipt[e] IN
    /\ job[s].pc = "prepare"
    /\ \/ /\ Proceed(s, "mark", d)
          /\ commits' = IF receipt[e] = 0 THEN Append(commits, [parent |-> e, file |-> 0])
                        ELSE commits
          /\ receipt' = [receipt EXCEPT ![e] = d]
          /\ twins' = IF receipt[e] = 0 THEN twins ELSE twins \cup {e}
       \/ /\ receipt[e] # 0
          /\ Answer(s, "failed", 0)
          /\ UNCHANGED <<commits, receipt, twins>>
    /\ UNCHANGED <<load, tip, marker, lock, past, published, rowVars, budgets>>

\* The marker must not exist.
Mark(s) ==
    LET e == job[s].expected IN
    /\ job[s].pc = "mark"
    /\ IF marker[e] = 0
       THEN /\ Proceed(s, "publish", job[s].commit)
            /\ marker' = [marker EXCEPT ![e] = job[s].commit]
       ELSE Answer(s, "failed", 0) /\ UNCHANGED marker
    /\ UNCHANGED <<load, commits, tip, receipt, lock, past, published, twins, rowVars, budgets>>

\* publish_delete_ref prepares its transaction: it holds the lock of the branch from
\* here, and fails if it does not get it or a ref is not what it has to be.
Lock(s) ==
    LET e == job[s].expected IN
    /\ job[s].pc = "publish"
    /\ IF lock = Free /\ tip = e /\ receipt[e] = job[s].commit
       THEN Proceed(s, "consume", job[s].commit) /\ lock' = s
       ELSE Answer(s, "failed", 0) /\ UNCHANGED lock
    /\ UNCHANGED <<load, commits, tip, receipt, marker, past, published, twins, rowVars, budgets>>

\* Mutant: the marker is not consumed.
Consume_Keep(s) ==
    /\ job[s].pc = "consume"
    /\ Proceed(s, "commit", job[s].commit)
    /\ UNCHANGED <<load, gitVars, rowVars, budgets>>

\* ... consumes the marker,
Consume(s) ==
    LET e == job[s].expected IN
    /\ job[s].pc = "consume"
    /\ IF marker[e] = job[s].commit
       THEN /\ Proceed(s, "commit", job[s].commit)
            /\ marker' = [marker EXCEPT ![e] = 0]
            /\ UNCHANGED lock
       ELSE Answer(s, "failed", 0) /\ lock' = Free /\ UNCHANGED marker
    /\ UNCHANGED <<load, commits, tip, receipt, past, published, twins, rowVars, budgets>>

\* ... and moves the branch.
Publish(s) ==
    LET e == job[s].expected
        d == job[s].commit IN
    /\ job[s].pc = "commit"
    /\ tip' = d /\ past' = past \cup {d} /\ lock' = Free
    /\ published' = [published EXCEPT ![e] = @ + 1]
    /\ Answer(s, "ok", d)
    /\ UNCHANGED <<load, commits, receipt, marker, twins, rowVars, budgets>>

-----------------------------------------------------------------------------
(* The calls on the row.  fresh says that the row still has the version    *)
(* the call has read: its conditional write will be applied.               *)

At(c, pc) == call[c].pc = pc
Goto(c, pc) == call' = [call EXCEPT ![c].pc = pc]
Return(c) == call' = [call EXCEPT ![c] = NoCall]

\* The conditional write of r, after which the call is at pc.
Write(c, r, pc) ==
    IF call[c].fresh
    THEN /\ row' = r
         /\ call' = [d \in Callers |->
                      IF d # c THEN [call[d] EXCEPT !.fresh = FALSE]
                      ELSE IF pc = "idle" THEN NoCall
                      ELSE [call[c] EXCEPT !.pc = pc, !.row = r]]
    ELSE Return(c) /\ UNCHANGED row

\* DeleteNamespace and deleteRepositoryWithOutcome
Request ==
    /\ At("user", "idle") /\ requests < MaxRequests
    /\ requests' = requests + 1
    /\ IF row.here /\ ~ row.deleting
       THEN call' = [call EXCEPT !["user"] =
                       [NoCall EXCEPT !.pc = IF row.expected = 0 THEN "resolve" ELSE "head",
                                      !.row = row, !.fresh = TRUE]]
       ELSE UNCHANGED call
    /\ UNCHANGED <<load, gitVars, job, rowVars, trouble>>

\* CompleteNamespaceDeletion and CompleteRepositoryDeletion, as the controller
\* repeats them until the row is gone
Complete ==
    /\ At("controller", "idle") /\ row.here /\ row.expected # 0
    /\ call' = [call EXCEPT !["controller"] =
                  [NoCall EXCEPT !.pc = IF row.deleting THEN "verify" ELSE "head",
                                 !.row = row, !.fresh = TRUE]]
    /\ UNCHANGED <<load, gitVars, job, rowVars, budgets>>

\* Without an intent: what is at the tip must be what was admitted.
Resolve(c) ==
    /\ At(c, "resolve")
    /\ IF File(tip) # 0 /\ File(tip) = File(call[c].row.commit)
       THEN call' = [call EXCEPT ![c].pc = "intend", ![c].head = tip]
       ELSE Return(c)
    /\ UNCHANGED <<load, gitVars, job, rowVars, budgets>>

\* saveDeletionIntent
Intend(c) ==
    /\ At(c, "intend")
    /\ Write(c, [call[c].row EXCEPT !.expected = call[c].head], "head")
    /\ asked' = IF call[c].fresh THEN File(call[c].head) ELSE asked
    /\ UNCHANGED <<load, gitVars, job, stranded, budgets>>

\* A manifest that is there again after its recorded removal is left alone.
Pending(c) ==
    /\ At(c, "head")
    /\ IF File(tip) # 0 /\ call[c].row.removal # 0 THEN Return(c)
       ELSE call' = [call EXCEPT ![c].pc = "delete", ![c].head = tip]
    /\ UNCHANGED <<load, gitVars, job, rowVars, budgets>>

\* DeleteFile waits for the write lock of the process it reaches.
DeleteFile(c) ==
    /\ At(c, "delete")
    /\ \E s \in Services :
         /\ Idle(s)
         /\ job' = [job EXCEPT ![s] = [NoJob EXCEPT !.pc = "look",
                                        !.expected = call[c].row.expected, !.caller = c]]
    /\ Goto(c, "wait")
    /\ UNCHANGED <<load, gitVars, rowVars, budgets>>

\* MergeInfrastructureStatus: a recorded removal is never replaced.
Merges(old, new) ==
    old.removal # 0 => new.removal = old.removal /\ new.expected = old.expected

\* Mutant: the intent follows the branch whatever it says now.
Follows_Any(c) ==
    /\ call[c].code = "aborted" /\ call[c].head # call[c].row.expected
    /\ File(call[c].head) # 0

\* The branch was moved without a change of the manifest.
Follows(c) ==
    /\ call[c].code = "aborted" /\ call[c].head # call[c].row.expected
    /\ File(call[c].head) # 0 /\ File(call[c].head) = File(call[c].row.expected)

\* The answer: the removal is recorded, or the intent follows the branch, to be
\* tried again by the controller.
Answered(c) ==
    LET r == call[c].row
        removed == [r EXCEPT !.removal = call[c].removed]
        moved == [r EXCEPT !.expected = call[c].head] IN
    /\ At(c, "answer")
    /\ IF call[c].code = "ok" /\ Merges(r, removed) THEN Write(c, removed, "recorded")
       ELSE IF Follows(c) THEN Write(c, moved, "idle")
       ELSE Return(c) /\ UNCHANGED row
    /\ UNCHANGED <<load, gitVars, job, asked, stranded, budgets>>

\* The head that is to be admitted
Recorded(c) ==
    /\ At(c, "recorded")
    /\ call' = [call EXCEPT ![c].pc = "admit", ![c].head = tip]
    /\ UNCHANGED <<load, gitVars, job, rowVars, budgets>>

\* admitCommittedInfrastructureDeletion: the head must be current
Admit(c) ==
    /\ At(c, "admit")
    /\ IF tip = call[c].head THEN Goto(c, "evidence") ELSE Return(c)
    /\ UNCHANGED <<load, gitVars, job, rowVars, budgets>>

\* ... and the row, read again, must have a removal without the manifest, as the head.
Evidence(c) ==
    /\ At(c, "evidence")
    /\ IF /\ row.here /\ ~ row.deleting
          /\ row.removal # 0 /\ File(row.removal) = 0
          /\ File(call[c].head) = 0
       THEN call' = [call EXCEPT ![c].pc = "mark", ![c].row = row, ![c].fresh = TRUE]
       ELSE Return(c)
    /\ UNCHANGED <<load, gitVars, job, rowVars, budgets>>

\* MarkInfrastructureDeletion; repairCommittedManifest tries again.
MarkDeletion(c) ==
    /\ At(c, "mark")
    /\ \/ Write(c, [call[c].row EXCEPT !.deleting = TRUE], "idle")
       \/ ~ call[c].fresh /\ Goto(c, "admit") /\ UNCHANGED row
    /\ UNCHANGED <<load, gitVars, job, asked, stranded, budgets>>

\* verifyInfrastructureRemoval
Verify(c) ==
    /\ At(c, "verify")
    /\ IF call[c].row.removal # 0 /\ File(tip) = 0 THEN Goto(c, "finish") ELSE Return(c)
    /\ UNCHANGED <<load, gitVars, job, rowVars, budgets>>

\* DeleteNamespaceWithResourceVersion, CompleteRepositoryDeletion of the store
Finish(c) ==
    /\ At(c, "finish")
    /\ Write(c, [call[c].row EXCEPT !.here = FALSE], "idle")
    /\ UNCHANGED <<load, gitVars, job, asked, stranded, budgets>>

-----------------------------------------------------------------------------
(* Pushes, and their admission.                                            *)

\* validateNamespacePolicies: no manifest of a Namespace that is being deleted
\* is written.
PolicyAccepts(old, new) ==
    load.kind = "Namespace" /\ new \notin {0, old} => ~ row.deleting

\* receive_pack up to the pre-receive hook: a new commit on the tip, or with a forced
\* push an earlier one.  It is followed while the row is there.
Validate(s) ==
    /\ Idle(s) /\ trouble < MaxTrouble /\ row.here
    /\ trouble' = trouble + 1
    /\ \E trees \in {commits} \cup
                     {Append(commits, [parent |-> tip, file |-> f]) : f \in Contents \cup {0}} :
         \E new \in IF trees = commits THEN past \ {tip} ELSE {Len(trees)} :
           /\ PolicyAccepts(File(tip), trees[new].file)
           /\ commits' = trees
           /\ job' = [job EXCEPT ![s] =
                        [pc |-> "move", expected |-> tip, commit |-> new, caller |-> "git"]]
    /\ UNCHANGED <<load, tip, receipt, marker, lock, past, published, twins, rowVars, call,
                   requests>>

\* The ref transaction, refused if the branch has moved or is locked, and the
\* post-receive call, which may get lost.
ReceivePack(s) ==
    LET old == job[s].expected
        new == job[s].commit IN
    /\ job[s].pc = "move"
    /\ job' = [job EXCEPT ![s] = NoJob]
    /\ IF lock = Free /\ tip = old
       THEN /\ tip' = new /\ past' = past \cup {new}
            /\ \/ UNCHANGED call
               \/ /\ File(old) # 0 /\ File(new) = 0
                  /\ call' = [call EXCEPT !["push"] = [NoCall EXCEPT !.pc = "fence",
                                                    !.head = new, !.removed = File(old)]]
       ELSE UNCHANGED <<tip, past, call>>
    /\ UNCHANGED <<load, commits, receipt, marker, lock, published, twins, rowVars, budgets>>

\* Admission of what is at the tip; a Repository with an intent is left alone.
AdmitUpdate ==
    /\ row.here /\ ~ row.deleting
    /\ load.kind = "Repository" => row.expected = 0
    /\ File(tip) \notin {0, File(row.commit)}
    /\ row' = [row EXCEPT !.commit = tip]
    /\ call' = [c \in Callers |-> [call[c] EXCEPT !.fresh = FALSE]]
    /\ UNCHANGED <<load, gitVars, job, asked, stranded, budgets>>

\* AdmitResources drops the deletions of a push the branch has left behind.
Fence(c) ==
    /\ At(c, "fence")
    /\ IF tip = call[c].head THEN Goto(c, "lookup") ELSE Return(c)
    /\ UNCHANGED <<load, gitVars, job, rowVars, budgets>>

\* deleteResource: what was removed must be what was admitted.
DeleteResource(c) ==
    /\ At(c, "lookup")
    /\ IF row.here /\ File(row.commit) = call[c].removed
       THEN call' = [call EXCEPT ![c].pc = "absent", ![c].row = row, ![c].fresh = TRUE]
       ELSE Return(c)
    /\ UNCHANGED <<load, gitVars, job, rowVars, budgets>>

\* markPushedInfrastructureDeletion: the manifest must be absent at the tip.
Absent(c) ==
    /\ At(c, "absent")
    /\ IF File(tip) = 0 THEN call' = [call EXCEPT ![c].pc = "push", ![c].head = tip]
       ELSE Return(c)
    /\ UNCHANGED <<load, gitVars, job, rowVars, budgets>>

\* Mutant: no kind records the removal of a pending intent.
Evidenced_Preserve(r, t) ==
    LET keeps == r.expected # 0 /\ ~ r.deleting IN
    [r EXCEPT !.expected = IF @ = 0 THEN r.commit ELSE @,
              !.removal = IF @ # 0 \/ keeps THEN @ ELSE t,
              !.deleting = TRUE]

\* The row with the intent, the removal and the mark of a pushed removal.  The
\* statement that marks a Namespace keeps the intent it finds
\* (PreserveDeletionStatus): the removal is recorded only with a new intent or on
\* a row that is marked already.
Evidenced(r, t) ==
    LET keeps == load.kind = "Namespace" /\ r.expected # 0 /\ ~ r.deleting IN
    [r EXCEPT !.expected = IF @ = 0 THEN r.commit ELSE @,
              !.removal = IF @ # 0 \/ keeps THEN @ ELSE t,
              !.deleting = TRUE]

MarkPushed(c) ==
    LET r == Evidenced(call[c].row, call[c].head) IN
    /\ At(c, "push")
    /\ Write(c, r, "idle")
    /\ stranded' = (stranded \/ (call[c].fresh /\ r.removal = 0))
    /\ UNCHANGED <<load, gitVars, job, asked, budgets>>

-----------------------------------------------------------------------------
(* Faults.                                                                 *)

\* A process of the git service dies; its lock file may stay.
Crash(s) ==
    /\ job[s].pc # "idle" /\ trouble < MaxTrouble
    /\ trouble' = trouble + 1
    /\ Answer(s, "failed", 0)
    /\ lock' \in IF lock = s THEN {Free, Stale} ELSE {lock}
    /\ UNCHANGED <<load, commits, tip, receipt, marker, past, published, twins, rowVars,
                   requests>>

\* A process of the API dies, or the request ends; a write it has sent goes on, and
\* nobody waits for its answer.
Abandon(c) ==
    /\ ~ At(c, "idle") /\ trouble < MaxTrouble
    /\ trouble' = trouble + 1
    /\ Return(c)
    /\ job' = [s \in Services |-> IF job[s].caller = c
                                  THEN [job[s] EXCEPT !.caller = "none"] ELSE job[s]]
    /\ UNCHANGED <<load, gitVars, rowVars, requests>>

-----------------------------------------------------------------------------
JobStep(s) ==
    \/ LookUp(s) \/ Completed(s) \/ Resume(s) \/ Prepare(s) \/ Mark(s)
    \/ Lock(s) \/ Consume(s) \/ Publish(s) \/ ReceivePack(s)

CallStep(c) ==
    \/ Resolve(c) \/ Intend(c) \/ Pending(c) \/ DeleteFile(c) \/ Answered(c)
    \/ Recorded(c) \/ Admit(c) \/ Evidence(c) \/ MarkDeletion(c) \/ Verify(c) \/ Finish(c)
    \/ Fence(c) \/ DeleteResource(c) \/ Absent(c) \/ MarkPushed(c)

Next ==
    \/ Request \/ Complete \/ AdmitUpdate
    \/ \E s \in Services : JobStep(s) \/ Validate(s) \/ Crash(s)
    \/ \E c \in Callers : CallStep(c) \/ Abandon(c)

\* The git service works off its writes, and the controller tries again; the calls
\* of users and the admission of pushes may stop anywhere.
Fairness ==
    /\ WF_vars(Complete \/ CallStep("controller"))
    /\ \A s \in Services : WF_vars(JobStep(s))

Spec == Init /\ [][Next]_vars /\ Fairness

-----------------------------------------------------------------------------
(* Properties.                                                             *)

\* The removal requested for one commit is published at most once, although
\* the request is repeated by users and controllers, the branch is forced back to
\* that commit and processes die between receipt, marker, lock and branch
\* (publish_delete_ref consumes the marker first).  The one exception: two
\* processes that wrote the same commit in the same second, since delete_file takes
\* no lock across processes.
PublishedOnce ==
    \A e \in Ids : published[e] > 1 => e \in twins

\* DeleteFile removes only the content that was there when the deletion was
\* requested, whatever is pushed or admitted in between
\* (deleteInfrastructureManifest follows the branch only over commits that leave
\* the manifest as it was).
OnlyTheRequested ==
    \A e \in Ids : published[e] > 0 => File(e) = asked

\* A row that is marked for deletion, or gone, has a recorded removal, and a recorded
\* removal is a commit without the manifest that was once the tip: what
\* verifyInfrastructureRemoval relies on.  A pushed removal that meets the intent
\* of a Namespace is the exception, its evidence is dropped.
Evident ==
    /\ row.deleting => row.removal # 0 \/ stranded
    /\ stranded => load.kind = "Namespace"
    /\ row.removal # 0 => row.removal \in past /\ File(row.removal) = 0

\* What the runbook leaves to an operator: a lock file of a dead process, a manifest
\* that was changed or restored, a removal that is not proven by a receipt in the
\* bounded history, an interrupted publication, and dropped evidence.
NeedsOperator ==
    LET e == row.expected
        d == receipt[e] IN
    \/ lock = Stale
    \/ row.deleting /\ row.removal = 0
    \/ row.removal # 0 /\ File(tip) # 0
    \/ /\ ~ row.deleting
       /\ \/ tip = e /\ d # 0 /\ marker[e] # d
          \/ tip # e /\ d = 0 /\ File(tip) # File(e)
          \/ tip # e /\ d # 0 /\ (File(tip) # 0 \/ d \notin Walk(tip, HistoryLimit))

\* A requested deletion ends: once the pushes and the faults are over, the row is
\* gone, unless the runbook calls for an operator.  Nothing else makes the controller
\* repeat CompleteNamespaceDeletion without end.
Settles ==
    <>[](row.expected # 0 /\ row.here => NeedsOperator)

=============================================================================
