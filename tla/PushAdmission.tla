--------------------------- MODULE PushAdmission ----------------------------
(***************************************************************************)
(* How pushed manifests become rows.  The git service moves a branch in    *)
(* one ref transaction and then calls AdmitResources once for it, fire and *)
(* forget (git/hooks/admission_handler.rs): calls overlap, are reordered,  *)
(* and one that fails is only logged.  AdmitResources (cataloggrpc/        *)
(* server.go) reads the branch, derives what the push did to each manifest *)
(* and writes the rows one at a time, reading the branch again in between. *)
(*                                                                         *)
(* One repository and one branch.  A path holds the manifest of one        *)
(* resource; a tree maps every path to its content, 0 when there is none.  *)
(* A commit is its number.  Product stands for CategoryTaxonomy too, and   *)
(* Collection for ProductVariant: their handlers have the same steps.      *)
(* Of what the pre-receive hook refuses only the rules that read the row   *)
(* of a Namespace are modelled: a push any other rule refuses changes      *)
(* nothing.  The policies that run after the branch has moved read other   *)
(* rows and grants: they may deny any manifest.                            *)
(***************************************************************************)
EXTENDS Integers, Sequences, FiniteSets

CONSTANTS
    Repositories, \* the repositories to choose from
    Attempts,     \* AdmissionWriteAttempts
    FileAttempts, \* maxFileAdmissionUpdateAttempts
    DenialAttempts, \* maxRepositoryAdmissionUpdateAttempts
    MaxFaults     \* bound on lost calls and failed statements

Kinds == {"Product", "Collection", "File", "Namespace"}

\* What is pushed to a repository: the kinds of its manifests, one for each path,
\* what a manifest may say, what a push may do, and how many there are.
ASSUME AdmissionConstants ==
    /\ \A r \in Repositories :
         /\ r.kinds \in Seq(Kinds)
         /\ r.contents \subseteq Nat \ {0}
         /\ r.changes \subseteq {"commit", "reset", "delete"}
         /\ r.pushes \in Nat
    /\ {Attempts, FileAttempts, DenialAttempts} \subseteq Nat \ {0}
    /\ MaxFaults \in Nat

VARIABLES
    repo,    \* the repository, one of Repositories
    tree,    \* the tree of each commit
    pushed,  \* the commit of the push in its hooks, or Idle
    reflog,  \* the commits the branch was at, 0 when it did not exist
    call,    \* the AdmitResources call of each push
    row,     \* the stored resource of each path
    missed,  \* history: the paths of which a call was lost or gave up
    denied,  \* history: what a policy denied, and whether it had a row then
    faults   \* faults so far

gitVars == <<repo, tree, pushed, reflog>>

Idle == -1
admVars == <<gitVars, call, row, missed, denied, faults>>

Kind == repo.kinds

Paths == DOMAIN Kind

NoTree == [p \in Paths |-> 0]

TreeOf(c) == IF c = 0 THEN NoTree ELSE tree[c]

Tip == reflog[Len(reflog)]

(***************************************************************************)
(* uid counts the creations of the identity and version its writes: the    *)
(* pair is what a conditional statement compares.  commit is git_commit_   *)
(* sha, kept for the kinds that compare it.  accepted is the condition     *)
(* AdmissionAccepted of a Product.  tip is a history variable:             *)
(* how many commits the branch had been at when the content (for a         *)
(* Namespace also the deletion mark) was last compared with its tip.       *)
(***************************************************************************)
NoRow == [here |-> FALSE, uid |-> 0, version |-> 0, content |-> 0,
          commit |-> 0, deleting |-> FALSE, accepted |-> TRUE, tip |-> 0]

NoOp == [path |-> 0, verb |-> "none", only |-> FALSE]

NoCall == [pc |-> "none", tip |-> 0, upserts |-> {}, deletes |-> {}, fenced |-> FALSE,
           op |-> NoOp, verb |-> "none", got |-> NoRow, at |-> 0,
           superseded |-> FALSE, conflict |-> FALSE, attempt |-> 1, retry |-> 1]

Ended == [NoCall EXCEPT !.pc = "ended"]

Pushes == 1..repo.pushes

Init ==
    /\ repo \in Repositories
    /\ tree = <<>> /\ pushed = Idle /\ reflog = <<0>>
    /\ call = [i \in Pushes |-> NoCall]
    /\ row = [p \in Paths |-> NoRow]
    /\ missed = {} /\ denied = {}
    /\ faults = 0

-----------------------------------------------------------------------------
(* Git.                                                                    *)

\* The commits a push may propose: a new one, which need not change a manifest,
\* an earlier one with a forced push, or 0 for the deletion of the branch.
Proposals(trees) ==
    {c \in 0..Len(trees) :
       /\ c # Tip
       /\ IF trees # tree THEN "commit" \in repo.changes /\ c = Len(trees)
          ELSE IF c = 0 THEN "delete" \in repo.changes
          ELSE "reset" \in repo.changes}

\* validateNamespacePolicies on one changed manifest: an updated Namespace has a
\* row, and none that is written is being deleted.
PolicyAccepts(p, old, new) ==
    Kind[p] = "Namespace" /\ new \notin {0, old} =>
        /\ old # 0 => row[p].here
        /\ ~ row[p].deleting

\* The pre-receive hook reads the rows; the repository's write lock is held from
\* here until the branch has moved.
ValidateResources ==
    /\ pushed = Idle
    /\ Len(reflog) <= repo.pushes
    /\ \E trees \in {tree} \cup
                     {Append(tree, t) : t \in [Paths -> repo.contents \cup {0}]} :
         \E new \in Proposals(trees) :
           LET proposed == IF new = 0 THEN NoTree ELSE trees[new] IN
           /\ \A p \in Paths : PolicyAccepts(p, TreeOf(Tip)[p], proposed[p])
           /\ tree' = trees
           /\ pushed' = new
    /\ UNCHANGED <<repo, reflog, call, row, missed, denied, faults>>

\* The ref transaction, and the post-receive call it starts.
ReceivePack ==
    /\ pushed # Idle
    /\ reflog' = Append(reflog, pushed)
    /\ pushed' = Idle
    /\ call' = [call EXCEPT ![Len(reflog)].pc = "resolve"]
    /\ UNCHANGED <<repo, tree, row, missed, denied, faults>>

Old(i) == TreeOf(reflog[i])
New(i) == TreeOf(reflog[i + 1])

-----------------------------------------------------------------------------
(* AdmitResources: the loop.                                               *)

\* deriveResourceAdmissionOperations on the changed paths
Verb(i, p) ==
    IF New(i)[p] = 0 THEN "delete" ELSE IF Old(i)[p] = 0 THEN "create" ELSE "update"

Changed(i) == {p \in Paths : Old(i)[p] # New(i)[p]}

Operation(i, p) == [path |-> p, verb |-> Verb(i, p), only |-> FALSE]

\* unchangedManifestOperations: what the tip still says of what the push said.
\* A delayed create may not overwrite; a Namespace converges instead.
Surviving(i, tip) ==
    {[path |-> p,
      verb |-> IF Kind[p] = "Namespace" THEN "converge" ELSE Verb(i, p),
      only |-> Kind[p] # "Namespace" /\ Verb(i, p) = "create"] :
        p \in {q \in Changed(i) : New(i)[q] # 0 /\ TreeOf(tip)[q] = New(i)[q]}}

\* independentCatalogUpserts
Independent(upserts, deletes) ==
    deletes = {} /\ \A o \in upserts : Kind[o.path] = "Product"

\* Where the call goes once it knows its operations.
Planned(c) ==
    IF Independent(c.upserts, c.deletes) THEN [c EXCEPT !.pc = "read"]
    ELSE [c EXCEPT !.pc = "fence", !.fenced = TRUE]

\* The branch is read, then the manifests at the old, the new and its commit.
Resolve(i) ==
    LET new == reflog[i + 1]
        fresh == [NoCall EXCEPT !.tip = Tip, !.attempt = call[i].attempt]
        exact == [fresh EXCEPT
                    !.upserts = {Operation(i, p) :
                                   p \in {q \in Changed(i) : New(i)[q] # 0}},
                    !.deletes = {q \in Changed(i) : New(i)[q] = 0}]
        stale == [fresh EXCEPT !.upserts = Surviving(i, Tip)]
    IN  /\ call[i].pc = "resolve"
        /\ call' = [call EXCEPT ![i] =
                     IF (Tip = 0) # (new = 0) THEN Ended
                     ELSE IF Tip = new THEN Planned(exact)
                     ELSE IF \E o \in stale.upserts : o.only
                          THEN [stale EXCEPT !.pc = "filter"]
                     ELSE Planned(stale)]
        /\ UNCHANGED <<gitVars, row, missed, denied, faults>>

\* A delayed create is dropped when the identity has a row.
Filter(i) ==
    /\ call[i].pc = "filter"
    /\ call' = [call EXCEPT ![i] =
                 Planned([@ EXCEPT !.upserts =
                            {o \in @ : o.only => ~ row[o.path].here}])]
    /\ UNCHANGED <<gitVars, row, missed, denied, faults>>

\* continue, until the attempts are used up
Again(i, c) ==
    IF c.attempt < Attempts
    THEN /\ call' = [call EXCEPT ![i] = [NoCall EXCEPT !.pc = "resolve",
                                                       !.attempt = c.attempt + 1]]
         /\ UNCHANGED missed
    ELSE /\ call' = [call EXCEPT ![i] = Ended]
         /\ missed' = missed \cup Changed(i)

\* isAdmissionCommitCurrent
CommitCurrent(i) == Tip = call[i].tip

\* The whole-snapshot fence of every call but those of independent upserts.
Fence(i) ==
    /\ call[i].pc = "fence"
    /\ IF CommitCurrent(i)
       THEN /\ call' = [call EXCEPT ![i].pc = "read", ![i].at = Len(reflog)]
            /\ UNCHANGED missed
       ELSE Again(i, call[i])
    /\ UNCHANGED <<gitVars, row, denied, faults>>

\* After the writes: superseded, or moved meanwhile.
Return(i) ==
    /\ call[i].pc = "read"
    /\ call[i].upserts = {}
    /\ call[i].conflict \/ call[i].deletes = {}
    /\ IF \/ call[i].conflict \/ call[i].superseded
          \/ call[i].fenced /\ ~ CommitCurrent(i)
       THEN Again(i, call[i])
       ELSE call' = [call EXCEPT ![i] = Ended] /\ UNCHANGED missed
    /\ UNCHANGED <<gitVars, row, denied, faults>>

-----------------------------------------------------------------------------
(* AdmitResources: an upsert.                                              *)

\* The order of the entries: creates, updates, and by kind and name.
Rank(o) == IF o.verb = "create" THEN 0 ELSE IF o.verb = "update" THEN 1 ELSE 2

IsFirst(o, S) ==
    \A x \in S : Rank(o) < Rank(x) \/ (Rank(o) = Rank(x) /\ o.path <= x.path)

\* The entry is done; the next one is read.
Done(c) ==
    [c EXCEPT !.pc = "read", !.upserts = @ \ {c.op}, !.op = NoOp, !.verb = "none",
              !.got = NoRow, !.retry = 1, !.at = IF c.fenced THEN @ ELSE 0]

\* What admitNamespace rejects: the verb and the row do not fit, or it is being
\* deleted.  The rejection is recorded and the call goes on.
Rejected(c) ==
    /\ Kind[c.op.path] = "Namespace"
    /\ \/ c.got.deleting
       \/ c.verb = "update" /\ ~ c.got.here
       \/ c.verb = "create" /\ c.got.here

\* A wrong lookup: a delayed create that finds a row goes on as an update.
Skips_Never(o, got) == FALSE

\* A delayed create that finds a row is dropped.
Skips(o, got) == o.only /\ got.here

\* operationForEntry, and what the handler decides from the row alone.  A
\* created Namespace that has a row is updated; a File that has one and was not
\* created by the push starts with the update.
Read(i) ==
    /\ call[i].pc = "read"
    /\ \E o \in call[i].upserts :
         LET k == Kind[o.path]
             got == row[o.path]
             c == [call[i] EXCEPT
                     !.op = o, !.got = got,
                     !.verb = IF k = "Namespace" /\ o.verb = "create" /\ got.here
                              THEN "update" ELSE o.verb,
                     !.retry = IF k = "File" /\ got.here /\ o.verb # "create"
                               THEN 2 ELSE 1]
         IN  /\ IsFirst(o, call[i].upserts)
             /\ call' = [call EXCEPT ![i] =
                          IF Skips(o, got) \/ Rejected(c) THEN Done(c)
                          ELSE [c EXCEPT !.pc = IF k \in {"Product", "Namespace"}
                                                THEN "check" ELSE "write"]]
    /\ UNCHANGED <<gitVars, row, missed, denied, faults>>

\* isAdmissionEntryCurrent for a Product, isAdmissionCommitCurrent otherwise
EntryCurrent(i, p) ==
    \/ CommitCurrent(i)
    \/ Kind[p] = "Product" /\ Tip # 0 /\ TreeOf(Tip)[p] = New(i)[p]

\* The stored resource already is what the manifest says, and not denied.
Unchanged(i, p, got) ==
    /\ got.here /\ got.accepted
    /\ got.content = New(i)[p]
    /\ Kind[p] \in {"Namespace", "File"} => got.commit = reflog[i + 1]

\* The branch is read between the row and the statement that writes it; a File
\* does so only after a conflict, and does not mark the call superseded.
Check(i) ==
    LET c == call[i]
        p == c.op.path
    IN  /\ c.pc = "check"
        /\ call' = [call EXCEPT ![i] =
             IF ~ EntryCurrent(i, p)
             THEN Done([c EXCEPT !.superseded = @ \/ Kind[p] # "File"])
             ELSE IF Kind[p] = "File" THEN [c EXCEPT !.pc = "reload"]
             ELSE IF Rejected(c) \/ Unchanged(i, p, c.got) THEN Done(c)
             ELSE [c EXCEPT !.pc = "write", !.at = Len(reflog)]]
        /\ UNCHANGED <<gitVars, row, missed, denied, faults>>

\* The row is read again after a conflict.
Reload(i) ==
    LET c == call[i]
        p == c.op.path
    IN  /\ c.pc = "reload"
        /\ call' = [call EXCEPT ![i] =
             IF ~ row[p].here /\ (Kind[p] # "Namespace" \/ c.verb = "update") THEN Done(c)
             ELSE [c EXCEPT !.got = row[p], !.retry = @ + 1,
                            !.pc = CASE Kind[p] = "File" -> "write"
                                     [] Kind[p] = "Product" -> "record"
                                     [] OTHER -> "check"]]
        /\ UNCHANGED <<gitVars, row, missed, denied, faults>>

Creates(c) == IF Kind[c.op.path] = "File" THEN c.retry = 1 ELSE ~ c.got.here

\* A wrong condition: the row is there, whatever its version.
Applies_Present(c) ==
    LET r == row[c.op.path] IN
    IF Creates(c) THEN ~ r.here ELSE r.here /\ r.uid = c.got.uid

\* The conditional statement finds what the call has read.
Applies(c) ==
    LET r == row[c.op.path] IN
    IF Creates(c) THEN ~ r.here
    ELSE r.here /\ r.uid = c.got.uid /\ r.version = c.got.version

Stored(i, p) ==
    [here |-> TRUE,
     uid |-> IF Creates(call[i]) THEN row[p].uid + 1 ELSE row[p].uid,
     version |-> IF Creates(call[i]) THEN 1 ELSE row[p].version + 1,
     content |-> New(i)[p],
     commit |-> IF Kind[p] \in {"Namespace", "File"} THEN reflog[i + 1] ELSE 0,
     deleting |-> ~ Creates(call[i]) /\ row[p].deleting,
     accepted |-> TRUE,
     tip |-> call[i].at]

\* The row is created or updated, unless an update has nothing to change.
Write(i) ==
    LET c == call[i]
        p == c.op.path
    IN  /\ c.pc = "write"
        /\ IF ~ Creates(c) /\ Unchanged(i, p, c.got) THEN UNCHANGED row
           ELSE Applies(c) /\ row' = [row EXCEPT ![p] = Stored(i, p)]
        /\ call' = [call EXCEPT ![i] = Done(c)]
        /\ UNCHANGED <<gitVars, missed, denied, faults>>

\* The call fails: nothing tries again.
GiveUp(i) ==
    /\ call' = [call EXCEPT ![i] = Ended]
    /\ missed' = missed \cup Changed(i)

\* A wrong handling: a conflict is only logged.
Refused_Logged(i) ==
    LET c == call[i]
        p == c.op.path
    IN  /\ c.pc = "write"
        /\ Creates(c) \/ ~ Unchanged(i, p, c.got)
        /\ ~ Applies(c)
        /\ call' = [call EXCEPT ![i] = Done(c)]
        /\ UNCHANGED <<gitVars, row, missed, denied, faults>>

\* The statement is not applied.  A Product tries the whole call again after
\* the other entries, unless the row is gone; a Collection fails the call, or
\* forgets the create; a Namespace and a File look at the row again.
Refused(i) ==
    LET c == call[i]
        p == c.op.path
        gone == ~ Creates(c) /\ (~ row[p].here \/ row[p].uid # c.got.uid)
    IN  /\ c.pc = "write"
        /\ Creates(c) \/ ~ Unchanged(i, p, c.got)
        /\ ~ Applies(c)
        /\ \/ /\ Kind[p] = "Collection" /\ ~ Creates(c)
              /\ GiveUp(i)
           \/ /\ Kind[p] = "Collection" /\ Creates(c)
              /\ call' = [call EXCEPT ![i] = Done(c)] /\ UNCHANGED missed
           \/ /\ Kind[p] = "Product"
              /\ call' = [call EXCEPT ![i] =
                           Done([c EXCEPT !.conflict = @ \/ ~ (c.op.only \/ gone)])]
              /\ UNCHANGED missed
           \/ /\ Kind[p] = "File"
              /\ call' = [call EXCEPT ![i] =
                           IF c.op.only \/ c.retry = FileAttempts + 1 THEN Done(c)
                           ELSE [c EXCEPT !.pc = "check"]]
              /\ UNCHANGED missed
           \/ /\ Kind[p] = "Namespace"
              /\ call' = [call EXCEPT ![i] =
                           IF c.retry = Attempts THEN Done(c)
                           ELSE [c EXCEPT !.pc = "reload"]]
              /\ missed' = IF c.retry = Attempts THEN missed \cup {p} ELSE missed
        /\ UNCHANGED <<gitVars, row, denied, faults>>

-----------------------------------------------------------------------------
(* AdmitResources: an upsert that a policy denies.                         *)

\* The verdict rests on other rows and on grants, so it may fall either way.  A
\* Product is judged before the branch is read, the others after it and a File
\* only when it is updated.  Of a Product that has a row the denial is recorded;
\* of the others it is logged.
Deny(i) ==
    LET c == call[i]
        p == c.op.path
    IN  /\ \/ c.pc = "check" /\ Kind[p] = "Product"
           \/ c.pc = "write" /\ Kind[p] # "Product" /\ (Kind[p] = "File" => ~ Creates(c))
        /\ call' = [call EXCEPT ![i] = IF Kind[p] = "Product" /\ c.got.here
                                       THEN [c EXCEPT !.pc = "record"] ELSE Done(c)]
        /\ denied' = denied \cup {<<p, New(i)[p], c.got.here>>}
        /\ UNCHANGED <<gitVars, row, missed, faults>>

\* recordProductAdmissionDenied, its loop: the branch must be at the pushed commit
\* itself, whatever tip the call goes by.
RecordDenied(i) ==
    /\ call[i].pc = "record"
    /\ call' = [call EXCEPT ![i] = IF Tip = reflog[i + 1] THEN [@ EXCEPT !.pc = "patch"]
                                   ELSE Done([@ EXCEPT !.superseded = TRUE])]
    /\ UNCHANGED <<gitVars, row, missed, denied, faults>>

\* UpdateProductStatus, which finds the row by its name and compares the version.
\* After a conflict the row is read again, until the attempts are used up.
PatchDenied(i) ==
    LET c == call[i]
        p == c.op.path
        conflict == row[p].here /\ row[p].version # c.got.version
        last == c.retry = DenialAttempts
    IN  /\ c.pc = "patch"
        /\ row' = IF row[p].here /\ ~ conflict
                  THEN [row EXCEPT ![p].accepted = FALSE, ![p].version = @ + 1] ELSE row
        /\ call' = [call EXCEPT ![i] = IF conflict /\ ~ last
                                       THEN [c EXCEPT !.pc = "reload"] ELSE Done(c)]
        /\ missed' = IF conflict /\ last THEN missed \cup {p} ELSE missed
        /\ UNCHANGED <<gitVars, denied, faults>>

-----------------------------------------------------------------------------
(* AdmitResources: a deletion, after the upserts.                          *)

\* deleteResource: the row; a Namespace wants the manifest it was admitted from.
Find(i) ==
    LET c == call[i] IN
    /\ c.pc = "read" /\ c.upserts = {} /\ ~ c.conflict
    /\ \E p \in c.deletes :
         /\ \A q \in c.deletes : p <= q
         /\ IF ~ row[p].here \/ (Kind[p] = "Product" /\ row[p].deleting)
            THEN call' = [call EXCEPT ![i].deletes = @ \ {p}] /\ UNCHANGED missed
            ELSE IF Kind[p] = "Namespace" /\ row[p].content # Old(i)[p] THEN GiveUp(i)
            ELSE /\ call' = [call EXCEPT ![i].pc = IF Kind[p] = "Namespace"
                                                   THEN "probe" ELSE "delete",
                                         ![i].op = [NoOp EXCEPT !.path = p],
                                         ![i].got = row[p]]
                 /\ UNCHANGED missed
    /\ UNCHANGED <<gitVars, row, denied, faults>>

\* markPushedInfrastructureDeletion: the tip must not have the manifest.
Probe(i) ==
    /\ call[i].pc = "probe"
    /\ IF Tip = 0 \/ TreeOf(Tip)[call[i].op.path] # 0 THEN GiveUp(i)
       ELSE /\ call' = [call EXCEPT ![i].pc = "delete", ![i].at = Len(reflog)]
            /\ UNCHANGED missed
    /\ UNCHANGED <<gitVars, row, denied, faults>>

\* The row is marked or deleted, if it is the one that was found.
Delete(i) ==
    LET c == call[i]
        p == c.op.path
    IN  /\ c.pc = "delete"
        /\ IF Applies(c)
           THEN /\ row' = [row EXCEPT ![p] =
                            IF Kind[p] \in {"Product", "Namespace"}
                            THEN [@ EXCEPT !.deleting = TRUE, !.version = @ + 1,
                                           !.tip = c.at]
                            ELSE [NoRow EXCEPT !.uid = row[p].uid]]
                /\ call' = [call EXCEPT ![i] = Done([c EXCEPT !.deletes = @ \ {p}])]
                /\ UNCHANGED missed
           ELSE GiveUp(i) /\ UNCHANGED row
        /\ UNCHANGED <<gitVars, denied, faults>>

-----------------------------------------------------------------------------
(* Faults, and what a controller does to a row that is being deleted.      *)

Fault == faults < MaxFaults /\ faults' = faults + 1

\* The call does not arrive, or the API stops: nothing tries again.
Lost(i) ==
    /\ call[i].pc \notin {"none", "ended"}
    /\ Fault
    /\ GiveUp(i)
    /\ UNCHANGED <<gitVars, row, denied>>

\* A statement fails: a Collection fails the call, the others drop the entry.
Fails(i) ==
    LET c == call[i] IN
    /\ c.pc \in {"write", "patch"}
    /\ Fault
    /\ IF Kind[c.op.path] = "Collection" /\ ~ Creates(c) THEN GiveUp(i)
       ELSE /\ call' = [call EXCEPT ![i] = Done(c)]
            /\ missed' = missed \cup {c.op.path}
    /\ UNCHANGED <<gitVars, row, denied>>

\* CompleteProductDeletion and its like (external)
Finalize(p) ==
    /\ row[p].deleting
    /\ row' = [row EXCEPT ![p] = [NoRow EXCEPT !.uid = row[p].uid]]
    /\ UNCHANGED <<gitVars, call, missed, denied, faults>>

Step(i) ==
    \/ Resolve(i) \/ Filter(i) \/ Fence(i) \/ Return(i)
    \/ Read(i) \/ Check(i) \/ Reload(i) \/ Write(i) \/ Refused(i)
    \/ Deny(i) \/ RecordDenied(i) \/ PatchDenied(i)
    \/ Find(i) \/ Probe(i) \/ Delete(i)

Next ==
    \/ ValidateResources \/ ReceivePack
    \/ \E i \in Pushes : Step(i) \/ Lost(i) \/ Fails(i)
    \/ \E p \in Paths : Finalize(p)

Spec == Init /\ [][Next]_admVars

-----------------------------------------------------------------------------
(* Properties.                                                             *)

Quiet == pushed = Idle /\ \A i \in Pushes : call[i].pc \in {"none", "ended"}

\* p had a manifest that a later push removed.
Removed(p) ==
    \E i, j \in 1..Len(reflog) :
      i < j /\ TreeOf(reflog[i])[p] # 0 /\ TreeOf(reflog[j])[p] = 0

\* A push brought back what the manifest had said before another changed it: for
\* a Namespace, whose row keeps the commit, the very same commit.
Restored(p) ==
    \E i, j \in 1..Len(reflog) :
      /\ i < j /\ TreeOf(reflog[i])[p] = TreeOf(reflog[j])[p]
      /\ Kind[p] = "Namespace" => reflog[i] = reflog[j]
      /\ \E k \in i..j : TreeOf(reflog[k])[p] # TreeOf(reflog[i])[p]

Matches(p) ==
    row[p].here = (TreeOf(Tip)[p] # 0) /\ row[p].content = TreeOf(Tip)[p]

\* Admissions that overlap never undo one another: what a Product or a
\* Namespace says, and whether the Namespace is being deleted, is only replaced
\* by an admission that compared the manifest with the branch no earlier than
\* the one it replaces did.  The branch is read between the read of the row and
\* the conditional statement (isAdmissionEntryCurrent in admitProduct,
\* isAdmissionCommitCurrent in admitNamespace): swapped, or without the version
\* in the condition, a delayed admission overwrites a later one.
InOrder ==
    [][\A p \in Paths :
         ( /\ Kind[p] \in {"Product", "Namespace"}
           /\ row[p].here /\ row'[p].here
           /\ \/ row'[p].content # row[p].content
              \/ Kind[p] = "Namespace" /\ row'[p].deleting # row[p].deleting )
         => row[p].tip <= row'[p].tip]_admVars

\* What the tip says of p was denied, when p had a row or had none.
DeniedAt(p, here) == <<p, TreeOf(Tip)[p], here>> \in denied

\* Once every call has ended, the row of a Product and of a Namespace says what
\* the manifest at the tip says, whatever the order in which the calls of
\* overlapping pushes ran: a call that finds the branch moved leaves a changed
\* manifest to the later push and settles an unchanged one itself
\* (unchangedManifestOperations), and one whose statement conflicts tries again.
\* Where a policy has denied it, the row of a Product may go on saying what was
\* accepted before, and then AdmissionAccepted is False (recordProductAdmission-
\* Denied; docs/products/product-spec.md:61-64); and False stays on no Product
\* whose manifest was not denied: a later accepted admission clears it.
\* Left out are calls that were lost or ran out of attempts, manifests that were
\* removed, and contents that a later push brought back; and nothing is recorded
\* of a manifest that was denied before it had a row.
Converged ==
    Quiet => \A p \in Paths :
               /\ Kind[p] \in {"Product", "Namespace"}
               /\ ~ Removed(p) /\ ~ Restored(p) /\ p \notin missed
               => \/ Matches(p) /\ (row[p].accepted \/ DeniedAt(p, TRUE))
                  \/ DeniedAt(p, FALSE)
                  \/ DeniedAt(p, TRUE) /\ (Kind[p] = "Product" => ~ row[p].accepted)

\* A delayed create fills an absent row and never overwrites one that another
\* admission made meanwhile, for no kind (op.createOnly in AdmitResources and in
\* the handlers, when the lookup and when the insert finds a row).
CreateOnly ==
    [][\A i \in Pushes :
         call[i].op.only /\ call'[i] # call[i] /\ row' # row
         => ~ row[call[i].op.path].here]_admVars

\* Once every call has ended, no row holds what a later push changed, unless a
\* policy denied the change.  The code breaks it for a Collection and a
\* ProductVariant, whose handlers do not read the branch between the row and the
\* statement.
OnlySurvivors ==
    Quiet => \A p \in Paths :
               /\ row[p].here /\ ~ Removed(p) /\ ~ Restored(p) /\ p \notin missed
               /\ \A here \in BOOLEAN : ~ DeniedAt(p, here)
               => row[p].content = TreeOf(Tip)[p]

=============================================================================
