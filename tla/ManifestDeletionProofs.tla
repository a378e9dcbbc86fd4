----------------------- MODULE ManifestDeletionProofs -----------------------
(***************************************************************************)
(* Proofs about ManifestDeletion, for any number of git processes, pushes, *)
(* requests and faults, any contents and any bound on the history: the     *)
(* removal asked for one commit is published once, it removes only what    *)
(* was asked for, and a row that is marked for deletion has evidence.      *)
(*                                                                         *)
(* The inductive invariant follows three things through the two services.  *)
(* The permission to publish a removal is in one place: with the process   *)
(* that is to write the marker, in the marker, with the process that       *)
(* consumed it, or spent.  The content of every commit that is named by    *)
(* the intent, a call or a write under way is the content that was asked   *)
(* for.  A commit that the git service answers was once the tip.           *)
(***************************************************************************)
EXTENDS ManifestDeletion, FiniteSetTheorems, TLAPS

Known == DOMAIN commits

JobPcs == {"idle", "look", "completed", "resume", "prepare", "mark", "publish", "consume",
           "commit", "move"}

CallPcs == {"idle", "resolve", "intend", "head", "delete", "wait", "answer", "recorded",
            "admit", "evidence", "mark", "verify", "finish", "fence", "lookup", "absent",
            "push"}

Commit == [parent : Nat, file : Contents \cup {0}]

Job == [pc : JobPcs, expected : Nat, commit : Nat, caller : Callers \cup {"none", "git"}]

Row == [here : BOOLEAN, commit : Nat, expected : Nat, removal : Nat, deleting : BOOLEAN]

Call == [pc : CallPcs, row : Row, fresh : BOOLEAN, head : Nat, removed : Nat,
         code : {"none", "ok", "aborted", "failed"}]

GitTyped ==
    /\ commits \in Seq(Commit)
    /\ past \subseteq Known /\ tip \in past
    /\ receipt \in [Ids -> Known \cup {0}] /\ marker \in [Ids -> Known \cup {0}]
    /\ lock \in Services \cup {Free, Stale}
    /\ published \in [Ids -> Nat] /\ twins \subseteq Ids
    /\ trouble \in 0..MaxTrouble

Typed ==
    /\ GitTyped
    /\ job \in [Services -> Job]
    /\ call \in [Callers -> Call]
    /\ row \in Row /\ asked \in Contents \cup {0} /\ stranded \in BOOLEAN

\* The commits with a manifest: the first one and pushed ones.  The commits whose
\* removal was prepared are among them, and there is one commit for each of these.
Manifests == {c \in Known : File(c) # 0}
Removed == {e \in Ids : receipt[e] # 0}

Sized ==
    /\ Cardinality(Manifests) <= 1 + trouble
    /\ Removed \subseteq Manifests
    /\ Len(commits) <= 1 + trouble + Cardinality(Removed)

\* Commits are made on what was once the tip, and receipts name removals, which are made
\* on the commit they were asked for.
Grown ==
    /\ \A c \in Known : commits[c].parent \in past \cup {0}
    /\ \A e \in Ids : receipt[e] # 0 => /\ File(receipt[e]) = 0
                                        /\ commits[receipt[e]].parent = e

\* The permission to publish the removal of e is in one place.
Held(e) == {s \in Services : job[s].expected = e /\ job[s].pc \in {"mark", "commit"}}

Token(e) ==
    /\ receipt[e] = 0 => marker[e] = 0 /\ published[e] = 0
    /\ marker[e] # 0 => published[e] = 0 /\ Held(e) = {}
    /\ Held(e) # {} => published[e] = 0
    /\ \A s, t \in Held(e) : s = t
    /\ published[e] <= 1

Deleting == {"look", "completed", "resume", "prepare", "mark", "publish", "consume", "commit"}
Prepared == {"mark", "publish", "consume", "commit"}

Wanted(e) == asked # 0 /\ e \in Known /\ File(e) = asked

\* What process s relies on in the write j it is at
Working(s, j) ==
    /\ j.pc \in Deleting => Wanted(j.expected)
    /\ j.pc = "completed" => j.commit \in past
    /\ j.pc = "resume" => receipt[j.expected] # 0
    /\ j.pc = "prepare" => j.expected \in past
    /\ j.pc \in Prepared => j.commit # 0 /\ j.commit = receipt[j.expected]
    /\ j.pc \in {"consume", "commit"} => lock = s /\ tip = j.expected
    /\ j.pc = "move" => j.commit \in Known

\* What the call k relies on
Calling(k) ==
    /\ k.fresh => k.row = row
    /\ k.pc \in {"resolve", "intend"} => k.row.expected = 0
    /\ k.pc = "intend" => k.head \in Manifests
    /\ k.pc \in {"head", "delete", "wait", "answer"} => Wanted(k.row.expected)
    /\ k.pc \in {"delete", "wait", "answer"} => k.head \in past
    /\ k.pc = "answer" /\ k.code = "ok" => k.removed \in past /\ File(k.removed) = 0
    /\ k.pc = "mark" => k.row.removal # 0
    /\ k.pc = "push" => k.head \in past /\ File(k.head) = 0

\* The content that was asked for is the one of the intent, and a row with an intent
\* nobody asked for was marked by a push.
Intended ==
    /\ row.expected = 0 => asked = 0
    /\ row.expected # 0 => row.deleting \/ asked # 0
    /\ asked # 0 => Wanted(row.expected)
    /\ \A e \in Ids : published[e] > 0 => Wanted(e)

DeletionInv ==
    /\ Typed /\ Sized /\ Grown /\ Intended /\ Evident
    /\ \A e \in Ids \ twins : Token(e)
    /\ \A s \in Services : Working(s, job[s])
    /\ \A c \in Callers : Calling(call[c])

-----------------------------------------------------------------------------
(* What every step uses.                                                   *)

\* Nothing is lost: commits, former tips and receipts stay.
Grows ==
    /\ Known \subseteq Known' /\ \A c \in Known : commits'[c] = commits[c]
    /\ past \subseteq past'

LEMMA Appended ==
    ASSUME commits \in Seq(Commit), NEW x \in Commit, commits' = Append(commits, x)
    PROVE  /\ commits' \in Seq(Commit) /\ Len(commits') = Len(commits) + 1
           /\ Known' = Known \cup {Len(commits) + 1}
           /\ Len(commits) + 1 \notin Known
           /\ \A c \in Known : commits'[c] = commits[c]
           /\ commits'[Len(commits) + 1] = x
  BY DEF Known

LEMMA KnownCommits ==
    ASSUME DeletionInv
    PROVE  /\ Known = 1..Len(commits) /\ Len(commits) \in Nat
           /\ \A c \in Known : /\ c \in Nat \ {0}
                               /\ commits[c] \in Commit /\ File(c) \in Contents \cup {0}
<1>1. commits \in Seq(Commit)
  BY Zenon DEF DeletionInv, Typed, GitTyped
<1>2. Known = 1..Len(commits) /\ Len(commits) \in Nat /\ \A c \in Known : commits[c] \in Commit
  BY <1>1 DEF Known
<1> QED
  BY <1>2 DEF Commit, File

\* The calls do not notice a step of the git service.
LEMMA CallStays ==
    ASSUME DeletionInv, Grows, asked \in {0, asked'}, NEW k \in Call, Calling(k),
           k.fresh => row' = row
    PROVE  Calling(k)'
  BY Zenon DEF DeletionInv, Typed, GitTyped, Grows, Calling, Wanted, Manifests, File

LEMMA CallFits ==
    ASSUME NEW c \in Callers, NEW k \in Call, call'[c] = k, Calling(k)'
    PROVE  Calling(call[c])'
  BY Zenon DEF Calling, Wanted, Manifests, File

LEMMA JobFits ==
    ASSUME NEW s \in Services, NEW j \in Job, job'[s] = j, Working(s, j)'
    PROVE  Working(s, job[s])'
  BY Zenon DEF Working, Wanted, File

\* The answer of the git service
LEMMA AnswerFits ==
    ASSUME DeletionInv, Grows, row' = row, asked' = asked, NEW s \in Services,
           NEW code \in {"ok", "aborted", "failed"}, NEW d \in Nat,
           code = "ok" => d \in past' /\ File(d)' = 0,
           Answer(s, code, d)
    PROVE  /\ job' = [job EXCEPT ![s] = NoJob]
           /\ call' \in [Callers -> Call]
           /\ \A c \in Callers : Calling(call[c])'
<1>1. job' = [job EXCEPT ![s] = NoJob]
  BY Zenon DEF Answer
<1>2. call \in [Callers -> Call] /\ \A c \in Callers : Calling(call[c])
  BY Zenon DEF DeletionInv, Typed
<1>3. \A c \in Callers : call[c] \in Call /\ Calling(call[c])
  BY Zenon, <1>2
<1>4. ASSUME NEW c \in Callers, call'[c] = call[c]
      PROVE  Calling(call[c])'
  BY Zenon, <1>3, <1>4, CallStays, CallFits
<1>5. CASE call' = call
  BY Zenon, <1>1, <1>2, <1>4, <1>5
<1>6. ASSUME NEW b \in Callers, NEW k \in Call, call[b].pc = "wait",
             k = [call[b] EXCEPT !.pc = "answer", !.code = code, !.removed = d],
             call' = [call EXCEPT ![b] = k]
      PROVE  call' \in [Callers -> Call] /\ \A c \in Callers : Calling(call[c])'
  <2>1. call[b] \in Call /\ Calling(call[b])
    BY Zenon, <1>3
  <2>2. /\ k.row = call[b].row /\ k.fresh = call[b].fresh /\ k.head = call[b].head
        /\ k.pc = "answer" /\ k.code = code /\ k.removed = d
    BY Zenon, <1>6, <2>1 DEF Call
  <2>3. Wanted(k.row.expected)' /\ k.head \in past'
    BY Zenon, <1>6, <2>1, <2>2 DEF Calling, Wanted, File, Grows
  <2>4. Calling(k)'
    BY Zenon, <2>1, <2>2, <2>3 DEF Calling
  <2>5. call' \in [Callers -> Call] /\ call'[b] = k
        /\ \A c \in Callers \ {b} : call'[c] = call[c]
    BY Zenon, <1>2, <1>6
  <2> QED
    BY Zenon, <1>4, <2>4, <2>5, CallFits
<1>7. CASE job[s].caller \in Callers /\ call[job[s].caller].pc = "wait"
  <2>1. PICK b \in Callers : b = job[s].caller
    BY Zenon, <1>7
  <2> DEFINE k == [call[b] EXCEPT !.pc = "answer", !.code = code, !.removed = d]
  <2>2. call[b] \in Call
    BY Zenon, <1>3
  <2>3. k \in Call
    BY Zenon, <2>2 DEF Call, CallPcs
  <2>4. call' = [call EXCEPT ![b] = k]
    BY Zenon, <1>7, <1>2, <2>1 DEF Answer
  <2> QED
    BY Zenon, <1>1, <1>6, <1>7, <2>1, <2>3, <2>4
<1> QED
  BY Zenon, <1>5, <1>7 DEF Answer

-----------------------------------------------------------------------------
(* The calls.                                                              *)

\* What a step that leaves the git service alone keeps.
LEMMA GitRests ==
    ASSUME DeletionInv, UNCHANGED <<gitVars, job, trouble>>, asked \in {0, asked'}
    PROVE  /\ GitTyped' /\ job' \in [Services -> Job] /\ Sized' /\ Grown' /\ Grows
           /\ \A e \in Ids \ twins' : Token(e)'
           /\ \A s \in Services : Working(s, job[s])'
           /\ \A e \in Ids : published'[e] > 0 => Wanted(e)'
<1>1. UNCHANGED <<commits, tip, receipt, marker, lock, past, published, twins, job, trouble>>
  BY Zenon DEF gitVars
<1>2. GitTyped' /\ job' \in [Services -> Job] /\ Grows
  BY Zenon, <1>1 DEF DeletionInv, Typed, GitTyped, Known, Grows
<1>3. Sized' /\ Grown'
  BY Zenon, <1>1 DEF DeletionInv, Sized, Grown, Known, File, Manifests, Removed
<1>4. \A e \in Ids \ twins' : Token(e)'
  BY <1>1 DEF DeletionInv, Token, Held
<1>5. \A s \in Services : Working(s, job[s])'
  BY Zenon, <1>1 DEF DeletionInv, Working, Wanted, File, Known
<1>6. \A e \in Ids : published'[e] > 0 => Wanted(e)'
  BY Zenon, <1>1 DEF DeletionInv, Intended, Wanted, File, Known
<1> QED
  BY Zenon, <1>2, <1>3, <1>4, <1>5, <1>6

\* A step that only moves a call
LEMMA QuietCall ==
    ASSUME DeletionInv, NEW c \in Callers, NEW k \in Call, Calling(k),
           call' = [call EXCEPT ![c] = k],
           UNCHANGED <<load, gitVars, job, rowVars, trouble>>
    PROVE  DeletionInv'
<1>1. UNCHANGED <<row, asked, stranded, commits, past>>
  BY Zenon DEF rowVars, gitVars
<1>2. /\ GitTyped' /\ job' \in [Services -> Job] /\ Sized' /\ Grown' /\ Grows
      /\ \A e \in Ids \ twins' : Token(e)'
      /\ \A s \in Services : Working(s, job[s])'
      /\ \A e \in Ids : published'[e] > 0 => Wanted(e)'
  BY Zenon, <1>1, GitRests
<1>3. call' \in [Callers -> Call] /\ call'[c] = k
      /\ \A d \in Callers \ {c} : call'[d] = call[d]
  BY Zenon DEF DeletionInv, Typed
<1>4. \A d \in Callers : call[d] \in Call /\ Calling(call[d])
  BY Zenon DEF DeletionInv, Typed
<1>5. \A d \in Callers : Calling(call[d])'
  BY Zenon, <1>1, <1>2, <1>3, <1>4, CallStays, CallFits
<1>6. Intended' /\ Evident'
  <2>1. Intended'
    BY Zenon, <1>1, <1>2 DEF DeletionInv, Intended, Wanted, Known, File
  <2>2. Evident'
    BY Zenon, <1>1 DEF DeletionInv, Evident, File
  <2> QED
    BY Zenon, <2>1, <2>2
<1>7. Typed'
  BY Zenon, <1>1, <1>2, <1>3 DEF DeletionInv, Typed
<1> QED
  BY Zenon, <1>2, <1>5, <1>6, <1>7 DEF DeletionInv

LEMMA NobodyCalls ==
    NoCall \in Call /\ Calling(NoCall)
  BY Zenon DEF NoCall, NoRow, Call, CallPcs, Row, Calling

LEMMA Returned ==
    ASSUME DeletionInv, NEW c \in Callers, Return(c),
           UNCHANGED <<load, gitVars, job, rowVars, trouble>>
    PROVE  DeletionInv'
  BY Zenon, QuietCall, NobodyCalls DEF Return

\* The conditional write of the row by a call that has read its version
LEMMA RowWritten ==
    ASSUME DeletionInv, NEW c \in Callers, NEW r \in Row, NEW pc \in CallPcs, Write(c, r, pc),
           UNCHANGED <<load, gitVars, job, trouble>>, asked' \in Contents \cup {0},
           stranded' \in BOOLEAN,
           ~ call[c].fresh => UNCHANGED <<asked, stranded>>,
           NEW k \in Call,
           k = IF pc = "idle" THEN NoCall ELSE [call[c] EXCEPT !.pc = pc, !.row = r],
           call[c].fresh /\ row' = r => /\ Intended' /\ Evident' /\ Calling(k)'
                                        /\ asked \in {0, asked'}
    PROVE  DeletionInv'
<1>1. \A d \in Callers : call[d] \in Call /\ Calling(call[d])
  BY Zenon DEF DeletionInv, Typed
<1>2. CASE ~ call[c].fresh
  <2>1. Return(c) /\ UNCHANGED rowVars
    BY Zenon, <1>2 DEF Write, rowVars
  <2> QED
    BY Zenon, <2>1, Returned
<1>3. CASE call[c].fresh
  <2>1. /\ row' = r
        /\ call' = [d \in Callers |-> IF d # c THEN [call[d] EXCEPT !.fresh = FALSE] ELSE k]
    BY Zenon, <1>3 DEF Write
  <2>2. /\ GitTyped' /\ job' \in [Services -> Job] /\ Sized' /\ Grown' /\ Grows
        /\ \A e \in Ids \ twins' : Token(e)'
        /\ \A s \in Services : Working(s, job[s])'
    BY Zenon, <1>3, <2>1, GitRests
  <2>3. ASSUME NEW d \in Callers
        PROVE  call'[d] \in Call /\ Calling(call[d])'
    <3>1. CASE d = c
      BY Zenon, <1>3, <2>1, <3>1, CallFits
    <3>2. CASE d # c
      <4> DEFINE x == [call[d] EXCEPT !.fresh = FALSE]
      <4>1. call[d] \in Call /\ Calling(call[d])
        BY Zenon, <1>1
      <4>2. x \in Call /\ Calling(x) /\ ~ x.fresh
        BY Zenon, <4>1 DEF Call, Calling
      <4>3. call'[d] = x
        BY Zenon, <2>1, <3>2
      <4> HIDE DEF x
      <4> QED
        BY Zenon, <1>3, <2>1, <2>2, <4>2, <4>3, CallStays, CallFits
    <3> QED
      BY Zenon, <3>1, <3>2
  <2>4. Typed'
    BY Zenon, <2>1, <2>2, <2>3 DEF Typed
  <2> QED
    BY Zenon, <1>3, <2>1, <2>2, <2>3, <2>4 DEF DeletionInv
<1> QED
  BY Zenon, <1>2, <1>3

\* A call that goes on to pc, with another head
LEMMA GoesOn ==
    ASSUME DeletionInv, NEW c \in Callers, NEW pc \in CallPcs, NEW h \in Nat,
           call' = [call EXCEPT ![c].pc = pc, ![c].head = h],
           NEW b \in Call, b = call[c],
           pc \in {"intend", "delete", "recorded", "admit", "evidence", "finish", "lookup",
                   "push"},
           pc = "intend" => b.row.expected = 0 /\ h \in Manifests,
           pc = "delete" => Wanted(b.row.expected) /\ h \in past,
           pc = "push" => h \in past /\ File(h) = 0,
           UNCHANGED <<load, gitVars, job, rowVars, trouble>>
    PROVE  DeletionInv'
<1> DEFINE k == [b EXCEPT !.pc = pc, !.head = h]
<1>1. k \in Call
  BY Zenon DEF Call
<1>2. Calling(b)
  BY Zenon DEF DeletionInv
<1>3. /\ k.pc = pc /\ k.head = h /\ k.row = b.row /\ k.fresh = b.fresh
  BY Zenon DEF Call
<1>4. call' = [call EXCEPT ![c] = k]
  BY Zenon DEF DeletionInv, Typed
<1> HIDE DEF k
<1>5. Calling(k)
  BY Zenon, <1>2, <1>3 DEF Calling
<1> QED
  BY Zenon, <1>1, <1>4, <1>5, QuietCall

LEMMA GotoGoesOn ==
    ASSUME DeletionInv, NEW c \in Callers, Goto(c, "evidence") \/ Goto(c, "finish")
                                           \/ Goto(c, "lookup") \/ Goto(c, "admit"),
           UNCHANGED <<load, gitVars, job, rowVars, trouble>>
    PROVE  DeletionInv'
<1>1. PICK pc \in {"evidence", "finish", "lookup", "admit"} : Goto(c, pc)
  OBVIOUS
<1>2. PICK b \in Call : b = call[c]
  BY Zenon DEF DeletionInv, Typed
<1>3. call' = [call EXCEPT ![c].pc = pc, ![c].head = b.head]
  BY Zenon, <1>1, <1>2 DEF DeletionInv, Typed, Call, Goto
<1>4. b.head \in Nat /\ pc \in CallPcs
  BY Zenon, <1>2 DEF Call, CallPcs
<1> QED
  BY Zenon, <1>1, <1>2, <1>3, <1>4, GoesOn

\* A call that reads the row
LEMMA ReadsRow ==
    ASSUME DeletionInv, NEW c \in Callers, NEW k \in Call,
           call' = [call EXCEPT ![c] = k],
           k.row = row, k.pc \in {"resolve", "head", "verify", "mark", "absent"},
           k.pc = "resolve" => row.expected = 0,
           k.pc = "head" => row.expected # 0 /\ ~ row.deleting,
           k.pc = "mark" => row.removal # 0,
           UNCHANGED <<load, gitVars, job, rowVars, trouble>>
    PROVE  DeletionInv'
<1>1. k.pc = "head" => Wanted(row.expected)
  BY Zenon DEF DeletionInv, Intended
<1>2. Calling(k)
  BY Zenon, <1>1 DEF Calling
<1> QED
  BY Zenon, <1>2, QuietCall

LEMMA RequestKeeps ==
    ASSUME DeletionInv, Request
    PROVE  DeletionInv'
<1>1. "user" \in Callers /\ UNCHANGED <<load, gitVars, job, rowVars, trouble>>
  BY Zenon DEF Callers, Request
<1>2. CASE row.here /\ ~ row.deleting
  <2> DEFINE k == [NoCall EXCEPT !.pc = IF row.expected = 0 THEN "resolve" ELSE "head",
                                 !.row = row, !.fresh = TRUE]
  <2>1. k \in Call
    BY Zenon, NobodyCalls DEF DeletionInv, Typed, Call, CallPcs
  <2>2. call' = [call EXCEPT !["user"] = k]
    BY Zenon, <1>2 DEF Request
  <2>3. k.row = row /\ k.pc = IF row.expected = 0 THEN "resolve" ELSE "head"
    BY Zenon DEF NoCall
  <2> HIDE DEF k
  <2> QED
    BY Zenon, <1>1, <1>2, <2>1, <2>2, <2>3, ReadsRow
<1>3. CASE ~ (row.here /\ ~ row.deleting)
  <2>1. call["user"] \in Call /\ Calling(call["user"])
    BY Zenon, <1>1 DEF DeletionInv, Typed
  <2>2. call' = [call EXCEPT !["user"] = call["user"]]
    BY Zenon, <1>3 DEF Request, DeletionInv, Typed
  <2> QED
    BY Zenon, <1>1, <2>1, <2>2, QuietCall
<1> QED
  BY Zenon, <1>2, <1>3

LEMMA CompleteKeeps ==
    ASSUME DeletionInv, Complete
    PROVE  DeletionInv'
<1>1. "controller" \in Callers /\ UNCHANGED <<load, gitVars, job, rowVars, trouble>>
  BY Zenon DEF Callers, Complete, budgets
<1> DEFINE k == [NoCall EXCEPT !.pc = IF row.deleting THEN "verify" ELSE "head",
                               !.row = row, !.fresh = TRUE]
<1>2. k \in Call
  BY Zenon, NobodyCalls DEF DeletionInv, Typed, Call, CallPcs
<1>3. call' = [call EXCEPT !["controller"] = k] /\ row.expected # 0
  BY Zenon DEF Complete
<1>4. k.row = row /\ k.pc = IF row.deleting THEN "verify" ELSE "head"
  BY Zenon DEF NoCall
<1> HIDE DEF k
<1> QED
  BY Zenon, <1>1, <1>2, <1>3, <1>4, ReadsRow

\* The steps of a call that write nothing
LEMMA ReadsKeep ==
    ASSUME DeletionInv, NEW c \in Callers,
           \/ Resolve(c) \/ Pending(c) \/ Recorded(c) \/ Admit(c) \/ Evidence(c)
           \/ Verify(c) \/ Fence(c) \/ DeleteResource(c) \/ Absent(c)
    PROVE  DeletionInv'
<1>1. UNCHANGED <<load, gitVars, job, rowVars, trouble>>
  BY Zenon DEF Resolve, Pending, Recorded, Admit, Evidence, Verify, Fence, DeleteResource, Absent,
         budgets
<1>2. PICK b \in Call : b = call[c] /\ Calling(call[c])
  BY Zenon DEF DeletionInv, Typed
<1>3. tip \in past /\ past \subseteq Known /\ tip \in Known /\ tip \in Nat
  BY DEF DeletionInv, Typed, GitTyped, Known
<1>4. CASE Return(c)
  BY Zenon, <1>1, <1>4, Returned
<1>5. CASE Resolve(c)
  <2>1. CASE File(tip) # 0 /\ File(tip) = File(call[c].row.commit)
    <3>1. call' = [call EXCEPT ![c].pc = "intend", ![c].head = tip]
      BY Zenon, <1>5, <2>1 DEF Resolve
    <3>2. b.row.expected = 0 /\ tip \in Manifests
      BY Zenon, <1>2, <1>3, <1>5, <2>1 DEF Resolve, At, Calling, Manifests
    <3> QED
      BY Zenon, <1>1, <1>2, <1>3, <3>1, <3>2, GoesOn DEF CallPcs
  <2> QED
    BY Zenon, <1>4, <1>5, <2>1 DEF Resolve
<1>6. CASE Pending(c)
  <2>1. CASE call' = [call EXCEPT ![c].pc = "delete", ![c].head = tip]
    <3>1. Wanted(b.row.expected)
      BY Zenon, <1>2, <1>6 DEF Pending, At, Calling
    <3> QED
      BY Zenon, <1>1, <1>2, <1>3, <2>1, <3>1, GoesOn DEF CallPcs
  <2> QED
    BY Zenon, <1>4, <1>6, <2>1 DEF Pending
<1>7. CASE Recorded(c)
  <2>1. call' = [call EXCEPT ![c].pc = "admit", ![c].head = tip]
    BY Zenon, <1>7 DEF Recorded
  <2> QED
    BY Zenon, <1>1, <1>2, <1>3, <2>1, GoesOn DEF CallPcs
<1>8. CASE Admit(c) \/ Verify(c) \/ Fence(c)
  BY Zenon, <1>1, <1>4, <1>8, GotoGoesOn DEF Admit, Verify, Fence
<1>9. CASE Evidence(c) \/ DeleteResource(c)
  <2>1. ASSUME NEW pc \in {"mark", "absent"}, pc = "mark" => row.removal # 0,
               call' = [call EXCEPT ![c].pc = pc, ![c].row = row, ![c].fresh = TRUE]
        PROVE  DeletionInv'
    <3> DEFINE k == [b EXCEPT !.pc = pc, !.row = row, !.fresh = TRUE]
    <3>1. k \in Call
      BY Zenon, <1>2 DEF DeletionInv, Typed, Call, CallPcs
    <3>2. call' = [call EXCEPT ![c] = k]
      BY Zenon, <1>2, <2>1 DEF DeletionInv, Typed
    <3>3. k.row = row /\ k.pc = pc
      BY Zenon, <1>2 DEF Call
    <3> HIDE DEF k
    <3> QED
      BY Zenon, <1>1, <2>1, <3>1, <3>2, <3>3, ReadsRow
  <2> QED
    BY Zenon, <1>4, <1>9, <2>1 DEF Evidence, DeleteResource
<1>10. CASE Absent(c)
  <2>1. CASE File(tip) = 0
    <3>1. call' = [call EXCEPT ![c].pc = "push", ![c].head = tip]
      BY Zenon, <1>10, <2>1 DEF Absent
    <3> QED
      BY Zenon, <1>1, <1>2, <1>3, <2>1, <3>1, GoesOn DEF CallPcs
  <2> QED
    BY Zenon, <1>4, <1>10, <2>1 DEF Absent
<1> QED
  BY Zenon, <1>5, <1>6, <1>7, <1>8, <1>9, <1>10

\* saveDeletionIntent, with which the request becomes effective
LEMMA IntendKeeps ==
    ASSUME DeletionInv, NEW c \in Callers, Intend(c)
    PROVE  DeletionInv'
<1>1. PICK b \in Call : b = call[c] /\ Calling(b) /\ b.pc = "intend"
  BY Zenon DEF DeletionInv, Typed, Intend, At
<1> DEFINE r == [b.row EXCEPT !.expected = b.head]
           k == [b EXCEPT !.pc = "head", !.row = r]
<1>2. r \in Row /\ k \in Call
  BY Zenon, <1>1 DEF Call, Row, CallPcs
<1>3. b.head \in Known /\ File(b.head) \in Contents /\ b.head # 0 /\ b.row.expected = 0
  BY Zenon, <1>1, KnownCommits DEF Calling, Manifests
<1>4. /\ k.pc = "head" /\ k.row = r /\ k.fresh = b.fresh /\ k.head = b.head
      /\ r.expected = b.head /\ r.removal = b.row.removal /\ r.deleting = b.row.deleting
  BY Zenon, <1>1 DEF Call, Row
<1>5. /\ Write(c, r, "head") /\ UNCHANGED <<load, gitVars, job, trouble, stranded>>
      /\ asked' = IF b.fresh THEN File(b.head) ELSE asked
  BY Zenon, <1>1 DEF Intend, budgets
<1>6. k = IF "head" = "idle" THEN NoCall ELSE [call[c] EXCEPT !.pc = "head", !.row = r]
  BY Zenon, <1>1
<1> HIDE DEF r, k
<1>7. asked' \in Contents \cup {0} /\ stranded' \in BOOLEAN
  BY Zenon, <1>3, <1>5 DEF DeletionInv, Typed
<1>8. ASSUME call[c].fresh, row' = r
      PROVE  Intended' /\ Evident' /\ Calling(k)' /\ asked = 0
  <2>1. b.row = row /\ row.expected = 0 /\ asked = 0
    BY Zenon, <1>1, <1>3, <1>8 DEF Calling, DeletionInv, Intended
  <2>2. asked' = File(b.head) /\ asked' # 0 /\ UNCHANGED <<commits, past, published>>
    BY Zenon, <1>1, <1>3, <1>5, <1>8, DeletionConstants DEF gitVars
  <2>3. Wanted(r.expected)'
    BY Zenon, <1>3, <1>4, <2>2 DEF Wanted, Known, File
  <2>4. \A e \in Ids : ~ (published'[e] > 0)
    BY Zenon, <2>1, <2>2 DEF DeletionInv, Intended, Wanted
  <2>5. Intended'
    BY Zenon, <1>3, <1>4, <1>8, <2>2, <2>3, <2>4 DEF Intended
  <2>6. Evident'
    BY Zenon, <1>4, <1>5, <1>8, <2>1, <2>2 DEF DeletionInv, Evident, File
  <2>7. Calling(k)'
    BY Zenon, <1>4, <1>8, <2>3 DEF Calling
  <2> QED
    BY Zenon, <2>1, <2>5, <2>6, <2>7
<1> QED
  BY Zenon, <1>1, <1>2, <1>5, <1>6, <1>7, <1>8, RowWritten DEF CallPcs

\* The answer is recorded, or the intent follows the branch.
LEMMA AnsweredKeeps ==
    ASSUME DeletionInv, NEW c \in Callers, Answered(c)
    PROVE  DeletionInv'
<1>1. PICK b \in Call : b = call[c] /\ Calling(b) /\ b.pc = "answer"
  BY Zenon DEF DeletionInv, Typed, Answered, At
<1>2. UNCHANGED <<load, gitVars, job, trouble, asked, stranded, commits, past, published>>
  BY Zenon DEF Answered, budgets, gitVars
<1>3. asked' \in Contents \cup {0} /\ stranded' \in BOOLEAN
  BY Zenon, <1>2 DEF DeletionInv, Typed
<1>4. Wanted(b.row.expected)
  BY Zenon, <1>1 DEF Calling
<1>5. b.row \in Row /\ b.row.expected \in Nat \ {0}
  BY Zenon, <1>1, <1>4, KnownCommits DEF Call, Row, Wanted
<1>6. b.fresh => b.row = row
  BY Zenon, <1>1 DEF Calling
<1>7. CASE b.code = "ok" /\ Write(c, [b.row EXCEPT !.removal = b.removed], "recorded")
  <2> DEFINE r == [b.row EXCEPT !.removal = b.removed]
             k == [b EXCEPT !.pc = "recorded", !.row = r]
  <2>1. r \in Row /\ k \in Call
    BY Zenon, <1>1, <1>5 DEF Call, Row, CallPcs
  <2>2. /\ k.pc = "recorded" /\ k.row = r /\ k.fresh = b.fresh
        /\ r.expected = b.row.expected /\ r.removal = b.removed /\ r.deleting = b.row.deleting
    BY Zenon, <1>1, <1>5 DEF Call, Row
  <2>3. k = IF "recorded" = "idle" THEN NoCall ELSE [call[c] EXCEPT !.pc = "recorded", !.row = r]
    BY Zenon, <1>1
  <2>4. Write(c, r, "recorded")
    BY Zenon, <1>7
  <2> HIDE DEF r, k
  <2>5. b.removed \in past /\ File(b.removed) = 0 /\ b.removed # 0
    BY Zenon, <1>1, <1>7, KnownCommits DEF Calling, DeletionInv, Typed, GitTyped
  <2>6. ASSUME call[c].fresh, row' = r
        PROVE  Intended' /\ Evident' /\ Calling(k)'
    <3>1. b.row = row
      BY Zenon, <1>1, <1>6, <2>6
    <3>2. Intended'
      BY Zenon, <1>2, <2>2, <2>6, <3>1 DEF DeletionInv, Intended, Wanted, Known, File
    <3>3. Evident'
      BY Zenon, <1>2, <2>2, <2>5, <2>6, <3>1 DEF DeletionInv, Evident, File
    <3> QED
      BY Zenon, <2>2, <2>6, <3>2, <3>3 DEF Calling
  <2> QED
    BY ZenonT(30), <1>1, <1>2, <1>3, <2>1, <2>3, <2>4, <2>6, RowWritten DEF CallPcs
<1>8. CASE Follows(c) /\ Write(c, [b.row EXCEPT !.expected = b.head], "idle")
  <2> DEFINE r == [b.row EXCEPT !.expected = b.head]
  <2>1. r \in Row
    BY Zenon, <1>1, <1>5 DEF Call, Row
  <2>2. r.expected = b.head /\ r.removal = b.row.removal /\ r.deleting = b.row.deleting
    BY Zenon, <1>5 DEF Row
  <2>3. b.head \in past /\ b.head \in Known /\ b.head # 0 /\ File(b.head) = asked
    BY Zenon, <1>1, <1>4, <1>8, KnownCommits DEF Follows, Wanted, Calling, DeletionInv, Typed, GitTyped
  <2>4. Write(c, r, "idle")
    BY Zenon, <1>8
  <2> HIDE DEF r
  <2>5. ASSUME call[c].fresh, row' = r
        PROVE  Intended' /\ Evident' /\ Calling(NoCall)'
    <3>1. b.row = row
      BY Zenon, <1>1, <1>6, <2>5
    <3>2. Intended'
      BY Zenon, <1>2, <1>4, <2>2, <2>3, <2>5, <3>1 DEF DeletionInv, Intended, Wanted, Known, File
    <3>3. Evident'
      BY Zenon, <1>2, <2>2, <2>5, <3>1 DEF DeletionInv, Evident, File
    <3> QED
      BY Zenon, <3>2, <3>3 DEF Calling, NoCall
  <2> QED
    BY Zenon, <1>1, <1>2, <1>3, <2>1, <2>4, <2>5, NobodyCalls, RowWritten DEF CallPcs
<1>9. CASE Return(c) /\ UNCHANGED row
  BY Zenon, <1>2, <1>9, Returned DEF rowVars
<1> QED
  BY Zenon, <1>1, <1>7, <1>8, <1>9 DEF Answered

\* MarkInfrastructureDeletion, the completion and markPushedInfrastructureDeletion
LEMMA MarkDeletionKeeps ==
    ASSUME DeletionInv, NEW c \in Callers, MarkDeletion(c)
    PROVE  DeletionInv'
<1>1. PICK b \in Call : b = call[c] /\ Calling(b) /\ b.pc = "mark"
  BY Zenon DEF DeletionInv, Typed, MarkDeletion, At
<1>2. UNCHANGED <<load, gitVars, job, trouble, asked, stranded, commits, past, published>>
  BY Zenon DEF MarkDeletion, budgets, gitVars
<1>3. asked' \in Contents \cup {0} /\ stranded' \in BOOLEAN
  BY Zenon, <1>2 DEF DeletionInv, Typed
<1>4. b.row \in Row /\ (b.fresh => b.row = row) /\ b.row.removal # 0
  BY Zenon, <1>1 DEF Call, Calling
<1>5. CASE Write(c, [b.row EXCEPT !.deleting = TRUE], "idle")
  <2> DEFINE r == [b.row EXCEPT !.deleting = TRUE]
  <2>1. r \in Row /\ r.expected = b.row.expected /\ r.removal = b.row.removal /\ r.deleting
    BY Zenon, <1>4 DEF Row
  <2>2. Write(c, r, "idle")
    BY Zenon, <1>5
  <2> HIDE DEF r
  <2>3. ASSUME call[c].fresh, row' = r
        PROVE  Intended' /\ Evident' /\ Calling(NoCall)'
    <3>1. b.row = row
      BY Zenon, <1>1, <1>4, <2>3
    <3>2. Intended'
      BY Zenon, <1>2, <2>1, <2>3, <3>1 DEF DeletionInv, Intended, Wanted, Known, File
    <3>3. Evident'
      BY Zenon, <1>2, <1>4, <2>1, <2>3, <3>1 DEF DeletionInv, Evident, File
    <3> QED
      BY Zenon, <3>2, <3>3 DEF Calling, NoCall
  <2> QED
    BY Zenon, <1>1, <1>2, <1>3, <2>1, <2>2, <2>3, NobodyCalls, RowWritten DEF CallPcs
<1>6. CASE Goto(c, "admit") /\ UNCHANGED row
  BY Zenon, <1>2, <1>6, GotoGoesOn DEF rowVars
<1> QED
  BY Zenon, <1>1, <1>5, <1>6 DEF MarkDeletion

LEMMA FinishKeeps ==
    ASSUME DeletionInv, NEW c \in Callers, Finish(c)
    PROVE  DeletionInv'
<1>1. PICK b \in Call : b = call[c] /\ Calling(b)
  BY Zenon DEF DeletionInv, Typed
<1>2. UNCHANGED <<load, gitVars, job, trouble, asked, stranded, commits, past, published>>
  BY Zenon DEF Finish, budgets, gitVars
<1>3. asked' \in Contents \cup {0} /\ stranded' \in BOOLEAN
  BY Zenon, <1>2 DEF DeletionInv, Typed
<1>4. b.row \in Row /\ (b.fresh => b.row = row)
  BY Zenon, <1>1 DEF Call, Calling
<1> DEFINE r == [b.row EXCEPT !.here = FALSE]
<1>5. /\ r \in Row /\ r.expected = b.row.expected /\ r.removal = b.row.removal
      /\ r.deleting = b.row.deleting
  BY Zenon, <1>4 DEF Row
<1>6. Write(c, r, "idle")
  BY Zenon, <1>1 DEF Finish
<1> HIDE DEF r
<1>7. ASSUME call[c].fresh, row' = r
      PROVE  Intended' /\ Evident' /\ Calling(NoCall)'
  <2>1. b.row = row
    BY Zenon, <1>1, <1>4, <1>7
  <2>2. Intended'
    BY Zenon, <1>2, <1>5, <1>7, <2>1 DEF DeletionInv, Intended, Wanted, Known, File
  <2>3. Evident'
    BY Zenon, <1>2, <1>4, <1>5, <1>7, <2>1 DEF DeletionInv, Evident, File
  <2> QED
    BY Zenon, <2>2, <2>3 DEF Calling, NoCall
<1> QED
  BY Zenon, <1>1, <1>2, <1>3, <1>5, <1>6, <1>7, NobodyCalls, RowWritten DEF CallPcs

LEMMA MarkPushedKeeps ==
    ASSUME DeletionInv, NEW c \in Callers, MarkPushed(c)
    PROVE  DeletionInv'
<1>1. PICK b \in Call : b = call[c] /\ Calling(b) /\ b.pc = "push"
  BY Zenon DEF DeletionInv, Typed, MarkPushed, At
<1>2. UNCHANGED <<load, gitVars, job, trouble, asked, commits, past, published>>
  BY Zenon DEF MarkPushed, budgets, gitVars
<1>3. b.row \in Row /\ (b.fresh => b.row = row) /\ b.head \in Nat
  BY ZenonT(30), <1>1 DEF Call, Calling
<1>4. b.head \in past /\ File(b.head) = 0 /\ b.head # 0
  BY Zenon, <1>1, KnownCommits DEF Calling, DeletionInv, Typed, GitTyped
<1> DEFINE r == Evidenced(b.row, b.head)
           keeps == load.kind = "Namespace" /\ b.row.expected # 0 /\ ~ b.row.deleting
<1>5. /\ r \in Row /\ r.deleting
      /\ r.expected = IF b.row.expected = 0 THEN b.row.commit ELSE b.row.expected
      /\ r.removal = IF b.row.removal # 0 \/ keeps THEN b.row.removal ELSE b.head
  BY Zenon, <1>3 DEF Row, Evidenced
<1>6. /\ Write(c, r, "idle")
      /\ stranded' = (stranded \/ (b.fresh /\ r.removal = 0))
  BY Zenon, <1>1 DEF MarkPushed
<1> HIDE DEF r
<1>7. asked' \in Contents \cup {0} /\ stranded' \in BOOLEAN
  BY Zenon, <1>2, <1>6 DEF DeletionInv, Typed
<1>8. ~ call[c].fresh => stranded' = stranded
  BY Zenon, <1>1, <1>6 DEF DeletionInv, Typed
<1>9. ASSUME call[c].fresh, row' = r
      PROVE  Intended' /\ Evident' /\ Calling(NoCall)'
  <2>1. b.row = row
    BY Zenon, <1>1, <1>3, <1>9
  <2>2. row.expected = 0 => asked = 0
    BY Zenon DEF DeletionInv, Intended
  <2>3. Intended'
    BY Zenon, <1>2, <1>5, <1>9, <2>1, <2>2 DEF DeletionInv, Intended, Wanted, Known, File
  <2>4. row'.removal = 0 => keeps
    BY Zenon, <1>4, <1>5, <1>9, <2>1
  <2>5. stranded' => load'.kind = "Namespace"
    BY Zenon, <1>2, <1>6, <1>9, <2>4 DEF DeletionInv, Evident
  <2>6. row'.removal # 0 => row'.removal \in past' /\ File(row.removal)' = 0
    BY Zenon, <1>2, <1>4, <1>5, <1>9, <2>1 DEF DeletionInv, Evident, File
  <2>7. row'.deleting => row'.removal # 0 \/ stranded'
    BY Zenon, <1>1, <1>6, <1>9
  <2> QED
    BY Zenon, <2>3, <2>5, <2>6, <2>7 DEF Evident, Calling, NoCall
<1> QED
  BY Zenon, <1>1, <1>2, <1>5, <1>6, <1>7, <1>8, <1>9, NobodyCalls, RowWritten DEF CallPcs

\* A push is admitted: the calls on the row have read an older version.
LEMMA AdmitUpdateKeeps ==
    ASSUME DeletionInv, AdmitUpdate
    PROVE  DeletionInv'
<1>1. /\ UNCHANGED <<load, gitVars, job, trouble, asked, stranded, commits, past, published>>
      /\ row' = [row EXCEPT !.commit = tip]
      /\ call' = [c \in Callers |-> [call[c] EXCEPT !.fresh = FALSE]]
  BY Zenon DEF AdmitUpdate, budgets, gitVars
<1>2. /\ GitTyped' /\ job' \in [Services -> Job] /\ Sized' /\ Grown' /\ Grows
      /\ \A e \in Ids \ twins' : Token(e)'
      /\ \A s \in Services : Working(s, job[s])'
      /\ \A e \in Ids : published'[e] > 0 => Wanted(e)'
  BY Zenon, <1>1, GitRests
<1>3. tip \in Nat
  BY Zenon, KnownCommits DEF DeletionInv, Typed, GitTyped
<1>4. /\ row' \in Row /\ row'.expected = row.expected /\ row'.removal = row.removal
      /\ row'.deleting = row.deleting
  BY Zenon, <1>1, <1>3 DEF DeletionInv, Typed, Row
<1>5. ASSUME NEW c \in Callers
      PROVE  call'[c] \in Call /\ Calling(call[c])'
  <2> DEFINE k == [call[c] EXCEPT !.fresh = FALSE]
  <2>1. call[c] \in Call /\ Calling(call[c])
    BY Zenon DEF DeletionInv, Typed
  <2>2. k \in Call /\ Calling(k) /\ ~ k.fresh
    BY Zenon, <2>1 DEF Call, Calling
  <2>3. call'[c] = k
    BY Zenon, <1>1
  <2> HIDE DEF k
  <2> QED
    BY Zenon, <1>1, <1>2, <2>2, <2>3, CallStays, CallFits
<1>6. Intended'
  BY Zenon, <1>1, <1>2, <1>4 DEF DeletionInv, Intended, Wanted, Known, File
<1>7. Evident'
  BY <1>1, <1>4 DEF DeletionInv, Evident, File
<1>8. call' \in [Callers -> Call]
  BY Zenon, <1>1, <1>5
<1>9. Typed'
  BY Zenon, <1>1, <1>2, <1>4, <1>8 DEF DeletionInv, Typed
<1> QED
  BY Zenon, <1>2, <1>5, <1>6, <1>7, <1>9 DEF DeletionInv

-----------------------------------------------------------------------------
(* The git service.                                                        *)

\* There is room for every commit: a removal is made once per commit with a manifest.
LEMMA Bounded ==
    ASSUME DeletionInv
    PROVE  /\ IsFiniteSet(Known) /\ IsFiniteSet(Manifests) /\ IsFiniteSet(Removed)
           /\ Cardinality(Manifests) \in Nat /\ Cardinality(Removed) \in Nat
           /\ Cardinality(Removed) <= Cardinality(Manifests)
           /\ Known \subseteq Ids
<1>1. Known = 1..Len(commits) /\ Len(commits) \in Nat
  BY Zenon, KnownCommits
<1>2. IsFiniteSet(Known)
  BY <1>1, FS_Interval
<1>3. Manifests \subseteq Known /\ Removed \subseteq Manifests
  BY Zenon DEF DeletionInv, Sized, Manifests
<1>4. IsFiniteSet(Manifests)
  BY Zenon, <1>2, <1>3, FS_Subset
<1>5. IsFiniteSet(Removed) /\ Cardinality(Removed) <= Cardinality(Manifests)
  BY Zenon, <1>3, <1>4, FS_Subset
<1>6. Cardinality(Manifests) \in Nat /\ Cardinality(Removed) \in Nat
  BY Zenon, <1>4, <1>5, FS_CardinalityType
<1>7. trouble \in 0..MaxTrouble /\ MaxTrouble \in Nat
  BY Zenon, DeletionConstants DEF DeletionInv, Typed, GitTyped
<1>8. Cardinality(Manifests) <= 1 + trouble /\ Len(commits) <= 1 + trouble + Cardinality(Removed)
  BY Zenon DEF DeletionInv, Sized
<1>9. Len(commits) <= MaxCommits
  BY <1>1, <1>5, <1>6, <1>7, <1>8 DEF MaxCommits
<1>10. Known \subseteq Ids
  BY <1>1, <1>7, <1>9 DEF Ids, MaxCommits
<1> QED
  BY Zenon, <1>2, <1>4, <1>5, <1>6, <1>10

\* The writes of the other processes
LEMMA OthersWork ==
    ASSUME DeletionInv, Grows, asked' = asked, NEW s \in Services, NEW j \in Job,
           job' = [job EXCEPT ![s] = j], Working(s, j)',
           \A e \in Ids : receipt[e] # 0 => receipt'[e] = receipt[e],
           (lock' = lock /\ tip' = tip) \/ lock \in {Free, s}
    PROVE  job' \in [Services -> Job] /\ \A t \in Services : Working(t, job[t])'
<1>1. job \in [Services -> Job] /\ \A t \in Services : job[t] \in Job /\ Working(t, job[t])
  BY Zenon DEF DeletionInv, Typed
<1>2. job' \in [Services -> Job] /\ job'[s] = j /\ \A t \in Services \ {s} : job'[t] = job[t]
  BY Zenon, <1>1
<1>3. Known \subseteq Ids /\ past \subseteq Known
  BY Zenon, Bounded DEF DeletionInv, Typed, GitTyped
<1>4. ASSUME NEW t \in Services \ {s}, NEW i \in Job, i = job[t]
      PROVE  Working(t, i)'
  <2>1. Working(t, i)
    BY Zenon, <1>1, <1>4
  <2>2. i.pc \in {"consume", "commit"} => lock' = lock /\ tip' = tip
    BY Zenon, <2>1, DeletionConstants DEF Working, Free
  <2>3. i.pc \in Deleting => i.expected \in Ids /\ Wanted(i.expected)'
    BY Zenon, <1>3, <2>1 DEF Working, Wanted, Grows, File
  <2>4. i.pc \in Prepared \cup {"resume"} => receipt'[i.expected] = receipt[i.expected]
    BY Zenon, <2>1, <2>3 DEF Working, Prepared, Deleting
  <2> QED
    BY Zenon, <2>1, <2>2, <2>3, <2>4 DEF Working, Prepared, Grows
<1>5. ASSUME NEW t \in Services
      PROVE  Working(t, job[t])'
  <2>1. CASE t = s
    BY Zenon, <1>2, <2>1, JobFits
  <2>2. CASE t # s
    BY Zenon, <1>1, <1>2, <1>4, <2>2, JobFits
  <2> QED
    BY Zenon, <2>1, <2>2
<1> QED
  BY Zenon, <1>2, <1>5

\* The permissions for a commit stay when nobody takes one.
LEMMA TokenStays ==
    ASSUME NEW e \in Ids, Token(e), receipt'[e] = receipt[e], marker'[e] = marker[e],
           published'[e] = published[e], Held(e)' \subseteq Held(e)
    PROVE  Token(e)'
  BY Zenon DEF Token

LEMMA HeldByOthers ==
    ASSUME DeletionInv, NEW s \in Services, NEW j \in Job, job' = [job EXCEPT ![s] = j], NEW e,
           j.pc \in {"mark", "commit"} => j.expected # e
    PROVE  Held(e)' = Held(e) \ {s}
<1>1. job \in [Services -> Job]
  BY Zenon DEF DeletionInv, Typed
<1>2. job'[s] = j /\ \A t \in Services \ {s} : job'[t] = job[t]
  BY Zenon, <1>1
<1> QED
  BY Zenon, <1>2 DEF Held

LEMMA HeldAtMost ==
    ASSUME DeletionInv, NEW s \in Services, NEW j \in Job, job' = [job EXCEPT ![s] = j], NEW e
    PROVE  Held(e)' \subseteq Held(e) \cup {s}
<1>1. \A t \in Services \ {s} : job'[t] = job[t]
  BY Zenon DEF DeletionInv, Typed
<1> QED
  BY Zenon, <1>1 DEF Held

LEMMA TokensRest ==
    ASSUME DeletionInv, NEW s \in Services, NEW j \in Job, job' = [job EXCEPT ![s] = j],
           j.pc \notin {"mark", "commit"}, UNCHANGED <<receipt, marker, published>>
    PROVE  \A e \in Ids \ twins : Token(e)'
<1> SUFFICES ASSUME NEW e \in Ids \ twins
             PROVE  Token(e)'
  OBVIOUS
<1>1. Held(e)' = Held(e) \ {s} /\ Token(e)
  BY Zenon, HeldByOthers DEF DeletionInv
<1> QED
  BY Zenon, <1>1, TokenStays

\* A step of a process that makes no commit
LEMMA RefStep ==
    ASSUME DeletionInv, NEW s \in Services, NEW j \in Job, job' = [job EXCEPT ![s] = j],
           Working(s, j)', UNCHANGED <<load, commits, receipt, twins, rowVars>>,
           past \subseteq past', past' \subseteq Known, tip' \in past',
           marker' \in [Ids -> Known \cup {0}], published' \in [Ids -> Nat],
           lock' \in Services \cup {Free, Stale},
           (lock' = lock /\ tip' = tip) \/ lock \in {Free, s},
           trouble' \in trouble..MaxTrouble,
           call' \in [Callers -> Call], \A c \in Callers : Calling(call[c])',
           \A e \in Ids : published'[e] > 0 => Wanted(e),
           \A e \in Ids \ twins : Token(e)'
    PROVE  DeletionInv'
<1>1. UNCHANGED <<row, asked, stranded>>
  BY Zenon DEF rowVars
<1>2. Grows
  BY Zenon DEF Grows, Known
<1>3. job' \in [Services -> Job] /\ \A t \in Services : Working(t, job[t])'
  BY Zenon, <1>1, <1>2, OthersWork
<1>4. trouble \in 0..MaxTrouble /\ MaxTrouble \in Nat
  BY Zenon, DeletionConstants DEF DeletionInv, Typed, GitTyped
<1>5. GitTyped'
  BY <1>4 DEF DeletionInv, Typed, GitTyped, Known
<1>6. Typed'
  BY Zenon, <1>1, <1>3, <1>5 DEF DeletionInv, Typed
<1>7. Sized'
  <2>1. Manifests' = Manifests /\ Removed' = Removed
    BY Zenon DEF Manifests, Removed, Known, File
  <2>2. /\ Cardinality(Manifests) \in Nat /\ Cardinality(Removed) \in Nat /\ Len(commits) \in Nat
        /\ Len(commits') = Len(commits)
    BY Zenon, Bounded, KnownCommits
  <2> QED
    BY <1>4, <2>1, <2>2 DEF DeletionInv, Sized
<1>8. Grown' /\ Intended' /\ Evident'
  BY Zenon, <1>1 DEF DeletionInv, Grown, Intended, Evident, Wanted, Known, File
<1> QED
  BY Zenon, <1>3, <1>6, <1>7, <1>8 DEF DeletionInv

\* A step of a process that leaves the refs and the objects alone
LEMMA QuietJob ==
    ASSUME DeletionInv, NEW s \in Services, NEW j \in Job, job' = [job EXCEPT ![s] = j],
           j.pc \notin {"mark", "commit"}, Working(s, j)',
           UNCHANGED <<load, commits, tip, receipt, marker, past, published, twins, rowVars>>,
           lock' \in Services \cup {Free, Stale}, lock' = lock \/ lock \in {Free, s},
           trouble' \in trouble..MaxTrouble,
           call' \in [Callers -> Call], \A c \in Callers : Calling(call[c])'
    PROVE  DeletionInv'
<1>1. \A e \in Ids \ twins : Token(e)'
  BY Zenon, TokensRest
<1>2. /\ past \subseteq Known /\ tip \in past /\ published \in [Ids -> Nat]
      /\ marker \in [Ids -> Known \cup {0}] /\ \A e \in Ids : published[e] > 0 => Wanted(e)
  BY Zenon DEF DeletionInv, Typed, GitTyped, Intended
<1> QED
  BY Zenon, <1>1, <1>2, RefStep

\* The calls when nobody is answered
LEMMA CallsRest ==
    ASSUME DeletionInv, Grows, UNCHANGED <<row, asked, call>>
    PROVE  call' \in [Callers -> Call] /\ \A c \in Callers : Calling(call[c])'
<1>1. call \in [Callers -> Call] /\ \A c \in Callers : call[c] \in Call /\ Calling(call[c])
  BY Zenon DEF DeletionInv, Typed
<1> QED
  BY Zenon, <1>1, CallStays, CallFits

LEMMA IdleWorks ==
    ASSUME NEW s
    PROVE  NoJob \in Job /\ Working(s, NoJob) /\ Working(s, NoJob)'
  BY Zenon DEF NoJob, Job, JobPcs, Working, Deleting, Prepared

refVars == <<commits, tip, receipt, marker, past, published, twins>>

\* A process answers without having changed a ref.
LEMMA Answers ==
    ASSUME DeletionInv, NEW s \in Services, NEW code \in {"ok", "aborted", "failed"}, NEW d \in Nat,
           code = "ok" => d \in past /\ File(d) = 0,
           Answer(s, code, d), UNCHANGED <<load, refVars, rowVars>>,
           lock' \in Services \cup {Free, Stale}, lock' = lock \/ lock \in {Free, s},
           trouble' \in trouble..MaxTrouble
    PROVE  DeletionInv'
<1>1. UNCHANGED <<commits, tip, receipt, marker, past, published, twins, row, asked>> /\ Grows
  BY Zenon DEF refVars, rowVars, Grows, Known
<1>2. code = "ok" => d \in past' /\ File(d)' = 0
  BY Zenon, <1>1 DEF File
<1>3. /\ job' = [job EXCEPT ![s] = NoJob]
      /\ call' \in [Callers -> Call] /\ \A c \in Callers : Calling(call[c])'
  BY Zenon, <1>1, <1>2, AnswerFits
<1>4. NoJob.pc \notin {"mark", "commit"}
  BY Zenon DEF NoJob
<1> QED
  BY Zenon, <1>1, <1>3, <1>4, IdleWorks, QuietJob

\* A process goes on without having changed a ref.
LEMMA Proceeds ==
    ASSUME DeletionInv, NEW s \in Services, NEW pc \in JobPcs \ {"mark", "commit"}, NEW d \in Nat,
           Proceed(s, pc, d), UNCHANGED <<load, refVars, rowVars, trouble>>,
           lock' \in Services \cup {Free, Stale}, lock' = lock \/ lock \in {Free, s},
           NEW j \in Job, j = [job[s] EXCEPT !.pc = pc, !.commit = d], Working(s, j)'
    PROVE  DeletionInv'
<1>1. UNCHANGED <<commits, tip, receipt, marker, past, published, twins, row, asked>> /\ Grows
  BY Zenon DEF refVars, rowVars, Grows, Known
<1>2. call' \in [Callers -> Call] /\ \A c \in Callers : Calling(call[c])'
  BY Zenon, <1>1, CallsRest DEF Proceed
<1>3. job' = [job EXCEPT ![s] = j]
  BY Zenon DEF Proceed, DeletionInv, Typed
<1>4. j.pc = pc
  BY Zenon DEF Job, DeletionInv, Typed
<1>5. trouble' \in trouble..MaxTrouble
  BY DEF DeletionInv, Typed, GitTyped
<1> QED
  BY Zenon, <1>1, <1>2, <1>3, <1>4, <1>5, QuietJob

\* What the process knows, and the parts of the record of its write
LEMMA JobFacts ==
    ASSUME DeletionInv, NEW s \in Services
    PROVE  /\ job[s] \in Job /\ Working(s, job[s])
           /\ job[s].pc \in Deleting => /\ Wanted(job[s].expected) /\ job[s].expected \in Ids
                                        /\ job[s].expected \in Known
           /\ job[s].pc \in Prepared => /\ job[s].commit \in Known /\ job[s].commit # 0
                                        /\ job[s].commit = receipt[job[s].expected]
                                        /\ File(job[s].commit) = 0
           /\ trouble \in trouble..MaxTrouble
           /\ lock \in Services \cup {Free, Stale}
           /\ tip \in Known /\ tip \in past
<1>1. job[s] \in Job /\ Working(s, job[s])
  BY Zenon DEF DeletionInv, Typed
<1>2. job[s].pc \in Deleting => Wanted(job[s].expected) /\ job[s].expected \in Ids
                                /\ job[s].expected \in Known
  BY Zenon, <1>1, Bounded DEF Working, Wanted
<1>3. receipt \in [Ids -> Known \cup {0}] /\ 0 \notin Known
  BY Zenon, KnownCommits DEF DeletionInv, Typed, GitTyped
<1>4. job[s].pc \in Prepared => job[s].pc \in Deleting
  BY ZenonT(30) DEF Prepared, Deleting
<1>5. job[s].pc \in Prepared => /\ job[s].commit \in Known /\ job[s].commit # 0
                                /\ job[s].commit = receipt[job[s].expected]
                                /\ File(job[s].commit) = 0
  BY Zenon, <1>1, <1>2, <1>3, <1>4 DEF Working, DeletionInv, Grown
<1>6. trouble \in trouble..MaxTrouble /\ lock \in Services \cup {Free, Stale}
      /\ tip \in Known /\ tip \in past
  BY DEF DeletionInv, Typed, GitTyped
<1> QED
  BY Zenon, <1>1, <1>2, <1>5, <1>6

LEMMA LookUpKeeps ==
    ASSUME DeletionInv, NEW s \in Services, LookUp(s)
    PROVE  DeletionInv'
<1> DEFINE e == job[s].expected
<1>1. /\ UNCHANGED <<load, refVars, rowVars, trouble, lock>>
      /\ UNCHANGED <<commits, tip, receipt, past, asked>>
  BY Zenon DEF LookUp, gitVars, refVars, rowVars, budgets
<1>2. /\ job[s] \in Job /\ Wanted(e) /\ trouble \in trouble..MaxTrouble
      /\ lock \in Services \cup {Free, Stale} /\ tip \in Known /\ tip \in past /\ tip \in Nat
  BY Zenon, JobFacts, KnownCommits DEF LookUp, Deleting
<1>3. ASSUME NEW pc \in {"completed", "resume", "prepare"}, NEW d \in Nat, Proceed(s, pc, d),
             pc = "completed" => d = tip,
             pc = "resume" => receipt[e] # 0,
             pc = "prepare" => e = tip
      PROVE  DeletionInv'
  <2>0. PICK j : j = [job[s] EXCEPT !.pc = pc, !.commit = d]
    OBVIOUS
  <2>1. pc \in JobPcs \ {"mark", "commit"}
    BY Zenon DEF JobPcs
  <2>2. j \in Job /\ j.pc = pc /\ j.commit = d /\ j.expected = e
    BY Zenon, <1>2, <2>0, <2>1 DEF Job
  <2> HIDE DEF e
  <2>3. Working(s, j)'
    BY Zenon, <1>1, <1>2, <1>3, <2>2 DEF Working, Wanted, Known, File, Prepared
  <2> QED
    BY Zenon, <1>1, <1>2, <1>3, <2>1, <2>2, <2>3, <2>0, Proceeds
<1>4. CASE Answer(s, "aborted", 0)
  BY Zenon, <1>1, <1>2, <1>4, Answers
<1> QED
  BY Zenon, <1>2, <1>3, <1>4 DEF LookUp

\* The walk from a former tip goes over former tips.
LEMMA WalksBack ==
    ASSUME DeletionInv, NEW c \in past, NEW n \in Nat, NEW d \in Walk(c, n)
    PROVE  d \in past
<1>1. PICK k \in 1..n : \E w \in [1..k -> Known] :
               /\ w[1] = c /\ w[k] = d
               /\ \A i \in 2..k : w[i] = commits[w[i - 1]].parent
  BY Zenon DEF Walk, Known
<1>2. PICK w \in [1..k -> Known] : /\ w[1] = c /\ w[k] = d
                                   /\ \A i \in 2..k : w[i] = commits[w[i - 1]].parent
  BY Zenon, <1>1
<1>3. CASE k = 1
  BY Zenon, <1>2, <1>3
<1>4. CASE k # 1
  <2>1. k \in 2..k /\ k - 1 \in 1..k /\ k \in 1..k
    BY <1>4
  <2>2. w[k - 1] \in Known /\ w[k] \in Known /\ d = commits[w[k - 1]].parent
    BY Zenon, <1>2, <2>1
  <2>3. 0 \notin Known
    BY Zenon, KnownCommits
  <2> QED
    BY <1>2, <2>2, <2>3 DEF DeletionInv, Grown
<1> QED
  BY Zenon, <1>3, <1>4

LEMMA CompletedKeeps ==
    ASSUME DeletionInv, NEW s \in Services, Completed(s)
    PROVE  DeletionInv'
<1> DEFINE e == job[s].expected
           t == job[s].commit
<1>1. UNCHANGED <<load, refVars, rowVars, trouble, lock>>
  BY Zenon DEF Completed, gitVars, refVars, budgets
<1>2. /\ e \in Ids /\ t \in past /\ trouble \in trouble..MaxTrouble
      /\ lock \in Services \cup {Free, Stale}
  BY Zenon, JobFacts DEF Completed, Deleting, Working
<1>3. CASE Answer(s, "aborted", 0) \/ Answer(s, "failed", 0)
  BY Zenon, <1>1, <1>2, <1>3, Answers
<1>4. CASE receipt[e] # 0 /\ receipt[e] \in Walk(t, HistoryLimit) /\ Answer(s, "ok", receipt[e])
  <2>1. receipt[e] \in past
    BY Zenon, <1>2, <1>4, WalksBack, DeletionConstants
  <2>2. File(receipt[e]) = 0
    BY Zenon, <1>2, <1>4 DEF DeletionInv, Grown
  <2>3. receipt[e] \in Nat
    BY <1>2, KnownCommits DEF DeletionInv, Typed, GitTyped
  <2> QED
    BY Zenon, <1>1, <1>2, <1>4, <2>1, <2>2, <2>3, Answers
<1> QED
  BY Zenon, <1>3, <1>4 DEF Completed

LEMMA ResumeKeeps ==
    ASSUME DeletionInv, NEW s \in Services, Resume(s)
    PROVE  DeletionInv'
<1> DEFINE e == job[s].expected
<1>1. /\ UNCHANGED <<load, refVars, rowVars, trouble, lock>>
      /\ UNCHANGED <<commits, tip, receipt, past, asked>>
  BY Zenon DEF Resume, gitVars, refVars, rowVars, budgets
<1>2. /\ job[s] \in Job /\ Wanted(e) /\ e \in Ids /\ trouble \in trouble..MaxTrouble
      /\ lock \in Services \cup {Free, Stale} /\ receipt[e] # 0
  BY ZenonT(30), JobFacts DEF Resume, Deleting, Working
<1>3. CASE Answer(s, "failed", 0)
  BY Zenon, <1>1, <1>2, <1>3, Answers
<1>4. CASE Proceed(s, "publish", receipt[e])
  <2>0. PICK j : j = [job[s] EXCEPT !.pc = "publish", !.commit = receipt[e]]
    OBVIOUS
  <2>1. "publish" \in JobPcs \ {"mark", "commit"} /\ receipt[e] \in Nat
    BY Zenon, <1>2, KnownCommits DEF JobPcs, DeletionInv, Typed, GitTyped
  <2>2. j \in Job /\ j.pc = "publish" /\ j.commit = receipt[e] /\ j.expected = e
    BY Zenon, <1>2, <2>0, <2>1 DEF Job
  <2> HIDE DEF e
  <2>3. Working(s, j)'
    BY ZenonT(30), <1>1, <1>2, <2>2 DEF Working, Wanted, Known, File, Prepared
  <2> QED
    BY Zenon, <1>1, <1>2, <1>4, <2>1, <2>2, <2>3, <2>0, Proceeds
<1> QED
  BY Zenon, <1>3, <1>4 DEF Resume

\* publish_delete_ref takes the lock while the branch is at the expected commit.
LEMMA LockKeeps ==
    ASSUME DeletionInv, NEW s \in Services, Lock(s)
    PROVE  DeletionInv'
<1> DEFINE e == job[s].expected
           d == job[s].commit
<1>1. /\ UNCHANGED <<load, refVars, rowVars, trouble>>
      /\ UNCHANGED <<commits, tip, receipt, past, asked>>
  BY Zenon DEF Lock, refVars, rowVars, budgets
<1>2. /\ job[s] \in Job /\ Wanted(e) /\ e \in Ids /\ trouble \in trouble..MaxTrouble
      /\ lock \in Services \cup {Free, Stale} /\ d # 0 /\ d = receipt[e] /\ d \in Nat
  BY Zenon, JobFacts, KnownCommits DEF Lock, Deleting, Prepared
<1>3. CASE Answer(s, "failed", 0) /\ UNCHANGED lock
  BY Zenon, <1>1, <1>2, <1>3, Answers
<1>4. CASE Proceed(s, "consume", d) /\ lock = Free /\ lock' = s /\ tip = e
  <2>0. PICK j : j = [job[s] EXCEPT !.pc = "consume", !.commit = d]
    OBVIOUS
  <2>1. "consume" \in JobPcs \ {"mark", "commit"}
    BY Zenon DEF JobPcs
  <2>2. j \in Job /\ j.pc = "consume" /\ j.commit = d /\ j.expected = e
    BY Zenon, <1>2, <2>0, <2>1 DEF Job
  <2> HIDE DEF e, d
  <2>3. Working(s, j)'
    BY ZenonT(30), <1>1, <1>2, <1>4, <2>2 DEF Working, Wanted, Known, File, Prepared
  <2> QED
    BY Zenon, <1>1, <1>2, <1>4, <2>1, <2>2, <2>3, <2>0, Proceeds
<1> QED
  BY Zenon, <1>3, <1>4 DEF Lock

\* The removal is prepared: it is the one commit that receipt and job name.
LEMMA PrepareKeeps ==
    ASSUME DeletionInv, NEW s \in Services, Prepare(s)
    PROVE  DeletionInv'
<1>0. PICK e, d : /\ e = job[s].expected
                  /\ d = IF receipt[e] = 0 THEN Len(commits) + 1 ELSE receipt[e]
  BY Zenon
<1>1. /\ UNCHANGED <<load, tip, marker, lock, past, published, row, asked, stranded, trouble>>
      /\ UNCHANGED rowVars
  BY Zenon DEF Prepare, rowVars, budgets
<1>2. /\ job[s] \in Job /\ Wanted(e) /\ e \in Ids /\ e \in Known /\ e \in past
      /\ lock \in Services \cup {Free, Stale} /\ trouble \in trouble..MaxTrouble
  BY Zenon, <1>0, JobFacts DEF Prepare, Deleting, Working
<1>3. CASE Answer(s, "failed", 0) /\ UNCHANGED <<commits, receipt, twins>>
  BY Zenon, <1>1, <1>2, <1>3, Answers DEF refVars
<1>4. CASE /\ Proceed(s, "mark", d) /\ receipt' = [receipt EXCEPT ![e] = d]
           /\ commits' = IF receipt[e] = 0 THEN Append(commits, [parent |-> e, file |-> 0])
                         ELSE commits
           /\ twins' = IF receipt[e] = 0 THEN twins ELSE twins \cup {e}
  <2>1. /\ commits \in Seq(Commit) /\ receipt \in [Ids -> Known \cup {0}]
        /\ marker \in [Ids -> Known \cup {0}] /\ past \subseteq Known
        /\ Known = 1..Len(commits) /\ Len(commits) \in Nat
    BY Zenon, KnownCommits DEF DeletionInv, Typed, GitTyped
  <2>2. /\ commits' \in Seq(Commit) /\ Known \subseteq Known' /\ d \in Known'
        /\ \A c \in Known : commits'[c] = commits[c]
        /\ \A c \in Known' \ Known : commits'[c].parent = e /\ commits'[c].file = 0
        /\ d # 0 /\ d \in Nat /\ File(d)' = 0 /\ commits'[d].parent = e
    <3>1. CASE receipt[e] = 0
      <4>1. PICK x \in Commit : x = [parent |-> e, file |-> 0]
        <5>1. e \in Nat
          BY <1>2, <2>1
        <5> QED
          BY Zenon, <5>1 DEF Commit
      <4>2. x.parent = e /\ x.file = 0
        BY Zenon, <4>1
      <4>3. commits' = Append(commits, x) /\ d = Len(commits) + 1
        BY Zenon, <1>0, <1>4, <3>1, <4>1
      <4>4. Known' = Known \cup {d} /\ commits'[d] = x /\ d \notin Known
            /\ commits' \in Seq(Commit) /\ \A c \in Known : commits'[c] = commits[c]
        BY Zenon, <2>1, <4>3, Appended
      <4>5. d # 0 /\ d \in Nat
        BY <2>1, <4>3
      <4>6. File(d)' = 0
        BY Zenon, <4>2, <4>4 DEF File
      <4> QED
        BY Zenon, <4>2, <4>4, <4>5, <4>6
    <3>2. CASE receipt[e] # 0
      <4>1. commits' = commits /\ d = receipt[e] /\ d \in Known /\ File(d) = 0
            /\ commits[d].parent = e
        BY ZenonT(30), <1>0, <1>2, <1>4, <2>1, <3>2 DEF DeletionInv, Grown
      <4> QED
        BY <2>1, <4>1 DEF Known, File
    <3> QED
      BY Zenon, <3>1, <3>2
  <2>3. Grows /\ \A x \in Ids : receipt'[x] = IF x = e THEN d ELSE receipt[x]
    BY Zenon, <1>1, <1>4, <2>1, <2>2 DEF Grows
  <2>4. receipt[e] # 0 => d = receipt[e]
    BY Zenon, <1>0
  <2>5. PICK j : j = [job[s] EXCEPT !.pc = "mark", !.commit = d]
    OBVIOUS
  <2>6. j \in Job /\ j.pc = "mark" /\ j.commit = d /\ j.expected = e
    BY Zenon, <1>0, <1>2, <2>2, <2>5 DEF Job, JobPcs
  <2>7. job' = [job EXCEPT ![s] = j] /\ UNCHANGED call
    BY ZenonT(30), <1>4, <2>5 DEF Proceed, DeletionInv, Typed
  <2>8. Working(s, j)'
    BY Zenon, <1>1, <1>2, <2>2, <2>3, <2>6 DEF Working, Wanted, File, Prepared
  <2>9. job' \in [Services -> Job] /\ \A t \in Services : Working(t, job[t])'
    BY Zenon, <1>1, <2>3, <2>4, <2>6, <2>7, <2>8, OthersWork
  <2>10. call' \in [Callers -> Call] /\ \A c \in Callers : Calling(call[c])'
    BY Zenon, <1>1, <2>3, <2>7, CallsRest
  <2>11. Typed'
    <3>1. GitTyped'
      BY ZenonT(30), <1>1, <1>2, <1>4, <2>1, <2>2, <2>3 DEF DeletionInv, Typed, GitTyped
    <3> QED
      BY Zenon, <1>1, <2>9, <2>10, <3>1 DEF DeletionInv, Typed
  <2>12. Sized'
    <3>1. Manifests' = Manifests
      BY Zenon, <2>2 DEF Manifests, File
    <3>2. Removed' = Removed \cup {e} /\ e \in Manifests
      <4>1. e \in Manifests
        BY Zenon, <1>2, DeletionConstants DEF Manifests, Wanted
      <4> QED
        BY ZenonT(30), <1>2, <2>2, <2>3, <4>1 DEF Removed
    <3>3. /\ Cardinality(Removed') = IF receipt[e] = 0 THEN Cardinality(Removed) + 1
                                    ELSE Cardinality(Removed)
          /\ Cardinality(Removed) \in Nat /\ Cardinality(Manifests) \in Nat
      BY Zenon, <1>2, <3>2, Bounded, FS_AddElement DEF Removed
    <3>4. Len(commits') = IF receipt[e] = 0 THEN Len(commits) + 1 ELSE Len(commits)
      BY <1>2, <1>4, <2>1, Appended DEF Commit
    <3> QED
      BY <1>1, <2>1, <3>1, <3>2, <3>3, <3>4 DEF DeletionInv, Sized, Typed, GitTyped
  <2>13. Grown'
    <3>1. \A c \in Known' : commits'[c].parent \in past' \cup {0}
      BY Zenon, <1>1, <1>2, <2>2 DEF DeletionInv, Grown
    <3>2. ASSUME NEW x \in Ids, NEW c, c = receipt'[x], c # 0
          PROVE  File(c)' = 0 /\ commits'[c].parent = x
      <4>1. CASE x = e
        BY ZenonT(30), <2>2, <2>3, <3>2, <4>1
      <4>2. CASE x # e
        BY <2>1, <2>2, <2>3, <3>2, <4>2 DEF DeletionInv, Grown, File
      <4> QED
        BY Zenon, <4>1, <4>2
    <3> QED
      BY Zenon, <3>1, <3>2 DEF Grown
  <2>14. Intended' /\ Evident'
    <3>1. Intended'
      BY Zenon, <1>1, <2>2 DEF DeletionInv, Intended, Wanted, File
    <3>2. Evident'
      BY Zenon, <1>1, <2>1, <2>2 DEF DeletionInv, Evident, File
    <3> QED
      BY Zenon, <3>1, <3>2
  <2>15. ASSUME NEW x \in Ids \ twins'
         PROVE  Token(x)'
    <3>1. Token(x)
      BY Zenon, <1>4, <2>15 DEF DeletionInv
    <3>2. CASE x # e
      <4>1. Held(x)' = Held(x) \ {s}
        BY Zenon, <2>6, <2>7, <3>2, HeldByOthers
      <4> QED
        BY Zenon, <1>1, <2>3, <3>1, <3>2, <4>1, TokenStays
    <3>3. CASE x = e
      <4>1. receipt[e] = 0
        BY Zenon, <1>4, <2>15, <3>3
      <4>2. Held(e) = {}
        <5>1. \A t \in Services : job[t].pc \in {"mark", "commit"} => job[t].expected # e
          BY Zenon, <4>1, JobFacts DEF Prepared
        <5> QED
          BY Zenon, <5>1 DEF Held
      <4>3. Held(e)' \subseteq {s}
        BY Zenon, <2>6, <2>7, <4>2, HeldAtMost
      <4>4. receipt'[e] = d /\ marker'[e] = 0 /\ published'[e] = 0
        <5>1. marker[e] = 0 /\ published[e] = 0
          BY Zenon, <3>1, <3>3, <4>1 DEF Token
        <5> QED
          BY Zenon, <1>1, <1>2, <2>3, <5>1
      <4> QED
        BY <2>2, <3>3, <4>3, <4>4 DEF Token
    <3> QED
      BY Zenon, <3>2, <3>3
  <2> QED
    BY Zenon, <2>9, <2>10, <2>11, <2>12, <2>13, <2>14, <2>15 DEF DeletionInv
<1> QED
  BY Zenon, <1>0, <1>3, <1>4 DEF Prepare

\* The permission goes from process s to the marker, to s or into the publication.
LEMMA TokenMoves ==
    ASSUME DeletionInv, NEW s \in Services, NEW j \in Job, NEW e \in Ids, e = job[s].expected,
           job' = [job EXCEPT ![s] = j], UNCHANGED receipt, j.pc = "commit" => j.expected = e,
           j.pc # "mark", receipt[e] # 0,
           \A x \in Ids \ {e} : marker'[x] = marker[x] /\ published'[x] = published[x],
           \/ /\ job[s].pc = "mark" /\ j.pc # "commit"
              /\ published'[e] = published[e]
           \/ /\ job[s].pc = "commit" /\ j.pc # "commit"
              /\ published'[e] = published[e] + 1 /\ marker'[e] = marker[e]
           \/ /\ marker[e] # 0 /\ marker'[e] = 0 /\ published'[e] = published[e]
    PROVE  \A x \in Ids \ twins : Token(x)'
<1> SUFFICES ASSUME NEW x \in Ids \ twins
             PROVE  Token(x)'
  OBVIOUS
<1>1. Token(x) /\ receipt'[x] = receipt[x]
  BY Zenon DEF DeletionInv
<1>2. CASE x # e
  <2>1. Held(x)' = Held(x) \ {s}
    BY ZenonT(30), <1>2, HeldByOthers
  <2> QED
    BY Zenon, <1>1, <1>2, <2>1, TokenStays
<1>3. CASE x = e /\ j.pc # "commit" /\ job[s].pc \in {"mark", "commit"}
  <2>0. /\ j.pc \in {"mark", "commit"} => j.expected # x
        /\ x \in Ids /\ s \in Services
    BY Zenon, <1>3
  <2>1. Held(x)' = Held(x) \ {s} /\ s \in Held(x)
    <3>1. Held(x)' = Held(x) \ {s}
      BY Zenon, <2>0, HeldByOthers
    <3> QED
      BY Zenon, <1>3, <3>1 DEF Held
  <2>2. Held(x)' = {} /\ published[x] = 0 /\ marker[x] = 0
    BY ZenonT(30), <1>1, <2>1 DEF Token
  <2>3. published'[x] \in {0, 1} /\ (marker'[x] # 0 => published'[x] = 0)
    BY <1>3, <2>2
  <2> QED
    BY <1>1, <1>3, <2>2, <2>3 DEF Token
<1>4. CASE x = e /\ marker[e] # 0 /\ marker'[e] = 0 /\ published'[e] = published[e]
  <2>1. Held(x)' \subseteq {s} /\ published'[x] = 0
    BY Zenon, <1>1, <1>4, HeldAtMost DEF Token
  <2> QED
    BY Zenon, <1>1, <1>4, <2>1 DEF Token
<1> QED
  BY Zenon, <1>2, <1>3, <1>4

LEMMA MarkKeeps ==
    ASSUME DeletionInv, NEW s \in Services, Mark(s)
    PROVE  DeletionInv'
<1>0. PICK e, d : e = job[s].expected /\ d = job[s].commit
  OBVIOUS
<1>1. /\ UNCHANGED <<load, commits, tip, receipt, lock, past, published, twins, trouble>>
      /\ UNCHANGED <<rowVars, row, asked>> /\ Grows
  BY Zenon DEF Mark, rowVars, budgets, Grows, Known
<1>2. /\ job[s] \in Job /\ Wanted(e) /\ e \in Ids /\ d \in Known /\ d # 0 /\ d = receipt[e]
      /\ lock \in Services \cup {Free, Stale} /\ trouble \in trouble..MaxTrouble
  BY Zenon, <1>0, JobFacts DEF Mark, Deleting, Prepared
<1>3. CASE Answer(s, "failed", 0) /\ UNCHANGED marker
  BY Zenon, <1>1, <1>2, <1>3, Answers DEF refVars
<1>4. CASE /\ Proceed(s, "publish", d) /\ marker[e] = 0
           /\ marker' = [marker EXCEPT ![e] = d]
  <2>1. PICK j : j = [job[s] EXCEPT !.pc = "publish", !.commit = d]
    OBVIOUS
  <2>2. j \in Job /\ j.pc = "publish" /\ j.commit = d /\ j.expected = e
    BY Zenon, <1>0, <1>2, <2>1, KnownCommits DEF Job, JobPcs
  <2>3. job' = [job EXCEPT ![s] = j] /\ UNCHANGED call
    BY ZenonT(30), <1>4, <2>1 DEF Proceed, DeletionInv, Typed
  <2>4. Working(s, j)'
    BY Zenon, <1>1, <1>2, <2>2 DEF Working, Wanted, File, Prepared, Known
  <2>5. /\ past \subseteq Known /\ tip \in past /\ published \in [Ids -> Nat]
        /\ marker \in [Ids -> Known \cup {0}] /\ \A x \in Ids : published[x] > 0 => Wanted(x)
    BY Zenon DEF DeletionInv, Typed, GitTyped, Intended
  <2>6. /\ marker' \in [Ids -> Known \cup {0}]
        /\ \A x \in Ids \ {e} : marker'[x] = marker[x]
    BY Zenon, <1>2, <1>4, <2>5
  <2>7. \A x \in Ids \ twins : Token(x)'
    BY Zenon, <1>0, <1>1, <1>2, <2>2, <2>3, <2>6, TokenMoves DEF Mark
  <2>8. call' \in [Callers -> Call] /\ \A c \in Callers : Calling(call[c])'
    BY Zenon, <1>1, <2>3, CallsRest
  <2> QED
    BY ZenonT(30), <1>1, <1>2, <2>2, <2>3, <2>4, <2>5, <2>6, <2>7, <2>8, RefStep
<1> QED
  BY Zenon, <1>0, <1>3, <1>4 DEF Mark

LEMMA ConsumeKeeps ==
    ASSUME DeletionInv, NEW s \in Services, Consume(s)
    PROVE  DeletionInv'
<1>0. PICK e, d : e = job[s].expected /\ d = job[s].commit
  OBVIOUS
<1>1. /\ UNCHANGED <<load, commits, tip, receipt, past, published, twins, trouble>>
      /\ UNCHANGED <<rowVars, row, asked>> /\ Grows
  BY Zenon DEF Consume, rowVars, budgets, Grows, Known
<1>2. /\ job[s] \in Job /\ Wanted(e) /\ e \in Ids /\ d \in Known /\ d # 0 /\ d = receipt[e]
      /\ lock = s /\ tip = e /\ trouble \in trouble..MaxTrouble
  BY Zenon, <1>0, JobFacts DEF Consume, Deleting, Prepared, Working
<1>3. CASE Answer(s, "failed", 0) /\ lock' = Free /\ UNCHANGED marker
  BY Zenon, <1>1, <1>2, <1>3, Answers DEF refVars
<1>4. CASE /\ Proceed(s, "commit", d) /\ marker[e] = d /\ lock' = lock
           /\ marker' = [marker EXCEPT ![e] = 0]
  <2>1. PICK j : j = [job[s] EXCEPT !.pc = "commit", !.commit = d]
    OBVIOUS
  <2>2. j \in Job /\ j.pc = "commit" /\ j.commit = d /\ j.expected = e
    BY Zenon, <1>0, <1>2, <2>1, KnownCommits DEF Job, JobPcs
  <2>3. job' = [job EXCEPT ![s] = j] /\ UNCHANGED call
    BY Zenon, <1>4, <2>1 DEF Proceed, DeletionInv, Typed
  <2>4. Working(s, j)'
    BY ZenonT(30), <1>1, <1>2, <1>4, <2>2 DEF Working, Wanted, File, Prepared, Known
  <2>5. /\ past \subseteq Known /\ tip \in past /\ published \in [Ids -> Nat]
        /\ marker \in [Ids -> Known \cup {0}] /\ \A x \in Ids : published[x] > 0 => Wanted(x)
    BY Zenon DEF DeletionInv, Typed, GitTyped, Intended
  <2>6. /\ marker' \in [Ids -> Known \cup {0}] /\ marker'[e] = 0
        /\ \A x \in Ids \ {e} : marker'[x] = marker[x]
    BY Zenon, <1>2, <1>4, <2>5
  <2>7. \A x \in Ids \ twins : Token(x)'
    BY Zenon, <1>0, <1>1, <1>2, <1>4, <2>2, <2>3, <2>6, TokenMoves
  <2>8. call' \in [Callers -> Call] /\ \A c \in Callers : Calling(call[c])'
    BY Zenon, <1>1, <2>3, CallsRest
  <2> QED
    BY ZenonT(30), <1>1, <1>2, <1>4, <2>2, <2>3, <2>4, <2>5, <2>6, <2>7, <2>8, RefStep
<1> QED
  BY Zenon, <1>0, <1>3, <1>4 DEF Consume

LEMMA PublishKeeps ==
    ASSUME DeletionInv, NEW s \in Services, Publish(s)
    PROVE  DeletionInv'
<1>0. PICK e, d : e = job[s].expected /\ d = job[s].commit
  OBVIOUS
<1>1. /\ UNCHANGED <<load, commits, receipt, marker, twins, trouble, rowVars, row, asked>>
      /\ tip' = d /\ past' = past \cup {d} /\ lock' = Free /\ Answer(s, "ok", d)
      /\ published' = [published EXCEPT ![e] = @ + 1]
  BY Zenon, <1>0 DEF Publish, rowVars, budgets
<1>2. /\ Wanted(e) /\ e \in Ids /\ d \in Known /\ d # 0 /\ d = receipt[e] /\ File(d) = 0
      /\ lock = s /\ trouble \in trouble..MaxTrouble /\ d \in Nat
  BY Zenon, <1>0, JobFacts, KnownCommits DEF Publish, Deleting, Prepared, Working
<1>3. /\ past \subseteq Known /\ published \in [Ids -> Nat]
      /\ marker \in [Ids -> Known \cup {0}] /\ \A x \in Ids : published[x] > 0 => Wanted(x)
  BY Zenon DEF DeletionInv, Typed, GitTyped, Intended
<1>4. /\ published' \in [Ids -> Nat] /\ published'[e] = published[e] + 1
      /\ \A x \in Ids \ {e} : published'[x] = published[x]
  <2>1. published' = [published EXCEPT ![e] = @ + 1] /\ e \in Ids /\ published \in [Ids -> Nat]
    BY ZenonT(30), <1>1, <1>2, <1>3
  <2> QED
    BY <2>1
<1>5. Grows /\ File(d)' = 0 /\ d \in past'
  BY Zenon, <1>1, <1>2 DEF Grows, Known, File
<1>6. /\ job' = [job EXCEPT ![s] = NoJob]
      /\ call' \in [Callers -> Call] /\ \A c \in Callers : Calling(call[c])'
  BY Zenon, <1>1, <1>2, <1>5, AnswerFits
<1>7. NoJob \in Job /\ NoJob.pc = "idle" /\ Working(s, NoJob)'
  BY Zenon, IdleWorks DEF NoJob
<1>8. \A x \in Ids \ twins : Token(x)'
  BY Zenon, <1>0, <1>1, <1>2, <1>4, <1>6, <1>7, TokenMoves DEF Publish
<1> QED
  BY Zenon, <1>1, <1>2, <1>3, <1>4, <1>6, <1>7, <1>8, RefStep

LEMMA ReceivePackKeeps ==
    ASSUME DeletionInv, NEW s \in Services, ReceivePack(s)
    PROVE  DeletionInv'
<1>0. PICK old, new : old = job[s].expected /\ new = job[s].commit
  OBVIOUS
<1>1. /\ UNCHANGED <<load, commits, receipt, marker, lock, published, twins, trouble>>
      /\ UNCHANGED <<rowVars, row, asked>> /\ job' = [job EXCEPT ![s] = NoJob]
  BY Zenon DEF ReceivePack, rowVars, budgets
<1>2. /\ new \in Known /\ tip \in Known /\ tip \in past /\ new \in Nat
      /\ lock \in Services \cup {Free, Stale} /\ trouble \in trouble..MaxTrouble
  BY ZenonT(30), <1>0, JobFacts, KnownCommits DEF ReceivePack, Working
<1>3. /\ past \subseteq Known /\ published \in [Ids -> Nat]
      /\ marker \in [Ids -> Known \cup {0}] /\ \A x \in Ids : published[x] > 0 => Wanted(x)
  BY Zenon DEF DeletionInv, Typed, GitTyped, Intended
<1>4. NoJob \in Job /\ NoJob.pc = "idle" /\ Working(s, NoJob)'
  BY Zenon, IdleWorks DEF NoJob
<1>5. \A x \in Ids \ twins : Token(x)'
  BY Zenon, <1>1, <1>4, TokensRest
<1>6. CASE UNCHANGED <<tip, past, call>>
  <2>1. Grows
    BY Zenon, <1>1, <1>6 DEF Grows, Known
  <2> QED
    BY ZenonT(30), <1>1, <1>2, <1>3, <1>4, <1>5, <1>6, <2>1, CallsRest, RefStep
<1>7. CASE lock = Free /\ tip = old /\ tip' = new /\ past' = past \cup {new}
  <2>1. Grows
    BY Zenon, <1>1, <1>7 DEF Grows, Known
  <2>2. call' \in [Callers -> Call] /\ \A c \in Callers : Calling(call[c])'
    <3>1. CASE UNCHANGED call
      BY Zenon, <1>1, <2>1, <3>1, CallsRest
    <3>2. CASE call' = [call EXCEPT !["push"] = [NoCall EXCEPT !.pc = "fence",
                                                   !.head = new, !.removed = File(old)]]
      <4>1. PICK k : k = [NoCall EXCEPT !.pc = "fence", !.head = new, !.removed = File(old)]
        OBVIOUS
      <4>2. File(old) \in Nat
        <5>1. old \in Known
          BY Zenon, <1>2, <1>7
        <5>2. Contents \cup {0} \subseteq Nat
          BY DeletionConstants
        <5> QED
          BY Zenon, <5>1, <5>2, KnownCommits
      <4>3. k \in Call /\ k.pc = "fence" /\ ~ k.fresh
        BY Zenon, <1>2, <4>1, <4>2 DEF NoCall, NoRow, Call, Row, CallPcs
      <4>4. Calling(k)'
        BY Zenon, <4>3 DEF Calling
      <4>5. /\ call' \in [Callers -> Call] /\ call'["push"] = k
            /\ \A c \in Callers \ {"push"} : call'[c] = call[c]
            /\ \A c \in Callers : call[c] \in Call /\ Calling(call[c])
        BY Zenon, <3>2, <4>1, <4>3 DEF DeletionInv, Typed, Callers
      <4> QED
        <5>1. ASSUME NEW c \in Callers
              PROVE  Calling(call[c])'
          BY Zenon, <1>1, <2>1, <4>3, <4>4, <4>5, CallStays, CallFits
        <5> QED
          BY Zenon, <4>5, <5>1
    <3> QED
      BY Zenon, <1>0, <1>7, <3>1, <3>2 DEF ReceivePack
  <2> QED
    BY ZenonT(30), <1>1, <1>2, <1>3, <1>4, <1>5, <1>7, <2>1, <2>2, RefStep
<1> QED
  BY Zenon, <1>0, <1>6, <1>7 DEF ReceivePack

LEMMA CrashKeeps ==
    ASSUME DeletionInv, NEW s \in Services, Crash(s)
    PROVE  DeletionInv'
<1>1. UNCHANGED <<load, refVars, rowVars>>
  BY Zenon DEF Crash, refVars
<1>2. trouble \in Nat /\ MaxTrouble \in Nat /\ lock \in Services \cup {Free, Stale}
  BY DeletionConstants DEF DeletionInv, Typed, GitTyped
<1>3. trouble' \in trouble..MaxTrouble
  BY <1>2 DEF Crash
<1> QED
  BY Zenon, <1>1, <1>2, <1>3, Answers DEF Crash

LEMMA DeleteFileKeeps ==
    ASSUME DeletionInv, NEW c \in Callers, DeleteFile(c)
    PROVE  DeletionInv'
<1>1. PICK b \in Call : b = call[c] /\ Calling(b) /\ b.pc = "delete"
  BY Zenon DEF DeletionInv, Typed, DeleteFile, At
<1>2. PICK s \in Services : job' = [job EXCEPT ![s] =
                [NoJob EXCEPT !.pc = "look", !.expected = b.row.expected, !.caller = c]]
  BY Zenon, <1>1 DEF DeleteFile
<1>3. PICK j : j = [NoJob EXCEPT !.pc = "look", !.expected = b.row.expected, !.caller = c]
  OBVIOUS
<1>4. /\ UNCHANGED <<load, commits, tip, receipt, marker, past, published, twins, rowVars>>
      /\ UNCHANGED <<lock, trouble, row, asked>>
  BY Zenon DEF DeleteFile, gitVars, rowVars, budgets
<1>5. b.row.expected \in Nat /\ Wanted(b.row.expected)
  BY Zenon, <1>1 DEF Call, Row, Calling
<1>6. j \in Job /\ j.pc = "look" /\ j.expected = b.row.expected
  BY Zenon, <1>3, <1>5 DEF NoJob, Job, JobPcs
<1>7. Working(s, j)'
  BY ZenonT(30), <1>4, <1>5, <1>6 DEF Working, Wanted, File, Known, Prepared
<1>8. call' \in [Callers -> Call] /\ \A d \in Callers : Calling(call[d])'
  <2>1. PICK k : k = [b EXCEPT !.pc = "wait"]
    BY Zenon
  <2>2. k \in Call /\ k.pc = "wait" /\ k.row = b.row /\ k.fresh = b.fresh /\ k.head = b.head
    BY Zenon, <1>1, <2>1 DEF Call, CallPcs
  <2>3. /\ call' \in [Callers -> Call] /\ call'[c] = k
        /\ \A d \in Callers \ {c} : call'[d] = call[d]
        /\ \A d \in Callers : call[d] \in Call /\ Calling(call[d])
    BY Zenon, <1>1, <2>1, <2>2 DEF DeletionInv, Typed, DeleteFile, Goto
  <2>4. Calling(k) /\ Grows
    BY Zenon, <1>1, <1>4, <2>2 DEF Calling, Grows, Known
  <2> QED
    BY Zenon, <1>4, <2>2, <2>3, <2>4, CallStays, CallFits
<1>9. lock \in Services \cup {Free, Stale} /\ trouble \in trouble..MaxTrouble
  BY Zenon, JobFacts
<1> QED
  BY Zenon, <1>2, <1>3, <1>4, <1>6, <1>7, <1>8, <1>9, QuietJob

\* A push makes its commit on the tip, or takes an earlier one.
LEMMA ValidateKeeps ==
    ASSUME DeletionInv, NEW s \in Services, Validate(s)
    PROVE  DeletionInv'
<1>1. /\ UNCHANGED <<load, tip, receipt, marker, lock, past, published, twins, rowVars, call>>
      /\ UNCHANGED <<row, asked, stranded>> /\ trouble' = trouble + 1
  BY Zenon DEF Validate, rowVars
<1>2. /\ commits \in Seq(Commit) /\ receipt \in [Ids -> Known \cup {0}] /\ past \subseteq Known
      /\ marker \in [Ids -> Known \cup {0}] /\ trouble \in Nat /\ MaxTrouble \in Nat
      /\ tip \in past /\ tip \in Known /\ Known = 1..Len(commits) /\ Len(commits) \in Nat
      /\ lock \in Services \cup {Free, Stale}
  BY KnownCommits, DeletionConstants DEF DeletionInv, Typed, GitTyped
<1>3. trouble' \in trouble..MaxTrouble
  BY <1>1, <1>2 DEF Validate
<1>4. PICK new : /\ job' = [job EXCEPT ![s] = [pc |-> "move", expected |-> tip, commit |-> new,
                                               caller |-> "git"]]
                 /\ \/ commits' = commits /\ new \in past
                    \/ \E f \in Contents \cup {0} :
                         /\ commits' = Append(commits, [parent |-> tip, file |-> f])
                         /\ new = Len(commits')
  BY Zenon DEF Validate
<1>5. PICK j : j = [pc |-> "move", expected |-> tip, commit |-> new, caller |-> "git"]
  BY Zenon
<1>6. job' = [job EXCEPT ![s] = j] /\ j.pc = "move" /\ j.commit = new
  BY Zenon, <1>4, <1>5
<1>7. ASSUME new \in Known'
      PROVE  Working(s, j)'
  BY Zenon, <1>6, <1>7 DEF Working, Deleting, Prepared
<1>8. CASE commits' = commits /\ new \in past
  <2>1. Grows /\ new \in Known' /\ new \in Nat
    BY <1>1, <1>2, <1>8 DEF Grows, Known
  <2>2. j \in Job
    BY <1>2, <1>5, <2>1 DEF Job, JobPcs
  <2> QED
    BY ZenonT(30), <1>1, <1>2, <1>3, <1>6, <1>7, <1>8, <2>1, <2>2, CallsRest, QuietJob
<1>9. ASSUME NEW f \in Contents \cup {0}, new = Len(commits'),
             commits' = Append(commits, [parent |-> tip, file |-> f])
      PROVE  DeletionInv'
  <2>1. PICK x \in Commit : x = [parent |-> tip, file |-> f]
    <3>1. tip \in Nat
      BY <1>2
    <3> QED
      BY Zenon, <3>1 DEF Commit
  <2>2. /\ commits' \in Seq(Commit) /\ Known' = Known \cup {new} /\ new \notin Known
        /\ \A c \in Known : commits'[c] = commits[c]
        /\ commits'[new].parent = tip /\ Len(commits') = Len(commits) + 1
    BY <1>2, <1>9, <2>1, Appended
  <2>3. Grows /\ j \in Job /\ Working(s, j)'
    <3>1. j \in Job
      BY <1>2, <1>5, <1>9, <2>2 DEF Job, JobPcs
    <3> QED
      BY ZenonT(30), <1>1, <1>7, <2>2, <3>1 DEF Grows
  <2>4. job' \in [Services -> Job] /\ \A t \in Services : Working(t, job[t])'
    BY Zenon, <1>1, <1>6, <2>3, OthersWork
  <2>5. call' \in [Callers -> Call] /\ \A c \in Callers : Calling(call[c])'
    BY Zenon, <1>1, <2>3, CallsRest
  <2>6. Typed'
    <3>1. trouble' \in 0..MaxTrouble /\ past' \subseteq Known'
      BY <1>1, <1>2, <1>3, <2>2
    <3>2. receipt' \in [Ids -> Known' \cup {0}] /\ marker' \in [Ids -> Known' \cup {0}]
      BY Zenon, <1>1, <1>2, <2>2
    <3>3. published' \in [Ids -> Nat] /\ twins' \subseteq Ids
      BY Zenon, <1>1 DEF DeletionInv, Typed, GitTyped
    <3>4. GitTyped'
      BY Zenon, <1>1, <1>2, <2>2, <3>1, <3>2, <3>3 DEF GitTyped
    <3> QED
      BY ZenonT(30), <1>1, <2>4, <2>5, <3>4 DEF DeletionInv, Typed
  <2>7. Sized'
    <3>1. Manifests \subseteq Manifests' /\ Manifests' \subseteq Manifests \cup {new}
      BY Zenon, <2>2 DEF Manifests, File
    <3>2. /\ Removed' = Removed /\ Removed \subseteq Manifests'
      BY Zenon, <1>1, <3>1 DEF DeletionInv, Sized, Removed
    <3>3. /\ Cardinality(Manifests') <= Cardinality(Manifests) + 1
          /\ Cardinality(Removed) \in Nat /\ Cardinality(Manifests) \in Nat
          /\ Cardinality(Manifests') \in Nat
      <4>1. /\ IsFiniteSet(Manifests \cup {new})
            /\ Cardinality(Manifests \cup {new}) <= Cardinality(Manifests) + 1
            /\ Cardinality(Manifests) \in Nat
        <5>1. IsFiniteSet(Manifests) /\ Cardinality(Manifests) \in Nat
          BY Zenon, Bounded
        <5>2. /\ IsFiniteSet(Manifests \cup {new})
              /\ \/ Cardinality(Manifests \cup {new}) = Cardinality(Manifests)
                 \/ Cardinality(Manifests \cup {new}) = Cardinality(Manifests) + 1
          BY Zenon, <5>1, FS_AddElement
        <5> QED
          BY <5>1, <5>2
      <4> QED
        <5>1. /\ IsFiniteSet(Manifests')
              /\ Cardinality(Manifests') <= Cardinality(Manifests \cup {new})
          BY Zenon, <3>1, <4>1, FS_Subset
        <5>2. Cardinality(Manifests') \in Nat /\ Cardinality(Manifests \cup {new}) \in Nat
          BY Zenon, <4>1, <5>1, FS_CardinalityType
        <5> QED
          BY <4>1, <5>1, <5>2, Bounded
    <3>4. /\ Cardinality(Manifests) <= 1 + trouble
          /\ Len(commits) <= 1 + trouble + Cardinality(Removed)
      BY Zenon DEF DeletionInv, Sized
    <3>5. /\ Cardinality(Manifests') <= 1 + trouble'
          /\ Len(commits') <= 1 + trouble' + Cardinality(Removed)
      BY <1>1, <1>2, <2>2, <3>3, <3>4
    <3> QED
      BY Zenon, <3>2, <3>5 DEF Sized
  <2>8. Grown'
    <3>1. \A c \in Known' : commits'[c].parent \in past' \cup {0}
      BY ZenonT(30), <1>1, <1>2, <2>2 DEF DeletionInv, Grown
    <3>2. ASSUME NEW e \in Ids, NEW c, c = receipt'[e], c # 0
          PROVE  File(c)' = 0 /\ commits'[c].parent = e
      BY <1>1, <1>2, <2>2, <3>2 DEF DeletionInv, Grown, File
    <3> QED
      BY Zenon, <3>1, <3>2 DEF Grown
  <2>9. Intended' /\ Evident'
    <3>1. Intended'
      BY Zenon, <1>1, <2>2 DEF DeletionInv, Intended, Wanted, File
    <3>2. Evident'
      BY Zenon, <1>1, <1>2, <2>2 DEF DeletionInv, Evident, File
    <3> QED
      BY Zenon, <3>1, <3>2
  <2>10. \A e \in Ids \ twins : Token(e)'
    BY Zenon, <1>1, <1>6, <2>3, TokensRest
  <2> QED
    BY Zenon, <1>1, <2>4, <2>5, <2>6, <2>7, <2>8, <2>9, <2>10 DEF DeletionInv
<1> QED
  BY Zenon, <1>4, <1>8, <1>9

\* The write of a call that is given up goes on, and answers nobody.
LEMMA AbandonKeeps ==
    ASSUME DeletionInv, NEW c \in Callers, Abandon(c)
    PROVE  DeletionInv'
<1>1. /\ UNCHANGED <<load, commits, tip, receipt, marker, lock, past, published, twins>>
      /\ UNCHANGED <<row, asked, stranded>> /\ trouble' = trouble + 1 /\ Grows
      /\ call' = [call EXCEPT ![c] = NoCall]
  BY Zenon DEF Abandon, gitVars, rowVars, Return, Grows, Known
<1>2. /\ job \in [Services -> Job] /\ \A s \in Services : job[s] \in Job /\ Working(s, job[s])
      /\ trouble \in Nat /\ MaxTrouble \in Nat
  BY DeletionConstants DEF DeletionInv, Typed, GitTyped
<1>3. ASSUME NEW s \in Services
      PROVE  /\ job'[s] \in Job /\ job'[s].pc = job[s].pc
             /\ job'[s].expected = job[s].expected /\ job'[s].commit = job[s].commit
  BY Zenon, <1>2 DEF Abandon, Job
<1>4. job' \in [Services -> Job]
  BY Zenon, <1>3 DEF Abandon
<1>5. ASSUME NEW s \in Services
      PROVE  Working(s, job[s])'
  BY Zenon, <1>1, <1>2, <1>3 DEF Working, Wanted, File, Known
<1>6. \A e \in Ids \ twins : Token(e)'
  <2>1. \A e \in Ids : Held(e)' = Held(e)
    BY Zenon, <1>3 DEF Held
  <2> QED
    BY Zenon, <1>1, <2>1, TokenStays DEF DeletionInv
<1>7. call' \in [Callers -> Call] /\ \A d \in Callers : Calling(call[d])'
  <2>1. /\ call' \in [Callers -> Call] /\ call'[c] = NoCall
        /\ \A d \in Callers \ {c} : call'[d] = call[d]
        /\ \A d \in Callers : call[d] \in Call /\ Calling(call[d])
    BY Zenon, <1>1, NobodyCalls DEF DeletionInv, Typed
  <2> QED
    BY Zenon, <1>1, <2>1, NobodyCalls, CallStays, CallFits
<1>8. Typed'
  <2>1. GitTyped'
    BY <1>1, <1>2 DEF Abandon, DeletionInv, Typed, GitTyped, Known
  <2> QED
    BY Zenon, <1>1, <1>4, <1>7, <2>1 DEF DeletionInv, Typed
<1>9. Sized'
  <2>1. Manifests' = Manifests /\ Removed' = Removed
    BY Zenon, <1>1 DEF Manifests, Removed, Known, File
  <2>2. /\ Cardinality(Manifests) \in Nat /\ Cardinality(Removed) \in Nat /\ Len(commits) \in Nat
        /\ Len(commits') = Len(commits)
    BY Zenon, <1>1, Bounded, KnownCommits
  <2> QED
    BY <1>1, <1>2, <2>1, <2>2 DEF DeletionInv, Sized
<1>10. Grown' /\ Intended' /\ Evident'
  BY Zenon, <1>1 DEF DeletionInv, Grown, Intended, Evident, Wanted, Known, File
<1> QED
  BY Zenon, <1>1, <1>5, <1>6, <1>7, <1>8, <1>9, <1>10 DEF DeletionInv

LEMMA InitKeeps ==
    ASSUME Init
    PROVE  DeletionInv
<1>1. /\ Contents \subseteq Nat /\ 0 \notin Contents /\ 1 \in Contents /\ MaxTrouble \in Nat
      /\ 1 \in Ids
  BY DeletionConstants DEF Ids, MaxCommits
<1>2. /\ [parent |-> 0, file |-> 1] \in Commit /\ Known = {1} /\ Len(commits) = 1
      /\ commits \in Seq(Commit) /\ commits[1] = [parent |-> 0, file |-> 1]
  BY <1>1 DEF Init, Commit, Known
<1>3. /\ File(1) = 1 /\ Manifests = {1} /\ Removed = {}
  BY <1>1, <1>2 DEF File, Manifests, Removed, Init, None
<1>4. GitTyped
  BY <1>1, <1>2 DEF Init, GitTyped, None
<1>5. /\ job \in [Services -> Job] /\ \A s \in Services : job[s] = NoJob
      /\ \A s \in Services : Working(s, job[s])
  BY Zenon, IdleWorks DEF Init
<1>6. /\ call \in [Callers -> Call] /\ \A c \in Callers : Calling(call[c])
  BY Zenon, NobodyCalls DEF Init
<1>7. row \in Row /\ row.expected = 0 /\ row.removal = 0 /\ ~ row.deleting
  BY Zenon DEF Init, NoRow, Row
<1>8. Typed
  BY Zenon, <1>1, <1>4, <1>5, <1>6, <1>7 DEF Init, Typed
<1>9. Sized
  <2>1. Cardinality({1}) = 1 /\ Cardinality({}) = 0
    BY Zenon, FS_EmptySet, FS_Singleton
  <2> QED
    BY <1>2, <1>3, <2>1 DEF Init, Sized
<1>10. Grown /\ Intended /\ Evident
  BY <1>2, <1>7 DEF Init, Grown, Intended, Evident, None
<1>11. \A e \in Ids \ twins : Token(e)
  <2>1. \A e \in Ids : Held(e) = {}
    BY <1>5 DEF Held, NoJob
  <2> QED
    BY <2>1 DEF Init, Token, None
<1> QED
  BY Zenon, <1>5, <1>6, <1>8, <1>9, <1>10, <1>11 DEF DeletionInv

-----------------------------------------------------------------------------
LEMMA JobStepKeeps ==
    ASSUME DeletionInv, NEW s \in Services, JobStep(s)
    PROVE  DeletionInv'
  BY ZenonT(30), LookUpKeeps, CompletedKeeps, ResumeKeeps, PrepareKeeps, MarkKeeps, LockKeeps, ConsumeKeeps,
     PublishKeeps, ReceivePackKeeps DEF JobStep

LEMMA CallStepKeeps ==
    ASSUME DeletionInv, NEW c \in Callers, CallStep(c)
    PROVE  DeletionInv'
  BY Zenon, ReadsKeep, IntendKeeps, DeleteFileKeeps, AnsweredKeeps, MarkDeletionKeeps, FinishKeeps,
     MarkPushedKeeps DEF CallStep

\* The inductive invariant, for every behaviour of the two services
THEOREM DeletionInvariant == Spec => []DeletionInv
<1>1. Init => DeletionInv
  BY Zenon, InitKeeps
<1>2. DeletionInv /\ [Next]_vars => DeletionInv'
  <2> SUFFICES ASSUME DeletionInv, [Next]_vars
               PROVE  DeletionInv'
    OBVIOUS
  <2>1. CASE UNCHANGED vars
    <3>1. /\ UNCHANGED <<load, gitVars, job, trouble, row, asked, stranded, call, past, commits>>
      BY Zenon, <2>1 DEF vars, budgets, rowVars, gitVars
    <3>2. /\ GitTyped' /\ job' \in [Services -> Job] /\ Sized' /\ Grown' /\ Grows
          /\ \A e \in Ids \ twins' : Token(e)'
          /\ \A s \in Services : Working(s, job[s])'
          /\ \A e \in Ids : published'[e] > 0 => Wanted(e)'
      BY Zenon, <3>1, GitRests
    <3>3. call' \in [Callers -> Call] /\ \A c \in Callers : Calling(call[c])'
      BY Zenon, <3>1, <3>2, CallsRest
    <3>4. Intended' /\ Evident'
      BY Zenon, <3>1, <3>2 DEF DeletionInv, Intended, Evident, Wanted, Known, File
    <3>5. Typed'
      BY Zenon, <3>1, <3>2, <3>3 DEF DeletionInv, Typed
    <3> QED
      BY Zenon, <3>2, <3>3, <3>4, <3>5 DEF DeletionInv
  <2>2. CASE Next
    BY Zenon, <2>2, RequestKeeps, CompleteKeeps, AdmitUpdateKeeps, JobStepKeeps, ValidateKeeps,
       CrashKeeps, CallStepKeeps, AbandonKeeps DEF Next
  <2> QED
    BY Zenon, <2>1, <2>2
<1> QED
  BY <1>1, <1>2, PTL DEF Spec

\* The removal asked for one commit is published at most once, however often it is
\* asked for, retried or interrupted, but for the commits that two processes wrote in
\* the same second (publish_delete_ref).
THEOREM RemovedOnce == Spec => []PublishedOnce
<1>1. DeletionInv => PublishedOnce
  BY DEF DeletionInv, PublishedOnce, Token, Typed, GitTyped
<1> QED
  BY <1>1, DeletionInvariant, PTL

\* What is removed has the content it had when the deletion was asked for
\* (deleteInfrastructureManifest).
THEOREM RemovesTheRequested == Spec => []OnlyTheRequested
<1>1. DeletionInv => OnlyTheRequested
  BY Zenon DEF DeletionInv, Intended, OnlyTheRequested, Wanted
<1> QED
  BY <1>1, DeletionInvariant, PTL

\* A row that is marked for deletion has its removal recorded, or is a Namespace whose
\* pushed removal met an intent (verifyInfrastructureRemoval).
THEOREM MarkedWithEvidence == Spec => []Evident
<1>1. DeletionInv => Evident
  BY Zenon DEF DeletionInv
<1> QED
  BY <1>1, DeletionInvariant, PTL

\* The branch goes from the commit the removal was asked for to a commit on it without
\* the manifest: no push that came in between is lost (publish_delete_ref).
OntoExpected ==
    \A e \in Ids : published'[e] # published[e] =>
        /\ tip = e /\ tip' \in Known /\ commits[tip'].parent = e /\ File(tip') = 0

THEOREM NoPushOverwritten == Spec => [][OntoExpected]_vars
<1>1. DeletionInv /\ [Next]_vars => [OntoExpected]_vars
  <2> SUFFICES ASSUME DeletionInv, Next, NEW e \in Ids, published'[e] # published[e]
               PROVE  tip = e /\ tip' \in Known /\ commits[tip'].parent = e /\ File(tip') = 0
    BY Zenon DEF OntoExpected
  <2>1. PICK s \in Services : Publish(s)
    BY ZenonT(30) DEF Next, Request, Complete, AdmitUpdate, JobStep, Validate, Crash, CallStep, Abandon,
           LookUp, Completed, Resume, Prepare, Mark, Lock, Consume, ReceivePack, Resolve, Intend,
           Pending, DeleteFile, Answered, Recorded, Admit, Evidence, MarkDeletion, Verify, Finish,
           Fence, DeleteResource, Absent, MarkPushed, gitVars
  <2>2. PICK x, d : x = job[s].expected /\ d = job[s].commit
    OBVIOUS
  <2>3. tip = x /\ d \in Known /\ d = receipt[x] /\ d # 0 /\ x \in Ids /\ File(d) = 0
    BY Zenon, <2>1, <2>2, JobFacts DEF Publish, Deleting, Prepared, Working
  <2>4. e = x /\ tip' = d
    BY Zenon, <2>1, <2>2, <2>3 DEF Publish, DeletionInv, Typed, GitTyped
  <2> QED
    BY Zenon, <2>3, <2>4 DEF DeletionInv, Grown
<1> QED
  BY <1>1, DeletionInvariant, PTL DEF Spec

=============================================================================
