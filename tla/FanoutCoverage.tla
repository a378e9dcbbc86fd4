--------------------------- MODULE FanoutCoverage ---------------------------
(***************************************************************************)
(* What a fanout task promises to whoever requested it: every resource     *)
(* that was in the range when the fanout was requested is enqueued after   *)
(* the request, although the range is scanned a page at a time between     *)
(* watch writes, listings, acknowledgements and crashes, and the caller    *)
(* may request the same fanout again while it is scanned.                  *)
(*                                                                         *)
(* owed[t] is a history variable: the resources fanout t still has to      *)
(* enqueue.  A resource leaves it when it is enqueued (by anyone), when it *)
(* leaves the range, and, for the resync sweep, when the sweep finds that  *)
(* it already has work.                                                    *)
(***************************************************************************)
EXTENDS DiskStore

VARIABLE owed

historyVars == <<vars, owed>>

InRange(t, R) == IF t = Star THEN DataKeys(R) ELSE R.i[t]

InitOwed == Init /\ owed = [t \in Tasks |-> {}]

\* k got a new work token in this step
Enqueued(k) == rows'[active'].w[k] > sequence

Swept(t, k) == t = Star /\ fanout'[t].after = k /\ rows[active].w[k] # 0

Discharge ==
    owed' = [t \in Tasks |->
               {k \in owed[t] : /\ k \in InRange(t, rows'[active'])
                                /\ ~ Enqueued(k)
                                /\ ~ Swept(t, k)}]

NextOwed ==
    \/ \E t \in Requests :
         /\ RequestFanout(t)
         /\ owed' = [owed EXCEPT ![t] = InRange(t, rows[active])]
    \/ (SnapshotCalls \/ WatchCalls \/ OtherWorkCalls \/ Tick) /\ Discharge

SpecOwed == InitOwed /\ [][NextOwed]_historyVars

\* A fanout task is deleted only when it owes nothing: ProcessFanout has
\* enqueued every resource that was in the range at the latest request, over
\* page boundaries, restarts of the scan and new generations.  While the scan
\* runs, what it still owes lies ahead of it, unless a new generation restarts
\* it: the durable position never skips a resource.
FanoutCovers ==
    \A t \in Tasks :
      /\ fanout[t] = NoTask => owed[t] = {}
      /\ fanout[t] # NoTask /\ fanout[t].gen = active
           => \A k \in owed[t] : k > fanout[t].after

=============================================================================
