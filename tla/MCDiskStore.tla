----------------------------- MODULE MCDiskStore -----------------------------
(***************************************************************************)
(* The store under two loads.  "work": two resources of one relation, with *)
(* fanouts, acknowledgements and schedules.  "related": one resource that  *)
(* moves between two relations, with the delivery of related work.         *)
(***************************************************************************)
EXTENDS FanoutCoverage, RelatedDelivery

CONSTANT MaxWorkSequence   \* the last token of the first load

VARIABLE load

allVars == <<historyVars, rVars, load>>

AllInit == InitOwed /\ InitRelated /\ load \in {"work", "related"}

\* What the loads write.
WorkInputs ==
    /\ sequence' <= MaxWorkSequence
    /\ \A g \in Generations, k \in Keys : rows'[g].d[k] \in {NoItem, [ver |-> 1, own |-> 1]}

RelatedInputs ==
    \A g \in Generations : rows'[g].d[2] = NoItem /\ rows'[g].w[2] = 0

AllNext ==
    /\ UNCHANGED load
    /\ \/ load = "work" /\ NextOwed /\ WorkInputs /\ UNCHANGED <<mpc, work, told>>
       \/ load = "related" /\ NextRelated /\ RelatedInputs /\ UNCHANGED owed

AllSpec == AllInit /\ [][AllNext]_allVars

\* Where related work is delivered, RelatedNotified: a relation whose pending row
\* is acknowledged (AcknowledgeRelated in maintainDiskPage) was told of exactly
\* the members it has.
RelatedDelivered == load = "related" => RelatedNotified

=============================================================================
