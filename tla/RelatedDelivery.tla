-------------------------- MODULE RelatedDelivery --------------------------
(***************************************************************************)
(* The delivery of related work: maintainDiskPage                          *)
(* (internal/manager/manager.go) reads a page of the store's related rows, *)
(* and for each row first enqueues the related key with RelatedEnqueue,    *)
(* into another kind's store, and then acknowledges the row's token.       *)
(*                                                                         *)
(* The related key is reconciled some time after it was enqueued and reads *)
(* the members of its relation then; told is what it sees at the least.    *)
(***************************************************************************)
EXTENDS DiskStore

VARIABLES
    mpc,    \* where maintainDiskPage is
    work,   \* what is left of its page of RelatedPending
    told    \* per owner: the members when it was last enqueued

rVars == <<vars, mpc, work, told>>

InitRelated ==
    /\ Init
    /\ mpc = "read" /\ work = {}
    /\ told = [o \in Owners |-> {}]

\* RelatedPending; readLock refuses while a long operation runs.
ReadRelated ==
    /\ mpc = "read" /\ mpc' = "enqueue"
    /\ Free /\ active # 0
    /\ work' = {[own |-> o, token |-> Old.r[o]] : o \in RelatedKeys(Old)}
    /\ UNCHANGED <<vars, told>>

First(x) == x \in work /\ \A y \in work : x.own <= y.own

\* RelatedEnqueue of the first row; its failure leaves the row as it is.
EnqueueRelated ==
    /\ mpc = "enqueue" /\ mpc' = "ack"
    /\ \E x \in work :
         /\ First(x)
         /\ told' = [told EXCEPT ![x.own] = Old.i[x.own]]
    /\ UNCHANGED <<vars, work>>

\* AcknowledgeRelated of the same row
AckRelated ==
    /\ mpc = "ack" /\ mpc' = "enqueue"
    /\ \E x \in work :
         /\ First(x)
         /\ \/ AcknowledgeRelated(x.own, x.token)
            \/ Free /\ Old.r[x.own] # x.token /\ UNCHANGED vars
         /\ work' = work \ {x}
    /\ UNCHANGED told

\* The page is done, a call fails, or the process crashes.
LeavePage ==
    /\ mpc # "read" /\ mpc' = "read"
    /\ work' = {}
    /\ UNCHANGED <<vars, told>>

NextRelated ==
    \/ (SnapshotCalls \/ WatchCalls) /\ UNCHANGED <<mpc, work, told>>
    \/ ReadRelated \/ EnqueueRelated \/ AckRelated \/ LeavePage

SpecRelated == InitRelated /\ [][NextRelated]_rVars

\* A relation without a pending row was told of exactly the members it has: a
\* resource that enters or leaves it between the page read, the enqueue and the
\* acknowledgement (AcknowledgeRelated compares the token of the page), or while
\* a listing replaces the generation, is never dropped.
RelatedNotified ==
    \A o \in Owners : Old.r[o] = 0 => told[o] = Old.i[o]

=============================================================================
