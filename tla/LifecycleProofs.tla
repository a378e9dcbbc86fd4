--------------------------- MODULE LifecycleProofs ---------------------------
(*****************************************************************************)
(* Theorems about LifecycleFences, for any number of processes,              *)
(* repositories and resources and any number of faults: the catalog fence    *)
(* excludes, every resource is in the index of its repository, no resource   *)
(* is in a repository or a namespace that is gone or marked for deletion,    *)
(* creations are counted, a namespace is not marked over a repository, and   *)
(* a repository that is not deleted stays reachable.                         *)
(*****************************************************************************)
EXTENDS LifecycleInvariant, LifecycleReservations

\* LifecycleInv is an invariant of every run of the calls, whatever statements
\* fail and whoever dies.
THEOREM LifecycleHolds == Spec => []LifecycleInv
BY InitialInv, NextKeeps, PTL DEF Spec

\* The lock of reserveNamespaceCatalog and releaseNamespaceCatalog excludes, for
\* any number of processes and faults.
THEOREM Exclusion == Spec => []FenceExclusive
<1>1. LifecycleInv => FenceExclusive
  BY Zenon DEF LifecycleInv
<1> QED  BY <1>1, LifecycleHolds, PTL

\* catalogMutation never leaves "an invisible admitted child": every resource is
\* in the index of its repository.
THEOREM NoInvisibleChild == Spec => []IndexCovers
<1>1. LifecycleInv => IndexCovers
  BY Zenon DEF LifecycleInv
<1> QED  BY <1>1, LifecycleHolds, PTL

\* No catalog resource is in a repository or in a namespace that is gone or
\* marked for deletion.
THEOREM NoOrphans == Spec => []NoOrphanItem
<1>1. LifecycleInv => NoOrphanItem
  BY Zenon DEF LifecycleInv
<1> QED  BY <1>1, LifecycleHolds, PTL

\* ReservationInv is an invariant as well: what the creations, the deletions and
\* the marks know of each other's repositories stays true, whatever statements
\* fail and whoever dies.
THEOREM ReservationsHold == Spec => []ReservationInv
<1>1. LifecycleInv /\ ReservationInv /\ [Next]_vars => (LifecycleInv /\ ReservationInv)'
  BY NextKeeps, NextSettles
<1> QED  BY <1>1, InitialInv, InitialReservations, PTL DEF Spec

\* The counter of reserveNamespaceRepository covers every creation in flight:
\* while there is one the namespace is there and unmarked; without a failure the
\* counter is exact.
THEOREM AllCounted == Spec => []PendingCovers
<1>1. ReservationInv => PendingCovers
  BY DEF ReservationInv, Counted
<1> QED  BY <1>1, ReservationsHold, PTL

\* A namespace is marked, or gone, only when the listings and the reservations
\* show that no repository is left in it; the exception is an insert whose
\* answer was lost.
THEOREM NoOrphanRepositories == Spec => []NoOrphanRepository
<1>1. ReservationInv => NoOrphanRepository
  BY DEF ReservationInv, NoOrphanRepository, OnlySystem, SystemEnds
<1> QED  BY <1>1, ReservationsHold, PTL

\* A created repository that nobody has marked for deletion is found by its name,
\* by its uid and in the listings, and its membership index is complete, also
\* after deletions that were undone and creations of the same name that failed.
THEOREM StaysReachable == Spec => []Reachable
<1>1. ReservationInv => Reachable
  BY DEF ReservationInv
<1> QED  BY <1>1, ReservationsHold, PTL

=============================================================================
