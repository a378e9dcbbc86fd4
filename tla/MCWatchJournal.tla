--------------------------- MODULE MCWatchJournal ---------------------------
(* WatchJournal for TLC: the replicas are interchangeable. *)
EXTENDS WatchJournal, TLC

Symmetry == Permutations(Replicas)

=============================================================================
