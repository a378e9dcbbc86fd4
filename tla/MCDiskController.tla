-------------------------- MODULE MCDiskController --------------------------
\* The kinds of the controller run: one that reconciles every change, with
\* two resources, and one that filters updates, with one resource that lives
\* through every type of change.
EXTENDS DiskController

MCKinds ==
    {[filtered |-> FALSE, keys |-> {1, 2}, changes |-> 3],
     [filtered |-> TRUE, keys |-> {1}, changes |-> 3]}

=============================================================================
