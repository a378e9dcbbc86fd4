---------------------------- MODULE MCLifecycle ----------------------------
(* Model values for LifecycleFences: all user repositories want one name.  *)
EXTENDS LifecycleFences, TLC

OneName == [r \in Repos |-> IF r = System THEN "gitstore-system" ELSE "shop"]

ProcSymmetry == Permutations(Procs)

\* Two states the workload starts from: a namespace that has been updated once,
\* and one that is being retired.  Of the second, the creations of the user
\* repositories were refused and the system repository is marked for deletion.
\* In both the catalog fence has been taken and given back once.
Start(retiring) ==
    /\ ns = [here |-> TRUE, rv |-> IF retiring THEN 1 ELSE 2, deleting |-> FALSE, intent |-> FALSE,
             epoch |-> 0, pending |-> 0]
    /\ fence = [epoch |-> 1, pending |-> 0]
    /\ nsIndex = {"list", "name"}
    /\ repo = [r \in Repos |->
                 CASE r # System -> NoRepo
                   [] retiring -> [NewRepo EXCEPT !.rv = 2, !.deleting = TRUE]
                   [] OTHER -> NewRepo]
    /\ path = [n \in Names |-> IF n = NameOf[System] THEN System ELSE None]
    /\ reverse = {System} /\ listed = {System} /\ ready = {System} /\ tomb = {}
    /\ item = [i \in Items |-> None]
    /\ index = {}
    /\ proc = [p \in Procs |-> Idle]
    /\ used = IF retiring THEN Repos ELSE {System}
    /\ created = {System} /\ unsettled = {}
    /\ faults = 0

MCSpec == (\E retiring \in BOOLEAN : Start(retiring)) /\ [][Next]_vars
=============================================================================
