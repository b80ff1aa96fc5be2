-------------------------- MODULE MCSnapshotCatalog --------------------------
(* Instances of SnapshotCatalog. Names of list runs are interchangeable.     *)
EXTENDS SnapshotCatalog, TLC

Listing == Permutations(Lists)

\* A second fault is the one that only a failed deletion makes possible: the
\* tick gives up waiting for the list that is to confirm it. Then there is one
\* list request by a user at most, and no restore on another agent.
WithinBounds ==
    faults' = 2 => browses' <= 1 /\ ~restore'.away /\ (faults = 1 => ReconcileTimesOut)

MCSpec == Init /\ [][CatalogNext /\ WithinBounds]_vars
=============================================================================
