SPECIFICATION CatalogSpec
CONSTANTS
    Backups = {b1}
    Protection = p
    Lists = {l1, l2}
    None = None
    Prunable = {"backup"}
    Requests = {"retention", "purge", "restore"}
    FaultKinds = {}
    MaxFaults = 0
    MaxBrowses = 1
SYMMETRY Listing
INVARIANTS BackedUpSnapshotsSurvive
CHECK_DEADLOCK FALSE
