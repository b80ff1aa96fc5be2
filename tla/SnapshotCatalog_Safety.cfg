SPECIFICATION MCSpec
CONSTANTS
    Backups = {b1}
    Protection = p
    Lists = {l1, l2}
    None = None
    Prunable = {"list"}
    Requests = {"retention", "purge", "restore"}
    FaultKinds = {"failure", "timeout", "cancel", "lost"}
    MaxFaults = 2
    MaxBrowses = 2
SYMMETRY Listing
INVARIANTS BackedUpSnapshotsSurvive SucceededDeletionIsGone
 
CHECK_DEADLOCK FALSE
