SPECIFICATION BackupSpec
CONSTANTS
    ArgSets = {{}}
    MaxAttempts = 2
INVARIANTS ReusedSnapshotIsComplete
CHECK_DEADLOCK FALSE
