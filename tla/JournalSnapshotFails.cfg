CONSTANTS
    Setups <- MCSnapshotFails
SPECIFICATION Spec
INVARIANTS FailedSyncIsMadeGood
