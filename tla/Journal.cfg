CONSTANTS
    Setups <- MCSetups
SPECIFICATION Spec
INVARIANTS PowerLossRestoresHistory RestartFindsAll PowerLossKeepsSecuredButForTick FailedSyncIsMadeGoodIfWritten
