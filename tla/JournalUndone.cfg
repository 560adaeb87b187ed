CONSTANTS
    Setups <- MCUndone
SPECIFICATION Spec
INVARIANTS PowerLossKeepsSecured
