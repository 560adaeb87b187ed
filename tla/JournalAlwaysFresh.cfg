CONSTANTS
    Setups <- MCAlwaysFresh
SPECIFICATION Spec
INVARIANTS PowerLossKeepsSecured
