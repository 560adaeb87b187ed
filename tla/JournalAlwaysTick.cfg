CONSTANTS
    Setups <- MCAlwaysTick
SPECIFICATION Spec
INVARIANTS PowerLossKeepsSecured
