CONSTANTS
    Setups <- MCDirFails
SPECIFICATION Spec
INVARIANTS PowerLossKeepsSecured
