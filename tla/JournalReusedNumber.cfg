CONSTANTS
    Setups <- MCReusedNumber
SPECIFICATION Spec
INVARIANTS CrashLosesNothing
