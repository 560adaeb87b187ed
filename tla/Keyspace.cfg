SPECIFICATION Spec
CONSTANTS
    Keys = {"a", "b", "c"}
    MaxKeys = 2
    MaxElements = 2
    MaxInt = 1
    Width = 2
    MaxMs = 3
    Menu <- MCMenu
    MaxNow = 2
    MaxScore = 2
    Back <- MCBack
    Overgrown = {"deadlines"}
INVARIANTS
    StateHolds
    TablesHold
PROPERTIES
    KeysWithinLimit
    IdsIncrease
