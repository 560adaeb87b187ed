SPECIFICATION Spec
CONSTANTS
    WordBits = 2
    Run = 2
    NoKey = NoKey
    NoPattern = NoPattern
    Conn = {"c1", "c2", "c3"}
    Token = {"all", "part"}
    Holder <- MCHolder
    Setups <- MCSetups
INVARIANTS SubscriptionsHold ListsWhatStays
PROPERTIES DroppedLearns
CHECK_DEADLOCK FALSE
