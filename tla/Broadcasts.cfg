SPECIFICATION Spec
CONSTANTS
    Agent = {"a", "b"}
    Client = {"ops", "a1"}
    Admin = "everyone"
    Filter <- MCFilter
    Setups <- MCSetups
    Key = {"k"}
    NoKey = "none"
INVARIANTS CursorsCountRight
PROPERTIES NoSilentGap CatchesUp FloodPushesOutItself PastStaysPrivate
CHECK_DEADLOCK FALSE
