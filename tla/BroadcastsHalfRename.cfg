SPECIFICATION Spec
CONSTANTS
    Agent = {"a", "b"}
    Client = {"ops", "a1"}
    Admin = "everyone"
    Filter <- MCFilter
    Setups <- MCHalves
    Key = {"k"}
    NoKey = "none"
PROPERTY PastStaysPrivate
CHECK_DEADLOCK FALSE
