CONSTANTS
    Agent = {a, b, c}
    Admins = {}
    Roomers = {}
    Consumer = {x}
    Session = {}
    Key = {k}
    None = None
    MaxInbox = 4
    MaxAgents = 3
    MaxDeliveries = 1
    HistoryLimit = 1
    LeaseMs = 1
    MsgTtlMs = 1
    SessionTtlMs = 1
    SweepBatch = 2
    SessionsPerAgent = 1
    MaxTime = 2
    MaxSends = 3
    Renaming = TRUE
    Failing = FALSE
SYMMETRY Symmetry
SPECIFICATION Spec
INVARIANTS KeysFindMessages

