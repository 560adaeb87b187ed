CONSTANTS
    Agent = {a, b}
    Admins = {}
    Roomers = {}
    Consumer = {x}
    Session = {}
    Key = {k}
    None = None
    MaxInbox = 2
    MaxAgents = 2
    MaxDeliveries = 2
    HistoryLimit = 1
    LeaseMs = 1
    MsgTtlMs = 2
    SessionTtlMs = 1
    SweepBatch = 1
    SessionsPerAgent = 1
    MaxTime = 2
    MaxSends = 2
    Renaming = FALSE
    Failing = FALSE
SPECIFICATION LiveSpec
INVARIANTS IndexesMatch InboxHolds
PROPERTIES NeitherLostNorDoubled SweepCatchesUp
