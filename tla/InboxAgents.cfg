CONSTANTS
    Agent = {a, b, c}
    Admins = {}
    Roomers = {a, b, c}
    Consumer = {x}
    Session = {s}
    Key = {k}
    None = None
    MaxInbox = 1
    MaxAgents = 2
    MaxDeliveries = 1
    HistoryLimit = 1
    LeaseMs = 1
    MsgTtlMs = 2
    SessionTtlMs = 1
    SweepBatch = 2
    SessionsPerAgent = 1
    MaxTime = 1
    MaxSends = 2
    Renaming = TRUE
    Failing = TRUE
SYMMETRY Symmetry
SPECIFICATION Spec
INVARIANTS AgentsHold
PROPERTIES KeepsPending ActiveAgentsStay
