CONSTANTS
    Loops = {a, b}
    Others = {c}
    Ticker = tick
    Policies = {TRUE, FALSE}
    MaxRequests = 2
    MaxSyncs = 1
    MaxFailures = 1
    NoThread = NoThread
SPECIFICATION TailSpec
INVARIANTS JournalHolds ReplyAfterWrite
PROPERTY EventuallyWritten
