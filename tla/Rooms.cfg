CONSTANTS
    Agent = {a, b, c}
    Operators = {}
    Name = {r, s}
    Key = {k}
    Entry = {e}
    Value = {v, w}
    Readers = {a}
    Uses = {{"questions", "agents"}, {"questions", "private", "failing"}, {"keys", "agents"}, {"board", "private"}, {"reading", "agents"}}
    Present = {a, b, c}
    MaxChurn = 1
    Creators = {a}
    None = None
    MaxAgents = 3
    MaxRooms = 1
    RoomHistory = 1
    MsgTtlMs = 1
    MaxOpenQuestions = 2
    MaxMembers = 3
    MaxBoardKeys = 1
    MaxPosts = 4
    MaxPostsFailing = 3
    MaxTime = 1
SPECIFICATION Spec
INVARIANTS RoomsHold StaleWritesFailButAfterRemoval
PROPERTIES OpenQuestionsStay SettledOnce
SYMMETRY Symmetry
