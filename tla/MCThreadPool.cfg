SPECIFICATION Spec
CONSTANTS
    s = s
    m = m
    Users = {s, m}
    Mappers = {m}
    Workers = {w1, w2}
    Tasks <- MCTasks
    Buffersizes <- MCBuffersizes
    SendBuf = 1
CHECK_DEADLOCK FALSE
INVARIANTS
    FutureHasOnePath
    JoinedPoolIsQuiet
PROPERTIES
    SubmittedIsSettled
    ShutdownReturns
