SPECIFICATION FairSpec
CONSTANTS
    Slots = {s1, s2}
    NoOp = NoOp
    Kinds = {"send"}
    Closers = {"loop", "thread"}
    Reuse = FALSE
    SockBuf = 2
PROPERTIES
    EndedCallReturns
    CloseEndsCalls
    CloseRemovesReadersOnLoop
