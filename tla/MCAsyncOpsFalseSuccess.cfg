SPECIFICATION Spec
CONSTANTS
    Slots = {s1}
    NoOp = NoOp
    Kinds = {"send"}
    Closers = {"thread"}
    Reuse = FALSE
    SockBuf = 1
INVARIANT OutcomesAreReal
