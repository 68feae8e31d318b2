SPECIFICATION Spec
CONSTANTS
    Slots = {s1, s2}
    NoOp = NoOp
    Kinds = {"send", "recv"}
    Closers = {"loop", "thread", "freethread"}
    Reuse = TRUE
    SockBuf = 2
INVARIANTS
    AwaitHasResolverWithGil
    OneResolver
    QueuedIdIsCurrent
    OutcomesAreRealOnLoop
