SPECIFICATION FairSpec
CONSTANTS
    Ops = {o1, o2, o3}
    SockBuf = 2
INVARIANTS
    NoLostWakeup
    OneWakeup
PROPERTIES
    ImplementsMailbox
