SPECIFICATION Spec
CONSTANTS
    a = a
    b = b
    Clients = {a, b}
    Contexts = {k1, k2}
    Scenarios <- MCScenarios
    MaxConns = 2
    MaxManagers = 2
    Unreliable = {a}
CHECK_DEADLOCK FALSE
INVARIANTS
    SlotHasOneHolder
    InboxFits
    RunningManagerIsKnown
    SessionComputes
    OneConversationPerSession
PROPERTIES
    ServerSettles
