SPECIFICATION Spec
CONSTANTS
    a = a
    b = b
    Clients = {a, b}
    Contexts = {k1, k2}
    MaxConns = 1
    MaxManagers = 2
    Keys = {"goodKey", "otherKey"}
    Authorized = {"goodKey"}
    ServerKey = "serverKey"
    Topics <- MCTopics
    MaxEvents = 2
CHECK_DEADLOCK FALSE
INVARIANTS
    ConversationIsAuthenticated
    StopsOnlyForTimeoutOrLateRequest
    StreamsToSubscriber
    EventsOfOwnTopic
PROPERTIES
    SubscriptionsSettle
