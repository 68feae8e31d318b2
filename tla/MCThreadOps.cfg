SPECIFICATION FairSpec
CONSTANTS
    s1 = s1
    s2 = s2
    Slots = {s1, s2}
    NoOp = NoOp
    Plans <- MCPlans
    Gil = TRUE
    MaxViews = 1
INVARIANTS
    DispatchIsSound
    OutcomeMatchesMessage
    MessageHasOneOwner
PROPERTIES
    BlockingCallSettles
    CompletionDelivered
    InterruptedCallReturns
CHECK_DEADLOCK FALSE
