SPECIFICATION FairSpec
CONSTANTS
    Pipes = {p1, p2}
    Threads = {disp}
    Dispatcher = disp
    NoThread = NoThread
PROPERTIES
    EventsCarriedOver
    DisconnectCloses
CHECK_DEADLOCK FALSE
