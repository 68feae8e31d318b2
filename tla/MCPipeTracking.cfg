SPECIFICATION Spec
CONSTANTS
    Pipes = {p1, p2}
    Threads = {disp, user}
    Dispatcher = disp
    NoThread = NoThread
SYMMETRY PipeSymmetry
INVARIANTS
    UpToDateWhenQuiet
    RemovalReportedUnlessMissed
CHECK_DEADLOCK FALSE
