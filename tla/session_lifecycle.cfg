SPECIFICATION FairSpec
CONSTANTS
    c1 = c1
    c2 = c2
    c3 = c3
    Caller = {c1, c2, c3}
    Activities = 3
    None = None
    Ops <- Roles
INVARIANTS TypeOK NoStrayActivity WaitsAnswered
PROPERTIES HandsOverAgents CloseAfterCleanup  CallsReturn ReplacedExits WaitersReleased
CHECK_DEADLOCK FALSE
