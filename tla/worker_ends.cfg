SPECIFICATION FairSpec
CONSTANTS
    j1 = j1
    j2 = j2
    Job = {j1}
    Ops = {"terminate", "fail", "drain", "stop", "close"}
    LoadThreshold = 2
    JobLoad = 1
    IdleProcesses = 1
    MaxOffers = 1
INVARIANTS SessionEndsAfterEntrypoint
PROPERTIES TerminatedEnds StoppedDrains CloseReturns
CHECK_DEADLOCK FALSE
