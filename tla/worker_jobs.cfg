SPECIFICATION Spec
CONSTANTS
    j1 = j1
    j2 = j2
    Job = {j1}
    Ops = {"terminate", "fail", "drain", "stop", "close", "timeout", "deadline"}
    LoadThreshold = 0
    JobLoad = 1
    IdleProcesses = 1
    MaxOffers = 2
INVARIANTS TypeOK PromiseKept ReportsOnce WaitsAnswered
PROPERTIES DrainLeavesNothing KeepsLedger
CHECK_DEADLOCK FALSE
