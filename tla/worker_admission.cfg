SPECIFICATION Spec
CONSTANTS
    j1 = j1
    j2 = j2
    Job = {j1, j2}
    Ops = {}
    LoadThreshold = 1
    JobLoad = 0
    IdleProcesses = 1
    MaxOffers = 1
PROPERTIES AdmissionHeedsReservations
CHECK_DEADLOCK FALSE
