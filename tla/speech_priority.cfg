SPECIFICATION FairSpec
CONSTANTS
    a = a
    b = b
    c = c
    Speech = {a, b}
    Uninterruptible = {b}
    Priorities = {0, 1}
    None = None
    Drainer = Drainer
    Ops = {"interrupt", "pause", "force", "timeoutQueued", "timeoutActive"}
    MaxSteps = 1
    MaxSignals = 1
PROPERTIES TakesTurns InterruptedEnds
CHECK_DEADLOCK FALSE
