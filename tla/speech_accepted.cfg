SPECIFICATION FairSpec
CONSTANTS
    a = a
    b = b
    c = c
    Speech = {a, b}
    Uninterruptible = {}
    Priorities = {0}
    None = None
    Drainer = Drainer
    Ops = {"interrupt", "stop"}
    MaxSteps = 2
    MaxSignals = 1
PROPERTIES AcceptedEnds StopEndsReplies
CHECK_DEADLOCK FALSE
