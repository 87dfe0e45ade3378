SPECIFICATION FairSpec
CONSTANTS
    a = a
    b = b
    c = c
    Speech = {a, b}
    Uninterruptible = {}
    Priorities = {0}
    None = None
    Drainer = Drainer
    Ops = {"drain", "user"}
    MaxSteps = 2
    MaxSignals = 1
INVARIANTS DrainLeavesNoneQueued
ACTION_CONSTRAINT EnvironmentOfDrain
PROPERTIES DrainReturns
CHECK_DEADLOCK FALSE
