SPECIFICATION Spec
CONSTANTS
    a = a
    b = b
    c = c
    Speech = {a, b, c}
    Uninterruptible = {}
    Priorities = {0}
    None = None
    Drainer = Drainer
    Ops = {"interrupt"}
    MaxSteps = 2
    MaxSignals = 1
INVARIANTS TypeOK FirstStepHoldsTurn GenerationsClose NoLostWakeUp NoCircularWait
SYMMETRY Symmetry
CHECK_DEADLOCK FALSE
