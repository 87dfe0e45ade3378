SPECIFICATION Spec
CONSTANTS
    s1 = s1
    Slot = {s1}
    None = None
    Speeches = 1
    Ops = {"commit"}
CHECK_DEADLOCK FALSE
PROPERTIES CommitReleasesOutput
