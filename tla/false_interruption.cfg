SPECIFICATION Spec
CONSTANTS
    s1 = s1
    Slot = {s1}
    None = None
    Speeches = 2
    Ops = {"transcript", "inference", "sttEnd", "clear", "hold", "await", "commit", "fail", "interrupt", "options"}
CHECK_DEADLOCK FALSE
INVARIANTS TypeOK
PROPERTIES NoResumeOverUser PausesAttended OrphansKnown
