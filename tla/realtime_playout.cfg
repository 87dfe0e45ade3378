SPECIFICATION FairSpec
CONSTANTS
    a = a
    b = b
    Reply = {a}
    Kinds <- Realtime
    Frames = 1
    Ops = {}
PROPERTIES RealtimeReplyEnds
CHECK_DEADLOCK FALSE
