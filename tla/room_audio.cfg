SPECIFICATION FairSpec
CONSTANTS
    a = a
    b = b
    Reply = {a, b}
    Kinds <- Agents
    Frames = 1
    Ops = {"pause", "interrupt", "close", "disconnect", "fail", "stop"}
INVARIANTS TypeOK WaitsAnswered NoSegmentLeftOpen EncoderOutlivesPublications
PROPERTIES RepliesEnd ShutdownReturns
CHECK_DEADLOCK FALSE
