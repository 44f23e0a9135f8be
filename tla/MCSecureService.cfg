SPECIFICATION Spec
CONSTANTS
    MaxMsg = 2
    FrameSize = 1
    Modes = {"demo", "rpc"}
    Frames = 2
    ReqLens <- MCReqLens
    RespLen = 1
INVARIANTS ReceivedIsPrefix FramesLostOnlyEarly
PROPERTIES CallReturns StopReturns
CHECK_DEADLOCK FALSE
