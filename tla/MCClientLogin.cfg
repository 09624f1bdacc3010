SPECIFICATION Spec
CONSTANTS
    Byte <- MCByte
    WireSize = 2
    BodyLen <- MCBodyLen
    StatusOk <- MCStatusOk
    Chunk = 5
    MaxAcc = 9
    LoginResult <- MCLoginResult
    Reply <- MCReply
    Modes = {"receiver"}
    Count = 4
    ReqLen = 2
    UpCap = 3
    MaxForwards = 1
    Quiet = FALSE
    InOnePiece = TRUE
INVARIANTS InStep
CHECK_DEADLOCK FALSE
