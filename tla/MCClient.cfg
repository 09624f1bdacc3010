SPECIFICATION FairSpec
CONSTANTS
    Byte <- MCByte
    WireSize = 2
    BodyLen <- MCBodyLen
    StatusOk <- MCStatusOk
    Chunk = 5
    MaxAcc = 9
    LoginResult <- MCLoginResult
    Reply <- MCReply
    Modes = {"echo", "single", "refused", "login", "receiver", "stalled", "sender"}
    Count = 4
    ReqLen = 2
    UpCap = 3
    MaxForwards = 1
    Quiet = TRUE
    InOnePiece = TRUE
INVARIANTS InStep LimitNeverStrikes  
PROPERTIES ClientEnds
CHECK_DEADLOCK FALSE
