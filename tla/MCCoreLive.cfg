SPECIFICATION FairSpec
CONSTANTS
    a = a
    b = b
    Uid = {a, b}
    f1 = f1
    f2 = f2
    Fd = {f1, f2}
    ListenFd = listen
    NoUser = nobody
    MaxEvents = 3
    ReadCap = 2
    HighWater = 1
    TxCap = 1
    PeerFrames <- OneUserFrames
    MaxConnects = 2
    MaxFrames = 3
PROPERTIES OutputDrains DeadConnectionsGo InputConsumed
CHECK_DEADLOCK FALSE
