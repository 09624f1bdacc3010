SPECIFICATION Spec
CONSTANTS
    a = a
    b = b
    Uid = {a, b}
    f1 = f1
    f2 = f2
    Fd = {f1}
    ListenFd = listen
    NoUser = nobody
    MaxEvents = 2
    ReadCap = 2
    HighWater = 1
    TxCap = 1
    PeerFrames <- LongFrames
    MaxConnects = 1
    MaxFrames = 2
INVARIANTS LoginAnswered
CHECK_DEADLOCK FALSE
