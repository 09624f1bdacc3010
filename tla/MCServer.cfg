SPECIFICATION FairServerSpec
CONSTANTS
    a = a
    Uid = {a}
    f = f
    Fd = {f}
    ListenFd = listen
    NoUser = nobody
    MaxEvents = 2
    ReadCap = 2
    HighWater = 1
    TxCap = 1
    PeerFrames <- Frames
    MaxConnects = 2
    MaxFrames = 3
INVARIANTS IntactWhileRunning
PROPERTIES ServesUntilUnwinding BacklogServed
CHECK_DEADLOCK FALSE
