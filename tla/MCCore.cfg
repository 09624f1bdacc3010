SPECIFICATION Spec
CONSTANTS
    a = a
    b = b
    Uid = {a, b}
    f1 = f1
    f2 = f2
    Fd = {f1, f2}
    ListenFd = listen
    NoUser = nobody
    MaxEvents = 2
    ReadCap = 2
    HighWater = 1
    TxCap = 1
    PeerFrames <- RoutingFrames
    MaxConnects = 3
    MaxFrames = 3
SYMMETRY Symmetry
INVARIANTS
    TypeOK BindingsAreCurrent NoMisdelivery ClosedOnce EveryAskerAnswered
    LoginResultFirst HandledIsAlive NothingStalls
PROPERTIES OnlyTheFaultyClosed ImplementsService
CHECK_DEADLOCK FALSE
