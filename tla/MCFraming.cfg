SPECIFICATION FairSpec
CONSTANTS
    Byte <- MCByte
    WireSize = 2
    MaxBody = 3
    SoftCap = 5
    Chunk = 3
    Known <- MCKnown
    BodyLen <- MCBodyLen
    Parses <- MCParses
    Item <- MCItem
    MaxItems = 3
INVARIANTS ReadBufferBounded
PROPERTIES ImplementsFrameQueue FramesServed
CHECK_DEADLOCK FALSE
