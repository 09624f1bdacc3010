SPECIFICATION Spec
CONSTANTS
    Byte <- MCByte
    Data <- MCData
    MaxLen = 3
    HighWater = 4
    CompactThreshold = 1
INVARIANTS TypeOK BufferBounded StatusTellsBacklog
PROPERTIES ImplementsByteStream
CHECK_DEADLOCK FALSE
