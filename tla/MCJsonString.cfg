SPECIFICATION Spec
CONSTANTS
    BufferSize = 20
    TextByte <- EdgeBytes
    Unit <- EdgeUnits
INVARIANTS DumpNeverThrows NeverLonger ReadBackSame BufferFits
CHECK_DEADLOCK FALSE
