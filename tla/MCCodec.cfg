SPECIFICATION Spec
CONSTANTS
    MaxBody = 15
    Skeleton = 4
    Number <- Numbers
    Undefined <- Bytes
    Content <- Contents
    Padding <- Paddings
    MaxFrames = 2
INVARIANTS StreamInSync DroppedOnlyNearLimit FailureLeavesNoTrace
CHECK_DEADLOCK FALSE
