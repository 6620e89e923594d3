SPECIFICATION FairSpec
CONSTANTS
    FrameSize = 3
    Padding = 1
    Sizes = {0, 1, 2, 3, 4, 5, 6, 7, 8, 9, 10, 11}
INVARIANTS ReceivedIsWhole BothSucceed AcknowledgedIsWritten
PROPERTY BothReturn
