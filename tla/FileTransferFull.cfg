SPECIFICATION Spec
CONSTANTS
    FrameSize = 3
    Padding = 0
    Sizes = {0, 1, 2, 3, 4, 5, 6, 7, 8}
INVARIANT SentIsWhole
