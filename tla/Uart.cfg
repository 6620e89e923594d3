SPECIFICATION FairSpec
CONSTANTS
    Requests = {r1, r2, r3}
    Hasty = {r1, r2}
    HastyFrames = {2}
    HastySent = 2
    Nobody = nobody
    RcvSize = 3
    RecvLen = 3
    Frames = {2, 3, 4}
    MaxUnasked = 1
INVARIANTS AnswerIsMine NoStaleWakeup WritesInside
PROPERTIES AnswerReturns CallsReturn KeepsListening
