SPECIFICATION FairSpec
CONSTANTS
    r1 = r1
    r2 = r2
    reply = reply
    Calls = {r1, r2}
    Nobody = nobody
    Own = own
    Wild = wild
    Topics = {reply, other}
    UserTopics = {other}
    WaitOn <- MCWaitOn
    Room <- MCRoom
    MaxLen = 2
    MaxUnasked = 1
INVARIANTS AnswerIsMine WritesInside WritesToHolder
PROPERTIES AnswerReturns
