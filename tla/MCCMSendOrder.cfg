SPECIFICATION Spec
CONSTANTS
    Thread = {t1, t2}
    MaxClient = 1
    MaxCall = 2
    MaxChunk = 2
    ReplyList <- MCReplyList
    Shaking = {}
    NoThread = NoThread
INVARIANT WireInOrder
CHECK_DEADLOCK FALSE
