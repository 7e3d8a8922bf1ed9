SPECIFICATION FairSpec
CONSTANTS
    Thread = {t1, t2}
    MaxClient = 2
    MaxCall = 3
    MaxChunk = 2
    ReplyList <- MCReplyList
    Shaking = {2}
    NoThread = NoThread
INVARIANTS TypeOK NumbersAreUnique  ListsDoNotInterleave SplitIsContiguous
PROPERTY EveryCallEnds
CHECK_DEADLOCK FALSE
