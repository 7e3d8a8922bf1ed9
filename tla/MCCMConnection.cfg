SPECIFICATION FairSpec
CONSTANTS
    Worker = {w1, w2}
    MaxConn = 2
    MaxAttempt = 1
    MaxSeq = 3
    Tolerance = 1
    Encrypted = TRUE
    NoPacket = NoPacket
INVARIANTS TypeOK AtMostOnce AcknowledgesOnlySent
PROPERTIES ImplementsFilter EncryptRequestIsSent
CHECK_DEADLOCK FALSE
