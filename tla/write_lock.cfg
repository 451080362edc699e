SPECIFICATION FairLockSpec
CONSTANTS
    Conns = {k1, k2}
    TxnRequests = {t1, t2, t3}
    AutoRequests = {w1, w2}
    NoConn = NoConn
CHECK_DEADLOCK FALSE
INVARIANTS
    LockTypeOK
    WritersAreAlone
    OnlyDropsLeak
PROPERTIES
    AnsweredIsDurable
    EveryRequestEnds
    LockIsFreed
