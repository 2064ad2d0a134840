SPECIFICATION LiveSpec
CONSTANTS
    t1 = t1
    t2 = t2
    t3 = t3
    t4 = t4
    t5 = t5
    ShuffledPool <- FivePool
    IdCountMax = 4
    ExpiredTime = 2
    Data = {d1}
    NoTid = NoTid
    MaxTime = 4
INVARIANTS
    TypeOK
    Partition
    OutstandingBounded
    ExpiryInOrder
PROPERTIES
    CreateKeepsLatest
    SilenceReclaims
