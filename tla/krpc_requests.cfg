SPECIFICATION KrSpec
CONSTANTS
    t1 = t1
    t2 = t2
    t3 = t3
    ShuffledPool <- ThreePool
    IdCountMax = 2
    ExpiredTime = 1
    Data = {ping, lookup}
    Lookups = {lookup}
    NoTid = NoTid
    MaxTime = 2
    MaxNodes = 2
    MaxQueries = 5
INVARIANTS
    KrTypeOK
    AtMostOneAnswer
    EntriesAreOpenQueries
    LateAnswerQuarantined
PROPERTIES
    ImplementsLedger
CHECK_DEADLOCK FALSE
