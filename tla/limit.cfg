SPECIFICATION Spec
CONSTANTS
    Chars = 4
    ShuffledPool <- AllTids
    IdCountMax <- LengthXorTwo
    ExpiredTime = 1
    Data = {d1}
    NoTid = NoTid
    MaxTime = 1
PROPERTIES
    ForcedOnlyWhenExhausted
