SPECIFICATION DnSpec
CONSTANTS
    t1 = t1
    t2 = t2
    t3 = t3
    ShuffledPool <- ThreePool
    IdCountMax = 2
    ExpiredTime = 0
    Data = {other, h1, h2}
    Lookups = {h1, h2}
    NoTid = NoTid
    MaxTime = 1
    MaxNodes = 2
    MaxQueries = 3
    Bits = 1
    Capacity = 2
    Closest = 2
    Addrs = {a1, a2}
    MaxMade = 4
    MaxInfoHash = 3
    MaxPeer = 2
    MaxValues = 1
    NoReply = NoReply
    NoPort = NoPort
    OtherTids = {}
PROPERTIES
    ValuesStored
