SPECIFICATION AtSpec
CONSTANTS
    InfoHashes = {h1, h2, h3}
    Addrs = {a1}
    Ports = {p1, p2}
    Tids = {t1, t2}
    MaxInfoHash = 2
    MaxPeer = 3
    MaxValues = 2
    NoPort = NoPort
    NoReply = NoReply
INVARIANTS
    EchoedTokenAccepted
