SPECIFICATION RtSpec
CONSTANTS
    Addrs = {a1, a2}
    Bits = 3
    Capacity = 2
    Closest = 2
    MaxFound = 1
    MaxMade = 3
INVARIANTS
    NoNodeTwice
