SPECIFICATION Spec
CONSTANTS
    Threads = {h1, h2}
    Senders = {s1, s2, s3}
    Proxy = proxy
    trusted_proxies = {proxy}
    Objects = {w1, w2, w3, w4, w5, w6}
    PerKey = 1
    Overall = 2
    Window = 3
    TicksPerSecond = 2
    TableSizes = {1, 5}
    MaxClock = 4
    None = None
SYMMETRY Symmetry
INVARIANTS TypeOK   AloneIsExact WaitOnce TableBounded
CHECK_DEADLOCK FALSE
