SPECIFICATION FairSpec
PROPERTIES LoopKeepsTrying OpenBreakerHaltsOrHeals
CONSTANTS
    s1 = s1  s2 = s2  t1 = t1  t2 = t2  a1 = a1
    Symbols = {s1}
    Orders = {}
    HandTraded = {s1}
    Ticks = {t1, t2}
    Adopters = {}
    MaxEquity = 1
    CB_MAX_FAILURES = 3
    MaxFaults = 2
