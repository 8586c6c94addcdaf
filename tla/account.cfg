SPECIFICATION FairSpec
PROPERTIES DriftKeepsHalting AdoptionEndsDrift CacheSettles
CONSTANTS
    s1 = s1  s2 = s2  t1 = t1  t2 = t2  a1 = a1
    Symbols = {s1}
    Orders = {s1}
    HandTraded = {s1}
    Ticks = {t1}
    Adopters = {a1}
    MaxEquity = 2
    CB_MAX_FAILURES = 1
    MaxFaults = 1
