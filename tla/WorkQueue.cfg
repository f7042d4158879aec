CONSTANTS
    Keys = {a, b}
    Workers = {w1, w2}
    Delays = {0, 1, 3}
    base_delay = 1
    max_delay = 3
    max_retries = 3
    MaxLate = 2
SPECIFICATION FairSpec
INVARIANTS OnePlace NoLostWakeup ReadyTimeExact
PROPERTY EveryRequestServed
