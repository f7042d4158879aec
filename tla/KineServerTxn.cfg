CONSTANTS
    Keys = {1}
    Values = {v}
    EmptyValue = v
    Leases = {0}
    MaxRev = 5
    Clients = {c1, c2}
    Watchers = {}
    Filters = {}
    LeaseIds = {}
    Ttl = 1
    MaxNow = 0
    Retain = 1
    ClientCompacts = FALSE
    MaxRestarts = 1
SPECIFICATION ServerSpec
INVARIANT SequentialCAS
CHECK_DEADLOCK FALSE
