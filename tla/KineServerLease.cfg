CONSTANTS
    Keys = {1}
    Values = {v}
    EmptyValue = v
    Leases = {0, 1}
    MaxRev = 3
    Clients = {}
    Watchers = {}
    Filters = {}
    LeaseIds = {1}
    Ttl = 1
    MaxNow = 2
    Retain = 1
    ClientCompacts = FALSE
    MaxRestarts = 0
SPECIFICATION FairServerSpec
INVARIANT OwnedKeysTracked
PROPERTY LeaseKeysDie
CHECK_DEADLOCK FALSE
