CONSTANTS
    Keys = {1, 2}
    Values = {v}
    EmptyValue = v
    Leases = {0}
    MaxRev = 4
    Clients = {}
    Watchers = {w}
    Filters = {{1}}
    LeaseIds = {}
    Ttl = 1
    MaxNow = 0
    Retain = 1
    ClientCompacts = TRUE
    MaxRestarts = 0
SPECIFICATION FairServerSpec
INVARIANTS WatchNoGap WatchConverges
PROPERTY WatchDelivers
CHECK_DEADLOCK FALSE
