SPECIFICATION Spec
CONSTANTS
    Pods = {1, 2}
    Mounting = {1}
    Specs <- MCSpecs
    Restarts = {1}
    MaxCalls <- MCCalls
    MaxFaults <- MCFaults
    MaxFlushes = 1
INVARIANTS NoTwins SyncEffective NothingLeftBehind StatusDelivered Reconciled
CHECK_DEADLOCK FALSE
