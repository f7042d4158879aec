CONSTANTS
    Keys = {1, 2}
    Values = {"e", "v"}
    EmptyValue = "e"
    Leases = {0}
    MaxRev = 4
    NoKey = 0
    AllKeys = AllKeys
    Compares <- MCCompares
    Branches <- MCBranches
    Failures <- MCFailures
SPECIFICATION TxnSpec
INVARIANTS NoStaleRead ListThenWatch CompareAndSwap OrderIrrelevant
CHECK_DEADLOCK FALSE
