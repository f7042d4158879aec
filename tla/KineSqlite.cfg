CONSTANTS
    Keys = {1, 2}
    Values = {e, v}
    EmptyValue = e
    Leases = {0, 1}
    MaxRev = 4
    Payloads = {v}
SPECIFICATION Spec
INVARIANTS ReadsAgree WritesNeverRejected PrevValueExact CreateRevisionSound
PROPERTY ImplementsCore
CHECK_DEADLOCK FALSE
