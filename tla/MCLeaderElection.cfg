CONSTANTS
    i1 = i1
    i2 = i2
    NoOne = NoOne
    Instances <- MCInstances
    lease_duration <- MCDuration
    renew_deadline <- MCDeadline
    offset <- MCOffset
    MaxNow = 4
    LastCrash = 1
    MaxReleased = 0
SPECIFICATION FairSpec
INVARIANTS AtMostOneLeader TermsDistinct
PROPERTY CrashedLeaderReplaced
CHECK_DEADLOCK FALSE
