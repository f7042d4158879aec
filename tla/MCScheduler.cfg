CONSTANTS
    small = small
    big = big
    Pods <- MCPods
    Nodes = {node}
    Request <- MCRequest
    Offers = {2}
    Priority <- MCPriority
    MaxUpdates = 1
    MaxLag = 1
    MaxNodeEvents = 1
SPECIFICATION FairSpec
INVARIANTS ParkedDoesNotFit NoPodLost AssumedExact NeverOvercommits
PROPERTY TopPriorityScheduled
CHECK_DEADLOCK FALSE
