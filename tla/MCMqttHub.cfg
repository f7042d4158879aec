\* A subscriber and a publisher, up to two connections each.
CONSTANTS
    Clients = {"sub", "pub"}
    Publishers = {"pub"}
    Conns = {1, 2, 3, 4}
    ClientOf <- MCClientOf
    ConnectOptions <- MCConnectOptions
    Subscriptions <- MCSubscriptions
    Kinds = {"plain"}
    QosOf <- MCQosOf
    MaxOpen = 3
    MaxMsg = 2
    Leaving = {3}
    MaxAsk = 2
    MaxId = 2
SPECIFICATION Spec
INVARIANTS NothingForgotten DeliveryOrder ExactlyOnce SessionHeld
CHECK_DEADLOCK FALSE
