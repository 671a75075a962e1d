SPECIFICATION Spec
CONSTANTS
    i1 = i1
    i2 = i2
    i3 = i3
    p1 = p1
    w1 = w1
    w2 = w2
    Key <- MCTwoKeys
    Other <- MCOther
    PackSets <- MCTwoIndexes
    Client <- MCClient
    NoKey = NoKey
    Backends = {"s3"}
    Hosts = {"unix"}
    LocalFaults = FALSE
PROPERTY PanicsOnlyAfterRetry
