SPECIFICATION Spec
CONSTANTS
    i1 = i1
    i2 = i2
    i3 = i3
    p1 = p1
    w1 = w1
    w2 = w2
    Key <- MCKey
    Other <- MCOther
    PackSets <- MCPackSets
    Client <- MCClient
    NoKey = NoKey
    Backends = {"gcs", "sftp"}
    Hosts = {"unix"}
    LocalFaults = TRUE
SYMMETRY MCSymmetry
INVARIANT PromiseKept
INVARIANT OneWorkerPerKey
INVARIANT LeftoversAreRepaired
PROPERTY ValidIsKept
