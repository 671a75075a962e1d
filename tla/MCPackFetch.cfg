SPECIFICATION Spec
CONSTANTS
    t = t
    u = u
    b = b
    g = g
    kp = kp
    kb = kb
    c1 = c1
    Object <- MCObject
    Tree <- MCTree
    Raw = {g}
    Gzip = {g}
    Pack <- MCPack
    NoPack = NoPack
    Single <- MCSingle
    Key <- MCKey
    NoKey = NoKey
    Client <- MCClient
    Backends = {"s3", "gcs", "sftp"}
    Hosts = {"unix", "windows"}
    LocalFaults = TRUE
INVARIANT PackFetchTypeOK
INVARIANT NoGarbage
INVARIANT ErrorHasCause
PROPERTY EveryReadEnds
