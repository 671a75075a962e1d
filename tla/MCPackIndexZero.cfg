SPECIFICATION Spec
CONSTANTS
    a0 = a0
    b1 = b1
    c1 = c1
    d2 = d2
    Bytes = 3
    SHA1 <- MCSHA1
    FirstByte <- MCFirstByte
    Directories <- MCDirectories
    DiskFails = TRUE
CHECK_DEADLOCK FALSE
INVARIANT NothingIsMissed
