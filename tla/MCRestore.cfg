SPECIFICATION Spec
CONSTANTS
    root = root
    sub = sub
    locked = locked
    f1 = f1
    f2 = f2
    f3 = f3
    empty = empty
    b1 = b1
    b2 = b2
    Nil = Nil
    Node <- MCNode
    Directory <- MCDirectory
    Root = root
    Children <- MCChildren
    Path <- MCPath
    Name <- MCName
    Blob <- MCBlob
    BlobsOf <- MCBlobsOf
    Backups <- MCBackups
    Below <- MCBelow
    Elsewhere <- MCElsewhere
    ReadOnly <- MCReadOnly
    Faults = TRUE
CHECK_DEADLOCK FALSE
INVARIANT RestoreTypeOK
INVARIANT FoundIsAtTarget
INVARIANT PresentIsFound
INVARIANT OthersAreRecovered
INVARIANT CrashHasCause
INVARIANT ListingIsWhole
PROPERTY RecoveryEnds
