SPECIFICATION ConnectionSpec
CONSTANTS
    c1 = c1
    c2 = c2
    Key <- MCKey
    Client <- MCClient
    NoKey = NoKey
    Backends = {"s3", "gcs", "sftp"}
    Hosts = {"unix", "windows"}
    LocalFaults = TRUE
    Name <- MCName
    EntryOf <- MCEntryOf
    Directory <- MCDirectory
    Element <- MCElement
    RemotePaths <- MCRemotePaths
SYMMETRY MCSymmetry
ACTION_CONSTRAINT ListsAreExplored
INVARIANT ConnectorTypeOK
PROPERTY CheckedDownloadIsComplete
PROPERTY FailedDownloadIsNotReused
INVARIANT ListingIsComplete
INVARIANT ListingIsExact
INVARIANT ListedIsWhereItWas
