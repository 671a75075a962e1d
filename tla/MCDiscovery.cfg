SPECIFICATION Spec
CONSTANTS
    s1 = s1
    s2 = s2
    b1 = b1
    b2 = b2
    BackupSet = {s1, s2}
    Bucket = {b1, b2}
    SetOf <- MCSetOf
    NoBucket = NoBucket
    Doubtful <- MCDoubtful
    Accidents = TRUE
INVARIANT DiscoveryTypeOK
INVARIANT ListedIsComplete
INVARIANT GoodSetsAreListed
INVARIANT HeadsAreFresh
INVARIANT MissingHasCause
