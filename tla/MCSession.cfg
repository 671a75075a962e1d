SPECIFICATION Spec
CONSTANTS
    BackupTypes = {"s3", "googlecloudstorage", "sftp", "other"}
    Timeout = 10
    Interval = 3
    Latency = 6
CHECK_DEADLOCK FALSE
INVARIANT SessionTypeOK
INVARIANT LiveSessionIsKept
INVARIANT LossEndsProcess
PROPERTY LossIsNoticed
