SPECIFICATION BackupSpec
CONSTANTS
    Key = {k}
    MaxWrites = 2
    TtlWrites = {}
    MaxPoints = 0
    MaxGen = 4
    NoBackup = NoBackup
CHECK_DEADLOCK FALSE
INVARIANT RestoredIsLoaded
