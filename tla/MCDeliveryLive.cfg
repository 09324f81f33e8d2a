SPECIFICATION FairSpec
CONSTANTS
    cli = cli
    rcon = rcon
    Writers <- MCOneWriter
    NoThread = NoThread
    ChunkSize = 1
    MaxQueue = 2
    MaxCalls = 3
PROPERTIES
    ClickLockFreed
    WorkGetsDone
CHECK_DEADLOCK FALSE
