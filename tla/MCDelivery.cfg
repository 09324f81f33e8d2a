SPECIFICATION Spec
CONSTANTS
    cli = cli
    rcon = rcon
    Writers <- MCTwoWriters
    NoThread = NoThread
    ChunkSize = 1
    MaxQueue = 2
    MaxCalls = 4
SYMMETRY MCSymmetry
INVARIANTS
    TypeOK
    NothingStranded
CHECK_DEADLOCK FALSE
