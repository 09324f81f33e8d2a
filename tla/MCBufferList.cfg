SPECIFICATION Spec
CONSTANTS
    short = short
    long = long
    Line <- MCLine
    LineLen <- MCLineLen
    Exec = Exec
    ExecLen = 2
    MaxLine = 3
    BufSize = 9
CONSTRAINT MCBound
INVARIANTS
    TypeOK
    ListShape
    Capacity
    SizeIsBytes
    EmptyOnlyInUse
PROPERTIES
    ChainUnbroken
    ImplementsQueue
