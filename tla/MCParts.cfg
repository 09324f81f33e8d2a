SPECIFICATION MCSpec
CONSTANTS
    a = a
    b = b
    k1 = k1
    k2 = k2
    child = child
    Chars <- MCChars
    Texts <- MCTexts
    BufSizes = {1, 2, 3}
    MaxLength = 4
    MaxWord = 2
    MaxWords = 3
    MaxChars = 3
    LinesMax = 3
    MaxLines = 5
    Askers <- MCAskers
    MaxSets = 1
    MaxNoise = 1
    Patience = 1
    Polls = 2
    Tries = 2
    MaxRuns = 4
    Holds <- MCHolds
    MaxComing = 2
    ShellCommands <- MCShellCommands
INVARIANTS
    StrShape
    StrFaithful
    SizeAgrees
    WordsArrive
    CvarFresh
    LeftClean
    ShutdownSafe
    KeyReleased
PROPERTIES
    NewestKept
    CvarEnds
    EndsWithGame
    EofEnds
CHECK_DEADLOCK FALSE
