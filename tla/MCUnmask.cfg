SPECIFICATION FairSpec
CONSTANTS
    scout = scout
    blocked = blocked
    missing = missing
    Configs <- MCConfigs
    Exists <- MCExists
    Blocked <- MCBlocked
    Lists <- MCLists
    None = None
    Game = Game
    Other = Other
    NUM_OPEN_CALLS_TO_READ_A_CONFIG = 3
    UNMASK_IGNORE_CNT = 3
    MaxExecs = 3
    MaxReads = 1
    MaxLists = 2
INVARIANTS
    HarmBounded
    RepliesKept
PROPERTY
    ExecEnds
CHECK_DEADLOCK FALSE
