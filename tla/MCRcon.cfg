SPECIFICATION FairSpec
CONSTANTS
    cmd1 = cmd1
    cmd2 = cmd2
    Callers <- MCCallers
    MaxSessions = 2
INVARIANTS
    SessionsAlive
    AuthFailsForAReason
    RepliesAccounted
PROPERTIES
    TextPrinted
    WaitEnds
CHECK_DEADLOCK FALSE
