SPECIFICATION Spec
CONSTANTS
    s1 = s1
    s2 = s2
    Cmds <- MCCmds
    MaxOutput = 1
INVARIANT
    NilUnlessNothingWritten
CHECK_DEADLOCK FALSE
