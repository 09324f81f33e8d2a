SPECIFICATION Spec
CONSTANTS
    mod1 = mod1
    Script = Script
    Modules <- MCModules
    MaxLoads = 3
    MaxMsgs = 2
INVARIANT
    WatchesWhereAssumed
CHECK_DEADLOCK FALSE
