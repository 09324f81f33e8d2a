SPECIFICATION FairSpec
CONSTANTS
    mod1 = mod1
    Script = Script
    Modules <- MCModules
    MaxLoads = 3
    MaxMsgs = 2
INVARIANTS
    TypeOK
    ChangesNoticed
    CorrectionNoticed
PROPERTY
    ChangeRead
CHECK_DEADLOCK FALSE
