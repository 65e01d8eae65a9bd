SPECIFICATION RollupsFairSpec
CONSTANTS
    Five = 2
    Hour = 4
    Day = 4
    Week = 8
    Reread = 1
    RereadFive = 3
    CatchUp = 2
    HeldFor = 1
    Keep <- Kept
    Last = 5
    Results = 2
    Recorders = 1
    Requests = {request}
    Slow = {"loop"}
    Troubles = 2
    Never = Never
INVARIANTS RollTypeOK
PROPERTIES RolledUpBeforeDeleted NeverShrinks Summarised
CHECK_DEADLOCK FALSE
