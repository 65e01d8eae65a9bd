SPECIFICATION FairSpec
CONSTANTS
    c1 = c1
    c2 = c2
    Checks = {c1}
    Runs = {r1}
    Mails = {d1}
    Times = {1, 2}
    NoTime = NoTime
    Nobody = Nobody
    Parent <- NoParent
    Pushed = {}
    Threshold = 1
    Window = TRUE
    RecoveryMail = TRUE
    Cooldown = TRUE
    Warnings = TRUE
    Disableable = {}
    Mutable = {}
    MayStop = TRUE
INVARIANTS TypeOK FlushedForGood
PROPERTIES TellsOutage RunsEnd
