SPECIFICATION Spec
CONSTANTS
    c1 = c1
    c2 = c2
    Checks = {c1}
    Runs = {r1}
    Mails = {d1, d2}
    Times = {1, 2}
    NoTime = NoTime
    Nobody = Nobody
    Parent <- NoParent
    Pushed = {}
    Threshold = 1
    Window = TRUE
    RecoveryMail = FALSE
    Cooldown = TRUE
    Warnings = FALSE
    Disableable = {}
    Mutable = {}
    MayStop = FALSE
PROPERTY RecoveryAfterAlert
