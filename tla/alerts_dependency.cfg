SPECIFICATION Spec
CONSTANTS
    c1 = c1
    c2 = c2
    Checks = {c1, c2}
    Runs = {r1, r2}
    Mails = {d1, d2}
    Times = {1, 2}
    NoTime = NoTime
    Nobody = Nobody
    Parent <- Chain
    Pushed = {}
    Threshold = 2
    Window = FALSE
    RecoveryMail = TRUE
    Cooldown = FALSE
    Warnings = FALSE
    Disableable = {c1, c2}
    Mutable = {c1}
    MayStop = FALSE
SYMMETRY Slots
INVARIANT AlertAccounted
PROPERTY KeepsContract
