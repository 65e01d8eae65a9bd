SPECIFICATION Spec
CONSTANTS
    Units = {u1}
    Restores = {h1}
    Editors = {e1}
    Mails = {}
    MaySilence = FALSE
    MaySwitchOff = FALSE
    Nobody = Nobody
    MaxAge = 1
INVARIANT RestoredAfresh
