SPECIFICATION FairSpec
CONSTANTS
    Units = {u1, u2, u3}
    Restores = {h1, h2}
    Editors = {e1}
    Mails = {m1}
    MaySilence = TRUE
    MaySwitchOff = TRUE
    Nobody = Nobody
    MaxAge = 2
INVARIANTS TypeOK QuietRestore PauseNotForgotten AfreshUnlessOvertaken
PROPERTY ServesAgain
