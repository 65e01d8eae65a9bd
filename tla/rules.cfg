SPECIFICATION RulesSpec
CONSTANTS
    c1 = c1
    r1 = r1
    RChecks = {c1}
    RRules = {r1}
    Looks <- LooksAtAll
    Needed = 1
    Collected = {c1}
    Covered = {c1}
    Silenceable = {c1}
    User = User
    Scheduler = Scheduler
    Tracker = Tracker
    Loader = Loader
    Nobody = Nobody
    All = All
    REdits = 1
    RCrashes = 1
    RFails = 1
INVARIANTS RulesTypeOK MetAsItStands
PROPERTY FiresOnce
