SPECIFICATION CollSpec
CONSTANTS
    CChecks = {k1}
    CRuns = 2
    CThreshold = 2
    Spacing = 1
    Posts = {p1}
INVARIANTS CollTypeOK TakenIsRecorded ToldOnce AlertIsTold
