SPECIFICATION FairSpec
CONSTANTS
    Checks = {c1}
    Pushing = {}
    Runs = {r1, r2}
    NodeCalls = {n1}
    Nobody = Nobody
    Sizes = {1, 2}
    MaxGens = 2
    MaxCalls = 1
    MaxReloads = 1
    MaxPauses = 1
INVARIANTS TypeOK QuietWhenPaused MarkHasRun SlotsKept
PROPERTIES RunsEnd ChecksRun
