SPECIFICATION TokenFairSpec
CONSTANTS
    TIssued = 3
    Requests = {q1, q2}
INVARIANTS TokenTypeOK NotLockedOut
PROPERTY RotationEnds
