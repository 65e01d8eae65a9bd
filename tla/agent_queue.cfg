SPECIFICATION QueueFairSpec
CONSTANTS
    QReadings = 4
    QMax = 2
    QBatch = 2
    QCrashes = 1
INVARIANTS QueueTypeOK FileMatches DurableUnlessJoined NotSentTwice
PROPERTY HeldIsSent
