SPECIFICATION FairSpec
CONSTANTS
    i1 = i1
    i2 = i2
    w1 = w1
    w2 = w2
    Instance = {i1, i2}
    Worker = {}
    Home <- NoWorkers
    Producer = {p1}
    Legacy = Legacy
    NoInstance = NoInstance
    Free = Free
    LeaseDur = 2
    TopicSeen = FALSE
    AckLoss = FALSE
    WriteTimeouts = FALSE
    Delayed = {i1}
    Timely = TRUE
INVARIANT NoStrandedLease
PROPERTY HoldNeverStolen
PROPERTY CrashedHolderReplaced
PROPERTY AbandonedLeaseLapses
