SPECIFICATION Spec
CONSTANTS
    i1 = i1
    i2 = i2
    w1 = w1
    w2 = w2
    Instance = {i1, i2}
    Worker = {w1}
    Home <- OneWorker
    Producer = {}
    Legacy = Legacy
    NoInstance = NoInstance
    Free = Free
    LeaseDur = 2
    TopicSeen = TRUE
    AckLoss = TRUE
    WriteTimeouts = TRUE
    Delayed = {}
    Timely = FALSE
INVARIANT TypeOK
INVARIANT ExclusiveFlush
INVARIANT HoldDeferred
PROPERTY HeldIsTrue
