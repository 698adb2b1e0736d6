SPECIFICATION Spec
CONSTANTS
    i1 = i1
    i2 = i2
    w1 = w1
    w2 = w2
    Instance = {i1, i2}
    Worker = {w1}
    Home <- OneWorker
    Producer = {p1}
    Legacy = Legacy
    NoInstance = NoInstance
    Free = Free
    LeaseDur = 1
    TopicSeen = FALSE
    AckLoss = FALSE
    WriteTimeouts = FALSE
    Delayed = {}
    Timely = FALSE
INVARIANT ExclusiveFlush
