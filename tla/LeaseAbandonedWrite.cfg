SPECIFICATION FairSpec
CONSTANTS
    i1 = i1
    i2 = i2
    w1 = w1
    w2 = w2
    Instance = {i1}
    Worker = {w1}
    Home <- OneWorker
    Producer = {}
    Legacy = Legacy
    NoInstance = NoInstance
    Free = Free
    LeaseDur = 2
    TopicSeen = TRUE
    AckLoss = FALSE
    WriteTimeouts = TRUE
    Delayed = {}
    Timely = TRUE
PROPERTY AbandonedLeaseLapses
