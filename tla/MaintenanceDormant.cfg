SPECIFICATION FairSpec
CONSTANTS
    i1 = i1
    i2 = i2
    t1 = t1
    Short = 1
    Long = 1
    Instance = {i1, i2}
    Legacy = Legacy
    Nobody = Nobody
    Topic = {t1}
    Message = {m1}
    TopicOf <- OnT1
    Default <- DefaultOfBoth
    Explicit <- NoExplicit
    Faulty = {}
    Slack = 1
    MaxAge = 2
CHECK_DEADLOCK FALSE
PROPERTY DormantCostsNothing
