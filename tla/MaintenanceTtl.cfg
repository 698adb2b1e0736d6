SPECIFICATION Spec
CONSTANTS
    i1 = i1
    i2 = i2
    t1 = t1
    Short = 1
    Long = 2
    Instance = {i1, i2}
    Legacy = Legacy
    Nobody = Nobody
    Topic = {t1}
    Message = {m1}
    TopicOf <- OnT1
    Default <- DefaultOfFirst
    Explicit <- ExplicitOfSecond
    Faulty = {}
    Slack = 1
    MaxAge = 3
CHECK_DEADLOCK FALSE
PROPERTY ExpirationHonoured
