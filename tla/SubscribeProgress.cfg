SPECIFICATION FairSpec
CONSTANTS
    s1 = s1
    s2 = s2
    Subscriber = {s1, s2}
    MaxAdded = 2
    BufferSize = 1
    Publish = {"tx", "none"}
    Listener = {s1}
    Exclusive = TRUE
    Nobody = Nobody
CHECK_DEADLOCK FALSE
PROPERTIES
    BacklogDrained
    SubscribeReturns
