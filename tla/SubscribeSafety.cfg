SPECIFICATION Spec
CONSTANTS
    s1 = s1
    s2 = s2
    Subscriber = {s1, s2}
    MaxAdded = 2
    BufferSize = 1
    Publish = {"generic", "tx", "none"}
    Listener = {s1, s2}
    Exclusive = TRUE
    Nobody = Nobody
CHECK_DEADLOCK FALSE
SYMMETRY Interchangeable
INVARIANTS
    TypeOK
    NoLostWakeup
    NoSendOnClosed
