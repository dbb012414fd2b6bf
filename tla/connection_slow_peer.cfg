SPECIFICATION SlowPeerSpec
CONSTANTS
    Senders = {s1}
    Capacity = 1
    MaxAccepted = 2
    MaxChatter = 2
    Unserializable = {}
PROPERTIES
    FullQueueCloses
CHECK_DEADLOCK FALSE
