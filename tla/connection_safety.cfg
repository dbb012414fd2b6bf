\* Four messages against queues of two, the second not serialisable; two
\* senders race for the queue.  A closed connection stops.
SPECIFICATION Spec
CONSTANTS
    Senders = {s1, s2}
    Capacity = 2
    MaxAccepted = 4
    MaxChatter = 1
    Unserializable = {2}
SYMMETRY Symmetry
INVARIANTS
    TypeOK
    DeliveredInOrder
    NothingLostWhileServing
    CloseAnswered
    NoticeEndsWire
    ClosingFramesOnce
PROPERTIES
    SilentAfterDisconnected
CHECK_DEADLOCK FALSE
