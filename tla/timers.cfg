SPECIFICATION Spec
CONSTANTS
    ClientTimeout = 7
    KeepaliveInterval = 3
    CloseEchoTimeout = 2
    Slack = 1
    Capacity = 2
    MaxBehind = 7
INVARIANTS
    SilenceNoticed
    KeepaliveSent
    GivesUpOnBusyReaderOnly
CHECK_DEADLOCK FALSE
