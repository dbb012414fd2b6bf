SPECIFICATION FairSpec
CONSTANTS
    MaxFrames = 4
INVARIANTS
    TypeOK
    OutcomeAgreed
    NothingLostBehindAnswer
PROPERTIES
    HandshakeEnds
CHECK_DEADLOCK FALSE
