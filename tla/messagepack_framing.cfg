SPECIFICATION FairSpec
CONSTANTS
    Base = 2
    MaxPrefix = 3
    MaxLength = 5
    MaxPayloads = 2
    Wild <- MCWild
    Payloads <- MCPayloads
INVARIANTS
    TypeOK
    PayloadsRecovered
    SplitIffSplittable
PROPERTIES
    ReaderEnds
CHECK_DEADLOCK FALSE
