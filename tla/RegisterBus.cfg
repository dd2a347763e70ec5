\* Two-chunk transfers, serial numbers that wrap, answers late by two requests.
SPECIFICATION FairSpec
CONSTANTS
    SerialNumbers = 5
    Retries = 1
    Chunks = 2
    MaxWrites = 2
    MaxAge = 2
INVARIANTS
    TypeOK
    ReadIsFresh
    AcknowledgedWritesHold
PROPERTIES
    ImplementsRegisters
    Recovers
