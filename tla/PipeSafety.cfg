SPECIFICATION FairSpec
CONSTANTS
    Streams <- MCStreams
    Capacity = 3
    MaxUnits = 5
INVARIANTS
    TypeOK
    DeliveredWhole
    EofComplete
PROPERTIES
    EndIsFinal
    ReaderEnds
