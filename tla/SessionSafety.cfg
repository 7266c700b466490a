SPECIFICATION FairSpec
CONSTANTS
    Writers = {"main", "reader"}
    PipeSize = 6
    MaxFile = 3
    MaxCount = 3
    Setups <- MCSetups
INVARIANTS
    AssertionsHold
    ClosedLast
    WaitsOnlyForDead
    ListIsWhatWasTold
PROPERTIES
    ListComplete
    SessionEnds
    FirstFifoReleased
