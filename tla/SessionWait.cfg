SPECIFICATION FairSpec
CONSTANTS
    Writers = {"main", "reader"}
    PipeSize = 6
    MaxFile = 3
    MaxCount = 3
    Setups <- LoggingSetups
PROPERTIES
    WaitedForEnds
