SPECIFICATION Spec
CONSTANTS
    Setups <- DropSetups
    MaxSections = 2
    MaxIdbs = 2
    MaxIfaces = 3
    MaxPackets = 2
    MaxFiles = 2
INVARIANTS
    AdjustSucceeds
