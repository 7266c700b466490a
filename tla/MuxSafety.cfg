SPECIFICATION Spec
CONSTANTS
    Setups <- MCSetups
    MaxSections = 2
    MaxIdbs = 2
    MaxIfaces = 3
    MaxPackets = 2
    MaxFiles = 2
INVARIANTS
    TypeOK
    IdsResolve
    FileInStep
    MapsOwn
    ParentInStep
    AbortOnlyAfterLoss
PROPERTIES
    IdsNeverReused
