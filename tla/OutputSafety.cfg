SPECIFICATION Spec
CONSTANTS
    Options <- MCOptions
    MaxFiles = 5
    MAX_FILENAME_QUEUE = 2
    MaxPackets = 9
INVARIANTS
    FilesKept
    CountsTrue
    OneOwner
    Quotas
    PrintedInOrder
