SPECIFICATION Spec
CONSTANTS
    Options <- HeaderFails
    MaxFiles = 3
    MAX_FILENAME_QUEUE = 1
    MaxPackets = 3
INVARIANTS
    StreamClosedOnce
