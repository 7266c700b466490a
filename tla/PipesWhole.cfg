SPECIFICATION Spec
CONSTANTS
    a = a
    b = b
    Srcs = {a, b}
    Pipes = {a, b}
    Batch = {}
    MaxLen = 1
    Lens = {1}
    PacketLimit = 0
    ByteLimit = 10
    AutostopPackets = 0
    AutostopFilesize = 0
    Events = {}
    MaxPackets = 1
INVARIANTS
    PipesCapturedWhole
