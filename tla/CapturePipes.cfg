SPECIFICATION Spec
CONSTANTS
    a = a
    b = b
    Srcs = {a, b}
    Pipes = {a, b}
    Batch = {}
    MaxLen = 2
    Lens = {1, 2}
    PacketLimit = 1
    ByteLimit = 0
    AutostopPackets = 0
    AutostopFilesize = 3
    Events = {"pipe", "select", "write"}
    MaxPackets = 2
SYMMETRY Symmetry
INVARIANTS
    NoSilentStop
PROPERTIES
    ImplementsContract
