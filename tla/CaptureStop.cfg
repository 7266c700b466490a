SPECIFICATION FairSpec
CONSTANTS
    a = a
    b = b
    Srcs = {a, b}
    Pipes = {a, b}
    Batch = {}
    MaxLen = 1
    Lens = {1}
    PacketLimit = 1
    ByteLimit = 0
    AutostopPackets = 0
    AutostopFilesize = 0
    Events = {"signal", "duration", "write"}
    MaxPackets = 1
PROPERTIES
    StopTakesEffect
    CaptureEnds
