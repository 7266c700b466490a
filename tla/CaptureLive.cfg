SPECIFICATION Spec
CONSTANTS
    a = a
    b = b
    Srcs = {a, b}
    Pipes = {}
    Batch = {b}
    MaxLen = 2
    Lens = {1, 2}
    PacketLimit = 2
    ByteLimit = 3
    AutostopPackets = 3
    AutostopFilesize = 4
    Events = {"signal", "pcap", "select", "write"}
    MaxPackets = 2
INVARIANTS
    TypeOK
    QueueBounded
    PipelineExact
    CountsTrue
    AutostopExact
