\* The FIFO fills up with the last byte but one of a frame.
CONSTANTS
    FrameSize = 4
    Depth = 3
    DropCounts = 3
SPECIFICATION Spec
PROPERTY PacketsClosed
