CONSTANTS
    BodyBytes = {"CR", "NUL"}
    ContentLengthLines <- Lines
    NegativeLines = {"content-length:-1"}
    JunkLines = {"content-length:x"}
    read_max_chunk_size = 3
    MaxFrames = 2
    MaxHeartbeats = 1
SPECIFICATION Spec
INVARIANTS
    FramesInOrder
    ReceiptFound
    PopsCarriage
CHECK_DEADLOCK FALSE
