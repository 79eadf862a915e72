SPECIFICATION WriteSpec
CONSTANTS
    MaxMessages = 2
    MessageKinds = {"plain", "compressed", "page"}
    OutOfMemory = {"plain", "page"}
    HeaderSize = 2
    MetaSizes = {1, 3}
    BodySizes = {0, 1, 4}
    ChunkSize = 2
    BaseSize = 3
    HiddenSize = 1
    MaxFactor = 1
    BaseFactors = {0, 1}
    Blocks <- EightBlocks
INVARIANTS WireExact CountsExact
CHECK_DEADLOCK FALSE
