SPECIFICATION Spec
CONSTANTS
    Frames = 3
    MagicSizes = {0, 2}
    Binary = binary
    Http = http
    Kinds <- KindsOfRequest
    HeadSizes <- Heads
    MaxBody = 2
    Blocks = {b1, b2, b3}
    Capacity = 2
INVARIANTS MessagesIntact InSync RefsExact CursorExact
CHECK_DEADLOCK FALSE
