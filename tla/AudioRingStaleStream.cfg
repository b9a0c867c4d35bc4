\* Two restarts of IO without gaps.
CONSTANTS
    Capacity = 8
    Latency = 3
    FrameCount = 1
    Scale = 2
    Chunks <- Pairs
    Gaps <- NoGaps
    MaxFrame = 6
    MaxStreams = 2
SPECIFICATION Spec
CHECK_DEADLOCK FALSE
INVARIANT RenderedIsCurrentStream
