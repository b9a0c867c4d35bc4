\* A restart of IO in a ring of eight frames that a stream laps, with gaps and
\* with writes longer than the ring.
CONSTANTS
    Capacity = 8
    Latency = 3
    FrameCount = 1
    Scale = 2
    Chunks <- PairsAndLong
    Gaps <- ShortGaps
    MaxFrame = 12
    MaxStreams = 1
SPECIFICATION Spec
CHECK_DEADLOCK FALSE
INVARIANT TypeOK
INVARIANT NeverReadsAhead
INVARIANT RestartIsClean
INVARIANT RenderedIsGenuine
INVARIANT WholeTailIsNeverReplayed
