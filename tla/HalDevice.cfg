\* Two threads that start, stop and set; every question about every property.
CONSTANTS
    Logs <- MCLogs
    Powers <- MCPowers
    Threads = {t1, t2}
    RawScalars <- MCRawScalars
    RawDecibels <- MCRawDecibels
    Queries <- MCQueries
    Buffers <- MCBuffers
    MaxHeld = 2
SPECIFICATION Spec
CHECK_DEADLOCK FALSE
INVARIANT TypeOK
INVARIANT CountsAreExact
INVARIANT SettledHostIsCurrent
INVARIANT IdleDeviceIsInactive
INVARIANT SwitchesAgree
INVARIANT TreeIsConsistent
PROPERTY StreamHeals
