\* Three helpers, every failure, and any two of a session change, a restart of
\* the driver's process and a crash of the broker.
CONSTANTS
    a = a
    b = b
    c = c
    u1 = u1
    u2 = u2
    NoReader = NoReader
    NoUser = NoUser
    Readers <- ThreeReaders
    Users <- MCUsers
    Uid <- MCUid
    Failures <- AllFailures
    MaxSessions = 1
    MaxRestarts = 1
    MaxCrashes = 1
SPECIFICATION Spec
CONSTRAINT TwoMishaps
SYMMETRY Symmetry
CHECK_DEADLOCK FALSE
INVARIANT TypeOK
INVARIANT CaptureIsAuthorized
INVARIANT GrantIsLive
INVARIANT NobodyIsStranded
PROPERTY LeaseIsExclusive
