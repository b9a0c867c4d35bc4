\* A helper of each user, no failure of memory and no timeout, and one of each
\* of a session change, a restart of the driver and a crash of the broker.
CONSTANTS
    a = a
    b = b
    c = c
    u1 = u1
    u2 = u2
    NoReader = NoReader
    NoUser = NoUser
    Readers <- TwoUsersReaders
    Users <- MCUsers
    Uid <- MCUid
    Failures <- NoFailures
    MaxSessions = 1
    MaxRestarts = 1
    MaxCrashes = 1
SPECIFICATION Spec
CHECK_DEADLOCK FALSE
PROPERTY OpenIsAnswered
PROPERTY ClosedRingIsDetached
PROPERTY DriverIsRegistered
