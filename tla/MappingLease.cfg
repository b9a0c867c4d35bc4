\* Two HAL threads (the IO thread and the one of StartIO and StopIO) and three
\* allocations: one retired, one being retired, one installed.
CONSTANTS
    Threads = {t1, t2}
    Rings = {r1, r2, r3}
    NoRing = NoRing
SPECIFICATION Spec
INVARIANT TypeOK
INVARIANT NoUseAfterFree
INVARIANT FreedIsSilent
INVARIANT NoRingLost
INVARIANT LeaseInvariant
PROPERTY RetiredIsReclaimed
