\* One change of a control while the helper starts.
CONSTANTS
    c1 = c1
    c2 = c2
    Callers <- MCCallers
    RawVolumes <- MCRawVolumes
    RampFrames = 3
    MaxSets = 1
SPECIFICATION Spec
INVARIANT NativeMuteSilences
