\* Two threads change the controls three times, in and out of range.
CONSTANTS
    c1 = c1
    c2 = c2
    Callers <- MCCallers
    RawVolumes <- MCRawVolumes
    RampFrames = 3
    MaxSets = 3
SPECIFICATION Spec
INVARIANT TypeOK
INVARIANT SettledGainIsCurrent
PROPERTY NoClick
PROPERTY GainReachesTarget
