\* Core Audio does as it is told; helpers crash or cannot be launched.
CONSTANTS
    MaxLaunches = 2
    MaxChanges = 2
    MaxSessions = 1
    SetOutcomes <- Obeyed
    Faults <- HelperFaults
SPECIFICATION Spec
CHECK_DEADLOCK FALSE
PROPERTY SilenceEnds
PROPERTY StartupIsDecided
PROPERTY DeselectionIsNoticed
