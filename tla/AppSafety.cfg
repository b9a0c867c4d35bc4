\* Two sessions of the app and two helpers; Core Audio obeys or refuses, and
\* everything that can fail fails.
CONSTANTS
    MaxLaunches = 2
    MaxChanges = 2
    MaxSessions = 2
    SetOutcomes <- ObeyedOrRejected
    Faults <- AllFaults
SPECIFICATION Spec
CHECK_DEADLOCK FALSE
INVARIANT TypeOK
INVARIANT NoStrayHelper
PROPERTY EnabledIsServed
PROPERTY QuitRestoresOutputs
