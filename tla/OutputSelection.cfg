\* Three real outputs and three actions of the user, in any order with the program's.
CONSTANTS
    speaker = speaker
    display = display
    headphones = headphones
    Virtual = Virtual
    NoDevice = NoDevice
    Real <- MCReal
    ByPriority <- MCByPriority
    ByName <- MCByName
    MaxChanges = 3
SPECIFICATION Spec
PROPERTY RestoreKeepsPlaying
