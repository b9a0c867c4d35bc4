\* One handle and up to three errors of its connection.
CONSTANTS
    MaxErrors = 3
SPECIFICATION Spec
\* The handle's life ends.
CHECK_DEADLOCK FALSE
INVARIANT HandleInvariant
INVARIANT OpenIsHonest
