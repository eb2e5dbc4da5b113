\* An NMI lands between any two instructions of another trap's way in and out, on
\* a stack of either alignment.
SPECIFICATION Spec
CONSTANTS
    MaxDepth = 1
    MaxTraps = 3
    Vectors <- MCVectors
INVARIANTS
    AlignedAtCall
    FrameFaithful
PROPERTIES
    Resumed
CHECK_DEADLOCK FALSE
