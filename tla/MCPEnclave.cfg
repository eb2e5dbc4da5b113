\* One well-mapped buffer, two interrupts and an NMI wherever they can land.
SPECIFICATION Spec
CONSTANTS
    NPages = 2
    Modulus = 5
    MaxIntr = 2
    MaxNmi = 1
    Vectors <- MCVectors
    Layouts <- MCMappedLayouts
INVARIANTS
    TlbCoherent
    InterruptsForwarded
    NestingBounded
    NoSpuriousAbort
