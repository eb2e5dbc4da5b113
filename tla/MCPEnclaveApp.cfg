\* App and enclave on every shape of the page tables, one interrupt and one NMI.
SPECIFICATION AppSpec
CONSTANTS
    NPages = 2
    Modulus = 5
    MaxIntr = 1
    MaxNmi = 1
    Vectors <- MCVectors
    Layouts <- MCLayouts
    Arguments <- MCArguments
    CreateErrors <- MCCreateErrors
    Garbage <- MCGarbage
INVARIANTS
    TypeOK
    ReportExact
    TimedLoopFaults
    OutcomeTold
PROPERTIES
    Implements
    AppTerminates
CHECK_DEADLOCK FALSE
