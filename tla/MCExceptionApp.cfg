\* Every way through the App, with up to three page faults handed to the enclave.
SPECIFICATION Spec
CONSTANTS
    NPages = 3
    Modulus = 7
    MaxInject = 3
    Variants <- MCVariants
    Arguments <- MCArguments
    CreateErrors <- MCCreateErrors
    Garbage <- MCGarbage
INVARIANTS
    UdExact
    TimesExact
    DiagnosisIsTheCause
    ElapsedMeansWork
    NothingLeftBehind
PROPERTIES
    Terminates
CHECK_DEADLOCK FALSE
