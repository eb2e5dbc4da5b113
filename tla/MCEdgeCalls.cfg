\* Native and every build of the App, whose enclave may be lost between any two ecalls.
SPECIFICATION Spec
CONSTANTS
    WarmupTimes = 2
    TestTimes = 3
    Programs <- MCPrograms
INVARIANTS
    ReportExact
    FilesExact
    RowsHaveFiles
    LossEndsTheRun
PROPERTIES
    Terminates
CHECK_DEADLOCK FALSE
