\* Up to three threads on two TCSs, crossing in any interleaving.
SPECIFICATION Spec
CONSTANTS
    t1 = t1
    t2 = t2
    t3 = t3
    Threads <- Trio
    TcsNum = 2
    MaxEnter = 4
SYMMETRY Symmetric
INVARIANTS
    CyclesFollowCounts
    Balanced
    ReportWithin
    ReportAlone
PROPERTIES
    Implements
CHECK_DEADLOCK FALSE
