\* A call for any range on every shape of the page tables.
SPECIFICATION Spec
CONSTANTS
    PGSIZE = 2
    FANOUT = 2
    MaxCalls = 1
    Tables <- MCTables
    Frames <- MCFrames
    Memories <- MCMemories
INVARIANTS
    ExactlyTheLeaves
    ReturnMeans
CHECK_DEADLOCK FALSE
