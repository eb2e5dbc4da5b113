\* fig8a: complete nbench results, of which some are not given.
SPECIFICATION PlotsSpec
CONSTANTS
    Figures = {"8a"}
    Results <- MCResults
INVARIANTS
    CurvesAreTheGiven
CHECK_DEADLOCK FALSE
