\* fig8b, fig8c and fig8d: results complete, interrupted, saturating or not given.
SPECIFICATION PlotsSpec
CONSTANTS
    Figures = {"8b", "8c", "8d"}
    Results <- MCResults
INVARIANTS
    CurvesAreTheGiven
    SlowdownsCompareLikes
    LegendNamesCurves
CHECK_DEADLOCK FALSE
