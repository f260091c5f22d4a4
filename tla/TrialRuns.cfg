CONSTANTS
    RunCount = 2
    SlotCount = 2
    Processes = {p1, p2}
SPECIFICATION Spec
SYMMETRY Symmetry
INVARIANT TrialTypeOK
INVARIANT CompletedIsEarned
INVARIANT DegradedEndsRun
INVARIANT LastSettleEndsRun
