CONSTANTS
    RunCount = 1
    SlotCount = 2
    Processes = {p1, p2}
SPECIFICATION Spec
SYMMETRY Symmetry
INVARIANT OverlapTolerated
