SPECIFICATION Spec
CONSTANTS
    c1 = c1
    c2 = c2
    Combos = {c1, c2}
    Ends = {3, 4}
    MomLag = 1
    YoyLag = 3
    RollingSpan = 2
    MaxAmends = 3
    MaxKills = 1
SYMMETRY Symmetry
INVARIANTS
    TypeOK
    DenseUnlessTorn
    FiguresAreFull
CHECK_DEADLOCK FALSE
