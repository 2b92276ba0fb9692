CONSTANTS
    Series = {s1}
    j1 = j1
    j2 = j2
    fa = fa
    fb = fb
    None = None
    b1 = b1
    b2 = b2
    Balances <- MCBalances
    Lags <- MCLags
    Families <- MCFamilies
    Judges <- MCJudges
    Horizon = 4
    MaxJudgements = 3
SYMMETRY Symmetry
SPECIFICATION Spec
INVARIANTS TypeOK LastJudgementStands NothingFromAhead EveryFoldIsScored
PROPERTY KeptUnlessJudged
CHECK_DEADLOCK FALSE
