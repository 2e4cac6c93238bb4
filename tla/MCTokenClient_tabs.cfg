\* Two tabs, two chains of calls at a time, lost requests and reloads.
SPECIFICATION Spec
CONSTANTS
    t1 = t1
    t2 = t2
    j1 = j1
    j2 = j2
    j3 = j3
    Nobody = Nobody
    Tabs = {t1, t2}
    Jobs = {j1, j2}
    Tokens = {1, 2, 3, 4}
    Mishaps = TRUE
SYMMETRY Swaps
VIEW Sight
INVARIANTS TypeOK PresentedOnce
PROPERTIES OwnPairIsKept OnlyRefreshesUndoLogout
