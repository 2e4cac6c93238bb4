\* One tab, two chains of calls that may await the same refresh, lost requests.
SPECIFICATION FairSpec
CONSTANTS
    t1 = t1
    t2 = t2
    j1 = j1
    j2 = j2
    j3 = j3
    Nobody = Nobody
    Tabs = {t1}
    Jobs = {j1, j2}
    Tokens = {1, 2, 3, 4}
    Mishaps = TRUE
PROPERTIES EveryCallEnds SignedOutPagesNotice
