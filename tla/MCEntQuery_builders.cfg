\* A builder, or two that create, three calls or saves; or a query, three calls or runs;
\* one lost answer, failed statement or change by others.
SPECIFICATION QuerySpec
CONSTANTS
    b1 = b1
    b2 = b2
    u1 = u1
    u2 = u2
    u3 = u3
    p1 = p1
    p2 = p2
    p3 = p3
    v1 = v1
    v2 = v2
    w1 = w1
    w2 = w2
    w3 = w3
    Ids <- MCIds
    Start <- MCStart
    Words = {w1, w3}
    None = None
    Empty = Empty
    Item = Item
    Null = Null
    Gone = Gone
    Builders = {b1, b2}
    Offers <- Every
    MaxSteps = 3
    MaxMishaps = 1
    Picks <- MCPicks
    MaxCalls = 3
    MaxDepth = 2
CHECK_DEADLOCK FALSE
SYMMETRY Swaps
INVARIANTS TypeOK NoEmptyTexts OneRowPerBuilder
INVARIANTS TreeOK LoadsFindTheirNodes AnswersMeanTheCalls OnlyMeansOne
PROPERTIES SavesMeanTheCalls LinksMeanTheCalls OldIsNotOwn BulkIsWhole
