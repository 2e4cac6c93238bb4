SPECIFICATION ViewsSpec
CONSTANTS
    u1 = u1
    u2 = u2
    tea = tea
    milk = milk
    Users = {u1, u2}
    Polls = {p1}
    Options = {tea, milk}
    OptionLists <- MCOptionLists
    NoOption = NoOption
    Unborn = Unborn
    Gone = Gone
    Requests = {r1, r2}
    Kinds = {"CreatePoll", "UpdatePoll", "VoteOnPoll"}
    NoCall = NoCall
    MaxFaults = 1
    Readers = {q1}
    NoAsk = NoAsk
SYMMETRY Symmetry
INVARIANTS
    ViewsTypeOK
    EachVoterCountsOnce
PROPERTIES
    TornViewNeedsOverlap
