SPECIFICATION Spec
CONSTANTS
    u1 = u1
    u2 = u2
    tea = tea
    milk = milk
    mate = mate
    Users = {u1, u2}
    Polls = {p1}
    Options = {tea, milk, mate}
    OptionLists <- MCOptionLists
    NoOption = NoOption
    Unborn = Unborn
    Gone = Gone
    Requests = {r1, r2}
    Kinds = {"CreatePoll", "UpdatePoll", "DeletePoll", "VoteOnPoll", "DeleteVote"}
    NoCall = NoCall
    MaxFaults = 1
SYMMETRY Symmetry
INVARIANTS
    TypeOK
    OneVotePerUser
    VotesHavePolls
    OrphansNeedOverlap
PROPERTIES
    VotesLeaveByRight
