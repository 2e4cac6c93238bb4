--------------------------- MODULE MCPollService ---------------------------
EXTENDS PollProps, TLC

CONSTANTS u1, u2, tea, milk, mate

MCOptionLists == {<<>>, <<tea>>, <<tea, milk>>, <<tea, mate>>}
Symmetry == Permutations(Users) \cup Permutations(Requests) \cup Permutations({milk, mate})
=============================================================================
