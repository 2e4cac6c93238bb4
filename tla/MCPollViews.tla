---------------------------- MODULE MCPollViews ----------------------------
EXTENDS PollViews, TLC

CONSTANTS u1, u2, tea, milk

MCOptionLists == {<<tea, milk>>, <<tea, tea>>}
Symmetry == Permutations(Users) \cup Permutations(Requests)
=============================================================================
