--------------------------- MODULE MCTokenClient ---------------------------
(* Small instances of TokenClient. *)
EXTENDS TokenClient, TLC
CONSTANTS t1, t2, j1, j2, j3
Swaps == Permutations(Tabs) \cup Permutations(Jobs)
\* All but leaving: where pages are reloaded at any time, being told to leave
\* brings no step of its own.
Sight == <<stored, live, expired, user, job, renewedBy, loggedOut>>
=============================================================================
