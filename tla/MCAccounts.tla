----------------------------- MODULE MCAccounts -----------------------------
(* Small instances of Accounts. *)
EXTENDS Accounts, TLC
CONSTANTS r1, r2, r3, a1, a2, a3, e1, e2, n1, n2, p1, p2
Swaps == Permutations(Requests) \cup Permutations(Accounts)
             \cup Permutations(Emails) \cup Permutations(Names)
             \cup Permutations(Passwords)
=============================================================================
