------------------------------ MODULE MCEntQuery -----------------------------
(* Two users, one of whom has a poll with a vote, and a row of each still   *)
(* to come.                                                                 *)
EXTENDS EntQuery, TLC
CONSTANTS b1, b2, u1, u2, u3, p1, p2, p3, v1, v2, w1, w2, w3
MCIds == [User |-> {u1, u2, u3}, Poll |-> {p1, p2, p3}, Vote |-> {v1, v2}]
Account(w) == [email |-> w, username |-> w, password |-> w,
               created_at |-> Then, updated_at |-> Then]
MCStart ==
    [User |-> (u1 :> Account(w1) @@ u2 :> Account(w2)),
     Poll |-> (p1 :> [title |-> w1, description |-> Null, options |-> <<Item>>,
                      owner_id |-> u1, user_polls |-> u1,
                      created_at |-> Then, updated_at |-> Then]),
     Vote |-> (v1 :> [user_id |-> u1, poll_id |-> p1, option |-> w1,
                      created_at |-> Then])]
Entities == {"Poll", "User", "Vote"}
Every == Entities \X {"Create", "Update", "UpdateOne", "Delete", "DeleteOne"}
MCPicks == [Poll |-> {"title"}, User |-> {"email"}, Vote |-> {"option"}]
Swaps == Permutations(Builders) \cup Permutations({p2, p3})
=============================================================================
