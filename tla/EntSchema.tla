------------------------------ MODULE EntSchema ------------------------------
(***************************************************************************)
(* The three entities as the ent client knows them: what kind each column  *)
(* of a mutation is and which edges it has.  Kinds of columns:             *)
(*   "text"  required, the builders refuse the empty text                  *)
(*   "key"   a text no two rows share                                      *)
(*   "note"  a text that may be NULL and can be cleared                    *)
(*   "list"  a list, empty by default, to which an update can append       *)
(*   "ref"   the row of another table that a unique edge leads to          *)
(*   "time"  a time, by default the time of the save                       *)
(***************************************************************************)

\* f with x mapped to v.
Put(f, x, v) == [y \in DOMAIN f \cup {x} |-> IF y = x THEN v ELSE f[y]]

Types == {"Poll", "User", "Vote"}

\* The names that Fields, Field, OldField, SetField and ResetField know; what
\* they do with a column depends on its kind alone.
PollColumns ==
    [title |-> "text", description |-> "note", options |-> "list", owner_id |-> "ref",
     created_at |-> "time", updated_at |-> "time"]
UserColumns ==
    [email |-> "key", username |-> "key", password |-> "text",
     created_at |-> "time", updated_at |-> "time"]
VoteColumns ==
    [user_id |-> "ref", poll_id |-> "ref", option |-> "text", created_at |-> "time"]

Kind == [Poll |-> PollColumns, User |-> UserColumns, Vote |-> VoteColumns]

Columns(type) == DOMAIN Kind[type]
OfKind(type, kinds) == {c \in Columns(type) : Kind[type][c] \in kinds}

NoEdges == [e \in {} |-> e]

\* A unique edge and the column that holds it.
PollOne == [owner |-> "owner_id"]
VoteOne == [user |-> "user_id", poll |-> "poll_id"]

One == [Poll |-> PollOne, User |-> NoEdges, Vote |-> VoteOne]

\* An edge to many rows, with the table and the column that hold it.  The
\* column of User's polls is none of Poll's fields.
PollMany == [votes |-> [type |-> "Vote", column |-> "poll_id"]]
UserMany == [polls |-> [type |-> "Poll", column |-> "user_polls"],
             votes |-> [type |-> "Vote", column |-> "user_id"]]

Many == [Poll |-> PollMany, User |-> UserMany, Vote |-> NoEdges]

----------------------------------------------------------------------------
(***************************************************************************)
(* The tables that the migration makes of them.                            *)
(***************************************************************************)
TableColumns ==
    [Poll |-> DOMAIN PollColumns \cup {"user_polls"},
     User |-> DOMAIN UserColumns, Vote |-> DOMAIN VoteColumns]

Nullable == [Poll |-> {"description", "user_polls"}, User |-> {}, Vote |-> {}]

ForeignKeys ==
    [Poll |-> [owner_id |-> "User", user_polls |-> "User"],
     User |-> NoEdges,
     Vote |-> [user_id |-> "User", poll_id |-> "Poll"]]

\* Deleting the row they refer to sets these to NULL; the others forbid it.
SetNullOnDelete == [Poll |-> {"user_polls"}, User |-> {}, Vote |-> {}]

UniqueIndexes ==
    [Poll |-> {}, User |-> {{"email"}, {"username"}}, Vote |-> {{"user_id", "poll_id"}}]
=============================================================================
