----------------------------- MODULE PollStore -----------------------------
(***************************************************************************)
(* The polls and votes tables, and the statements the storage layer        *)
(* (backend/storage) runs on them.  Every statement is one Postgres        *)
(* transaction of its own: the storage layer never opens one that spans    *)
(* two calls, so another request can run between any two of them.          *)
(*                                                                         *)
(* A poll keeps its owner and its list of options; the title and the       *)
(* description decide nothing and are left out (an empty title is refused  *)
(* where a list that is too short is).  A list may repeat an option.       *)
(***************************************************************************)
EXTENDS Naturals, Sequences

CONSTANTS
    Users,          \* the accounts; the program has no way to delete one
    Polls,          \* the poll identifiers that can be generated
    Options,        \* the non-empty texts an option or a vote can be
    OptionLists,    \* the option lists clients send, the empty one included
    NoOption,       \* the empty text
    Unborn, Gone    \* a poll without a row: not inserted yet, or deleted

Rows == [owner : Users, options : OptionLists]
VoteRows == [user : Users, poll : Polls, option : Options]

ASSUME ListsAssumption == OptionLists \subseteq Seq(Options)
ASSUME NoOptionAssumption == NoOption \notin Options
ASSUME NoRowAssumption == Unborn \notin Rows /\ Gone \notin Rows /\ Unborn # Gone

VARIABLES
    polls,          \* the polls table
    votes           \* the votes table

storeVars == <<polls, votes>>

\* The options a list offers, however often it repeats them.
Offered(list) == {list[i] : i \in DOMAIN list}

\* The row that GetPollByID finds.
Live(p) == polls[p] \notin {Unborn, Gone}

VotesOn(p) == {v \in votes : v.poll = p}

\* The rows that GetVoteByUserAndPoll selects; Only() wants exactly one.
VotesOf(u, p) == {v \in votes : v.user = u /\ v.poll = p}

----------------------------------------------------------------------------
InitStore ==
    /\ polls = [p \in Polls |-> Unborn]
    /\ votes = {}

\* INSERT INTO polls under a fresh identifier.
CreatePollRow(p, u, list) ==
    /\ polls[p] = Unborn
    /\ polls' = [polls EXCEPT ![p] = [owner |-> u, options |-> list]]
    /\ UNCHANGED votes

\* Mutant: the list is written even when the call has none.
UpdatePollRowAlways(p, list) ==
    /\ Live(p)
    /\ polls' = [polls EXCEPT ![p] = [owner |-> polls[p].owner, options |-> list]]
    /\ UNCHANGED votes

\* UPDATE polls: an empty list leaves the options alone.
UpdatePollRow(p, list) ==
    /\ Live(p)
    /\ polls' = [polls EXCEPT ![p] =
                    [owner |-> polls[p].owner,
                     options |-> IF list = <<>> THEN polls[p].options ELSE list]]
    /\ UNCHANGED votes

\* Mutant: no foreign key.
DeletableAlways(p) == Live(p)

\* DELETE FROM polls: the foreign key of votes.poll_id has no cascade, so a
\* poll that some vote refers to cannot go.
Deletable(p) == Live(p) /\ VotesOn(p) = {}

DeletePollRow(p) ==
    /\ Deletable(p)
    /\ polls' = [polls EXCEPT ![p] = Gone]
    /\ UNCHANGED votes

\* Mutant: no unique index.
InsertableTwice(u, p) == Live(p)

\* INSERT INTO votes: the foreign key wants the poll's row, the unique index
\* on (user_id, poll_id) no other vote of the user on the poll.
Insertable(u, p) == Live(p) /\ VotesOf(u, p) = {}

CreateVote(u, p, o) ==
    /\ Insertable(u, p)
    /\ votes' = votes \cup {[user |-> u, poll |-> p, option |-> o]}
    /\ UNCHANGED polls

DeleteVoteByUserAndPoll(u, p) ==
    /\ votes' = votes \ VotesOf(u, p)
    /\ UNCHANGED polls

DeleteVotesByPollAndOptions(p, os) ==
    /\ votes' = votes \ {v \in VotesOn(p) : v.option \in os}
    /\ UNCHANGED polls

DeleteVotesByPoll(p) ==
    /\ votes' = votes \ VotesOn(p)
    /\ UNCHANGED polls

----------------------------------------------------------------------------
StoreTypeOK ==
    /\ polls \in [Polls -> Rows \cup {Unborn, Gone}]
    /\ votes \subseteq VoteRows

(***************************************************************************)
(* A user has at most one vote on a poll: the row two concurrent requests  *)
(* of VoteOnPoll both find missing is inserted once ("Ensure one vote per  *)
(* user per poll", ent/schema/vote.go:46).                                 *)
(***************************************************************************)
OneVotePerUser ==
    \A v, w \in votes : v.user = w.user /\ v.poll = w.poll => v = w

(***************************************************************************)
(* Every vote refers to a poll that has a row, whatever a vote that is     *)
(* under way finds when the poll's owner deletes it in between.            *)
(***************************************************************************)
VotesHavePolls == \A v \in votes : Live(v.poll)
=============================================================================
