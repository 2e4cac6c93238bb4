----------------------------- MODULE PollBoard -----------------------------
(***************************************************************************)
(* What the poll handlers promise a client that has the server to itself:  *)
(* every call takes effect at once or not at all, a vote is always for an  *)
(* option of its poll, and an option or a poll that goes takes its votes   *)
(* with it.                                                                *)
(***************************************************************************)
EXTENDS PollStore

Open(p, u, list) ==
    /\ Len(list) >= 2
    /\ CreatePollRow(p, u, list)

Edit(p, u, list) ==
    /\ Live(p) /\ polls[p].owner = u
    /\ Len(list) >= 2
    /\ polls' = [polls EXCEPT ![p] = [owner |-> u, options |-> list]]
    /\ votes' = {v \in votes : v.poll = p => v.option \in Offered(list)}

Close(p, u) ==
    /\ Live(p) /\ polls[p].owner = u
    /\ polls' = [polls EXCEPT ![p] = Gone]
    /\ votes' = votes \ VotesOn(p)

Cast(u, p, o) ==
    /\ Live(p) /\ o \in Offered(polls[p].options)
    /\ CreateVote(u, p, o)

Retract(u, p) ==
    /\ VotesOf(u, p) # {}
    /\ DeleteVoteByUserAndPoll(u, p)

BoardNext ==
    \E u \in Users, p \in Polls :
        \/ \E list \in OptionLists : Open(p, u, list) \/ Edit(p, u, list)
        \/ Close(p, u)
        \/ \E o \in Options : Cast(u, p, o)
        \/ Retract(u, p)
=============================================================================
