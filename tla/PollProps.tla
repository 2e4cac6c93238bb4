----------------------------- MODULE PollProps -----------------------------
(***************************************************************************)
(* What the handlers for polls and votes promise.                          *)
(***************************************************************************)
EXTENDS PollService

TypeOK ==
    /\ StoreTypeOK
    /\ call \in [Requests -> Calls \cup {NoCall}]
    /\ pc \in [Requests -> Labels]
    /\ \A r \in Requests : pc[r] # "idle" => call[r] \in Calls
    /\ seen \in [Requests -> OptionLists \cup {<<>>}]
    /\ reply \in [Requests -> {"none", "ok", "error", "lost"}]
    /\ faults \in 0..MaxFaults
    /\ raced \subseteq Requests
    /\ suspect \subseteq votes

(***************************************************************************)
(* A vote for an option its poll does not offer any more comes only from a *)
(* VoteOnPoll that was between vote_service.go:26 and :66 while an         *)
(* UpdatePoll of the poll was between poll_service.go:65 and :98: neither  *)
(* a failed statement, nor a crash after the votes were cleared, nor two   *)
(* updates that overlap each other strand a vote that was cast in peace.   *)
(***************************************************************************)
OrphansNeedOverlap ==
    \A v \in votes : v \in suspect \/ v.option \in Offered(polls[v.poll].options)

(***************************************************************************)
(* Votes leave the table only by right: by a DeleteVote or a VoteOnPoll of *)
(* their voter, or by an UpdatePoll or DeletePoll of the poll's owner, the *)
(* former for an option that its list drops.  The owner was checked some   *)
(* statements earlier (IsPollOwner, poll_service.go:119), and the polls    *)
(* table must not have dropped the poll in between.                        *)
(***************************************************************************)
VotesLeaveByRight ==
    [][\A v \in votes \ votes' : \E r \in Requests :
          /\ pc'[r] # pc[r] /\ call[r].poll = v.poll
          /\ CASE call[r].kind \in {"DeleteVote", "VoteOnPoll"} -> call[r].user = v.user
               [] call[r].kind = "UpdatePoll" ->
                    /\ Live(v.poll) /\ polls[v.poll].owner = call[r].user
                    /\ v.option \notin Offered(call[r].options)
               [] call[r].kind = "DeletePoll" ->
                    Live(v.poll) /\ polls[v.poll].owner = call[r].user
               [] OTHER -> FALSE]_vars

(***************************************************************************)
(* Once no call is under way, every vote is for an option of its poll: what*)
(* the clean-up of poll_service.go:62 is for.                              *)
(***************************************************************************)
AtRest == \A r \in Requests : pc[r] = "idle"

NoOrphansAtRest ==
    AtRest => \A v \in votes : v.option \in Offered(polls[v.poll].options)

(***************************************************************************)
(* DeletePoll has deleted the votes "first to avoid foreign key constraint *)
(* violation" (poll_service.go:111): when it deletes the poll, no vote     *)
(* refers to it.  That is so of a DeletePoll that runs by itself, for which*)
(* it says no more than what the statement before it did; it fails once a  *)
(* VoteOnPoll inserts its vote between the two (run drop).                 *)
(***************************************************************************)
DropFindsNoVotes ==
    \A r \in Requests : pc[r] = "Drop" => VotesOn(call[r].poll) = {}

(***************************************************************************)
(* VoteOnPoll deletes an existing vote only "for an invalid/deleted option"*)
(* (vote_service.go:55): what it deletes is for an option that the poll    *)
(* does not offer.  It fails for a VoteOnPoll that judges the vote by a    *)
(* list that is out of date (run revote).                                  *)
(***************************************************************************)
ReplacedVotesAreWithdrawn ==
    \A r \in Requests :
        pc[r] = "Replace" =>
            \A v \in VotesOf(call[r].user, call[r].poll) :
                v.option \notin Offered(polls[v.poll].options)

----------------------------------------------------------------------------
(***************************************************************************)
(* The tables as a client that has the server to itself sees them: the     *)
(* first statement of UpdatePoll or DeletePoll that writes decides it.     *)
(***************************************************************************)
EffectivePolls ==
    [p \in Polls |->
        IF \E r \in Requests : pc[r] = "Drop" /\ call[r].poll = p
        THEN Gone
        ELSE IF \E r \in Editors(p) : pc[r] = "Write"
        THEN [polls[p] EXCEPT !.options =
                call[CHOOSE r \in Editors(p) : pc[r] = "Write"].options]
        ELSE polls[p]]

Board == INSTANCE PollBoard WITH polls <- EffectivePolls, votes <- votes

(***************************************************************************)
(* One call at a time and up to the first failure, the handlers implement  *)
(* the board: UpdatePoll and DeletePoll take effect at once though they    *)
(* are several statements, VoteOnPoll never meets a vote for a deleted     *)
(* option, and no call is refused half way.                                *)
(***************************************************************************)
SerialCallsAreAtomic ==
    Board!InitStore /\ [][faults' = 0 => Board!BoardNext]_(Board!storeVars)
=============================================================================
