----------------------------- MODULE PollViews -----------------------------
(***************************************************************************)
(* The handlers that show polls and votes, running beside those that       *)
(* change them: GetPoll, whose answer PollToResponse makes of a row and of *)
(* the votes that a second query loads; GetVoteCounts and                  *)
(* GetVotersByOption, which look for the poll first and then select its    *)
(* votes.  ListPolls runs a single query and keeps no state of its own.    *)
(***************************************************************************)
EXTENDS PollService, FiniteSets, Functions

CONSTANTS
    Readers,        \* the reading requests that can be under way at a time
    NoAsk           \* what an idle reader serves

AskKinds == {"GetPoll", "GetVoteCounts", "GetVotersByOption"}
Asks == [kind : AskKinds, poll : Polls, option : Options]

ASSUME AskAssumption == NoAsk \notin Asks

VARIABLES
    ask,            \* the call a reader serves
    rpc,            \* the query it runs next
    row,            \* the options of the row it found
    shown,          \* the votes its answer is made of
    left,           \* those whose user it has still to query
    deleted,        \* those of them whose row is no longer in the table
    torn            \* history: readers whose row an UpdatePoll may outdate

readerVars == <<ask, rpc, row, shown, left, deleted, torn>>
allVars == <<vars, readerVars>>

----------------------------------------------------------------------------
ViewsInit ==
    /\ Init
    /\ ask = [q \in Readers |-> NoAsk]
    /\ rpc = [q \in Readers |-> "idle"]
    /\ row = [q \in Readers |-> <<>>]
    /\ shown = [q \in Readers |-> {}]
    /\ left = [q \in Readers |-> {}]
    /\ deleted = [q \in Readers |-> {}]
    /\ torn = {}

BeginRead(q) ==
    /\ rpc[q] = "idle"
    /\ \E k \in Asks :
        /\ polls[k.poll] # Unborn
        /\ ask' = [ask EXCEPT ![q] = k]
    /\ rpc' = [rpc EXCEPT ![q] = "Poll"]
    /\ shown' = [shown EXCEPT ![q] = {}]
    /\ UNCHANGED <<vars, row, left, deleted, torn>>

Close(q) ==
    /\ rpc' = [rpc EXCEPT ![q] = "idle"]
    /\ ask' = [ask EXCEPT ![q] = NoAsk]
    /\ row' = [row EXCEPT ![q] = <<>>]
    /\ left' = [left EXCEPT ![q] = {}]
    /\ deleted' = [deleted EXCEPT ![q] = {}]
    /\ torn' = torn \ {q}

\* The row; GetVotersByOption wants the option to be one of it.
ReadRow(q) ==
    /\ rpc[q] = "Poll"
    /\ LET k == ask[q]
           found == /\ Live(k.poll)
                    /\ k.kind = "GetVotersByOption" =>
                            k.option \in Offered(polls[k.poll].options)
       IN  \/ /\ ~found
              /\ Close(q)
              /\ UNCHANGED shown
           \/ /\ found
              /\ rpc' = [rpc EXCEPT ![q] = "Votes"]
              /\ row' = [row EXCEPT ![q] = polls[k.poll].options]
              /\ torn' = IF Editors(k.poll) = {} THEN torn ELSE torn \cup {q}
              /\ UNCHANGED <<ask, shown, left, deleted>>
    /\ UNCHANGED vars

Selected(k) ==
    {v \in VotesOn(k.poll) : k.kind = "GetVotersByOption" => v.option = k.option}

LoadVotes(q) ==
    /\ rpc[q] = "Votes"
    /\ LET found == Selected(ask[q])
       IN  /\ shown' = [shown EXCEPT ![q] = found]
           /\ \/ /\ ask[q].kind # "GetVotersByOption" \/ found = {}
                 /\ Close(q)
              \/ /\ ask[q].kind = "GetVotersByOption" /\ found # {}
                 /\ rpc' = [rpc EXCEPT ![q] = "Users"]
                 /\ left' = [left EXCEPT ![q] = found]
                 /\ UNCHANGED <<ask, row, deleted, torn>>
    /\ UNCHANGED vars

\* Mutant: a vote whose user is not found stays among those to query.
LoadUserAgain(q) ==
    /\ rpc[q] = "Users"
    /\ \E v \in left[q] :
        \/ /\ v \notin deleted[q]
           /\ \/ left[q] = {v} /\ Close(q)
              \/ /\ left[q] # {v}
                 /\ left' = [left EXCEPT ![q] = @ \ {v}]
                 /\ UNCHANGED <<ask, rpc, row, deleted, torn>>
           /\ UNCHANGED <<faults, shown>>
        \/ /\ \/ v \in deleted[q] /\ UNCHANGED faults
              \/ faults < MaxFaults /\ faults' = faults + 1
           /\ shown' = [shown EXCEPT ![q] = @ \ {v}]
           /\ UNCHANGED <<ask, rpc, row, left, deleted, torn>>
    /\ UNCHANGED <<polls, votes, call, pc, seen, reply, raced, suspect>>

\* One query per vote, for the user its row refers to (QueryUser joins the
\* two tables by the vote's identifier): a vote whose row is gone by then,
\* even if its user has cast the same vote again in a row of its own, or
\* whose query fails, is left out and the answer is sent without it
\* (vote_service.go:106).
LoadUser(q) ==
    /\ rpc[q] = "Users"
    /\ \E v \in left[q] :
        /\ \/ /\ v \notin deleted[q]
              /\ UNCHANGED <<faults, shown>>
           \/ /\ \/ v \in deleted[q] /\ UNCHANGED faults
                 \/ faults < MaxFaults /\ faults' = faults + 1
              /\ shown' = [shown EXCEPT ![q] = @ \ {v}]
        /\ \/ left[q] = {v} /\ Close(q)
           \/ /\ left[q] # {v}
              /\ left' = [left EXCEPT ![q] = @ \ {v}]
              /\ UNCHANGED <<ask, rpc, row, deleted, torn>>
    /\ UNCHANGED <<polls, votes, call, pc, seen, reply, raced, suspect>>

\* Any other query that fails ends the call with an error.
QueryFails(q) ==
    /\ rpc[q] \in {"Poll", "Votes"}
    /\ faults < MaxFaults
    /\ faults' = faults + 1
    /\ Close(q)
    /\ UNCHANGED <<polls, votes, call, pc, seen, reply, raced, suspect, shown>>

Read(q) == BeginRead(q) \/ ReadRow(q) \/ LoadVotes(q) \/ LoadUser(q) \/ QueryFails(q)

\* A step of a handler that writes: the votes it deletes are no longer there
\* for the queries to come, and the history notes the readers whose row an
\* UpdatePoll has begun to replace.
Write ==
    /\ \E r \in Requests : Begin(r) \/ Step(r) \/ StatementFails(r)
    /\ UNCHANGED <<ask, rpc, row, shown, left>>
    /\ deleted' = [q \in Readers |-> deleted[q] \cup (left[q] \cap (votes \ votes'))]
    /\ torn' = torn \cup {q \in Readers : rpc[q] = "Votes" /\ Editors(ask[q].poll)' # {}}

CrashAll ==
    /\ Crash
    /\ rpc' = [q \in Readers |-> "idle"]
    /\ ask' = [q \in Readers |-> NoAsk]
    /\ row' = [q \in Readers |-> <<>>]
    /\ left' = [q \in Readers |-> {}]
    /\ deleted' = [q \in Readers |-> {}]
    /\ torn' = {}
    /\ UNCHANGED shown

ViewsNext == Write \/ CrashAll \/ \E q \in Readers : Read(q)

ViewsSpec == ViewsInit /\ [][ViewsNext]_allVars

----------------------------------------------------------------------------
\* PollResponse.vote_counts and VoteCountsResponse.counts, made of the votes
\* loaded; an option that nobody chose is not in them.
VoteCounts(loaded) ==
    [o \in {v.option : v \in loaded} |-> Cardinality({v \in loaded : v.option = o})]

\* What the page of a poll shows as its total.
TotalVotes(counts) == FoldFunction(+, 0, counts)

ViewsTypeOK ==
    /\ ask \in [Readers -> Asks \cup {NoAsk}]
    /\ rpc \in [Readers -> {"idle", "Poll", "Votes", "Users"}]
    /\ \A q \in Readers : rpc[q] # "idle" => ask[q] \in Asks
    /\ row \in [Readers -> OptionLists \cup {<<>>}]
    /\ shown \in [Readers -> SUBSET VoteRows]
    /\ deleted \in [Readers -> SUBSET VoteRows]
    /\ \A q \in Readers : left[q] \subseteq shown[q]
    /\ torn \subseteq Readers

(***************************************************************************)
(* What GetPoll shows is torn only by an UpdatePoll that overlaps it: each *)
(* count is for an option of the list it shows, so that the bars of the    *)
(* page add up to its total, unless an UpdatePoll ran while GetPoll was    *)
(* between its two queries or the vote counted is an orphan.               *)
(***************************************************************************)
TornViewNeedsOverlap ==
    [][\A q \in Readers \ torn :
          rpc[q] = "Votes" /\ ask[q].kind = "GetPoll" /\ rpc'[q] = "idle" =>
              DOMAIN VoteCounts(shown'[q] \ suspect) \subseteq Offered(row[q])]_allVars

(***************************************************************************)
(* No answer counts a user twice: the counts add up to the number of       *)
(* different users that voted, even when a user's vote is replaced while   *)
(* the answer is put together.                                             *)
(***************************************************************************)
EachVoterCountsOnce ==
    \A q \in Readers :
        TotalVotes(VoteCounts(shown[q])) = Cardinality({v.user : v \in shown[q]})
=============================================================================
