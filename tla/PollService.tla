---------------------------- MODULE PollService ----------------------------
(***************************************************************************)
(* The handlers of backend/controller and backend/service that change      *)
(* polls and votes, as net/http runs them: every request in a goroutine of *)
(* its own, any number of them at a time (here: one for every member of    *)
(* Requests, which a finished request leaves to the next).                 *)
(*                                                                         *)
(* pc names the statement a request runs next; what a handler decides      *)
(* between two statements belongs to the step of the first.  A request     *)
(* carries the identity AuthMiddleware read from its access token.         *)
(***************************************************************************)
EXTENDS PollStore

CONSTANTS
    Requests,       \* the requests that can be under way at a time
    Kinds,          \* the handlers clients call
    NoCall,         \* what an idle member of Requests serves
    MaxFaults       \* how many statements fail and how often the server dies

AllKinds == {"CreatePoll", "UpdatePoll", "DeletePoll",
             "VoteOnPoll", "DeleteVote"}

Calls ==
    [kind : AllKinds, user : Users, poll : Polls,
     option : Options \cup {NoOption}, options : OptionLists \cup {<<>>}]

ASSUME KindsAssumption == Kinds \subseteq AllKinds
ASSUME CallAssumption == NoCall \notin Calls
ASSUME FaultsAssumption == MaxFaults \in Nat

VARIABLES
    call,           \* the call a request serves
    pc,             \* the statement it runs next
    seen,           \* the options list it read and decides by
    reply,          \* how the last call ended
    faults,         \* statements failed and crashes so far
    raced,          \* history: requests whose list an UpdatePoll may outdate
    suspect         \* history: the votes such requests inserted

vars == <<polls, votes, call, pc, seen, reply, faults, raced, suspect>>

Labels ==
    {"idle", "Create", "Owner", "Current", "Clear", "Write", "ClearAll", "Drop",
     "ReadPoll", "Lookup", "Replace", "Insert", "Find", "Remove"}

\* The first statement of a handler.
Entry(kind) ==
    CASE kind = "CreatePoll" -> "Create"
      [] kind \in {"UpdatePoll", "DeletePoll"} -> "Owner"
      [] kind \in {"VoteOnPoll", "DeleteVote"} -> "ReadPoll"

----------------------------------------------------------------------------
(***************************************************************************)
(* An UpdatePoll decides by the list it read at poll_service.go:65 until   *)
(* it has written the new one, a VoteOnPoll by the list it read at         *)
(* vote_service.go:26 until it has inserted its vote.  raced collects the  *)
(* requests of the latter kind whose stretch meets one of the former on    *)
(* the same poll.                                                          *)
(***************************************************************************)
Editors(p) ==
    {r \in Requests : /\ pc[r] \in {"Clear", "Write"}
                      /\ call[r].poll = p
                      /\ call[r].options # <<>>}

Holders(p) ==
    {r \in Requests : /\ pc[r] \in {"Lookup", "Replace", "Insert"}
                      /\ call[r].poll = p}

At(r, kind, label) == pc[r] = label /\ call[r].kind = kind

Goto(r, label) ==
    /\ pc' = [pc EXCEPT ![r] = label]
    /\ UNCHANGED <<call, seen, reply, raced, faults>>

\* Go on, and decide from here by the options the poll has now.
Hold(r, label) ==
    /\ pc' = [pc EXCEPT ![r] = label]
    /\ seen' = [seen EXCEPT ![r] = polls[call[r].poll].options]
    /\ UNCHANGED <<call, reply, faults>>

Answer(r, status) ==
    /\ pc' = [pc EXCEPT ![r] = "idle"]
    /\ call' = [call EXCEPT ![r] = NoCall]
    /\ seen' = [seen EXCEPT ![r] = <<>>]
    /\ reply' = [reply EXCEPT ![r] = status]
    /\ raced' = raced \ {r}
    /\ UNCHANGED faults

Reading == UNCHANGED <<polls, votes, suspect>>

----------------------------------------------------------------------------
Init ==
    /\ InitStore
    /\ call = [r \in Requests |-> NoCall]
    /\ pc = [r \in Requests |-> "idle"]
    /\ seen = [r \in Requests |-> <<>>]
    /\ reply = [r \in Requests |-> "none"]
    /\ faults = 0
    /\ raced = {}
    /\ suspect = {}

\* What the fields that a handler does not take are set to is immaterial.
Sensible(c) ==
    /\ c.kind \in Kinds
    /\ c.kind # "VoteOnPoll" => c.option = NoOption
    /\ c.kind \notin {"CreatePoll", "UpdatePoll"} => c.options = <<>>
    /\ c.kind = "CreatePoll" <=> polls[c.poll] = Unborn
    /\ c.kind = "CreatePoll" => \A q \in Requests : pc[q] = "Create" => call[q].poll # c.poll

\* A request comes in; uuid.New gives CreatePoll an identifier of its own,
\* and the other calls name a poll that has, or had, a row.
Begin(r) ==
    /\ pc[r] = "idle"
    /\ \E c \in Calls :
        /\ Sensible(c)
        /\ call' = [call EXCEPT ![r] = c]
        /\ pc' = [pc EXCEPT ![r] = Entry(c.kind)]
    /\ reply' = [reply EXCEPT ![r] = "none"]
    /\ UNCHANGED <<polls, votes, seen, faults, raced, suspect>>

----------------------------------------------------------------------------
(* CreatePoll *)

InsertPoll(r) ==
    /\ At(r, "CreatePoll", "Create")
    /\ \/ /\ Len(call[r].options) < 2
          /\ Answer(r, "error")
          /\ UNCHANGED storeVars
       \/ /\ Len(call[r].options) >= 2
          /\ CreatePollRow(call[r].poll, call[r].user, call[r].options)
          /\ Answer(r, "ok")
    /\ UNCHANGED suspect

----------------------------------------------------------------------------
(* UpdatePoll *)

\* Mutant: anybody may update a poll.
CheckOwnerNot(r) ==
    /\ At(r, "UpdatePoll", "Owner")
    /\ LET c == call[r]
           allowed == Live(c.poll) /\ Len(c.options) # 1
       IN  \/ ~allowed /\ Answer(r, "error")
           \/ allowed /\ c.options = <<>> /\ Goto(r, "Write")
           \/ allowed /\ c.options # <<>> /\ Goto(r, "Current")
    /\ Reading

CheckOwner(r) ==
    /\ At(r, "UpdatePoll", "Owner")
    /\ LET c == call[r]
           allowed == /\ Live(c.poll)
                      /\ polls[c.poll].owner = c.user
                      /\ Len(c.options) # 1
       IN  \/ ~allowed /\ Answer(r, "error")
           \/ allowed /\ c.options = <<>> /\ Goto(r, "Write")
           \/ allowed /\ c.options # <<>> /\ Goto(r, "Current")
    /\ Reading

\* Mutant: the two lists are swapped.
RemovedSwapped(old, new) == Offered(new) \ Offered(old)

Removed(old, new) == Offered(old) \ Offered(new)

ReadCurrent(r) ==
    /\ At(r, "UpdatePoll", "Current")
    /\ LET p == call[r].poll
           same == Removed(polls[p].options, call[r].options) = {}
       IN  \/ ~Live(p) /\ Answer(r, "error")
           \/ /\ Live(p)
              /\ Hold(r, IF same THEN "Write" ELSE "Clear")
              /\ raced' = raced \cup Holders(p)
    /\ Reading

ClearRemoved(r) ==
    /\ At(r, "UpdatePoll", "Clear")
    /\ DeleteVotesByPollAndOptions(call[r].poll, Removed(seen[r], call[r].options))
    /\ suspect' = suspect \cap votes'
    /\ Goto(r, "Write")

WritePoll(r) ==
    /\ At(r, "UpdatePoll", "Write")
    /\ \/ /\ UpdatePollRow(call[r].poll, call[r].options)
          /\ Answer(r, "ok")
       \/ /\ ~Live(call[r].poll)
          /\ Answer(r, "error")
          /\ UNCHANGED storeVars
    /\ UNCHANGED suspect

UpdatePoll(r) == CheckOwner(r) \/ ReadCurrent(r) \/ ClearRemoved(r) \/ WritePoll(r)

----------------------------------------------------------------------------
(* DeletePoll *)

CheckDeleter(r) ==
    /\ At(r, "DeletePoll", "Owner")
    /\ LET c == call[r]
           allowed == Live(c.poll) /\ polls[c.poll].owner = c.user
       IN  \/ ~allowed /\ Answer(r, "error")
           \/ allowed /\ Goto(r, "ClearAll")
    /\ Reading

ClearVotes(r) ==
    /\ At(r, "DeletePoll", "ClearAll")
    /\ DeleteVotesByPoll(call[r].poll)
    /\ suspect' = suspect \cap votes'
    /\ Goto(r, "Drop")

DropPoll(r) ==
    /\ At(r, "DeletePoll", "Drop")
    /\ \/ /\ DeletePollRow(call[r].poll)
          /\ Answer(r, "ok")
       \/ /\ ~Deletable(call[r].poll)
          /\ Answer(r, "error")
          /\ UNCHANGED storeVars
    /\ UNCHANGED suspect

DeletePoll(r) == CheckDeleter(r) \/ ClearVotes(r) \/ DropPoll(r)

----------------------------------------------------------------------------
(* VoteOnPoll *)

\* Mutant: the option is not looked for in the poll's list.
ReadOptionsAny(r) ==
    /\ At(r, "VoteOnPoll", "ReadPoll")
    /\ LET c == call[r]
       IN  \/ ~Live(c.poll) /\ Answer(r, "error")
           \/ /\ Live(c.poll)
              /\ Hold(r, "Lookup")
              /\ raced' = IF Editors(c.poll) = {} THEN raced ELSE raced \cup {r}
    /\ Reading

ReadOptions(r) ==
    /\ At(r, "VoteOnPoll", "ReadPoll")
    /\ LET c == call[r]
           valid == Live(c.poll) /\ c.option \in Offered(polls[c.poll].options)
       IN  \/ ~valid /\ Answer(r, "error")
           \/ /\ valid
              /\ Hold(r, "Lookup")
              /\ raced' = IF Editors(c.poll) = {} THEN raced ELSE raced \cup {r}
    /\ Reading

LookupVote(r) ==
    /\ At(r, "VoteOnPoll", "Lookup")
    /\ LET existing == VotesOf(call[r].user, call[r].poll)
           valid == \E v \in existing : v.option \in Offered(seen[r])
       IN  \/ existing = {} /\ Goto(r, "Insert")
           \/ existing # {} /\ ~valid /\ Goto(r, "Replace")
           \/ existing # {} /\ valid /\ Answer(r, "error")
    /\ Reading

ReplaceVote(r) ==
    /\ At(r, "VoteOnPoll", "Replace")
    /\ DeleteVoteByUserAndPoll(call[r].user, call[r].poll)
    /\ suspect' = suspect \cap votes'
    /\ Goto(r, "Insert")

InsertVote(r) ==
    /\ At(r, "VoteOnPoll", "Insert")
    /\ LET c == call[r]
       IN  \/ /\ CreateVote(c.user, c.poll, c.option)
              /\ suspect' = IF r \in raced THEN suspect \cup (votes' \ votes) ELSE suspect
              /\ Answer(r, "ok")
           \/ /\ ~Insertable(c.user, c.poll)
              /\ Answer(r, "error")
              /\ UNCHANGED <<polls, votes, suspect>>

VoteOnPoll(r) == ReadOptions(r) \/ LookupVote(r) \/ ReplaceVote(r) \/ InsertVote(r)

----------------------------------------------------------------------------
(* DeleteVote *)

CheckPoll(r) ==
    /\ At(r, "DeleteVote", "ReadPoll")
    /\ \/ Live(call[r].poll) /\ Goto(r, "Find")
       \/ ~Live(call[r].poll) /\ Answer(r, "error")
    /\ Reading

FindVote(r) ==
    /\ At(r, "DeleteVote", "Find")
    /\ LET existing == VotesOf(call[r].user, call[r].poll)
       IN  \/ existing # {} /\ Goto(r, "Remove")
           \/ existing = {} /\ Answer(r, "error")
    /\ Reading

RemoveVote(r) ==
    /\ At(r, "DeleteVote", "Remove")
    /\ DeleteVoteByUserAndPoll(call[r].user, call[r].poll)
    /\ suspect' = suspect \cap votes'
    /\ Answer(r, "ok")

DeleteVote(r) == CheckPoll(r) \/ FindVote(r) \/ RemoveVote(r)

----------------------------------------------------------------------------
(***************************************************************************)
(* A statement of a request under way fails and leaves the tables alone:   *)
(* every handler answers with an error, except that VoteOnPoll takes a     *)
(* failed lookup for "no vote yet" (vote_service.go:46).                   *)
(***************************************************************************)
StatementFails(r) ==
    /\ pc[r] # "idle"
    /\ faults < MaxFaults
    /\ faults' = faults + 1
    /\ \/ /\ pc[r] = "Lookup"
          /\ pc' = [pc EXCEPT ![r] = "Insert"]
          /\ UNCHANGED <<call, seen, reply, raced>>
       \/ /\ pc[r] # "Lookup"
          /\ pc' = [pc EXCEPT ![r] = "idle"]
          /\ call' = [call EXCEPT ![r] = NoCall]
          /\ seen' = [seen EXCEPT ![r] = <<>>]
          /\ reply' = [reply EXCEPT ![r] = "error"]
          /\ raced' = raced \ {r}
    /\ Reading

\* The server process dies and is started again: the tables stay.
Crash ==
    /\ \E r \in Requests : pc[r] # "idle"
    /\ faults < MaxFaults
    /\ faults' = faults + 1
    /\ pc' = [r \in Requests |-> "idle"]
    /\ call' = [r \in Requests |-> NoCall]
    /\ seen' = [r \in Requests |-> <<>>]
    /\ reply' = [r \in Requests |-> IF pc[r] = "idle" THEN reply[r] ELSE "lost"]
    /\ raced' = {}
    /\ Reading

Step(r) ==
    InsertPoll(r) \/ UpdatePoll(r) \/ DeletePoll(r) \/ VoteOnPoll(r) \/ DeleteVote(r)

Next ==
    \/ \E r \in Requests : Begin(r) \/ Step(r) \/ StatementFails(r)
    \/ Crash

Spec == Init /\ [][Next]_vars
=============================================================================
