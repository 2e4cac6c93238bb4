-------------------------- MODULE PollSerialProofs --------------------------
(***************************************************************************)
(* Two proofs about the poll handlers: that votes leave the table only by  *)
(* right, for any number of concurrent requests; and what the handlers     *)
(* promise a client that has the server to itself, where they implement    *)
(* PollBoard.                                                              *)
(***************************************************************************)
EXTENDS PollServiceProofs, SequenceTheorems

(***************************************************************************)
(* IsPollOwner decides some statements before its handler writes.  What it *)
(* has found stays true: the owner of a poll never changes, and a poll     *)
(* that is deleted does not come back.                                     *)
(***************************************************************************)
OwnedBy(p, u) == polls[p] = Gone \/ (Live(p) /\ polls[p].owner = u)

OwnerChecked(r) == pc[r] \in {"Current", "Clear", "Write", "ClearAll", "Drop"}

OwnersHold == \A r \in Requests : OwnerChecked(r) => OwnedBy(call[r].poll, call[r].user)

LEMMA OwnersStay ==
    ASSUME StoreInv, TableStep, NEW p \in Polls, NEW u, OwnedBy(p, u)
    PROVE  OwnedBy(p, u)'
<1> USE DEF StoreInv, StoreTypeOK, OwnedBy, Live
<1>1. CASE UNCHANGED polls
  BY <1>1
<1>2. ASSUME NEW q \in Polls, NEW w \in Users, NEW list \in OptionLists, CreatePollRow(q, w, list)
      PROVE  OwnedBy(p, u)'
  BY <1>2, NoRowAssumption DEF CreatePollRow
<1>3. ASSUME NEW q \in Polls, NEW list \in OptionLists \cup {<<>>}, UpdatePollRow(q, list)
      PROVE  OwnedBy(p, u)'
  <2>1. polls[q] \in Rows /\ polls'[q] \in Rows /\ polls'[q].owner = polls[q].owner
    BY <1>3, LiveRow DEF UpdatePollRow, Rows
  <2>2. \A s \in Polls \ {q} : polls'[s] = polls[s]
    BY <1>3 DEF UpdatePollRow
  <2> QED
    BY <2>1, <2>2, NoRowAssumption
<1>4. ASSUME NEW q \in Polls, DeletePollRow(q)
      PROVE  OwnedBy(p, u)'
  BY <1>4 DEF DeletePollRow
<1> QED
  BY <1>1, <1>2, <1>3, <1>4 DEF TableStep, storeVars, CreateVote

\* A handler comes past the check only by making it.
LEMMA OwnersAreChecked ==
    ASSUME TypeInv, [Next]_vars, NEW q \in Requests, OwnerChecked(q)'
    PROVE  /\ pc[q] # "idle" /\ call'[q] = call[q]
           /\ OwnerChecked(q) \/ OwnedBy(call[q].poll, call[q].user)
<1> USE DEF TypeInv, OwnerChecked, RequestInv
<1>1. CASE UNCHANGED vars
  BY <1>1 DEF vars
<1>2. CASE Crash
  BY <1>2 DEF Crash
<1>3. ASSUME NEW r \in Requests, StatementFails(r)
      PROVE  pc'[q] = pc[q] /\ call'[q] = call[q]
  BY <1>3 DEF StatementFails
<1>4. ASSUME NEW r \in Requests, Begin(r)
      PROVE  pc'[q] = pc[q] /\ call'[q] = call[q]
  <2>1. PICK c \in Calls : /\ call' = [call EXCEPT ![r] = c]
                           /\ pc' = [pc EXCEPT ![r] = Entry(c.kind)]
    BY <1>4 DEF Begin
  <2>2. Entry(c.kind) \in {"Create", "Owner", "ReadPoll"}
    BY DEF Entry, Calls, AllKinds
  <2> QED
    BY <2>1, <2>2
<1>5. ASSUME NEW r \in Requests, Step(r)
      PROVE  /\ pc[q] # "idle" /\ call'[q] = call[q]
             /\ OwnerChecked(q) \/ OwnedBy(call[q].poll, call[q].user)
  <2>1. CASE InsertPoll(r)
    BY <2>1 DEF InsertPoll, Answer
  <2>2. CASE UpdatePoll(r)
    BY <2>2 DEF UpdatePoll, CheckOwner, ReadCurrent, ClearRemoved, WritePoll, At, Goto, Hold,
       Answer, OwnedBy
  <2>3. CASE DeletePoll(r)
    BY <2>3 DEF DeletePoll, CheckDeleter, ClearVotes, DropPoll, At, Goto, Answer, OwnedBy
  <2>4. CASE VoteOnPoll(r)
    BY <2>4 DEF VoteOnPoll, ReadOptions, LookupVote, ReplaceVote, InsertVote, Goto, Hold, Answer
  <2>5. CASE DeleteVote(r)
    BY <2>5 DEF DeleteVote, CheckPoll, FindVote, RemoveVote, Goto, Answer
  <2> QED
    BY <1>5, <2>1, <2>2, <2>3, <2>4, <2>5 DEF Step
<1> QED
  BY <1>1, <1>2, <1>3, <1>4, <1>5 DEF Next

LEMMA OwnersNext == TypeInv /\ OwnersHold /\ [Next]_vars => OwnersHold'
<1> SUFFICES ASSUME TypeInv, OwnersHold, [Next]_vars, NEW q \in Requests, OwnerChecked(q)'
             PROVE  OwnedBy(call[q].poll, call[q].user)'
  BY DEF OwnersHold
<1>1. /\ pc[q] # "idle" /\ call'[q] = call[q]
      /\ OwnedBy(call[q].poll, call[q].user)
  BY OwnersAreChecked DEF OwnersHold
<1>2. PICK c \in Calls : c = call[q]
  BY <1>1 DEF TypeInv, RequestInv
<1>3. OwnedBy(c.poll, c.user)'
  BY <1>1, <1>2, OwnersStay, StepsAreTableSteps DEF TypeInv, Calls
<1> QED
  BY <1>1, <1>2, <1>3

LEMMA OwnersAlways == Spec => [](TypeInv /\ VotesHavePolls /\ OwnersHold)
<1>1. Init => OwnersHold
  BY DEF Init, OwnersHold, OwnerChecked
<1>2. Spec => []TypeInv
  BY TypeInit, TypeNext, PTL DEF Spec
<1>3. TypeInv /\ OwnersHold /\ [Next]_vars => OwnersHold'
  BY OwnersNext
<1> QED
  BY <1>1, <1>2, <1>3, NoVoteWithoutPoll, PTL DEF Spec

----------------------------------------------------------------------------
\* What VotesLeaveByRight says of a vote that leaves.
LeavesByRight(v) ==
    \E r \in Requests :
        /\ pc'[r] # pc[r] /\ call[r].poll = v.poll
        /\ CASE call[r].kind \in {"DeleteVote", "VoteOnPoll"} -> call[r].user = v.user
             [] call[r].kind = "UpdatePoll" ->
                  /\ Live(v.poll) /\ polls[v.poll].owner = call[r].user
                  /\ v.option \notin Offered(call[r].options)
             [] call[r].kind = "DeletePoll" ->
                  Live(v.poll) /\ polls[v.poll].owner = call[r].user
             [] OTHER -> FALSE

LEMMA RightfulStep ==
    ASSUME TypeInv, VotesHavePolls, OwnersHold, NEW r \in Requests, Step(r),
           NEW v \in votes \ votes'
    PROVE  LeavesByRight(v)
<1> USE DEF TypeInv, RequestInv
<1>1. CASE ClearRemoved(r)
  <2>1. /\ At(r, "UpdatePoll", "Clear") /\ pc'[r] = "Write"
        /\ v \in VotesOn(call[r].poll) /\ v.option \in Removed(seen[r], call[r].options)
    BY <1>1 DEF ClearRemoved, DeleteVotesByPollAndOptions, Goto
  <2>2. OwnedBy(v.poll, call[r].user) /\ Live(v.poll)
    BY <2>1 DEF OwnersHold, OwnerChecked, At, VotesOn, VotesHavePolls
  <2> QED
    BY <2>1, <2>2 DEF LeavesByRight, At, VotesOn, OwnedBy, Live, Removed
<1>2. CASE ClearVotes(r)
  <2>1. At(r, "DeletePoll", "ClearAll") /\ pc'[r] = "Drop" /\ v \in VotesOn(call[r].poll)
    BY <1>2 DEF ClearVotes, DeleteVotesByPoll, Goto
  <2>2. OwnedBy(v.poll, call[r].user) /\ Live(v.poll)
    BY <2>1 DEF OwnersHold, OwnerChecked, At, VotesOn, VotesHavePolls
  <2> QED
    BY <2>1, <2>2 DEF LeavesByRight, At, VotesOn, OwnedBy, Live
<1>3. CASE ReplaceVote(r)
  BY <1>3 DEF ReplaceVote, DeleteVoteByUserAndPoll, VotesOf, Goto, LeavesByRight, At
<1>4. CASE RemoveVote(r)
  BY <1>4 DEF RemoveVote, DeleteVoteByUserAndPoll, VotesOf, Answer, LeavesByRight, At
<1>5. CASE ~(ClearRemoved(r) \/ ClearVotes(r) \/ ReplaceVote(r) \/ RemoveVote(r))
  <2>1. votes \subseteq votes'
    BY <1>5 DEF Step, InsertPoll, UpdatePoll, CheckOwner, ReadCurrent, WritePoll,
       DeletePoll, CheckDeleter, DropPoll, VoteOnPoll, ReadOptions, LookupVote, InsertVote,
       DeleteVote, CheckPoll, FindVote, Reading, storeVars, CreatePollRow, UpdatePollRow,
       DeletePollRow, CreateVote
  <2> QED
    BY <2>1
<1> QED
  BY <1>1, <1>2, <1>3, <1>4, <1>5

(***************************************************************************)
(* However the requests interleave, a vote is deleted only by its voter or *)
(* by the owner of its poll, and by an UpdatePoll only for an option that  *)
(* its list drops.                                                         *)
(***************************************************************************)
THEOREM VotesAreSafe == Spec => VotesLeaveByRight
<1>1. ASSUME TypeInv, VotesHavePolls, OwnersHold, Next, NEW v \in votes \ votes'
      PROVE  LeavesByRight(v)
  BY <1>1, RightfulStep DEF Next, Begin, StatementFails, Crash, Reading
<1>2. TypeInv /\ VotesHavePolls /\ OwnersHold /\ [Next]_vars =>
          [\A v \in votes \ votes' : \E r \in Requests :
              /\ pc'[r] # pc[r] /\ call[r].poll = v.poll
              /\ CASE call[r].kind \in {"DeleteVote", "VoteOnPoll"} -> call[r].user = v.user
                   [] call[r].kind = "UpdatePoll" ->
                        /\ Live(v.poll) /\ polls[v.poll].owner = call[r].user
                        /\ v.option \notin Offered(call[r].options)
                   [] call[r].kind = "DeletePoll" ->
                        Live(v.poll) /\ polls[v.poll].owner = call[r].user
                   [] OTHER -> FALSE]_vars
  BY <1>1 DEF LeavesByRight
<1> QED
  BY <1>2, OwnersAlways, PTL DEF Spec, VotesLeaveByRight

----------------------------------------------------------------------------
(***************************************************************************)
(* One call at a time.  What a handler has read is then still so when it   *)
(* decides by it.                                                          *)
(***************************************************************************)
Alone == \A q, r \in Requests : q = r

Row(r) == polls[call[r].poll]

UpToDate(r) ==
    /\ OwnerChecked(r) => Live(call[r].poll)
    /\ pc[r] \in {"Current", "Clear", "Write"} => Len(call[r].options) # 1
    /\ pc[r] = "Clear" => seen[r] = Row(r).options
    /\ Voting(r) => /\ Live(call[r].poll)
                    /\ seen[r] = Row(r).options
                    /\ call[r].option \in Offered(seen[r])

SerialInv ==
    /\ raced = {} /\ suspect = {}
    /\ \A r \in Requests : UpToDate(r)
    /\ DropFindsNoVotes
    /\ ReplacedVotesAreWithdrawn

Calm == TypeInv /\ VotesHavePolls /\ OwnersHold /\ OverlapInv /\ SerialInv

LEMMA SerialAnswer ==
    ASSUME Alone, Calm, NEW r \in Requests, NEW status, Answer(r, status), suspect' = {}
    PROVE  SerialInv'
<1>1. pc'[r] = "idle" /\ raced' = {}
  BY DEF Answer, Calm, TypeInv, RequestInv, SerialInv
<1> QED
  BY <1>1 DEF Alone, SerialInv, UpToDate, OwnerChecked, Voting, DropFindsNoVotes,
     ReplacedVotesAreWithdrawn

LEMMA SerialBegin ==
    ASSUME Alone, Calm, NEW r \in Requests, Begin(r)
    PROVE  SerialInv'
<1>1. PICK c \in Calls : pc' = [pc EXCEPT ![r] = Entry(c.kind)]
  BY DEF Begin
<1>2. Entry(c.kind) \in {"Create", "Owner", "ReadPoll"}
  BY DEF Entry, Calls, AllKinds
<1>3. pc'[r] \in {"Create", "Owner", "ReadPoll"} /\ raced' = {} /\ suspect' = {}
  BY <1>1, <1>2 DEF Begin, Calm, TypeInv, RequestInv, SerialInv
<1> QED
  BY <1>3 DEF Alone, SerialInv, UpToDate, OwnerChecked, Voting, DropFindsNoVotes,
     ReplacedVotesAreWithdrawn

LEMMA SerialUpdatePoll ==
    ASSUME Alone, Calm, NEW r \in Requests, UpdatePoll(r)
    PROVE  SerialInv'
<1> USE DEF Calm, TypeInv, RequestInv
<1>1. suspect' = {}
  BY DEF SerialInv, UpdatePoll, CheckOwner, ReadCurrent, ClearRemoved, WritePoll, Reading
<1>2. CASE \E status : Answer(r, status)
  BY <1>1, <1>2, SerialAnswer
<1>3. CASE CheckOwner(r) /\ ~\E status : Answer(r, status)
  <2>1. /\ Live(call[r].poll) /\ Len(call[r].options) # 1
        /\ pc'[r] \in {"Write", "Current"} /\ UNCHANGED <<polls, call, raced>>
    BY <1>3 DEF CheckOwner, Goto, Reading
  <2> QED
    BY <1>1, <2>1 DEF Alone, SerialInv, UpToDate, OwnerChecked, Voting, Live,
       DropFindsNoVotes, ReplacedVotesAreWithdrawn
<1>4. CASE ReadCurrent(r) /\ ~\E status : Answer(r, status)
  <2>1. /\ pc[r] = "Current" /\ Live(call[r].poll)
        /\ pc'[r] \in {"Write", "Clear"} /\ seen'[r] = Row(r).options
        /\ UNCHANGED <<polls, call>> /\ raced' = raced \cup Holders(call[r].poll)
    BY <1>4 DEF ReadCurrent, At, Hold, Reading, Row
  <2>2. Holders(call[r].poll) = {}
    BY <2>1 DEF Holders, Alone
  <2> QED
    BY <1>1, <2>1, <2>2 DEF Alone, SerialInv, UpToDate, OwnerChecked, Voting, Live, Row,
       DropFindsNoVotes, ReplacedVotesAreWithdrawn
<1>5. CASE ClearRemoved(r)
  <2>1. pc[r] = "Clear" /\ pc'[r] = "Write" /\ UNCHANGED <<polls, call, raced>>
    BY <1>5 DEF ClearRemoved, At, Goto, DeleteVotesByPollAndOptions
  <2> QED
    BY <1>1, <2>1 DEF Alone, SerialInv, UpToDate, OwnerChecked, Voting, Live,
       DropFindsNoVotes, ReplacedVotesAreWithdrawn
<1> QED
  BY <1>2, <1>3, <1>4, <1>5 DEF UpdatePoll, WritePoll

LEMMA SerialDeletePoll ==
    ASSUME Alone, Calm, NEW r \in Requests, DeletePoll(r)
    PROVE  SerialInv'
<1> USE DEF Calm, TypeInv, RequestInv
<1>1. suspect' = {}
  BY DEF SerialInv, DeletePoll, CheckDeleter, ClearVotes, DropPoll, Reading
<1>2. CASE \E status : Answer(r, status)
  BY <1>1, <1>2, SerialAnswer
<1>3. CASE CheckDeleter(r) /\ ~\E status : Answer(r, status)
  <2>1. Live(call[r].poll) /\ pc'[r] = "ClearAll" /\ UNCHANGED <<polls, call, raced>>
    BY <1>3 DEF CheckDeleter, Goto, Reading
  <2> QED
    BY <1>1, <2>1 DEF Alone, SerialInv, UpToDate, OwnerChecked, Voting, Live,
       DropFindsNoVotes, ReplacedVotesAreWithdrawn
<1>4. CASE ClearVotes(r)
  <2>1. /\ pc[r] = "ClearAll" /\ pc'[r] = "Drop" /\ UNCHANGED <<polls, call, raced>>
        /\ votes' = votes \ VotesOn(call[r].poll)
    BY <1>4 DEF ClearVotes, At, Goto, DeleteVotesByPoll
  <2>2. DropFindsNoVotes'
    BY <2>1 DEF Alone, DropFindsNoVotes, VotesOn
  <2> QED
    BY <1>1, <2>1, <2>2 DEF Alone, SerialInv, UpToDate, OwnerChecked, Voting, Live,
       ReplacedVotesAreWithdrawn
<1> QED
  BY <1>2, <1>3, <1>4 DEF DeletePoll, DropPoll

LEMMA SerialVoteOnPoll ==
    ASSUME Alone, Calm, NEW r \in Requests, VoteOnPoll(r)
    PROVE  SerialInv'
<1> USE DEF Calm, TypeInv, RequestInv
<1>1. suspect' = {}
  BY DEF SerialInv, VoteOnPoll, ReadOptions, LookupVote, ReplaceVote, InsertVote, Reading
<1>2. CASE \E status : Answer(r, status)
  BY <1>1, <1>2, SerialAnswer
<1>3. CASE ReadOptions(r) /\ ~\E status : Answer(r, status)
  <2>1. /\ Live(call[r].poll) /\ call[r].option \in Offered(Row(r).options)
        /\ pc[r] = "ReadPoll" /\ pc'[r] = "Lookup" /\ seen'[r] = Row(r).options
        /\ UNCHANGED <<polls, call>>
        /\ raced' = IF Editors(call[r].poll) = {} THEN raced ELSE raced \cup {r}
    BY <1>3 DEF ReadOptions, At, Hold, Reading, Row
  <2>2. Editors(call[r].poll) = {}
    BY <2>1 DEF Editors, Alone
  <2> QED
    BY <1>1, <2>1, <2>2 DEF Alone, SerialInv, UpToDate, OwnerChecked, Voting, Live, Row,
       DropFindsNoVotes, ReplacedVotesAreWithdrawn, Offered
<1>4. CASE LookupVote(r) /\ ~\E status : Answer(r, status)
  <2>1. /\ pc[r] = "Lookup" /\ pc'[r] \in {"Insert", "Replace"}
        /\ UNCHANGED <<polls, votes, call, seen, raced>>
    BY <1>4 DEF LookupVote, At, Goto, Reading
  <2>2. pc'[r] = "Replace" =>
          \A v \in VotesOf(call[r].user, call[r].poll) : v.option \notin Offered(seen[r])
    BY <1>4, <2>1 DEF LookupVote, Goto
  <2>3. ReplacedVotesAreWithdrawn'
    BY <2>1, <2>2 DEF Alone, SerialInv, UpToDate, Voting, Row, ReplacedVotesAreWithdrawn,
       VotesOf, Offered
  <2> QED
    BY <1>1, <2>1, <2>3 DEF Alone, SerialInv, UpToDate, OwnerChecked, Voting, Live, Row,
       DropFindsNoVotes
<1>5. CASE ReplaceVote(r)
  <2>1. pc[r] = "Replace" /\ pc'[r] = "Insert" /\ UNCHANGED <<polls, call, seen, raced>>
    BY <1>5 DEF ReplaceVote, At, Goto, DeleteVoteByUserAndPoll
  <2> QED
    BY <1>1, <2>1 DEF Alone, SerialInv, UpToDate, OwnerChecked, Voting, Live, Row,
       DropFindsNoVotes, ReplacedVotesAreWithdrawn
<1> QED
  BY <1>2, <1>3, <1>4, <1>5 DEF VoteOnPoll, InsertVote, SerialInv

LEMMA SerialRest ==
    ASSUME Alone, Calm, NEW r \in Requests,
           InsertPoll(r) \/ DeleteVote(r) \/ StatementFails(r) \/ Crash
    PROVE  SerialInv'
<1> USE DEF Calm, TypeInv, RequestInv
<1>1. suspect' = {}
  BY DEF SerialInv, InsertPoll, DeleteVote, CheckPoll, FindVote, RemoveVote, StatementFails,
     Crash, Reading
<1>2. CASE \E status : Answer(r, status)
  BY <1>1, <1>2, SerialAnswer
<1>3. CASE pc'[r] = "idle" /\ raced' = {}
  BY <1>1, <1>3 DEF Alone, SerialInv, UpToDate, OwnerChecked, Voting, DropFindsNoVotes,
     ReplacedVotesAreWithdrawn
<1>4. CASE pc'[r] \in {"Find", "Remove"} /\ raced' = raced
  BY <1>1, <1>4 DEF Alone, SerialInv, UpToDate, OwnerChecked, Voting, DropFindsNoVotes,
     ReplacedVotesAreWithdrawn
<1>5. CASE StatementFails(r) /\ pc[r] = "Lookup"
  <2>1. pc'[r] = "Insert" /\ UNCHANGED <<polls, votes, call, seen, raced>>
    BY <1>5 DEF StatementFails, Reading
  <2> QED
    BY <1>1, <1>5, <2>1 DEF Alone, SerialInv, UpToDate, OwnerChecked, Voting, Live, Row,
       DropFindsNoVotes, ReplacedVotesAreWithdrawn
<1>6. CASE StatementFails(r) /\ pc[r] # "Lookup"
  BY <1>3, <1>6 DEF StatementFails, SerialInv
<1>7. CASE Crash
  BY <1>3, <1>7 DEF Crash
<1>8. CASE InsertPoll(r)
  BY <1>2, <1>8 DEF InsertPoll
<1>9. CASE DeleteVote(r)
  BY <1>2, <1>4, <1>9 DEF DeleteVote, CheckPoll, FindVote, RemoveVote, Goto
<1> QED
  BY <1>5, <1>6, <1>7, <1>8, <1>9

LEMMA SerialNext ==
    ASSUME Alone
    PROVE  Calm /\ [Next]_vars => SerialInv'
<1> SUFFICES ASSUME Calm, [Next]_vars PROVE SerialInv'
  OBVIOUS
<1>1. CASE UNCHANGED vars
  BY <1>1 DEF vars, Calm, SerialInv, UpToDate, OwnerChecked, Voting, Live, Row,
     DropFindsNoVotes, ReplacedVotesAreWithdrawn, VotesOn, VotesOf
<1>2. CASE Crash
  <2>1. PICK r \in Requests : TRUE
    BY <1>2 DEF Crash
  <2> QED
    BY <1>2, SerialRest
<1>3. ASSUME NEW r \in Requests, Begin(r) \/ Step(r) \/ StatementFails(r)
      PROVE  SerialInv'
  BY <1>3, SerialBegin, SerialUpdatePoll, SerialDeletePoll, SerialVoteOnPoll, SerialRest
  DEF Step
<1> QED
  BY <1>1, <1>2, <1>3 DEF Next

LEMMA CalmAlways ==
    ASSUME Alone
    PROVE  Spec => []Calm
<1>1. Init => SerialInv
  BY DEF Init, SerialInv, UpToDate, OwnerChecked, Voting, DropFindsNoVotes,
     ReplacedVotesAreWithdrawn
<1>2. TypeInv /\ VotesHavePolls /\ OwnersHold /\ OverlapInv /\ SerialInv /\ [Next]_vars
        => SerialInv'
  BY SerialNext DEF Calm
<1>3. Calm <=> TypeInv /\ VotesHavePolls /\ OwnersHold /\ OverlapInv /\ SerialInv
  BY DEF Calm
<1> QED
  BY <1>1, <1>2, <1>3, OwnersAlways, OverlapAlways, PTL DEF Spec

(***************************************************************************)
(* As long as calls do not overlap, no vote is left on an option that its  *)
(* poll has dropped, whatever fails and wherever the server dies.          *)
(***************************************************************************)
THEOREM NoOrphansAlone ==
    ASSUME Alone
    PROVE  Spec => []NoOrphansAtRest
<1>1. Calm => NoOrphansAtRest
  BY DEF Calm, SerialInv, OverlapInv, OrphansNeedOverlap, NoOrphansAtRest
<1> QED
  BY <1>1, CalmAlways, PTL

----------------------------------------------------------------------------
(***************************************************************************)
(* The refinement: the tables as EffectivePolls shows them, for the one    *)
(* request there is.                                                       *)
(***************************************************************************)
Effect(ps, label, c) ==
    IF label = "Drop" THEN [ps EXCEPT ![c.poll] = Gone]
    ELSE IF label = "Write" /\ c.options # <<>>
    THEN [ps EXCEPT ![c.poll] = [ps[c.poll] EXCEPT !.options = c.options]]
    ELSE ps

LEMMA EffectAlone ==
    ASSUME Alone, TypeInv, NEW r \in Requests
    PROVE  EffectivePolls = Effect(polls, pc[r], call[r])
<1> DEFINE p == call[r].poll
<1>1. polls \in [Polls -> Rows \cup {Unborn, Gone}]
  BY DEF TypeInv, StoreInv, StoreTypeOK
<1>2. CASE pc[r] = "Drop"
  BY <1>1, <1>2 DEF EffectivePolls, Effect, Editors, Alone
<1>3. CASE pc[r] = "Write" /\ call[r].options # <<>>
  <2>1. Editors(p) = {r} /\ \A s : s # p => Editors(s) = {}
    BY <1>3 DEF Editors, Alone
  <2>2. (CHOOSE q \in Editors(p) : pc[q] = "Write") = r
    BY <1>3, <2>1
  <2>3. \A q \in Requests : pc[q] # "Drop"
    BY <1>3 DEF Alone
  <2>4. EffectivePolls = [s \in Polls |-> IF s = p
                             THEN [polls[p] EXCEPT !.options = call[r].options] ELSE polls[s]]
    BY <1>3, <2>1, <2>2, <2>3 DEF EffectivePolls
  <2> QED
    BY <1>1, <1>3, <2>4 DEF Effect
<1>4. CASE pc[r] # "Drop" /\ ~(pc[r] = "Write" /\ call[r].options # <<>>)
  BY <1>1, <1>4 DEF EffectivePolls, Effect, Editors, Alone
<1> QED
  BY <1>2, <1>3, <1>4

LEMMA EffectNext ==
    ASSUME Alone, NEW r \in Requests
    PROVE  TypeInv' => (EffectivePolls = Effect(polls, pc[r], call[r]))'
<1>1. TypeInv => EffectivePolls = Effect(polls, pc[r], call[r])
  BY EffectAlone
<1> QED
  BY <1>1, PTL

\* Between the calls, and until their deciding statement.
Plain(r) == pc[r] # "Drop" /\ ~(pc[r] = "Write" /\ call[r].options # <<>>)

Both == Alone /\ Calm /\ TypeInv'

LEMMA PlainEffect ==
    ASSUME Both, NEW r \in Requests
    PROVE  /\ Plain(r) => EffectivePolls = polls
           /\ Plain(r)' => EffectivePolls' = polls'
BY EffectAlone, EffectNext DEF Both, Calm, Plain, Effect

LEMMA PlainStep ==
    ASSUME Both, NEW r \in Requests, Plain(r), Plain(r)', UNCHANGED storeVars
    PROVE  UNCHANGED Board!storeVars
BY PlainEffect DEF storeVars, Board!storeVars

LEMMA AnswerIsPlain ==
    ASSUME Both, NEW r \in Requests, NEW status, Answer(r, status)
    PROVE  Plain(r)'
BY DEF Both, Calm, TypeInv, RequestInv, Answer, Plain

LEMMA BoardInsertPoll ==
    ASSUME Both, NEW r \in Requests, InsertPoll(r)
    PROVE  [Board!BoardNext]_(Board!storeVars)
<1> USE DEF Both, Calm, TypeInv, RequestInv
<1>1. Plain(r) /\ Plain(r)' /\ call[r] \in Calls
  BY AnswerIsPlain DEF InsertPoll, At, Plain
<1>2. CASE /\ Len(call[r].options) >= 2
           /\ CreatePollRow(call[r].poll, call[r].user, call[r].options)
  <2>1. call[r].options \in OptionLists
    BY <1>1, <1>2 DEF Calls
  <2>2. Board!Open(call[r].poll, call[r].user, call[r].options)
    BY <1>1, <1>2, PlainEffect DEF CreatePollRow, Board!Open, Board!CreatePollRow
  <2> QED
    BY <1>1, <2>1, <2>2 DEF Board!BoardNext, Calls
<1> QED
  BY <1>1, <1>2, PlainStep DEF InsertPoll

LEMMA TwoOrMore ==
    ASSUME NEW S, NEW list \in Seq(S), list # <<>>, Len(list) # 1
    PROVE  Len(list) >= 2
<1>1. Len(list) \in Nat \ {0}
  BY EmptySeq
<1>2. \A n \in Nat \ {0} : n # 1 => n >= 2
  OBVIOUS
<1> QED
  BY <1>1, <1>2

(***************************************************************************)
(* UpdatePoll takes effect with ClearRemoved, or with ReadCurrent if it    *)
(* drops nothing: the write that follows only catches up.                  *)
(***************************************************************************)
LEMMA BoardEdit ==
    ASSUME Both, NEW r \in Requests, Plain(r), pc[r] \in {"Current", "Clear"},
           pc'[r] = "Write", UNCHANGED <<polls, call>>,
           votes' = {v \in votes : v.poll = call[r].poll => v.option \in Offered(call[r].options)}
    PROVE  [Board!BoardNext]_(Board!storeVars)
<1> USE DEF Both, Calm, TypeInv, RequestInv
<1> DEFINE p == call[r].poll
<1> DEFINE list == call[r].options
<1>1. /\ call[r] \in Calls /\ p \in Polls /\ list # <<>> /\ Len(list) # 1 /\ Live(p)
      /\ polls[p].owner = call[r].user
  BY DEF LabelsAgree, Calls, SerialInv, UpToDate, OwnersHold, OwnerChecked, OwnedBy, Live
<1>2. list \in OptionLists /\ Len(list) >= 2
  <2>1. list \in OptionLists
    BY <1>1 DEF Calls
  <2>2. list \in Seq(Options)
    BY <2>1, ListsAssumption
  <2> QED
    BY <1>1, <2>1, <2>2, TwoOrMore
<1>3. polls[p] \in Rows
  BY <1>1, LiveRow DEF StoreInv
<1>4. EffectivePolls' = [polls EXCEPT ![p] = [owner |-> call[r].user, options |-> list]]
  BY <1>1, <1>3, EffectNext DEF Effect, Rows
<1>5. Board!Edit(p, call[r].user, list)
  BY <1>1, <1>2, <1>4, PlainEffect DEF Board!Edit, Board!Live, Live, Board!Offered, Offered
<1> QED
  BY <1>1, <1>2, <1>5 DEF Board!BoardNext, Calls

LEMMA BoardUpdatePoll ==
    ASSUME Both, NEW r \in Requests, UpdatePoll(r)
    PROVE  [Board!BoardNext]_(Board!storeVars)
<1> USE DEF Both, Calm, TypeInv, RequestInv
<1> DEFINE p == call[r].poll
<1> DEFINE list == call[r].options
<1>1. call[r] \in Calls /\ p \in Polls
  BY DEF UpdatePoll, CheckOwner, ReadCurrent, ClearRemoved, WritePoll, At, Calls
<1>2. CASE CheckOwner(r)
  <2>1. Plain(r) /\ Plain(r)' /\ UNCHANGED storeVars
    BY <1>2, AnswerIsPlain DEF CheckOwner, At, Plain, Goto, Reading, storeVars
  <2> QED
    BY <2>1, PlainStep
<1>3. CASE ReadCurrent(r)
  <2>1. Plain(r) /\ pc[r] = "Current" /\ UNCHANGED storeVars
    BY <1>3 DEF ReadCurrent, At, Plain, Reading, storeVars
  <2>2. CASE Answer(r, "error") \/ Hold(r, "Clear")
    BY <2>1, <2>2, AnswerIsPlain, PlainStep DEF Hold, Plain
  <2>3. CASE Removed(polls[p].options, list) = {} /\ Hold(r, "Write")
    <3>1. pc'[r] = "Write" /\ UNCHANGED <<polls, call>>
      BY <2>1, <2>3 DEF Hold, storeVars
    <3>2. \A v \in votes : v.poll = p => v.option \in Offered(list)
      <4>1. Offered(polls[p].options) \subseteq Offered(list)
        BY <2>3 DEF Removed
      <4>2. \A v \in votes : v.option \in Offered(polls[v.poll].options)
        BY DEF OverlapInv, OrphansNeedOverlap, SerialInv
      <4> QED
        BY <4>1, <4>2
    <3>3. votes' = {v \in votes : v.poll = p => v.option \in Offered(list)}
      BY <2>1, <3>2 DEF storeVars
    <3> QED
      BY <2>1, <3>1, <3>3, BoardEdit
  <2> QED
    BY <1>3, <2>2, <2>3 DEF ReadCurrent
<1>4. CASE ClearRemoved(r)
  <2>1. /\ Plain(r) /\ pc[r] = "Clear" /\ pc'[r] = "Write" /\ UNCHANGED <<polls, call>>
        /\ votes' = votes \ {v \in VotesOn(p) : v.option \in Removed(seen[r], list)}
    BY <1>4 DEF ClearRemoved, At, Goto, Plain, DeleteVotesByPollAndOptions
  <2>2. \A v \in VotesOn(p) : v.option \in Offered(seen[r])
    BY <2>1 DEF OverlapInv, OrphansNeedOverlap, SerialInv, UpToDate, Row, VotesOn
  <2>3. votes' = {v \in votes : v.poll = p => v.option \in Offered(list)}
    BY <2>1, <2>2 DEF VotesOn, Removed
  <2> QED
    BY <2>1, <2>3, BoardEdit
<1>5. CASE WritePoll(r)
  <2>1. pc[r] = "Write" /\ Live(p) /\ UpdatePollRow(p, list) /\ Plain(r)'
    BY <1>5, AnswerIsPlain DEF WritePoll, At, SerialInv, UpToDate, OwnerChecked
  <2>2. polls[p] \in Rows /\ polls \in [Polls -> Rows \cup {Unborn, Gone}]
    BY <1>1, <2>1, LiveRow DEF StoreInv, StoreTypeOK
  <2>3. EffectivePolls = polls'
    <3>1. CASE list = <<>>
      <4>1. [owner |-> polls[p].owner, options |-> polls[p].options] = polls[p]
        BY <2>2 DEF Rows
      <4>2. polls' = polls /\ Plain(r)
        BY <1>1, <2>1, <2>2, <3>1, <4>1 DEF UpdatePollRow, Plain
      <4> QED
        BY <4>2, PlainEffect
    <3>2. CASE list # <<>>
      <4>1. [owner |-> polls[p].owner, options |-> list] = [polls[p] EXCEPT !.options = list]
        BY <2>2 DEF Rows
      <4> QED
        BY <1>1, <2>1, <2>2, <3>2, <4>1, EffectAlone DEF Effect, UpdatePollRow
    <3> QED
      BY <3>1, <3>2
  <2> QED
    BY <2>1, <2>3, PlainEffect DEF UpdatePollRow, Board!storeVars
<1> QED
  BY <1>2, <1>3, <1>4, <1>5 DEF UpdatePoll

(***************************************************************************)
(* DeletePoll takes effect when it clears the votes.                       *)
(***************************************************************************)
LEMMA BoardDeletePoll ==
    ASSUME Both, NEW r \in Requests, DeletePoll(r)
    PROVE  [Board!BoardNext]_(Board!storeVars)
<1> USE DEF Both, Calm, TypeInv, RequestInv
<1> DEFINE p == call[r].poll
<1>1. call[r] \in Calls /\ p \in Polls
  BY DEF DeletePoll, CheckDeleter, ClearVotes, DropPoll, At, Calls
<1>2. CASE CheckDeleter(r)
  <2>1. Plain(r) /\ Plain(r)' /\ UNCHANGED storeVars
    BY <1>2, AnswerIsPlain DEF CheckDeleter, At, Plain, Goto, Reading, storeVars
  <2> QED
    BY <2>1, PlainStep
<1>3. CASE ClearVotes(r)
  <2>1. /\ Plain(r) /\ pc[r] = "ClearAll" /\ pc'[r] = "Drop" /\ UNCHANGED <<polls, call>>
        /\ votes' = votes \ VotesOn(p)
    BY <1>3 DEF ClearVotes, At, Goto, Plain, DeleteVotesByPoll
  <2>2. Live(p) /\ polls[p].owner = call[r].user
    BY <2>1 DEF SerialInv, UpToDate, OwnersHold, OwnerChecked, OwnedBy, Live
  <2>3. EffectivePolls' = [polls EXCEPT ![p] = Gone]
    BY <2>1, EffectNext DEF Effect
  <2>4. Board!Close(p, call[r].user)
    BY <2>1, <2>2, <2>3, PlainEffect DEF Board!Close, Board!Live, Live, Board!VotesOn, VotesOn
  <2> QED
    BY <1>1, <2>4 DEF Board!BoardNext, Calls
<1>4. CASE DropPoll(r)
  <2>1. pc[r] = "Drop" /\ DeletePollRow(p) /\ Plain(r)'
    BY <1>4, AnswerIsPlain DEF DropPoll, At, SerialInv, UpToDate, OwnerChecked,
       DropFindsNoVotes, Deletable
  <2>2. EffectivePolls = polls'
    BY <2>1, EffectAlone DEF Effect, DeletePollRow
  <2> QED
    BY <2>1, <2>2, PlainEffect DEF DeletePollRow, Board!storeVars
<1> QED
  BY <1>2, <1>3, <1>4 DEF DeletePoll

LEMMA BoardVoteOnPoll ==
    ASSUME Both, NEW r \in Requests, VoteOnPoll(r)
    PROVE  [Board!BoardNext]_(Board!storeVars)
<1> USE DEF Both, Calm, TypeInv, RequestInv
<1> DEFINE c == call[r]
<1>1. Plain(r) /\ Plain(r)' /\ c \in Calls
  BY AnswerIsPlain DEF VoteOnPoll, ReadOptions, LookupVote, ReplaceVote, InsertVote, At,
     Plain, Goto, Hold
<1>2. CASE ReadOptions(r) \/ LookupVote(r)
  BY <1>1, <1>2, PlainStep DEF ReadOptions, LookupVote, Reading, storeVars
<1>3. CASE ReplaceVote(r)
  <2>1. VotesOf(c.user, c.poll) = {}
    BY <1>3 DEF ReplaceVote, At, SerialInv, ReplacedVotesAreWithdrawn, OverlapInv,
       OrphansNeedOverlap, VotesOf
  <2> QED
    BY <1>1, <1>3, <2>1, PlainStep DEF ReplaceVote, DeleteVoteByUserAndPoll, storeVars
<1>4. CASE InsertVote(r) /\ CreateVote(c.user, c.poll, c.option)
  <2>1. /\ Live(c.poll) /\ c.option \in Offered(polls[c.poll].options) /\ c.option \in Options
    BY <1>4 DEF InsertVote, At, SerialInv, UpToDate, Voting, Row, LabelsAgree
  <2>2. Board!Cast(c.user, c.poll, c.option)
    BY <1>1, <1>4, <2>1, PlainEffect DEF CreateVote, Insertable, VotesOf, Live, Offered,
       Board!Cast, Board!CreateVote, Board!Insertable, Board!VotesOf, Board!Live, Board!Offered
  <2> QED
    BY <1>1, <2>1, <2>2 DEF Board!BoardNext, Calls
<1>5. CASE InsertVote(r) /\ UNCHANGED <<polls, votes, suspect>>
  BY <1>1, <1>5, PlainStep DEF storeVars
<1> QED
  BY <1>2, <1>3, <1>4, <1>5 DEF VoteOnPoll, InsertVote

LEMMA BoardDeleteVote ==
    ASSUME Both, NEW r \in Requests, DeleteVote(r)
    PROVE  [Board!BoardNext]_(Board!storeVars)
<1> USE DEF Both, Calm, TypeInv, RequestInv
<1> DEFINE c == call[r]
<1>1. Plain(r) /\ Plain(r)' /\ c \in Calls
  BY AnswerIsPlain DEF DeleteVote, CheckPoll, FindVote, RemoveVote, At, Plain, Goto
<1>2. CASE CheckPoll(r) \/ FindVote(r)
  BY <1>1, <1>2, PlainStep DEF CheckPoll, FindVote, Reading, storeVars
<1>3. CASE RemoveVote(r) /\ VotesOf(c.user, c.poll) # {}
  <2>1. Board!Retract(c.user, c.poll)
    BY <1>1, <1>3, PlainEffect DEF RemoveVote, DeleteVoteByUserAndPoll, VotesOf,
       Board!Retract, Board!DeleteVoteByUserAndPoll, Board!VotesOf
  <2> QED
    BY <1>1, <2>1 DEF Board!BoardNext, Calls
<1>4. CASE RemoveVote(r) /\ VotesOf(c.user, c.poll) = {}
  BY <1>1, <1>4, PlainStep DEF RemoveVote, DeleteVoteByUserAndPoll, storeVars
<1> QED
  BY <1>2, <1>3, <1>4 DEF DeleteVote

LEMMA BoardBegin ==
    ASSUME Both, NEW r \in Requests, Begin(r)
    PROVE  UNCHANGED Board!storeVars
<1>1. PICK c \in Calls : pc' = [pc EXCEPT ![r] = Entry(c.kind)]
  BY DEF Begin
<1>2. Entry(c.kind) \in {"Create", "Owner", "ReadPoll"}
  BY DEF Entry, Calls, AllKinds
<1>3. Plain(r) /\ Plain(r)' /\ UNCHANGED storeVars
  BY <1>1, <1>2 DEF Begin, Plain, storeVars, Both, Calm, TypeInv, RequestInv
<1> QED
  BY <1>3, PlainStep

(***************************************************************************)
(* As long as calls do not overlap, and up to the first failure, every     *)
(* call takes effect in one step or not at all: the handlers implement     *)
(* PollBoard.                                                              *)
(***************************************************************************)
THEOREM HandlersImplementBoard ==
    ASSUME Alone
    PROVE  Spec => SerialCallsAreAtomic
<1>1. Init => Board!InitStore
  BY DEF Init, InitStore, Board!InitStore, EffectivePolls, Editors
<1>2. Calm /\ Calm' /\ [Next]_vars => [faults' = 0 => Board!BoardNext]_(Board!storeVars)
  <2> SUFFICES ASSUME Calm, Calm', [Next]_vars
               PROVE  [faults' = 0 => Board!BoardNext]_(Board!storeVars)
    OBVIOUS
  <2>1. Both
    BY DEF Both, Calm
  <2>2. CASE UNCHANGED vars
    BY <2>2 DEF vars, Board!storeVars, EffectivePolls, Editors
  <2>3. CASE Crash \/ \E r \in Requests : StatementFails(r)
    BY <2>3 DEF Crash, StatementFails, Calm, TypeInv, RequestInv
  <2>4. ASSUME NEW r \in Requests, Begin(r) \/ Step(r)
        PROVE  [faults' = 0 => Board!BoardNext]_(Board!storeVars)
    BY <2>1, <2>4, BoardBegin, BoardInsertPoll, BoardUpdatePoll, BoardDeletePoll,
       BoardVoteOnPoll, BoardDeleteVote DEF Step
  <2> QED
    BY <2>2, <2>3, <2>4 DEF Next
<1> QED
  BY <1>1, <1>2, CalmAlways, PTL DEF Spec, SerialCallsAreAtomic
=============================================================================
