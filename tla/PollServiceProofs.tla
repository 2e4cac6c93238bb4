------------------------- MODULE PollServiceProofs -------------------------
(***************************************************************************)
(* Proofs about PollService, for any number of users, polls, options and   *)
(* concurrent requests.                                                    *)
(***************************************************************************)
EXTENDS PollProps, TLAPS

(***************************************************************************)
(* Which handler a statement belongs to, and what that handler has checked *)
(* of its call by then.                                                    *)
(***************************************************************************)
LabelsAgree ==
    \A r \in Requests :
        /\ pc[r] \in {"Current", "Clear", "Write"} => call[r].kind = "UpdatePoll"
        /\ pc[r] \in {"Current", "Clear"} => call[r].options # <<>>
        /\ pc[r] \in {"Lookup", "Replace", "Insert"} =>
              call[r].kind = "VoteOnPoll" /\ call[r].option \in Options

(***************************************************************************)
(* The types, the part about the requests apart from the tables.           *)
(***************************************************************************)
RequestInv ==
    /\ call \in [Requests -> Calls \cup {NoCall}]
    /\ pc \in [Requests -> Labels]
    /\ \A r \in Requests : pc[r] # "idle" => call[r] \in Calls
    /\ seen \in [Requests -> OptionLists \cup {<<>>}]
    /\ reply \in [Requests -> {"none", "ok", "error", "lost"}]
    /\ faults \in 0..MaxFaults
    /\ raced \subseteq Requests
    /\ LabelsAgree

StoreInv == StoreTypeOK /\ suspect \subseteq votes

TypeInv == RequestInv /\ StoreInv

LEMMA TypeInvIsTypeOK == TypeInv => TypeOK
BY DEF TypeInv, RequestInv, StoreInv, TypeOK

LEMMA OfferedOptions ==
    ASSUME NEW list \in OptionLists \cup {<<>>}
    PROVE  Offered(list) \subseteq Options
<1>1. <<>> \in Seq(Options)
  OBVIOUS
<1>2. list \in Seq(Options)
  BY <1>1, ListsAssumption
<1> QED
  BY <1>2 DEF Offered

LEMMA LiveRow ==
    ASSUME StoreTypeOK, NEW p \in Polls, Live(p)
    PROVE  polls[p] \in Rows
BY DEF StoreTypeOK, Live

----------------------------------------------------------------------------
(***************************************************************************)
(* What the ways a statement ends do to a request's types.                 *)
(***************************************************************************)
Suits(r, label) ==
    /\ label \in Labels \ {"idle"}
    /\ label \in {"Current", "Clear", "Write"} => call[r].kind = "UpdatePoll"
    /\ label \in {"Current", "Clear"} => call[r].options # <<>>
    /\ label \in {"Lookup", "Replace", "Insert"} =>
          call[r].kind = "VoteOnPoll" /\ call[r].option \in Options

LEMMA GotoTypes ==
    ASSUME RequestInv, NEW r \in Requests, NEW label, Suits(r, label),
           call[r] \in Calls, Goto(r, label)
    PROVE  RequestInv'
BY DEF RequestInv, LabelsAgree, Suits, Goto

LEMMA HoldTypes ==
    ASSUME RequestInv, NEW r \in Requests, NEW label, Suits(r, label),
           call[r] \in Calls, Hold(r, label),
           polls[call[r].poll] \in Rows, raced' \subseteq Requests
    PROVE  RequestInv'
<1>1. polls[call[r].poll].options \in OptionLists
  BY DEF Rows
<1> QED
  BY <1>1 DEF RequestInv, LabelsAgree, Suits, Hold

LEMMA AnswerTypes ==
    ASSUME RequestInv, NEW r \in Requests, NEW status \in {"ok", "error"},
           Answer(r, status)
    PROVE  RequestInv'
<1>1. pc' \in [Requests -> Labels]
  BY DEF RequestInv, Answer, Labels
<1>2. LabelsAgree'
  BY DEF RequestInv, LabelsAgree, Answer
<1> QED
  BY <1>1, <1>2 DEF RequestInv, Answer

----------------------------------------------------------------------------
(***************************************************************************)
(* What the statements do to the tables' types.                            *)
(***************************************************************************)
LEMMA ReadingTypes ==
    ASSUME StoreInv, Reading
    PROVE  StoreInv'
BY DEF StoreInv, StoreTypeOK, Reading

LEMMA PollRowTypes ==
    ASSUME StoreInv, NEW p \in Polls, UNCHANGED suspect,
           \/ \E u \in Users, list \in OptionLists : CreatePollRow(p, u, list)
           \/ \E list \in OptionLists \cup {<<>>} : UpdatePollRow(p, list)
           \/ DeletePollRow(p)
    PROVE  StoreInv'
<1> USE DEF StoreInv, StoreTypeOK, Rows
<1>1. CASE \E u \in Users, list \in OptionLists : CreatePollRow(p, u, list)
  BY <1>1 DEF CreatePollRow
<1>2. CASE \E list \in OptionLists \cup {<<>>} : UpdatePollRow(p, list)
  BY <1>2, LiveRow DEF UpdatePollRow
<1>3. CASE DeletePollRow(p)
  BY <1>3 DEF DeletePollRow
<1> QED
  BY <1>1, <1>2, <1>3

LEMMA FewerVotesTypes ==
    ASSUME StoreInv, UNCHANGED polls, votes' \subseteq votes, suspect' = suspect \cap votes'
    PROVE  StoreInv'
BY DEF StoreInv, StoreTypeOK

LEMMA DeletedVotes ==
    ASSUME NEW u, NEW p, NEW os,
           \/ DeleteVoteByUserAndPoll(u, p)
           \/ DeleteVotesByPollAndOptions(p, os)
           \/ DeleteVotesByPoll(p)
    PROVE  votes' \subseteq votes /\ UNCHANGED polls
BY DEF DeleteVoteByUserAndPoll, DeleteVotesByPollAndOptions, DeleteVotesByPoll

----------------------------------------------------------------------------
(***************************************************************************)
(* The types are an invariant.                                             *)
(***************************************************************************)
LEMMA TypeInit == Init => TypeInv
<1> SUFFICES ASSUME Init PROVE TypeInv
  OBVIOUS
<1>1. faults \in 0..MaxFaults
  BY FaultsAssumption DEF Init
<1>2. LabelsAgree
  BY DEF LabelsAgree, Init
<1>3. RequestInv
  BY <1>1, <1>2 DEF RequestInv, Labels, Init
<1>4. StoreInv
  BY DEF StoreInv, StoreTypeOK, Init, InitStore
<1> QED
  BY <1>3, <1>4 DEF TypeInv

LEMMA TypeBegin ==
    ASSUME TypeInv, NEW r \in Requests, Begin(r)
    PROVE  TypeInv'
<1>1. PICK c \in Calls : /\ call' = [call EXCEPT ![r] = c]
                         /\ pc' = [pc EXCEPT ![r] = Entry(c.kind)]
  BY DEF Begin
<1>2. Entry(c.kind) \in {"Create", "Owner", "ReadPoll"}
  BY DEF Entry, Calls, AllKinds
<1>3. pc' \in [Requests -> Labels]
  BY <1>1, <1>2 DEF Labels, TypeInv, RequestInv
<1>4. LabelsAgree'
  BY <1>1, <1>2 DEF LabelsAgree, TypeInv, RequestInv
<1>5. RequestInv'
  BY <1>1, <1>3, <1>4 DEF Begin, TypeInv, RequestInv
<1>6. StoreInv'
  BY DEF Begin, TypeInv, StoreInv, StoreTypeOK
<1> QED
  BY <1>5, <1>6 DEF TypeInv

LEMMA TypeInsertPoll ==
    ASSUME TypeInv, NEW r \in Requests, InsertPoll(r)
    PROVE  TypeInv'
<1> USE DEF TypeInv
<1>1. call[r] \in Calls
  BY DEF InsertPoll, At, RequestInv
<1>2. RequestInv'
  BY AnswerTypes DEF InsertPoll
<1>3. CASE UNCHANGED storeVars
  BY <1>2, <1>3 DEF InsertPoll, StoreInv, StoreTypeOK, storeVars
<1>4. CASE /\ Len(call[r].options) >= 2
           /\ CreatePollRow(call[r].poll, call[r].user, call[r].options)
  <2>1. call[r].options # <<>>
    BY <1>4
  <2>2. call[r].options \in OptionLists /\ call[r].user \in Users /\ call[r].poll \in Polls
    BY <1>1, <2>1 DEF Calls
  <2> QED
    BY <1>2, <1>4, <2>2, PollRowTypes DEF InsertPoll
<1> QED
  BY <1>3, <1>4 DEF InsertPoll

LEMMA TypeUpdatePoll ==
    ASSUME TypeInv, NEW r \in Requests, UpdatePoll(r)
    PROVE  TypeInv'
<1> USE DEF TypeInv
<1>1. call[r] \in Calls /\ call[r].poll \in Polls /\ call[r].kind = "UpdatePoll"
  BY DEF UpdatePoll, CheckOwner, ReadCurrent, ClearRemoved, WritePoll, At, RequestInv, Calls
<1>2. CASE CheckOwner(r)
  <2>1. StoreInv'
    BY <1>2, ReadingTypes DEF CheckOwner
  <2>2. CASE Answer(r, "error")
    BY <2>1, <2>2, AnswerTypes
  <2>3. CASE Goto(r, "Write")
    BY <1>1, <2>1, <2>3, GotoTypes DEF Suits, Labels
  <2>4. CASE call[r].options # <<>> /\ Goto(r, "Current")
    BY <1>1, <2>1, <2>4, GotoTypes DEF Suits, Labels
  <2> QED
    BY <1>2, <2>2, <2>3, <2>4 DEF CheckOwner
<1>3. CASE ReadCurrent(r)
  <2>1. StoreInv'
    BY <1>3, ReadingTypes DEF ReadCurrent
  <2>2. CASE Answer(r, "error")
    BY <2>1, <2>2, AnswerTypes
  <2>3. ASSUME NEW label \in {"Write", "Clear"}, Live(call[r].poll), Hold(r, label),
               raced' = raced \cup Holders(call[r].poll)
        PROVE  TypeInv'
    <3>1. call[r].options # <<>>
      BY <1>3 DEF ReadCurrent, At, RequestInv, LabelsAgree
    <3>2. Suits(r, label)
      BY <1>1, <3>1 DEF Suits, Labels
    <3>3. polls[call[r].poll] \in Rows
      BY <1>1, <2>3, LiveRow DEF StoreInv
    <3>4. raced' \subseteq Requests
      BY <2>3 DEF Holders, RequestInv
    <3> QED
      BY <1>1, <2>1, <2>3, <3>2, <3>3, <3>4, HoldTypes
  <2> QED
    BY <1>3, <2>2, <2>3 DEF ReadCurrent
<1>4. CASE ClearRemoved(r)
  <2>1. StoreInv'
    BY <1>4, DeletedVotes, FewerVotesTypes DEF ClearRemoved
  <2>2. Suits(r, "Write")
    BY <1>1 DEF Suits, Labels
  <2> QED
    BY <1>1, <1>4, <2>1, <2>2, GotoTypes DEF ClearRemoved
<1>5. CASE WritePoll(r)
  <2>1. RequestInv'
    BY <1>5, AnswerTypes DEF WritePoll
  <2>2. call[r].options \in OptionLists \cup {<<>>}
    BY <1>1 DEF Calls
  <2>3. StoreInv'
    BY <1>1, <1>5, <2>2, PollRowTypes DEF WritePoll, storeVars, StoreInv, StoreTypeOK
  <2> QED
    BY <2>1, <2>3
<1> QED
  BY <1>2, <1>3, <1>4, <1>5 DEF UpdatePoll

LEMMA TypeDeletePoll ==
    ASSUME TypeInv, NEW r \in Requests, DeletePoll(r)
    PROVE  TypeInv'
<1> USE DEF TypeInv
<1>1. call[r] \in Calls /\ call[r].poll \in Polls
  BY DEF DeletePoll, CheckDeleter, ClearVotes, DropPoll, At, RequestInv, Calls
<1>2. CASE CheckDeleter(r)
  <2>1. StoreInv'
    BY <1>2, ReadingTypes DEF CheckDeleter
  <2>2. Suits(r, "ClearAll")
    BY DEF Suits, Labels
  <2> QED
    BY <1>1, <1>2, <2>1, <2>2, GotoTypes, AnswerTypes DEF CheckDeleter
<1>3. CASE ClearVotes(r)
  <2>1. StoreInv'
    BY <1>3, DeletedVotes, FewerVotesTypes DEF ClearVotes
  <2>2. Suits(r, "Drop")
    BY DEF Suits, Labels
  <2> QED
    BY <1>1, <1>3, <2>1, <2>2, GotoTypes DEF ClearVotes
<1>4. CASE DropPoll(r)
  <2>1. RequestInv'
    BY <1>4, AnswerTypes DEF DropPoll
  <2>2. StoreInv'
    BY <1>1, <1>4, PollRowTypes DEF DropPoll, storeVars, StoreInv, StoreTypeOK
  <2> QED
    BY <2>1, <2>2
<1> QED
  BY <1>2, <1>3, <1>4 DEF DeletePoll

LEMMA TypeVoteOnPoll ==
    ASSUME TypeInv, NEW r \in Requests, VoteOnPoll(r)
    PROVE  TypeInv'
<1> USE DEF TypeInv
<1>1. call[r] \in Calls /\ call[r].poll \in Polls /\ call[r].kind = "VoteOnPoll"
  BY DEF VoteOnPoll, ReadOptions, LookupVote, ReplaceVote, InsertVote, At, RequestInv, Calls
<1>2. CASE ReadOptions(r)
  <2>1. StoreInv'
    BY <1>2, ReadingTypes DEF ReadOptions
  <2>2. CASE Answer(r, "error")
    BY <2>1, <2>2, AnswerTypes
  <2>3. CASE /\ Live(call[r].poll)
             /\ call[r].option \in Offered(polls[call[r].poll].options)
             /\ Hold(r, "Lookup")
    <3>1. polls[call[r].poll] \in Rows
      BY <1>1, <2>3, LiveRow DEF StoreInv
    <3>2. Suits(r, "Lookup")
      BY <1>1, <2>3, <3>1, OfferedOptions DEF Suits, Labels, Rows
    <3>3. raced' \subseteq Requests
      BY <1>2 DEF ReadOptions, Answer, RequestInv
    <3> QED
      BY <1>1, <2>1, <2>3, <3>1, <3>2, <3>3, HoldTypes
  <2> QED
    BY <1>2, <2>2, <2>3 DEF ReadOptions
<1>3. ASSUME pc[r] \in {"Lookup", "Replace", "Insert"}
      PROVE  Suits(r, "Insert") /\ Suits(r, "Replace")
  BY <1>3 DEF RequestInv, LabelsAgree, Suits, Labels
<1>4. CASE LookupVote(r)
  <2>1. StoreInv'
    BY <1>4, ReadingTypes DEF LookupVote
  <2> QED
    BY <1>1, <1>3, <1>4, <2>1, GotoTypes, AnswerTypes DEF LookupVote, At
<1>5. CASE ReplaceVote(r)
  <2>1. StoreInv'
    BY <1>5, DeletedVotes, FewerVotesTypes DEF ReplaceVote
  <2> QED
    BY <1>1, <1>3, <1>5, <2>1, GotoTypes DEF ReplaceVote, At
<1>6. CASE InsertVote(r)
  <2>1. RequestInv'
    BY <1>6, AnswerTypes DEF InsertVote
  <2>2. call[r].option \in Options /\ call[r].user \in Users
    BY <1>1, <1>6 DEF InsertVote, At, RequestInv, LabelsAgree, Calls
  <2>3. StoreInv'
    BY <1>1, <1>6, <2>2 DEF InsertVote, CreateVote, StoreInv, StoreTypeOK, VoteRows
  <2> QED
    BY <2>1, <2>3
<1> QED
  BY <1>2, <1>4, <1>5, <1>6 DEF VoteOnPoll

LEMMA TypeDeleteVote ==
    ASSUME TypeInv, NEW r \in Requests, DeleteVote(r)
    PROVE  TypeInv'
<1> USE DEF TypeInv
<1>1. call[r] \in Calls
  BY DEF DeleteVote, CheckPoll, FindVote, RemoveVote, At, RequestInv
<1>2. Suits(r, "Find") /\ Suits(r, "Remove")
  BY DEF Suits, Labels
<1>3. CASE CheckPoll(r) \/ FindVote(r)
  BY <1>1, <1>2, <1>3, ReadingTypes, GotoTypes, AnswerTypes DEF CheckPoll, FindVote
<1>4. CASE RemoveVote(r)
  <2>1. StoreInv'
    BY <1>4, DeletedVotes, FewerVotesTypes DEF RemoveVote
  <2> QED
    BY <1>4, <2>1, AnswerTypes DEF RemoveVote
<1> QED
  BY <1>3, <1>4 DEF DeleteVote

LEMMA TypeFailures ==
    ASSUME TypeInv, Crash \/ \E r \in Requests : StatementFails(r)
    PROVE  TypeInv'
<1> USE DEF TypeInv
<1>1. StoreInv'
  BY ReadingTypes DEF Crash, StatementFails
<1>2. faults' \in 0..MaxFaults
  BY FaultsAssumption DEF Crash, StatementFails, RequestInv
<1>3. CASE Crash
  <2>1. LabelsAgree'
    BY <1>3 DEF Crash, LabelsAgree
  <2>2. pc' \in [Requests -> Labels]
    BY <1>3 DEF Crash, Labels
  <2> QED
    BY <1>1, <1>2, <1>3, <2>1, <2>2 DEF Crash, RequestInv
<1>4. ASSUME NEW r \in Requests, StatementFails(r)
      PROVE  RequestInv'
  <2>1. pc' \in [Requests -> Labels]
    BY <1>4 DEF StatementFails, RequestInv, Labels
  <2>2. LabelsAgree'
    BY <1>4 DEF StatementFails, RequestInv, LabelsAgree
  <2> QED
    BY <1>2, <1>4, <2>1, <2>2 DEF StatementFails, RequestInv
<1> QED
  BY <1>1, <1>3, <1>4

LEMMA TypeNext == TypeInv /\ [Next]_vars => TypeInv'
<1> SUFFICES ASSUME TypeInv, [Next]_vars PROVE TypeInv'
  OBVIOUS
<1>1. CASE UNCHANGED vars
  BY <1>1 DEF vars, TypeInv, RequestInv, LabelsAgree, StoreInv, StoreTypeOK
<1>2. CASE Next
  BY <1>2, TypeBegin, TypeInsertPoll, TypeUpdatePoll, TypeDeletePoll, TypeVoteOnPoll,
     TypeDeleteVote, TypeFailures DEF Next, Step
<1> QED
  BY <1>1, <1>2

(***************************************************************************)
(* Every variable stays in its type: a request's call, label and list, and *)
(* the rows of the tables.                                                 *)
(***************************************************************************)
THEOREM TypeCorrect == Spec => []TypeOK
<1>1. Spec => []TypeInv
  BY TypeInit, TypeNext, PTL DEF Spec
<1> QED
  BY <1>1, TypeInvIsTypeOK, PTL

----------------------------------------------------------------------------
(***************************************************************************)
(* The tables' constraints.  Nothing but the statements writes the tables, *)
(* so the proof is by statement: TableStep says which ones a step may run. *)
(***************************************************************************)
TableStep ==
    \/ UNCHANGED storeVars
    \/ \E p \in Polls, u \in Users, list \in OptionLists : CreatePollRow(p, u, list)
    \/ \E p \in Polls, list \in OptionLists \cup {<<>>} : UpdatePollRow(p, list)
    \/ \E p \in Polls : DeletePollRow(p)
    \/ \E u \in Users, p \in Polls, o \in Options : CreateVote(u, p, o)
    \/ votes' \subseteq votes /\ UNCHANGED polls

LEMMA StepsAreTableSteps == TypeInv /\ [Next]_vars => TableStep
<1> SUFFICES ASSUME TypeInv, [Next]_vars PROVE TableStep
  OBVIOUS
<1>1. CASE \/ UNCHANGED vars
           \/ Crash
           \/ \E r \in Requests : Begin(r) \/ StatementFails(r)
  BY <1>1 DEF vars, Crash, Begin, StatementFails, Reading, TableStep, storeVars
<1>2. ASSUME NEW r \in Requests, Step(r)
      PROVE  TableStep
  <2>1. call[r] \in Calls
    BY <1>2 DEF Step, InsertPoll, UpdatePoll, CheckOwner, ReadCurrent, ClearRemoved,
       WritePoll, DeletePoll, CheckDeleter, ClearVotes, DropPoll, VoteOnPoll, ReadOptions,
       LookupVote, ReplaceVote, InsertVote, DeleteVote, CheckPoll, FindVote, RemoveVote,
       At, TypeInv, RequestInv
  <2>2. /\ call[r].poll \in Polls /\ call[r].user \in Users
        /\ call[r].options \in OptionLists \cup {<<>>}
    BY <2>1 DEF Calls
  <2>3. CASE InsertPoll(r)
    <3>1. CASE UNCHANGED storeVars
      BY <3>1 DEF TableStep
    <3>2. CASE /\ Len(call[r].options) >= 2
               /\ CreatePollRow(call[r].poll, call[r].user, call[r].options)
      <4>1. call[r].options \in OptionLists
        BY <2>2, <3>2
      <4> QED
        BY <2>2, <3>2, <4>1 DEF TableStep
    <3> QED
      BY <2>3, <3>1, <3>2 DEF InsertPoll
  <2>4. CASE UpdatePoll(r)
    BY <2>2, <2>4, DeletedVotes DEF UpdatePoll, CheckOwner, ReadCurrent, ClearRemoved,
       WritePoll, Reading, TableStep, storeVars
  <2>5. CASE DeletePoll(r)
    BY <2>2, <2>5, DeletedVotes DEF DeletePoll, CheckDeleter, ClearVotes, DropPoll,
       Reading, TableStep, storeVars
  <2>6. CASE VoteOnPoll(r)
    <3>1. CASE InsertVote(r)
      <4>1. call[r].option \in Options
        BY <3>1 DEF InsertVote, At, TypeInv, RequestInv, LabelsAgree
      <4> QED
        BY <2>2, <3>1, <4>1 DEF InsertVote, TableStep, storeVars
    <3>2. CASE ReadOptions(r) \/ LookupVote(r) \/ ReplaceVote(r)
      BY <3>2, DeletedVotes DEF ReadOptions, LookupVote, ReplaceVote, Reading, TableStep, storeVars
    <3> QED
      BY <2>6, <3>1, <3>2 DEF VoteOnPoll
  <2>7. CASE DeleteVote(r)
    BY <2>7, DeletedVotes DEF DeleteVote, CheckPoll, FindVote, RemoveVote, Reading,
       TableStep, storeVars
  <2> QED
    BY <1>2, <2>3, <2>4, <2>5, <2>6, <2>7 DEF Step
<1> QED
  BY <1>1, <1>2 DEF Next

LEMMA TableStepKeepsOneVote ==
    ASSUME OneVotePerUser, TableStep
    PROVE  OneVotePerUser'
<1>1. CASE votes' \subseteq votes
  BY <1>1 DEF OneVotePerUser
<1>2. ASSUME NEW u \in Users, NEW p \in Polls, NEW o \in Options, CreateVote(u, p, o)
      PROVE  OneVotePerUser'
  BY <1>2 DEF CreateVote, Insertable, VotesOf, OneVotePerUser
<1> QED
  BY <1>1, <1>2 DEF TableStep, CreatePollRow, UpdatePollRow, DeletePollRow, storeVars

LEMMA TableStepKeepsPolls ==
    ASSUME StoreInv, VotesHavePolls, TableStep
    PROVE  VotesHavePolls'
<1> USE DEF StoreInv, StoreTypeOK, VotesHavePolls
<1>1. CASE votes' \subseteq votes /\ UNCHANGED polls
  BY <1>1 DEF Live
<1>2. ASSUME NEW p \in Polls, NEW u \in Users, NEW list \in OptionLists,
             CreatePollRow(p, u, list)
      PROVE  VotesHavePolls'
  <2>1. polls'[p] \in Rows
    BY <1>2 DEF CreatePollRow, Rows
  <2>2. \A q \in Polls : q # p => polls'[q] = polls[q]
    BY <1>2 DEF CreatePollRow
  <2> QED
    BY <1>2, <2>1, <2>2, NoRowAssumption DEF CreatePollRow, Live, VoteRows
<1>3. ASSUME NEW p \in Polls, NEW list \in OptionLists \cup {<<>>}, UpdatePollRow(p, list)
      PROVE  VotesHavePolls'
  <2>1. polls[p] \in Rows
    BY <1>3, LiveRow DEF UpdatePollRow
  <2>2. polls'[p] \in Rows
    BY <1>3, <2>1 DEF UpdatePollRow, Rows
  <2>3. \A q \in Polls : q # p => polls'[q] = polls[q]
    BY <1>3 DEF UpdatePollRow
  <2> QED
    BY <1>3, <2>2, <2>3, NoRowAssumption DEF UpdatePollRow, Live, VoteRows
<1>4. ASSUME NEW p \in Polls, DeletePollRow(p)
      PROVE  VotesHavePolls'
  BY <1>4 DEF DeletePollRow, Deletable, VotesOn, Live, VoteRows
<1>5. ASSUME NEW u \in Users, NEW p \in Polls, NEW o \in Options, CreateVote(u, p, o)
      PROVE  VotesHavePolls'
  BY <1>5 DEF CreateVote, Insertable, Live
<1> QED
  BY <1>1, <1>2, <1>3, <1>4, <1>5 DEF TableStep, storeVars

(***************************************************************************)
(* However many requests of a user run at a time, the user has at most one *)
(* vote on a poll.                                                         *)
(***************************************************************************)
THEOREM OneVote == Spec => []OneVotePerUser
<1>1. Init => OneVotePerUser
  BY DEF Init, InitStore, OneVotePerUser
<1>2. TypeInv /\ OneVotePerUser /\ [Next]_vars => OneVotePerUser'
  BY StepsAreTableSteps, TableStepKeepsOneVote
<1>3. Spec => []TypeInv
  BY TypeInit, TypeNext, PTL DEF Spec
<1> QED
  BY <1>1, <1>2, <1>3, PTL DEF Spec

(***************************************************************************)
(* No vote outlives its poll.                                              *)
(***************************************************************************)
THEOREM NoVoteWithoutPoll == Spec => []VotesHavePolls
<1>1. Init => VotesHavePolls
  BY DEF Init, InitStore, VotesHavePolls
<1>2. TypeInv /\ VotesHavePolls /\ [Next]_vars => VotesHavePolls'
  BY StepsAreTableSteps, TableStepKeepsPolls DEF TypeInv
<1>3. Spec => []TypeInv
  BY TypeInit, TypeNext, PTL DEF Spec
<1> QED
  BY <1>1, <1>2, <1>3, PTL DEF Spec

----------------------------------------------------------------------------
(***************************************************************************)
(* A vote is stranded on an option its poll has dropped only by a          *)
(* VoteOnPoll that overlaps an UpdatePoll.  The invariant is about the two *)
(* handlers between their first read and their last write.                 *)
(***************************************************************************)
Voting(r) == pc[r] \in {"Lookup", "Replace", "Insert"}

\* A VoteOnPoll that no UpdatePoll has overlapped: no UpdatePoll of its poll
\* is under way, and its option is still one of the poll's.
VotersUpToDate ==
    \A r \in Requests \ raced : Voting(r) =>
        /\ Editors(call[r].poll) = {}
        /\ Live(call[r].poll) => call[r].option \in Offered(polls[call[r].poll].options)

\* A VoteOnPoll under way has found its poll.
VotersHavePolls == \A r \in Requests : Voting(r) => polls[call[r].poll] # Unborn

\* The votes of a poll that is being changed: each is for an option of the
\* new list, unless it is yet to be cleared or comes from an overlap.
EditorsCoverVotes ==
    \A p \in Polls : \A e \in Editors(p), v \in VotesOn(p) \ suspect :
        \/ v.option \in Offered(call[e].options)
        \/ pc[e] = "Clear" /\ v.option \in Offered(seen[e])

OverlapInv ==
    /\ OrphansNeedOverlap
    /\ VotersUpToDate
    /\ VotersHavePolls
    /\ EditorsCoverVotes

Before == TypeInv /\ VotesHavePolls /\ OverlapInv

----------------------------------------------------------------------------
Others(r) ==
    \A q \in Requests \ {r} :
        /\ pc'[q] = pc[q] /\ call'[q] = call[q] /\ seen'[q] = seen[q]
        /\ q \in raced' <=> q \in raced

(***************************************************************************)
(* A step that leaves the polls alone, at most deletes votes, and does not *)
(* begin or advance an UpdatePoll between its read and its write, nor make *)
(* a VoteOnPoll of a request that was none.                                *)
(***************************************************************************)
LEMMA QuietStep ==
    ASSUME Before, NEW r \in Requests, Others(r),
           UNCHANGED polls, votes' \subseteq votes, suspect' = suspect \cap votes',
           Voting(r)' => Voting(r) /\ call'[r] = call[r] /\ (r \in raced' <=> r \in raced),
           pc'[r] \in {"Clear", "Write"} => call'[r].options = <<>>
    PROVE  OverlapInv'
<1> USE DEF Before, TypeInv, OverlapInv
<1>1. \A p : Editors(p)' \subseteq Editors(p) \ {r}
  BY DEF Editors, Others
<1>2. OrphansNeedOverlap'
  BY DEF OrphansNeedOverlap
<1>3. VotersUpToDate'
  BY <1>1 DEF VotersUpToDate, Voting, Others, Live
<1>4. VotersHavePolls'
  BY DEF VotersHavePolls, Voting, Others
<1>5. EditorsCoverVotes'
  <2> SUFFICES ASSUME NEW p \in Polls, NEW e \in Editors(p)', NEW v \in (VotesOn(p) \ suspect)'
               PROVE  \/ v.option \in Offered(call'[e].options)
                      \/ pc'[e] = "Clear" /\ v.option \in Offered(seen'[e])
    BY DEF EditorsCoverVotes, Offered
  <2>1. e \in Editors(p) /\ e \in Requests \ {r}
    BY <1>1 DEF Editors
  <2>2. v \in VotesOn(p) \ suspect
    BY DEF VotesOn
  <2> QED
    BY <2>1, <2>2 DEF EditorsCoverVotes, Others
<1> QED
  BY <1>2, <1>3, <1>4, <1>5

LEMMA AnswerOthers ==
    ASSUME TypeInv, NEW r \in Requests, NEW status, Answer(r, status)
    PROVE  Others(r) /\ pc'[r] = "idle"
BY DEF TypeInv, RequestInv, Answer, Others

LEMMA GotoOthers ==
    ASSUME TypeInv, NEW r \in Requests, NEW label, Goto(r, label)
    PROVE  Others(r) /\ pc'[r] = label /\ call' = call /\ raced' = raced
BY DEF TypeInv, RequestInv, Goto, Others

LEMMA SameVotes ==
    ASSUME TypeInv, UNCHANGED <<votes, suspect>>
    PROVE  votes' \subseteq votes /\ suspect' = suspect \cap votes'
BY DEF TypeInv, StoreInv

(***************************************************************************)
(* A call that ends without writing, whatever it was.                      *)
(***************************************************************************)
LEMMA QuietAnswer ==
    ASSUME Before, NEW r \in Requests, NEW status, Answer(r, status),
           UNCHANGED polls, votes' \subseteq votes, suspect' = suspect \cap votes'
    PROVE  OverlapInv'
BY AnswerOthers, QuietStep DEF Before, Voting

LEMMA QuietGoto ==
    ASSUME Before, NEW r \in Requests, NEW label, Goto(r, label),
           label \notin {"Clear", "Write"} \/ call[r].options = <<>>,
           label \in {"Lookup", "Replace", "Insert"} => Voting(r),
           UNCHANGED polls, votes' \subseteq votes, suspect' = suspect \cap votes'
    PROVE  OverlapInv'
BY GotoOthers, QuietStep DEF Before, Voting

----------------------------------------------------------------------------
LEMMA OverlapBegin ==
    ASSUME Before, NEW r \in Requests, Begin(r)
    PROVE  OverlapInv'
<1>1. PICK c \in Calls : /\ call' = [call EXCEPT ![r] = c]
                         /\ pc' = [pc EXCEPT ![r] = Entry(c.kind)]
  BY DEF Begin
<1>2. Entry(c.kind) \in {"Create", "Owner", "ReadPoll"}
  BY DEF Entry, Calls, AllKinds
<1>3. Others(r)
  BY <1>1 DEF Begin, Others, Before, TypeInv, RequestInv
<1>4. pc'[r] \in {"Create", "Owner", "ReadPoll"}
  BY <1>1, <1>2 DEF Before, TypeInv, RequestInv
<1>5. UNCHANGED <<polls, votes, suspect>>
  BY DEF Begin
<1> QED
  BY <1>3, <1>4, <1>5, SameVotes, QuietStep DEF Before, Voting

LEMMA OverlapInsertPoll ==
    ASSUME Before, NEW r \in Requests, InsertPoll(r)
    PROVE  OverlapInv'
<1> USE DEF Before, TypeInv
<1>1. CASE Answer(r, "error") /\ UNCHANGED storeVars
  BY <1>1, QuietAnswer, SameVotes DEF InsertPoll, storeVars
<1>2. CASE /\ CreatePollRow(call[r].poll, call[r].user, call[r].options)
           /\ Answer(r, "ok")
  <2> DEFINE p == call[r].poll
  <2>1. p \in Polls /\ polls[p] = Unborn
    BY <1>2 DEF InsertPoll, At, RequestInv, Calls, CreatePollRow
  <2>2. Others(r) /\ pc'[r] = "idle"
    BY <1>2, AnswerOthers
  <2>3. votes' = votes /\ suspect' = suspect /\ \A q \in Polls \ {p} : polls'[q] = polls[q]
    BY <1>2 DEF InsertPoll, CreatePollRow
  <2>4. \A v \in votes : v.poll \in Polls /\ v.poll # p
    BY <2>1 DEF VotesHavePolls, Live, StoreInv, StoreTypeOK, VoteRows
  <2>5. \A q \in Requests : Voting(q) => call[q].poll \in Polls /\ call[q].poll # p
    BY <2>1 DEF OverlapInv, VotersHavePolls, Voting, RequestInv, Calls
  <2>6. \A q \in Requests : Voting(q)' => /\ Voting(q) /\ call'[q] = call[q] /\ q # r
                                          /\ q \in raced' <=> q \in raced
                                          /\ polls'[call[q].poll] = polls[call[q].poll]
    BY <2>2, <2>3, <2>5 DEF Others, Voting
  <2>7. \A s : Editors(s)' \subseteq Editors(s) \ {r}
    BY <2>2 DEF Editors, Others
  <2>8. OrphansNeedOverlap'
    BY <2>3, <2>4 DEF OverlapInv, OrphansNeedOverlap
  <2>9. VotersUpToDate'
    BY <2>6, <2>7 DEF OverlapInv, VotersUpToDate, Live
  <2>10. VotersHavePolls'
    BY <2>6 DEF OverlapInv, VotersHavePolls
  <2>11. EditorsCoverVotes'
    BY <2>2, <2>3, <2>7 DEF OverlapInv, EditorsCoverVotes, VotesOn, Others, Editors
  <2> QED
    BY <2>8, <2>9, <2>10, <2>11 DEF OverlapInv
<1> QED
  BY <1>1, <1>2 DEF InsertPoll

(***************************************************************************)
(* UpdatePoll: its read makes every VoteOnPoll under way a raced one; the  *)
(* clean-up removes the votes its list leaves out; its write then meets    *)
(* only votes the list has.                                                *)
(***************************************************************************)
LEMMA OverlapReadCurrent ==
    ASSUME Before, NEW r \in Requests, ReadCurrent(r)
    PROVE  OverlapInv'
<1> USE DEF Before, TypeInv
<1>1. CASE Answer(r, "error")
  BY <1>1, QuietAnswer, SameVotes DEF ReadCurrent, Reading
<1>2. CASE Live(call[r].poll) /\ ~Answer(r, "error")
  <2> DEFINE p == call[r].poll
  <2> DEFINE old == polls[p].options
  <2>1. /\ pc[r] = "Current" /\ p \in Polls /\ UNCHANGED <<polls, votes, suspect, call>>
        /\ seen' = [seen EXCEPT ![r] = old]
        /\ raced' = raced \cup Holders(p)
    BY <1>2 DEF ReadCurrent, At, Hold, Reading, RequestInv, Calls
  <2>2. \/ pc' = [pc EXCEPT ![r] = "Clear"]
        \/ /\ pc' = [pc EXCEPT ![r] = "Write"]
           /\ Offered(old) \subseteq Offered(call[r].options)
    BY <1>2 DEF ReadCurrent, Hold, Removed
  <2>3. \A q \in Requests \ {r} : pc'[q] = pc[q] /\ seen'[q] = seen[q]
    BY <2>1, <2>2 DEF RequestInv
  <2>4. seen'[r] = old /\ pc'[r] \in {"Clear", "Write"}
    BY <2>1, <2>2 DEF RequestInv
  <2>5. \A s : /\ Editors(s)' \subseteq Editors(s) \cup {r}
               /\ s # p => Editors(s)' \subseteq Editors(s)
    BY <2>1, <2>3 DEF Editors
  <2>6. OrphansNeedOverlap'
    BY <2>1 DEF OverlapInv, OrphansNeedOverlap
  <2>7. ASSUME NEW q \in Requests \ raced', Voting(q)'
        PROVE  q \in Requests \ raced /\ Voting(q) /\ call[q].poll # p
    <3>1. q # r /\ pc[q] \in {"Lookup", "Replace", "Insert"}
      BY <2>3, <2>4, <2>7 DEF Voting
    <3>2. q \notin Holders(p) /\ q \notin raced
      BY <2>1, <2>7
    <3> QED
      BY <3>1, <3>2 DEF Holders, Voting
  <2>8. VotersUpToDate'
    BY <2>1, <2>5, <2>7 DEF OverlapInv, VotersUpToDate, Live
  <2>9. VotersHavePolls'
    BY <2>1, <2>3, <2>4 DEF OverlapInv, VotersHavePolls, Voting
  <2>10. ASSUME NEW s \in Polls, NEW e \in Editors(s)', NEW v \in VotesOn(s) \ suspect
         PROVE  \/ v.option \in Offered(call[e].options)
                \/ pc'[e] = "Clear" /\ v.option \in Offered(seen'[e])
    <3>1. CASE e # r
      BY <2>3, <2>5, <2>10, <3>1 DEF OverlapInv, EditorsCoverVotes, Editors
    <3>2. CASE e = r
      <4>1. s = p
        BY <2>1, <2>10, <3>2 DEF Editors
      <4>2. v.option \in Offered(old)
        BY <2>10, <4>1 DEF OverlapInv, OrphansNeedOverlap, VotesOn
      <4> QED
        BY <2>2, <2>4, <3>2, <4>2 DEF RequestInv
    <3> QED
      BY <3>1, <3>2
  <2>11. EditorsCoverVotes'
    BY <2>1, <2>10 DEF EditorsCoverVotes, VotesOn, Offered
  <2> QED
    BY <2>6, <2>8, <2>9, <2>11 DEF OverlapInv
<1> QED
  BY <1>1, <1>2 DEF ReadCurrent

LEMMA OverlapClearRemoved ==
    ASSUME Before, NEW r \in Requests, ClearRemoved(r)
    PROVE  OverlapInv'
<1> USE DEF Before, TypeInv
<1> DEFINE p == call[r].poll
<1>1. /\ pc[r] = "Clear" /\ UNCHANGED <<polls, call, seen, raced>>
      /\ pc' = [pc EXCEPT ![r] = "Write"]
      /\ suspect' = suspect \cap votes'
      /\ votes' = votes \ {v \in VotesOn(p) : v.option \in Removed(seen[r], call[r].options)}
  BY DEF ClearRemoved, At, Goto, DeleteVotesByPollAndOptions
<1>2. \A q \in Requests : q # r => pc'[q] = pc[q]
  BY <1>1 DEF RequestInv
<1>3. pc'[r] = "Write" /\ call[r].options # <<>>
  BY <1>1 DEF RequestInv, LabelsAgree
<1>4. \A s : Editors(s)' = Editors(s)
  BY <1>1, <1>2, <1>3 DEF Editors
<1>5. OrphansNeedOverlap'
  BY <1>1 DEF OverlapInv, OrphansNeedOverlap
<1>6. VotersUpToDate' /\ VotersHavePolls'
  BY <1>1, <1>2, <1>3, <1>4 DEF OverlapInv, VotersUpToDate, VotersHavePolls, Voting, Live
<1>7. ASSUME NEW s \in Polls, NEW e \in Editors(s), NEW v \in votes' \ suspect', v.poll = s
      PROVE  \/ v.option \in Offered(call[e].options)
             \/ pc'[e] = "Clear" /\ v.option \in Offered(seen[e])
  <2>1. v \in VotesOn(s) \ suspect
    BY <1>1, <1>7 DEF VotesOn
  <2>2. \/ v.option \in Offered(call[e].options)
        \/ pc[e] = "Clear" /\ v.option \in Offered(seen[e])
    BY <2>1 DEF OverlapInv, EditorsCoverVotes
  <2>3. CASE e # r
    BY <1>2, <2>2, <2>3 DEF Editors
  <2>4. CASE e = r
    <3>1. s = p
      BY <2>4 DEF Editors
    <3>2. v.option \notin Offered(seen[r]) \ Offered(call[r].options)
      BY <1>1, <1>7, <2>1, <3>1 DEF Removed
    <3> QED
      BY <2>2, <2>4, <3>2
  <2> QED
    BY <2>3, <2>4
<1>8. EditorsCoverVotes'
  BY <1>1, <1>4, <1>7 DEF EditorsCoverVotes, VotesOn, Offered
<1> QED
  BY <1>5, <1>6, <1>8 DEF OverlapInv

LEMMA OverlapWritePoll ==
    ASSUME Before, NEW r \in Requests, WritePoll(r)
    PROVE  OverlapInv'
<1> USE DEF Before, TypeInv
<1>1. CASE Answer(r, "error") /\ UNCHANGED storeVars
  BY <1>1, QuietAnswer, SameVotes DEF WritePoll, storeVars
<1>2. CASE UpdatePollRow(call[r].poll, call[r].options) /\ Answer(r, "ok")
  <2> DEFINE p == call[r].poll
  <2> DEFINE list == call[r].options
  <2>1. pc[r] = "Write" /\ p \in Polls /\ Live(p) /\ polls[p] \in Rows
    BY <1>2, LiveRow DEF WritePoll, At, RequestInv, Calls, UpdatePollRow, StoreInv
  <2>2. Others(r) /\ pc'[r] = "idle"
    BY <1>2, AnswerOthers
  <2>3. votes' = votes /\ suspect' = suspect /\ \A s \in Polls \ {p} : polls'[s] = polls[s]
    BY <1>2 DEF WritePoll, UpdatePollRow
  <2>4. /\ polls'[p].options = IF list = <<>> THEN polls[p].options ELSE list
        /\ polls'[p] \in Rows
    <3>1. list \in OptionLists \cup {<<>>}
      BY <2>1 DEF RequestInv, Calls
    <3> QED
      BY <1>2, <2>1, <3>1 DEF UpdatePollRow, StoreInv, StoreTypeOK, Rows
  <2>5. \A s : Editors(s)' \subseteq Editors(s) \ {r}
    BY <2>2 DEF Editors, Others
  <2>6. list # <<>> => r \in Editors(p)
    BY <2>1 DEF Editors
  <2>7. OrphansNeedOverlap'
    <3> SUFFICES ASSUME NEW v \in votes, v \notin suspect
                 PROVE  v.option \in Offered(polls'[v.poll].options)
      BY <2>3 DEF OrphansNeedOverlap, Offered
    <3>1. v.poll \in Polls
      BY DEF StoreInv, StoreTypeOK, VoteRows
    <3>2. CASE v.poll # p \/ list = <<>>
      BY <2>3, <2>4, <3>1, <3>2 DEF OverlapInv, OrphansNeedOverlap
    <3>3. CASE v.poll = p /\ list # <<>>
      BY <2>1, <2>4, <2>6, <3>3 DEF OverlapInv, EditorsCoverVotes, VotesOn
    <3> QED
      BY <3>2, <3>3
  <2>8. ASSUME NEW q \in Requests, Voting(q)'
        PROVE  /\ q # r /\ Voting(q) /\ call'[q] = call[q] /\ (q \in raced' <=> q \in raced)
               /\ call[q].poll \in Polls
    BY <2>2, <2>8 DEF Others, Voting, RequestInv, Calls
  <2>9. ASSUME NEW q \in Requests \ raced', Voting(q)'
        PROVE  (/\ Editors(call[q].poll) = {}
                /\ Live(call[q].poll) => call[q].option \in Offered(polls[call[q].poll].options))'
    <3>1. q \notin raced /\ Voting(q) /\ call[q].poll \in Polls
      BY <2>8, <2>9
    <3>2. /\ Editors(call[q].poll) = {}
          /\ Live(call[q].poll) => call[q].option \in Offered(polls[call[q].poll].options)
      BY <3>1 DEF OverlapInv, VotersUpToDate
    <3>3. call[q].poll = p => list = <<>>
      BY <2>6, <3>2
    <3>4. polls'[call[q].poll].options = polls[call[q].poll].options
      BY <2>3, <2>4, <3>1, <3>3
    <3>5. Live(call[q].poll)' => Live(call[q].poll)
      BY <2>1, <2>3, <2>8, <2>9, <3>1 DEF Live
    <3> QED
      BY <2>5, <2>8, <2>9, <3>2, <3>4, <3>5
  <2>12. VotersUpToDate'
    BY <2>9 DEF VotersUpToDate
  <2>10. VotersHavePolls'
    BY <2>3, <2>4, <2>8, NoRowAssumption DEF OverlapInv, VotersHavePolls
  <2>11. EditorsCoverVotes'
    BY <2>2, <2>3, <2>5 DEF OverlapInv, EditorsCoverVotes, VotesOn, Others, Editors
  <2> QED
    BY <2>7, <2>10, <2>11, <2>12 DEF OverlapInv
<1> QED
  BY <1>1, <1>2 DEF WritePoll

LEMMA OverlapUpdatePoll ==
    ASSUME Before, NEW r \in Requests, UpdatePoll(r)
    PROVE  OverlapInv'
<1>1. CASE CheckOwner(r)
  <2>1. UNCHANGED polls /\ votes' \subseteq votes /\ suspect' = suspect \cap votes'
    BY <1>1, SameVotes DEF CheckOwner, Reading, Before
  <2>2. CASE Answer(r, "error")
    BY <2>1, <2>2, QuietAnswer
  <2>3. CASE \/ call[r].options = <<>> /\ Goto(r, "Write")
             \/ Goto(r, "Current")
    BY <2>1, <2>3, QuietGoto
  <2> QED
    BY <1>1, <2>2, <2>3 DEF CheckOwner
<1> QED
  BY <1>1, OverlapReadCurrent, OverlapClearRemoved, OverlapWritePoll DEF UpdatePoll

LEMMA OverlapDeletePoll ==
    ASSUME Before, NEW r \in Requests, DeletePoll(r)
    PROVE  OverlapInv'
<1> USE DEF Before, TypeInv
<1>1. CASE CheckDeleter(r)
  BY <1>1, SameVotes, QuietAnswer, QuietGoto DEF CheckDeleter, Reading
<1>2. CASE ClearVotes(r)
  BY <1>2, DeletedVotes, QuietGoto DEF ClearVotes
<1>3. CASE DropPoll(r)
  <2>1. CASE Answer(r, "error") /\ UNCHANGED storeVars
    BY <1>3, <2>1, QuietAnswer, SameVotes DEF DropPoll, storeVars
  <2>2. CASE DeletePollRow(call[r].poll) /\ Answer(r, "ok")
    <3> DEFINE p == call[r].poll
    <3>1. p \in Polls /\ Others(r) /\ pc'[r] = "idle"
      BY <1>3, <2>2, AnswerOthers DEF DropPoll, At, RequestInv, Calls
    <3>2. /\ votes' = votes /\ suspect' = suspect
          /\ polls'[p] = Gone /\ \A s \in Polls \ {p} : polls'[s] = polls[s]
      BY <1>3, <2>2, <3>1 DEF DropPoll, DeletePollRow, StoreInv, StoreTypeOK
    <3>3. \A v \in votes : v.poll \in Polls /\ v.poll # p
      BY <2>2 DEF DeletePollRow, Deletable, VotesOn, StoreInv, StoreTypeOK, VoteRows
    <3>4. \A q \in Requests : Voting(q)' => /\ Voting(q) /\ call'[q] = call[q]
                                            /\ q \in raced' <=> q \in raced
                                            /\ call[q].poll \in Polls
      BY <3>1 DEF Others, Voting, RequestInv, Calls
    <3>5. \A s : Editors(s)' \subseteq Editors(s) \ {r}
      BY <3>1 DEF Editors, Others
    <3>6. OrphansNeedOverlap'
      BY <3>2, <3>3 DEF OverlapInv, OrphansNeedOverlap
    <3>7. VotersUpToDate'
      BY <3>2, <3>4, <3>5 DEF OverlapInv, VotersUpToDate, Live
    <3>8. VotersHavePolls'
      BY <3>2, <3>4, NoRowAssumption DEF OverlapInv, VotersHavePolls
    <3>9. EditorsCoverVotes'
      BY <3>1, <3>2, <3>5 DEF OverlapInv, EditorsCoverVotes, VotesOn, Others, Editors
    <3> QED
      BY <3>6, <3>7, <3>8, <3>9 DEF OverlapInv
  <2> QED
    BY <1>3, <2>1, <2>2 DEF DropPoll
<1> QED
  BY <1>1, <1>2, <1>3 DEF DeletePoll

(***************************************************************************)
(* VoteOnPoll: from its read to its insertion nothing happens to the list  *)
(* it decides by, or it is a raced one and its vote a suspect.             *)
(***************************************************************************)
LEMMA OverlapReadOptions ==
    ASSUME Before, NEW r \in Requests, ReadOptions(r)
    PROVE  OverlapInv'
<1> USE DEF Before, TypeInv
<1>1. CASE Answer(r, "error")
  BY <1>1, QuietAnswer, SameVotes DEF ReadOptions, Reading
<1>2. CASE ~Answer(r, "error")
  <2> DEFINE p == call[r].poll
  <2>1. /\ Live(p) /\ call[r].option \in Offered(polls[p].options)
        /\ UNCHANGED <<polls, votes, suspect, call>>
        /\ pc' = [pc EXCEPT ![r] = "Lookup"]
        /\ seen' = [seen EXCEPT ![r] = polls[p].options]
        /\ raced' = IF Editors(p) = {} THEN raced ELSE raced \cup {r}
    BY <1>2 DEF ReadOptions, Hold, Reading
  <2>2. pc'[r] = "Lookup" /\ \A q \in Requests \ {r} : pc'[q] = pc[q] /\ seen'[q] = seen[q]
    BY <2>1 DEF RequestInv
  <2>3. \A s : Editors(s)' \subseteq Editors(s) \ {r}
    BY <2>1, <2>2 DEF Editors
  <2>4. OrphansNeedOverlap'
    BY <2>1 DEF OverlapInv, OrphansNeedOverlap
  <2>5. ASSUME NEW q \in Requests \ raced', Voting(q)'
        PROVE  /\ Editors(call[q].poll) = {}
               /\ Live(call[q].poll) => call[q].option \in Offered(polls[call[q].poll].options)
    <3>1. CASE q = r
      BY <2>1, <2>5, <3>1
    <3>2. CASE q # r
      BY <2>1, <2>2, <2>5, <3>2 DEF OverlapInv, VotersUpToDate, Voting
    <3> QED
      BY <3>1, <3>2
  <2>6. VotersUpToDate'
    <3>1. \A s : Live(s)' <=> Live(s)
      BY <2>1 DEF Live
    <3> QED
      BY <2>1, <2>3, <2>5, <3>1 DEF VotersUpToDate
  <2>7. VotersHavePolls'
    BY <2>1, <2>2 DEF OverlapInv, VotersHavePolls, Voting, Live
  <2>8. EditorsCoverVotes'
    BY <2>1, <2>2, <2>3 DEF OverlapInv, EditorsCoverVotes, VotesOn, Editors
  <2> QED
    BY <2>4, <2>6, <2>7, <2>8 DEF OverlapInv
<1> QED
  BY <1>1, <1>2

LEMMA OverlapInsertVote ==
    ASSUME Before, NEW r \in Requests, InsertVote(r)
    PROVE  OverlapInv'
<1> USE DEF Before, TypeInv
<1>1. CASE Answer(r, "error") /\ UNCHANGED <<polls, votes, suspect>>
  BY <1>1, QuietAnswer, SameVotes
<1>2. CASE /\ CreateVote(call[r].user, call[r].poll, call[r].option)
           /\ suspect' = IF r \in raced THEN suspect \cup (votes' \ votes) ELSE suspect
           /\ Answer(r, "ok")
  <2> DEFINE p == call[r].poll
  <2> DEFINE new == [user |-> call[r].user, poll |-> p, option |-> call[r].option]
  <2>1. Voting(r) /\ p \in Polls
    BY DEF InsertVote, At, Voting, RequestInv, Calls
  <2>2. Others(r) /\ pc'[r] = "idle" /\ UNCHANGED polls
    BY <1>2, AnswerOthers DEF CreateVote
  <2>3. Live(p) /\ votes' = votes \cup {new} /\ suspect \subseteq suspect'
    BY <1>2 DEF CreateVote, Insertable
  <2>4. \A v \in votes' \ suspect' :
           \/ v \in votes \ suspect
           \/ v.poll = p /\ v.option = call[r].option /\ r \notin raced
    BY <1>2, <2>3
  <2>5. r \notin raced => /\ Editors(p) = {}
                          /\ call[r].option \in Offered(polls[p].options)
    BY <2>1, <2>3 DEF OverlapInv, VotersUpToDate
  <2>6. \A s : Editors(s)' \subseteq Editors(s) \ {r}
    BY <2>2 DEF Editors, Others
  <2>7. OrphansNeedOverlap'
    BY <2>2, <2>4, <2>5 DEF OverlapInv, OrphansNeedOverlap
  <2>8. VotersUpToDate' /\ VotersHavePolls'
    BY <2>2, <2>6 DEF OverlapInv, VotersUpToDate, VotersHavePolls, Voting, Others, Live
  <2>9. ASSUME NEW s \in Polls, NEW e \in Editors(s)', NEW v \in (VotesOn(s) \ suspect)'
        PROVE  \/ v.option \in Offered(call'[e].options)
               \/ pc'[e] = "Clear" /\ v.option \in Offered(seen'[e])
    <3>1. e \in Editors(s) /\ e \in Requests \ {r}
      BY <2>6, <2>9 DEF Editors
    <3>2. v \in VotesOn(s) \ suspect
      BY <2>4, <2>5, <2>9, <3>1 DEF VotesOn
    <3> QED
      BY <2>2, <3>1, <3>2 DEF OverlapInv, EditorsCoverVotes, Others
  <2>10. EditorsCoverVotes'
    BY <2>9 DEF EditorsCoverVotes, Offered
  <2> QED
    BY <2>7, <2>8, <2>10 DEF OverlapInv
<1> QED
  BY <1>1, <1>2 DEF InsertVote

LEMMA OverlapVoteOnPoll ==
    ASSUME Before, NEW r \in Requests, VoteOnPoll(r)
    PROVE  OverlapInv'
<1>1. CASE LookupVote(r)
  <2>1. UNCHANGED polls /\ votes' \subseteq votes /\ suspect' = suspect \cap votes'
    BY <1>1, SameVotes DEF LookupVote, Reading, Before
  <2>2. Voting(r)
    BY <1>1 DEF LookupVote, At, Voting
  <2> QED
    BY <1>1, <2>1, <2>2, QuietAnswer, QuietGoto DEF LookupVote
<1>2. CASE ReplaceVote(r)
  BY <1>2, DeletedVotes, QuietGoto DEF ReplaceVote, At, Voting
<1> QED
  BY <1>1, <1>2, OverlapReadOptions, OverlapInsertVote DEF VoteOnPoll

LEMMA OverlapDeleteVote ==
    ASSUME Before, NEW r \in Requests, DeleteVote(r)
    PROVE  OverlapInv'
<1>1. CASE CheckPoll(r) \/ FindVote(r)
  BY <1>1, SameVotes, QuietAnswer, QuietGoto DEF CheckPoll, FindVote, Reading, Before
<1>2. CASE RemoveVote(r)
  BY <1>2, DeletedVotes, QuietAnswer DEF RemoveVote
<1> QED
  BY <1>1, <1>2 DEF DeleteVote

LEMMA OverlapFailures ==
    ASSUME Before, Crash \/ \E r \in Requests : StatementFails(r)
    PROVE  OverlapInv'
<1> USE DEF Before, TypeInv
<1>1. CASE Crash
  <2>1. /\ UNCHANGED <<polls, votes, suspect>>
        /\ \A q \in Requests : pc'[q] = "idle"
    BY <1>1 DEF Crash, Reading
  <2>2. \A p : Editors(p)' = {}
    BY <2>1 DEF Editors
  <2> QED
    BY <2>1, <2>2 DEF OverlapInv, OrphansNeedOverlap, VotersUpToDate, VotersHavePolls,
       EditorsCoverVotes, Voting
<1>2. ASSUME NEW r \in Requests, StatementFails(r)
      PROVE  OverlapInv'
  <2>1. UNCHANGED polls /\ votes' \subseteq votes /\ suspect' = suspect \cap votes'
    BY <1>2, SameVotes DEF StatementFails, Reading
  <2>2. Others(r)
    BY <1>2 DEF StatementFails, Others, RequestInv
  <2>3. \/ pc'[r] = "idle"
        \/ pc[r] = "Lookup" /\ pc'[r] = "Insert" /\ UNCHANGED <<call, raced>>
    BY <1>2 DEF StatementFails, RequestInv
  <2> QED
    BY <2>1, <2>2, <2>3, QuietStep DEF Voting
<1> QED
  BY <1>1, <1>2

LEMMA OverlapNext == Before /\ [Next]_vars => OverlapInv'
<1> SUFFICES ASSUME Before, [Next]_vars PROVE OverlapInv'
  OBVIOUS
<1>1. CASE UNCHANGED vars
  BY <1>1 DEF vars, Before, OverlapInv, OrphansNeedOverlap, VotersUpToDate, VotersHavePolls,
     EditorsCoverVotes, Voting, Editors, Live, VotesOn
<1>2. CASE Next
  BY <1>2, OverlapBegin, OverlapInsertPoll, OverlapUpdatePoll, OverlapDeletePoll,
     OverlapVoteOnPoll, OverlapDeleteVote, OverlapFailures DEF Next, Step
<1> QED
  BY <1>1, <1>2

LEMMA OverlapAlways == Spec => []OverlapInv
<1>1. Init => OverlapInv
  BY DEF Init, InitStore, OverlapInv, OrphansNeedOverlap, VotersUpToDate, VotersHavePolls,
     EditorsCoverVotes, Voting, VotesOn
<1>2. Spec => []TypeInv
  BY TypeInit, TypeNext, PTL DEF Spec
<1>3. TypeInv /\ VotesHavePolls /\ OverlapInv /\ [Next]_vars => OverlapInv'
  BY OverlapNext DEF Before
<1> QED
  BY <1>1, <1>2, <1>3, NoVoteWithoutPoll, PTL DEF Spec

(***************************************************************************)
(* A vote for an option its poll does not offer was inserted by a          *)
(* VoteOnPoll that overlapped an UpdatePoll of the poll; failed statements,*)
(* crashes and updates that overlap each other strand no other vote.       *)
(***************************************************************************)
THEOREM OrphansOnlyByOverlap == Spec => []OrphansNeedOverlap
<1>1. OverlapInv => OrphansNeedOverlap
  BY DEF OverlapInv
<1> QED
  BY <1>1, OverlapAlways, PTL
=============================================================================
